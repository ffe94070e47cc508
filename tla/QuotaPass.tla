----------------------------- MODULE QuotaPass ------------------------------
(***************************************************************************)
(* How the cleaning loop of the scan thread shares the disk among the      *)
(* three recording folders: below a low-water mark it deletes, folder by   *)
(* folder, the oldest file of every folder whose share of the recorded     *)
(* space exceeds its quota, until a high-water mark is free again.         *)
(*                                                                         *)
(* A folder is its total_space.  The disk and the index agree here: a      *)
(* removed file has left the index before the next pass, one second later  *)
(* (FolderStore models the delay).  Every read of a folder is a step of    *)
(* its own, as the loop takes folder->mutex once per folder.               *)
(*                                                                         *)
(* The program is built for 32 bits: a folder's bytes, their sum and the   *)
(* product by 100 are an off_t each, which wraps, and the free bytes are   *)
(* taken modulo 2^32 before they become kilobytes.  The product wraps at   *)
(* 21 MB of one folder, the free bytes at 4 GB, so the two widths are      *)
(* constants of their own.                                                 *)
(***************************************************************************)
EXTENDS Integers

CONSTANTS Capacity,   \* what the disk has for recordings
          DelMin,     \* free_size_del_min
          DelMax,     \* free_size_del_max
          Quota,      \* folder_attr[i].limit, a percentage for each folder
          OffMax,     \* the largest off_t
          FreeMod,    \* the free space is measured modulo this
          MaxAdds     \* bound: files recorded

Folder == 1..3  \* STORAGE_NUM

ASSUME CapacityAssumption == Capacity \in Nat /\ MaxAdds \in Nat
ASSUME MarksAssumption == DelMin \in Nat /\ DelMax \in Nat /\ DelMin < DelMax

\* The shares are rounded down, so three quotas need three percent of slack.
ASSUME QuotaAssumption ==
  /\ Quota \in [Folder -> Nat]
  /\ Quota[1] + Quota[2] + Quota[3] <= 97

ASSUME WidthAssumption == OffMax \in Nat /\ FreeMod \in Nat \ {0}

VARIABLES
  space,      \* total_space of each folder
  adds,       \* files recorded so far
  auto,       \* devAttr.auto_delete
  measured,   \* dev_sta.free_size
  pc,         \* "sleep", "sum", "clean" or "end" of a pass
  i,          \* the loop's folder
  passTotal,  \* total_space, the local variable
  seen,       \* history: what the sum saw in each folder
  removed,    \* history: files removed in this pass
  outside,    \* history: somebody else deleted files during this pass
  lowSeen,    \* history: the low mark was reached since the high mark was measured
  misread,    \* history: since then a wrapped measurement showed a full disk
  misjudged   \* history: in this pass an overflow let a folder off

passVars == <<auto, measured, pc, i, passTotal, seen, removed, misread, misjudged>>
quotaVars == <<space, adds, passVars, outside, lowSeen>>

Recorded == space[1] + space[2] + space[3]
Free == Capacity - Recorded
Seen == seen[1] + seen[2] + seen[3]

\* An int as an off_t, which wraps around, and the C division of two off_t.
Fits(n) == n \in 0..OffMax
OffT(n) == ((n + OffMax + 1) % (2 * (OffMax + 1))) - (OffMax + 1)
Abs(n) == IF n < 0 THEN -n ELSE n
Quotient(a, b) ==
  OffT(IF (a < 0) = (b < 0) THEN Abs(a) \div Abs(b) ELSE -(Abs(a) \div Abs(b)))

PassTypeOK ==
  /\ space \in [Folder -> Nat]
  /\ adds \in 0..MaxAdds
  /\ auto \in {0, 1}
  /\ measured \in Nat
  /\ pc \in {"sleep", "sum", "clean", "end"}
  /\ i \in 1..4
  /\ passTotal \in Int
  /\ seen \in [Folder -> Nat]
  /\ removed \in Nat
  /\ outside \in {0, 1}
  /\ lowSeen \in {0, 1}
  /\ misread \in {0, 1} /\ misjudged \in {0, 1}
  /\ Recorded <= Capacity

PassInit ==
  /\ space \in [Folder -> 0..Capacity]
  /\ Recorded <= Capacity
  /\ adds = 0
  /\ auto = 1
  /\ measured = Free % FreeMod
  /\ pc = "sleep"
  /\ i = 1
  /\ passTotal = 0
  /\ seen = [f \in Folder |-> 0]
  /\ removed = 0
  /\ outside = 0
  /\ lowSeen = 1
  /\ misread = 0 /\ misjudged = 0
-----------------------------------------------------------------------------
(* The recorder and the users.                                             *)

Recording ==
  /\ adds < MaxAdds
  /\ adds' = adds + 1
  /\ \E f \in Folder, s \in 1..Free : space' = [space EXCEPT ![f] = @ + s]
  /\ lowSeen' = IF Capacity - Recorded' <= DelMin THEN 1 ELSE lowSeen
  /\ UNCHANGED <<passVars, outside>>

DeleteOutside ==
  /\ \E f \in Folder : \E s \in 1..space[f] : space' = [space EXCEPT ![f] = @ - s]
  /\ outside' = 1
  /\ UNCHANGED <<adds, passVars, lowSeen>>
-----------------------------------------------------------------------------
(* A pass of the loop.                                                     *)

\* Slip: deletion stops as soon as the low mark is left.
AutoDeleteLowOnly(free) == IF free <= DelMin THEN 1 ELSE 0

AutoDelete(free) ==
  IF free >= DelMax THEN 0 ELSE IF free <= DelMin THEN 1 ELSE auto

Measure ==
  /\ pc = "sleep"
  /\ measured' = Free % FreeMod
  /\ auto' = AutoDelete(measured')
  /\ lowSeen' = IF measured' >= DelMax THEN 0 ELSE lowSeen
  /\ misread' = IF measured' >= DelMax THEN 0
                ELSE IF measured' <= DelMin /\ Free > DelMin THEN 1 ELSE misread
  /\ pc' = IF auto' = 1 THEN "sum" ELSE "sleep"
  /\ i' = 1 /\ passTotal' = 0 /\ removed' = 0 /\ outside' = 0 /\ misjudged' = 0
  /\ seen' = [f \in Folder |-> 0]
  /\ UNCHANGED <<space, adds>>

AddUp ==
  /\ pc = "sum"
  /\ i <= 3
  /\ passTotal' = OffT(passTotal + space[i])
  /\ seen' = [seen EXCEPT ![i] = space[i]]
  /\ i' = i + 1
  /\ UNCHANGED <<space, adds, auto, measured, pc, removed, outside, lowSeen, misread,
                 misjudged>>

SumDone ==
  /\ pc = "sum"
  /\ i = 4
  /\ pc' = IF passTotal # 0 THEN "clean" ELSE "sleep"
  /\ misjudged' = IF passTotal = 0 /\ Seen # 0 THEN 1 ELSE misjudged
  /\ i' = 1
  /\ UNCHANGED <<space, adds, auto, measured, passTotal, seen, removed, outside, lowSeen,
                 misread>>

\* The share of a folder, of the sum the pass made.
Share == [f \in Folder |-> Quotient(OffT(space[f] * 100), passTotal)]

\* Slip: a folder may exceed its quota by ten percent.
OverQuotaSlack(f) == Share[f] > Quota[f] + 10

OverQuota(f) == Share[f] > Quota[f]

\* What the test is meant to say, and whether an overflow may say otherwise.
IsOver(f) == (space[f] * 100) \div Seen > Quota[f]
Overflows(f) == ~Fits(space[f] * 100) \/ ~Fits(Seen)

\* The oldest file of the folder goes, whatever its size.
CleanFolder ==
  /\ pc = "clean"
  /\ i <= 3
  /\ IF OverQuota(i) /\ space[i] > 0
     THEN /\ \E s \in 1..space[i] : space' = [space EXCEPT ![i] = @ - s]
          /\ removed' = removed + 1 /\ misjudged' = misjudged
     ELSE /\ misjudged' = IF IsOver(i) /\ Overflows(i) THEN 1 ELSE misjudged
          /\ UNCHANGED <<space, removed>>
  /\ i' = i + 1
  /\ UNCHANGED <<adds, auto, measured, pc, passTotal, seen, outside, lowSeen, misread>>

CleanDone ==
  /\ pc = "clean"
  /\ i = 4
  /\ pc' = "end"
  /\ UNCHANGED <<space, adds, auto, measured, i, passTotal, seen, removed, outside, lowSeen,
                 misread, misjudged>>

Sleep ==
  /\ pc = "end"
  /\ pc' = "sleep"
  /\ UNCHANGED <<space, adds, auto, measured, i, passTotal, seen, removed, outside, lowSeen,
                 misread, misjudged>>

Loop == Measure \/ AddUp \/ SumDone \/ CleanFolder \/ CleanDone \/ Sleep

PassNext == Loop \/ Recording \/ DeleteOutside

PassSpec == PassInit /\ [][PassNext]_quotaVars

\* The loop sleeps one second at a time and goes on.
FairPass == PassSpec /\ WF_quotaVars(Loop)
-----------------------------------------------------------------------------
\* A pass has a reason and an effect.  It goes on only on a disk measured below
\* the high mark that had filled up to the low mark (or was just mounted, or
\* seemed to be full as the measurement wrapped) since it last had that much
\* room; and if it found recordings and nobody else deleted any meanwhile it
\* has removed a file, unless an overflow let off a folder that was over its
\* quota: rounding the shares down cannot let every folder off.
PassJustified ==
  /\ pc # "sleep" => measured < DelMax /\ (lowSeen = 1 \/ misread = 1)
  /\ pc = "end" => removed > 0 \/ outside = 1 \/ misjudged = 1

\* Once deletion is on, it goes on until the high mark is free or nothing is
\* left, whatever is recorded and deleted meanwhile, unless an overflow lets a
\* folder off.
MarkReached == pc = "sum" ~> (Free >= DelMax \/ Recorded = 0 \/ misjudged = 1)
=============================================================================
