----------------------------- MODULE MountProofs ----------------------------
(***************************************************************************)
(* Proofs about the memory card's threads, for any number of cards.        *)
(*                                                                         *)
(* The argument: announcements alternate, and so do the messages           *)
(* (Messages); a scan thread is created for an "add", and the message      *)
(* before it was a "remove", which joined its predecessor, unless udev     *)
(* spoke before the listener listened (Booted).  While no second thread    *)
(* was created beside a running one, the one there is has its handle in    *)
(* file_scan_tid and owns the folders from its check to its end            *)
(* (OneOwner).                                                             *)
(***************************************************************************)
EXTENDS MountProps, FiniteSetTheorems, TLAPS

\* The type invariant, in three parts.
HistoryTyped ==
  bootRace \in BOOLEAN /\ doubled \in BOOLEAN /\ lostStop \in BOOLEAN /\ gaveUp \in BOOLEAN
FlagsTyped == listening \in BOOLEAN /\ quit \in BOOLEAN /\ known \in BOOLEAN
DataTyped ==
  /\ card \in {"out", "in", "mounted", "detached"}
  /\ announce \in {"none", "add", "remove"}
  /\ cards \in 0..MaxCards
  /\ msgs \in Seq({"add", "remove"})
  /\ mainPc \in {"init", "listen", "up", "stop", "join_rec", "unmount",
                 "join_scan", "freed", "failed", "dead"}
  /\ recPc \in {"none", "loop", "get", "create", "join", "umount", "done", "dead"}
  /\ mount \in {"UNMOUNTED", "NOT_FORMATTED", "SCANNING", "MOUNTED"}
  /\ tid \in Scans \cup {NoScan}
  /\ folder \in Scans \cup {NoScan}
  /\ scan \in [Scans -> ScanPc]
  /\ mon \in [Scans -> {"none", "start", "loop", "done", "dead"}]
  /\ unmounted \subseteq Scans

\* The type invariant is its three parts.
LEMMA TypeParts == TypeOK <=> HistoryTyped /\ FlagsTyped /\ DataTyped
BY DEF TypeOK, HistoryTyped, FlagsTyped, DataTyped

\* The variables have their types when the manager starts.
LEMMA InitTyped == Init => TypeOK
<1> SUFFICES ASSUME Init PROVE HistoryTyped /\ FlagsTyped /\ DataTyped
  BY TypeParts
<1>1. HistoryTyped /\ FlagsTyped
  BY DEF Init, HistoryTyped, FlagsTyped
<1>2. DataTyped
  BY BoundsAssumption DEF Init, DataTyped, NoScan, ScanPc
<1> QED BY <1>1, <1>2

\* The numbers of the scan threads.
LEMMA FirstScan == 1 \in Scans /\ NoScan \notin Scans
BY BoundsAssumption DEF Scans, NoScan

\* A step keeps the types of the data, ...
LEMMA NextData == ASSUME DataTyped, [Next]_vars PROVE DataTyped'
<1> USE BoundsAssumption, FirstScan DEF DataTyped, vars, cardVars, mainVars, shared,
       history, scanVars
<1>1. CASE InsertCard
  BY <1>1 DEF InsertCard, NoScan, ScanPc, Watchers
<1>2. CASE Automount
  BY <1>2 DEF Automount, NoScan, ScanPc, Watchers
<1>3. CASE PullCard
  BY <1>3 DEF PullCard, NoScan, ScanPc, Watchers
<1>4. CASE Announce
  BY <1>4 DEF Announce, NoScan, ScanPc, Watchers
<1>5. CASE AutoDeleteInit
  BY <1>5 DEF AutoDeleteInit, CreateScan, NoScan, ScanPc, Watchers
<1>6. CASE Listen
  BY <1>6 DEF Listen, NoScan, ScanPc, Watchers
<1>7. CASE ListenFails
  BY <1>7 DEF ListenFails, NoScan, ScanPc, Watchers
<1>8. CASE Deinit
  BY <1>8 DEF Deinit, NoScan, ScanPc, Watchers
<1>9. CASE TellQuit
  BY <1>9 DEF TellQuit, NoScan, ScanPc, Watchers
<1>10. CASE JoinRec
  BY <1>10 DEF JoinRec, NoScan, ScanPc, Watchers
<1>11. CASE SetUnmounted
  BY <1>11 DEF SetUnmounted, NoScan, ScanPc, Watchers
<1>12. CASE JoinScan
  BY <1>12 DEF JoinScan, NoScan, ScanPc, Watchers
<1>13. CASE RecLoop
  BY <1>13 DEF RecLoop, NoScan, ScanPc, Watchers
<1>14. CASE GetNothing
  BY <1>14 DEF GetNothing, NoScan, ScanPc, Watchers
<1>15. CASE DevAdd
  BY <1>15 DEF DevAdd, TakeMsg, NoScan, ScanPc, Watchers
<1>16. CASE DevAddCreate
  BY <1>16 DEF DevAddCreate, CreateScan, NoScan, ScanPc, Watchers
<1>17. CASE DevRemove
  BY <1>17 DEF DevRemove, TakeMsg, NoScan, ScanPc, Watchers
<1>18. CASE DevRemoveJoin
  BY <1>18 DEF DevRemoveJoin, NoScan, ScanPc, Watchers
<1>19. CASE DevRemoveUmount
  BY <1>19 DEF DevRemoveUmount, NoScan, ScanPc, Watchers
<1>20. ASSUME NEW k \in Scans, ScanCheck(k) PROVE DataTyped'
  BY <1>20 DEF ScanCheck, Goto, NoScan, ScanPc, Watchers
<1>21. ASSUME NEW k \in Scans, ScanRepair(k) PROVE DataTyped'
  BY <1>21 DEF ScanRepair, Crash, Goto, NoScan, ScanPc, Watchers
<1>22. ASSUME NEW k \in Scans, ScanRecheck(k) PROVE DataTyped'
  BY <1>22 DEF ScanRecheck, Goto, NoScan, ScanPc, Watchers
<1>23. ASSUME NEW k \in Scans, ScanSet(k) PROVE DataTyped'
  BY <1>23 DEF ScanSet, Goto, NoScan, ScanPc, Watchers
<1>24. ASSUME NEW k \in Scans, ScanSize(k) PROVE DataTyped'
  BY <1>24 DEF ScanSize, Goto, NoScan, ScanPc, Watchers
<1>25. ASSUME NEW k \in Scans, ScanWatch(k) PROVE DataTyped'
  BY <1>25 DEF ScanWatch, Goto, NoScan, ScanPc, Watchers
<1>26. ASSUME NEW k \in Scans, ScanLoop(k) PROVE DataTyped'
  BY <1>26 DEF ScanLoop, Goto, NoScan, ScanPc, Watchers
<1>27. ASSUME NEW k \in Scans, ScanLoopFails(k) PROVE DataTyped'
  BY <1>27 DEF ScanLoopFails, Goto, NoScan, ScanPc, Watchers
<1>28. ASSUME NEW k \in Scans, ScanJoin(k) PROVE DataTyped'
  BY <1>28 DEF ScanJoin, Goto, NoScan, ScanPc, Watchers
<1>29. ASSUME NEW k \in Scans, ScanFree(k) PROVE DataTyped'
  BY <1>29 DEF ScanFree, Goto, NoScan, ScanPc, Watchers
<1>30. ASSUME NEW k \in Scans, MonitorStart(k) PROVE DataTyped'
  BY <1>30 DEF MonitorStart, NoScan, ScanPc, Watchers
<1>31. ASSUME NEW k \in Scans, MonitorFails(k) PROVE DataTyped'
  BY <1>31 DEF MonitorFails, NoScan, ScanPc, Watchers
<1>32. ASSUME NEW k \in Scans, MonitorEnd(k) PROVE DataTyped'
  BY <1>32 DEF MonitorEnd, NoScan, ScanPc, Watchers
<1>33. ASSUME NEW k \in Scans, MonitorUnmount(k) PROVE DataTyped'
  BY <1>33 DEF MonitorUnmount, NoScan, ScanPc, Watchers
<1>34. CASE UNCHANGED vars
  BY <1>34 DEF NoScan, ScanPc, Watchers
<1> QED BY <1>1, <1>2, <1>3, <1>4, <1>5, <1>6, <1>7, <1>8, <1>9, <1>10, <1>11, <1>12, <1>13,
       <1>14, <1>15, <1>16, <1>17, <1>18, <1>19, <1>20, <1>21, <1>22, <1>23, <1>24, <1>25, <1>26,
       <1>27, <1>28, <1>29, <1>30, <1>31, <1>32, <1>33, <1>34 DEF Next, Udev, Startup, Stop,
       Message, ScanStep, MonStep

\* ... of the flags ...
LEMMA NextFlags == ASSUME FlagsTyped, [Next]_vars PROVE FlagsTyped'
<1> USE DEF FlagsTyped, mainVars, shared, vars
<1>1. CASE InsertCard
  BY <1>1 DEF InsertCard
<1>2. CASE Automount
  BY <1>2 DEF Automount
<1>3. CASE PullCard
  BY <1>3 DEF PullCard
<1>4. CASE Announce
  BY <1>4 DEF Announce
<1>5. CASE AutoDeleteInit
  BY <1>5 DEF AutoDeleteInit, CreateScan
<1>6. CASE Listen
  BY <1>6 DEF Listen
<1>7. CASE ListenFails
  BY <1>7 DEF ListenFails
<1>8. CASE Deinit
  BY <1>8 DEF Deinit
<1>9. CASE TellQuit
  BY <1>9 DEF TellQuit
<1>10. CASE JoinRec
  BY <1>10 DEF JoinRec
<1>11. CASE SetUnmounted
  BY <1>11 DEF SetUnmounted
<1>12. CASE JoinScan
  BY <1>12 DEF JoinScan
<1>13. CASE RecLoop
  BY <1>13 DEF RecLoop
<1>14. CASE GetNothing
  BY <1>14 DEF GetNothing
<1>15. CASE DevAdd
  BY <1>15 DEF DevAdd, TakeMsg
<1>16. CASE DevAddCreate
  BY <1>16 DEF DevAddCreate, CreateScan
<1>17. CASE DevRemove
  BY <1>17 DEF DevRemove, TakeMsg
<1>18. CASE DevRemoveJoin
  BY <1>18 DEF DevRemoveJoin
<1>19. CASE DevRemoveUmount
  BY <1>19 DEF DevRemoveUmount
<1>20. ASSUME NEW k \in Scans, ScanCheck(k) PROVE FlagsTyped'
  BY <1>20 DEF ScanCheck, Goto
<1>21. ASSUME NEW k \in Scans, ScanRepair(k) PROVE FlagsTyped'
  BY <1>21 DEF ScanRepair, Crash, Goto
<1>22. ASSUME NEW k \in Scans, ScanRecheck(k) PROVE FlagsTyped'
  BY <1>22 DEF ScanRecheck, Goto
<1>23. ASSUME NEW k \in Scans, ScanSet(k) PROVE FlagsTyped'
  BY <1>23 DEF ScanSet, Goto
<1>24. ASSUME NEW k \in Scans, ScanSize(k) PROVE FlagsTyped'
  BY <1>24 DEF ScanSize, Goto
<1>25. ASSUME NEW k \in Scans, ScanWatch(k) PROVE FlagsTyped'
  BY <1>25 DEF ScanWatch, Goto
<1>26. ASSUME NEW k \in Scans, ScanLoop(k) PROVE FlagsTyped'
  BY <1>26 DEF ScanLoop, Goto
<1>27. ASSUME NEW k \in Scans, ScanLoopFails(k) PROVE FlagsTyped'
  BY <1>27 DEF ScanLoopFails, Goto
<1>28. ASSUME NEW k \in Scans, ScanJoin(k) PROVE FlagsTyped'
  BY <1>28 DEF ScanJoin, Goto
<1>29. ASSUME NEW k \in Scans, ScanFree(k) PROVE FlagsTyped'
  BY <1>29 DEF ScanFree, Goto
<1>30. ASSUME NEW k \in Scans, MonitorStart(k) PROVE FlagsTyped'
  BY <1>30 DEF MonitorStart
<1>31. ASSUME NEW k \in Scans, MonitorFails(k) PROVE FlagsTyped'
  BY <1>31 DEF MonitorFails
<1>32. ASSUME NEW k \in Scans, MonitorEnd(k) PROVE FlagsTyped'
  BY <1>32 DEF MonitorEnd
<1>33. ASSUME NEW k \in Scans, MonitorUnmount(k) PROVE FlagsTyped'
  BY <1>33 DEF MonitorUnmount
<1>34. CASE UNCHANGED vars
  BY <1>34
<1> QED BY <1>1, <1>2, <1>3, <1>4, <1>5, <1>6, <1>7, <1>8, <1>9, <1>10, <1>11, <1>12, <1>13,
       <1>14, <1>15, <1>16, <1>17, <1>18, <1>19, <1>20, <1>21, <1>22, <1>23, <1>24, <1>25, <1>26,
       <1>27, <1>28, <1>29, <1>30, <1>31, <1>32, <1>33, <1>34 DEF Next, Udev, Startup, Stop,
       Message, ScanStep, MonStep

\* ... and of the history.
LEMMA NextHistory == ASSUME HistoryTyped, [Next]_vars PROVE HistoryTyped'
<1> USE DEF HistoryTyped, history, vars
<1>1. CASE InsertCard
  BY <1>1 DEF InsertCard
<1>2. CASE Automount
  BY <1>2 DEF Automount
<1>3. CASE PullCard
  BY <1>3 DEF PullCard
<1>4. CASE Announce
  BY <1>4 DEF Announce
<1>5. CASE AutoDeleteInit
  BY <1>5 DEF AutoDeleteInit, CreateScan
<1>6. CASE Listen
  BY <1>6 DEF Listen
<1>7. CASE ListenFails
  BY <1>7 DEF ListenFails
<1>8. CASE Deinit
  BY <1>8 DEF Deinit
<1>9. CASE TellQuit
  BY <1>9 DEF TellQuit
<1>10. CASE JoinRec
  BY <1>10 DEF JoinRec
<1>11. CASE SetUnmounted
  BY <1>11 DEF SetUnmounted
<1>12. CASE JoinScan
  BY <1>12 DEF JoinScan
<1>13. CASE RecLoop
  BY <1>13 DEF RecLoop
<1>14. CASE GetNothing
  BY <1>14 DEF GetNothing
<1>15. CASE DevAdd
  BY <1>15 DEF DevAdd, TakeMsg
<1>16. CASE DevAddCreate
  BY <1>16 DEF DevAddCreate, CreateScan
<1>17. CASE DevRemove
  BY <1>17 DEF DevRemove, TakeMsg
<1>18. CASE DevRemoveJoin
  BY <1>18 DEF DevRemoveJoin
<1>19. CASE DevRemoveUmount
  BY <1>19 DEF DevRemoveUmount
<1>20. ASSUME NEW k \in Scans, ScanCheck(k) PROVE HistoryTyped'
  BY <1>20 DEF ScanCheck, Goto
<1>21. ASSUME NEW k \in Scans, ScanRepair(k) PROVE HistoryTyped'
  BY <1>21 DEF ScanRepair, Crash, Goto
<1>22. ASSUME NEW k \in Scans, ScanRecheck(k) PROVE HistoryTyped'
  BY <1>22 DEF ScanRecheck, Goto
<1>23. ASSUME NEW k \in Scans, ScanSet(k) PROVE HistoryTyped'
  BY <1>23 DEF ScanSet, Goto
<1>24. ASSUME NEW k \in Scans, ScanSize(k) PROVE HistoryTyped'
  BY <1>24 DEF ScanSize, Goto
<1>25. ASSUME NEW k \in Scans, ScanWatch(k) PROVE HistoryTyped'
  BY <1>25 DEF ScanWatch, Goto
<1>26. ASSUME NEW k \in Scans, ScanLoop(k) PROVE HistoryTyped'
  BY <1>26 DEF ScanLoop, Goto
<1>27. ASSUME NEW k \in Scans, ScanLoopFails(k) PROVE HistoryTyped'
  BY <1>27 DEF ScanLoopFails, Goto
<1>28. ASSUME NEW k \in Scans, ScanJoin(k) PROVE HistoryTyped'
  BY <1>28 DEF ScanJoin, Goto
<1>29. ASSUME NEW k \in Scans, ScanFree(k) PROVE HistoryTyped'
  BY <1>29 DEF ScanFree, Goto
<1>30. ASSUME NEW k \in Scans, MonitorStart(k) PROVE HistoryTyped'
  BY <1>30 DEF MonitorStart
<1>31. ASSUME NEW k \in Scans, MonitorFails(k) PROVE HistoryTyped'
  BY <1>31 DEF MonitorFails
<1>32. ASSUME NEW k \in Scans, MonitorEnd(k) PROVE HistoryTyped'
  BY <1>32 DEF MonitorEnd
<1>33. ASSUME NEW k \in Scans, MonitorUnmount(k) PROVE HistoryTyped'
  BY <1>33 DEF MonitorUnmount
<1>34. CASE UNCHANGED vars
  BY <1>34
<1> QED BY <1>1, <1>2, <1>3, <1>4, <1>5, <1>6, <1>7, <1>8, <1>9, <1>10, <1>11, <1>12, <1>13,
       <1>14, <1>15, <1>16, <1>17, <1>18, <1>19, <1>20, <1>21, <1>22, <1>23, <1>24, <1>25, <1>26,
       <1>27, <1>28, <1>29, <1>30, <1>31, <1>32, <1>33, <1>34 DEF Next, Udev, Startup, Stop,
       Message, ScanStep, MonStep

\* A step keeps the types.
LEMMA NextTyped == ASSUME TypeOK, [Next]_vars PROVE TypeOK'
<1>1. HistoryTyped' /\ FlagsTyped' /\ DataTyped'
  BY NextData, NextFlags, NextHistory, TypeParts
<1> QED BY <1>1 DEF TypeOK, HistoryTyped, FlagsTyped, DataTyped

\* The variables keep their types.
THEOREM CardTypes == Spec => []TypeOK
<1> QED BY InitTyped, NextTyped, PTL DEF Spec

-----------------------------------------------------------------------------
(* The order of the messages, and the phases.                              *)

\* What udev's listeners have been told of the slot.
Told == IF announce = "none" THEN card # "out" ELSE announce = "remove"
Open == listening /\ mainPc = "up"

\* The next message the message thread gets can only be m.
NextIs(m) ==
  /\ msgs # << >> => msgs[1] = m
  /\ msgs = << >> /\ Open => (Told <=> m = "remove")

\* No two neighbours are equal.
Alternates(s) == \A i \in 1..(Len(s) - 1) : s[i] # s[i + 1]

\* Announcements alternate.
Messages ==
  /\ announce = "add" => card # "out"
  /\ announce = "remove" => card = "out"
  /\ Alternates(msgs)
  /\ msgs # << >> /\ Open => (msgs[Len(msgs)] = "add" <=> Told)
  /\ recPc = "create" => NextIs("remove")
  /\ recPc \in {"join", "umount"} => NextIs("add")

\* What has begun and what has ended where main is.
Idle == \A k \in Scans : scan[k] \in Ended
Phases ==
  /\ mainPc \in {"init", "listen"} => recPc = "none" /\ msgs = << >> /\ ~listening
  /\ mainPc = "init" => \A k \in Scans : scan[k] = "none" /\ mon[k] = "none"
  /\ mainPc \in {"unmount", "join_scan", "freed"} => recPc = "done"
  /\ mainPc = "failed" => msgs = << >> /\ ~listening
  /\ mainPc = "dead" => recPc = "dead" /\ \A k \in Scans : scan[k] = "dead" /\ mon[k] = "dead"
  /\ (Idle /\ recPc # "create") \/ known

\* No scan thread is live: all have ended or were never created.
LEMMA LiveMeans == Live = {} <=> Idle
BY DEF Live, Idle

\* Nothing has been announced when the manager starts.
LEMMA InitMessages == Init => Messages /\ Phases
BY DEF Init, Messages, Phases, Alternates, NextIs, Open, Idle, Ended

\* What is left of alternating messages when the first is taken ...
LEMMA TailAlternates ==
  ASSUME NEW s \in Seq({"add", "remove"}), s # << >>, Alternates(s)
  PROVE  /\ Alternates(Tail(s))
         /\ Tail(s) # << >> => /\ Tail(s)[1] # s[1] /\ Tail(s)[1] \in {"add", "remove"}
                               /\ Tail(s)[Len(Tail(s))] = s[Len(s)]
         /\ Tail(s) = << >> => s[Len(s)] = s[1]
<1>1. /\ Len(s) \in Nat \ {0} /\ Len(Tail(s)) = Len(s) - 1
      /\ \A i \in 1..Len(Tail(s)) : Tail(s)[i] = s[i + 1]
      /\ \A i \in 1..Len(s) : s[i] \in {"add", "remove"}
  OBVIOUS
<1>2. Alternates(Tail(s))
  BY <1>1 DEF Alternates
<1>3. CASE Tail(s) = << >>
  <2>1. Len(<< >>) = 0
    OBVIOUS
  <2> QED BY <1>1, <1>2, <1>3, <2>1
<1>4. CASE Tail(s) # << >>
  <2>1. Len(Tail(s)) > 0
    BY <1>1, <1>4
  <2>2. Tail(s)[1] = s[2] /\ s[1] # s[2] /\ s[2] \in {"add", "remove"}
    BY <1>1, <2>1 DEF Alternates
  <2>3. Tail(s)[Len(Tail(s))] = s[Len(s)]
    BY <1>1, <2>1
  <2> QED BY <1>2, <1>4, <2>2, <2>3
<1> QED BY <1>3, <1>4

\* ... and what there is when another one comes.
LEMMA AppendAlternates ==
  ASSUME NEW s \in Seq({"add", "remove"}), NEW m \in {"add", "remove"}, Alternates(s),
         s # << >> => s[Len(s)] # m
  PROVE  /\ Alternates(Append(s, m)) /\ Append(s, m) # << >>
         /\ Append(s, m)[Len(Append(s, m))] = m
         /\ Append(s, m)[1] = IF s = << >> THEN m ELSE s[1]
<1>1. /\ Len(s) \in Nat /\ Len(Append(s, m)) = Len(s) + 1
      /\ Append(s, m)[Len(s) + 1] = m
      /\ \A i \in 1..Len(s) : Append(s, m)[i] = s[i]
  OBVIOUS
<1>2. (s = << >> <=> Len(s) = 0) /\ Len(<< >>) = 0
  OBVIOUS
<1>3. Alternates(Append(s, m))
  <2> SUFFICES ASSUME NEW i \in 1..Len(s) PROVE Append(s, m)[i] # Append(s, m)[i + 1]
    BY <1>1 DEF Alternates
  <2>1. CASE i = Len(s)
    BY <1>1, <1>2, <2>1
  <2>2. CASE i \in 1..(Len(s) - 1)
    BY <1>1, <2>2 DEF Alternates
  <2> QED BY <1>1, <2>1, <2>2
<1>4. Append(s, m) # << >>
  <2>1. Len(Append(s, m)) # 0
    BY <1>1
  <2>2. Append(s, m) = << >> => Len(Append(s, m)) = 0
    BY <1>2
  <2> QED BY <2>1, <2>2
<1> QED BY <1>1, <1>2, <1>3, <1>4

\* A step keeps the order of the messages.
LEMMA NextMessages ==
  ASSUME TypeOK, Messages, Phases, [Next]_vars
  PROVE  Messages'
<1> USE DEF Messages, Phases, NextIs, Told, Open, vars, cardVars, mainVars, shared, history,
       scanVars
<1> msgs \in Seq({"add", "remove"}) /\ announce \in {"none", "add", "remove"}
  BY DEF TypeOK
<1>1. CASE InsertCard
  BY <1>1 DEF InsertCard
<1>2. CASE Automount
  BY <1>2 DEF Automount
<1>3. CASE PullCard
  BY <1>3 DEF PullCard
<1>4. CASE Announce
  <2>1. CASE ~(listening /\ mainPc = "up")
    BY <1>4, <2>1 DEF Announce
  <2>2. CASE Open
    <3>1. /\ msgs' = Append(msgs, announce) /\ announce \in {"add", "remove"}
          /\ announce' = "none" /\ UNCHANGED <<card, mainPc, listening, recPc>>
      BY <1>4, <2>2 DEF Announce
    <3>2. msgs # << >> => msgs[Len(msgs)] # announce
      BY <2>2, <3>1
    <3>3. /\ Alternates(msgs') /\ msgs' # << >> /\ msgs'[Len(msgs')] = announce
          /\ msgs'[1] = IF msgs = << >> THEN announce ELSE msgs[1]
      BY <3>1, <3>2, AppendAlternates
    <3> QED BY <2>2, <3>1, <3>3
  <2> QED BY <2>1, <2>2
<1>5. CASE AutoDeleteInit
  BY <1>5 DEF AutoDeleteInit, CreateScan
<1>6. CASE Listen
  BY <1>6 DEF Listen
<1>7. CASE ListenFails
  BY <1>7 DEF ListenFails
<1>8. CASE Deinit
  BY <1>8 DEF Deinit
<1>9. CASE TellQuit
  BY <1>9 DEF TellQuit
<1>10. CASE JoinRec
  BY <1>10 DEF JoinRec
<1>11. CASE SetUnmounted
  BY <1>11 DEF SetUnmounted
<1>12. CASE JoinScan
  BY <1>12 DEF JoinScan
<1>13. CASE RecLoop
  BY <1>13 DEF RecLoop
<1>14. CASE GetNothing
  BY <1>14 DEF GetNothing
<1>15. CASE DevAdd
  <2>1. /\ msgs # << >> /\ msgs[1] = "add" /\ msgs' = Tail(msgs)
        /\ UNCHANGED <<card, announce, mainPc, listening>>
        /\ recPc' \in {"loop", "create"}
    BY <1>15 DEF DevAdd, TakeMsg
  <2> QED BY <2>1, TailAlternates
<1>16. CASE DevAddCreate
  BY <1>16 DEF DevAddCreate, CreateScan
<1>17. CASE DevRemove
  <2>1. /\ msgs # << >> /\ msgs[1] = "remove" /\ msgs' = Tail(msgs)
        /\ UNCHANGED <<card, announce, mainPc, listening>>
        /\ recPc' \in {"loop", "join"}
    BY <1>17 DEF DevRemove, TakeMsg
  <2> QED BY <2>1, TailAlternates
<1>18. CASE DevRemoveJoin
  BY <1>18 DEF DevRemoveJoin
<1>19. CASE DevRemoveUmount
  BY <1>19 DEF DevRemoveUmount
<1>20. ASSUME NEW k \in Scans, ScanCheck(k) PROVE Messages'
  BY <1>20 DEF ScanCheck, Goto
<1>21. ASSUME NEW k \in Scans, ScanRepair(k) PROVE Messages'
  BY <1>21 DEF ScanRepair, Crash, Goto
<1>22. ASSUME NEW k \in Scans, ScanRecheck(k) PROVE Messages'
  BY <1>22 DEF ScanRecheck, Goto
<1>23. ASSUME NEW k \in Scans, ScanSet(k) PROVE Messages'
  BY <1>23 DEF ScanSet, Goto
<1>24. ASSUME NEW k \in Scans, ScanSize(k) PROVE Messages'
  BY <1>24 DEF ScanSize, Goto
<1>25. ASSUME NEW k \in Scans, ScanWatch(k) PROVE Messages'
  BY <1>25 DEF ScanWatch, Goto
<1>26. ASSUME NEW k \in Scans, ScanLoop(k) PROVE Messages'
  BY <1>26 DEF ScanLoop, Goto
<1>27. ASSUME NEW k \in Scans, ScanLoopFails(k) PROVE Messages'
  BY <1>27 DEF ScanLoopFails, Goto
<1>28. ASSUME NEW k \in Scans, ScanJoin(k) PROVE Messages'
  BY <1>28 DEF ScanJoin, Goto
<1>29. ASSUME NEW k \in Scans, ScanFree(k) PROVE Messages'
  BY <1>29 DEF ScanFree, Goto
<1>30. ASSUME NEW k \in Scans, MonitorStart(k) PROVE Messages'
  BY <1>30 DEF MonitorStart
<1>31. ASSUME NEW k \in Scans, MonitorFails(k) PROVE Messages'
  BY <1>31 DEF MonitorFails
<1>32. ASSUME NEW k \in Scans, MonitorEnd(k) PROVE Messages'
  BY <1>32 DEF MonitorEnd
<1>33. ASSUME NEW k \in Scans, MonitorUnmount(k) PROVE Messages'
  BY <1>33 DEF MonitorUnmount
<1>34. CASE UNCHANGED vars
  BY <1>34
<1> QED BY <1>1, <1>2, <1>3, <1>4, <1>5, <1>6, <1>7, <1>8, <1>9, <1>10, <1>11, <1>12, <1>13,
       <1>14, <1>15, <1>16, <1>17, <1>18, <1>19, <1>20, <1>21, <1>22, <1>23, <1>24, <1>25, <1>26,
       <1>27, <1>28, <1>29, <1>30, <1>31, <1>32, <1>33, <1>34 DEF Next, Udev, Startup, Stop,
       Message, ScanStep, MonStep

\* A step keeps the phases.
LEMMA NextPhases ==
  ASSUME TypeOK, Phases, [Next]_vars
  PROVE  Phases'
<1> USE FirstScan DEF Phases, Idle, Ended, TypeOK, vars, cardVars, mainVars, shared,
       history, scanVars
<1>1. CASE InsertCard
  BY <1>1 DEF InsertCard
<1>2. CASE Automount
  BY <1>2 DEF Automount
<1>3. CASE PullCard
  BY <1>3 DEF PullCard
<1>4. CASE Announce
  BY <1>4 DEF Announce
<1>5. CASE AutoDeleteInit
  BY <1>5 DEF AutoDeleteInit, CreateScan
<1>6. CASE Listen
  BY <1>6 DEF Listen
<1>7. CASE ListenFails
  BY <1>7 DEF ListenFails
<1>8. CASE Deinit
  BY <1>8 DEF Deinit
<1>9. CASE TellQuit
  BY <1>9 DEF TellQuit
<1>10. CASE JoinRec
  BY <1>10 DEF JoinRec
<1>11. CASE SetUnmounted
  BY <1>11 DEF SetUnmounted
<1>12. CASE JoinScan
  BY <1>12 DEF JoinScan
<1>13. CASE RecLoop
  BY <1>13 DEF RecLoop
<1>14. CASE GetNothing
  BY <1>14 DEF GetNothing
<1>15. CASE DevAdd
  BY <1>15 DEF DevAdd, TakeMsg
<1>16. CASE DevAddCreate
  BY <1>16 DEF DevAddCreate, CreateScan
<1>17. CASE DevRemove
  BY <1>17 DEF DevRemove, TakeMsg
<1>18. CASE DevRemoveJoin
  BY <1>18 DEF DevRemoveJoin
<1>19. CASE DevRemoveUmount
  BY <1>19 DEF DevRemoveUmount
<1>20. ASSUME NEW k \in Scans, ScanCheck(k) PROVE Phases'
  BY <1>20 DEF ScanCheck, Goto
<1>21. ASSUME NEW k \in Scans, ScanRepair(k) PROVE Phases'
  BY <1>21 DEF ScanRepair, Crash, Goto
<1>22. ASSUME NEW k \in Scans, ScanRecheck(k) PROVE Phases'
  BY <1>22 DEF ScanRecheck, Goto
<1>23. ASSUME NEW k \in Scans, ScanSet(k) PROVE Phases'
  BY <1>23 DEF ScanSet, Goto
<1>24. ASSUME NEW k \in Scans, ScanSize(k) PROVE Phases'
  BY <1>24 DEF ScanSize, Goto
<1>25. ASSUME NEW k \in Scans, ScanWatch(k) PROVE Phases'
  BY <1>25 DEF ScanWatch, Goto
<1>26. ASSUME NEW k \in Scans, ScanLoop(k) PROVE Phases'
  BY <1>26 DEF ScanLoop, Goto
<1>27. ASSUME NEW k \in Scans, ScanLoopFails(k) PROVE Phases'
  BY <1>27 DEF ScanLoopFails, Goto
<1>28. ASSUME NEW k \in Scans, ScanJoin(k) PROVE Phases'
  BY <1>28 DEF ScanJoin, Goto
<1>29. ASSUME NEW k \in Scans, ScanFree(k) PROVE Phases'
  BY <1>29 DEF ScanFree, Goto
<1>30. ASSUME NEW k \in Scans, MonitorStart(k) PROVE Phases'
  BY <1>30 DEF MonitorStart
<1>31. ASSUME NEW k \in Scans, MonitorFails(k) PROVE Phases'
  BY <1>31 DEF MonitorFails
<1>32. ASSUME NEW k \in Scans, MonitorEnd(k) PROVE Phases'
  BY <1>32 DEF MonitorEnd
<1>33. ASSUME NEW k \in Scans, MonitorUnmount(k) PROVE Phases'
  BY <1>33 DEF MonitorUnmount
<1>34. CASE UNCHANGED vars
  BY <1>34
<1> QED BY <1>1, <1>2, <1>3, <1>4, <1>5, <1>6, <1>7, <1>8, <1>9, <1>10, <1>11, <1>12, <1>13,
       <1>14, <1>15, <1>16, <1>17, <1>18, <1>19, <1>20, <1>21, <1>22, <1>23, <1>24, <1>25, <1>26,
       <1>27, <1>28, <1>29, <1>30, <1>31, <1>32, <1>33, <1>34 DEF Next, Udev, Startup, Stop,
       Message, ScanStep, MonStep

\* Announcing keeps what can come next.
LEMMA NextIsKept ==
  ASSUME TypeOK, Messages, Announce, NEW m \in {"add", "remove"}, NextIs(m)
  PROVE  NextIs(m)'
<1>1. msgs \in Seq({"add", "remove"}) /\ announce \in {"add", "remove"}
  BY DEF TypeOK, Announce
<1>2. CASE ~Open
  BY <1>1, <1>2 DEF Announce, NextIs, Open, mainVars
<1>3. CASE Open
  <2>1. msgs' = Append(msgs, announce)
    BY <1>3 DEF Announce, Open
  <2>2. msgs' # << >> /\ (msgs # << >> => msgs'[1] = msgs[1])
    BY <1>1, <2>1
  <2>3. msgs = << >> => msgs'[1] = announce
    BY <1>1, <2>1
  <2>4. Told <=> announce = "remove"
    BY <1>1 DEF Told
  <2> QED BY <1>1, <1>3, <2>2, <2>3, <2>4 DEF NextIs
<1> QED BY <1>2, <1>3

-----------------------------------------------------------------------------
(* One scan thread and its folders.                                        *)

\* Whoever runs has its handle in file_scan_tid, so there is one at most.
Handle == \A k \in Scans : scan[k] \notin Ended => tid = k

\* A monitor runs beside its scan thread, on the folders that one allocated.
Monitored ==
  \A k \in Scans : mon[k] \in {"start", "loop"} => scan[k] \in {"loop", "join"} /\ folder = k

\* A scan thread past its second look at the disk has folders of its own.
Owning ==
  \A k \in Scans :
    /\ scan[k] \in {"set", "size", "watch"} => folder = k
    /\ scan[k] \in {"repair", "recheck"} /\ folder # k => mount = "UNMOUNTED"

\* A disk that went before the second look does not come back before it: the
\* message thread joins first.
StaysGone ==
  \A k \in Scans : scan[k] \in {"check", "repair", "recheck"} /\ mount = "UNMOUNTED" =>
    recPc \in {"join", "done"} \/ (recPc \in {"loop", "get"} /\ NextIs("remove"))

\* What there is at the ends.
AtEnd == (mainPc = "freed" => Idle) /\ (mainPc = "dead" => mount = "UNMOUNTED")

OneOwner == ~doubled => Handle /\ Monitored /\ Owning /\ StaysGone /\ AtEnd

\* Without that race udev never makes the message thread create a second one.
Booted ==
  ~bootRace =>
    /\ ~doubled
    /\ recPc \in {"loop", "get"} /\ ~Idle => NextIs("remove")
    /\ recPc \in {"create", "umount"} => Idle
    /\ mainPc = "listen" /\ ~Idle => Told

\* Nor has a scan thread been created.
LEMMA InitOwner == Init => OneOwner /\ Booted
BY DEF Init, OneOwner, Booted, Handle, Monitored, Owning, StaysGone, AtEnd, Idle, Ended

\* What history does not forget.
Remembers == (doubled => doubled') /\ (bootRace => bootRace')

\* A second thread, once created beside a running one, is remembered, and so is
\* the race.
LEMMA Remembered ==
  ASSUME HistoryTyped, [Next]_vars
  PROVE  Remembers
<1> USE DEF Remembers, HistoryTyped, history, vars
<1>1. CASE InsertCard
  BY <1>1 DEF InsertCard
<1>2. CASE Automount
  BY <1>2 DEF Automount
<1>3. CASE PullCard
  BY <1>3 DEF PullCard
<1>4. CASE Announce
  BY <1>4 DEF Announce
<1>5. CASE AutoDeleteInit
  BY <1>5 DEF AutoDeleteInit, CreateScan
<1>6. CASE Listen
  BY <1>6 DEF Listen
<1>7. CASE ListenFails
  BY <1>7 DEF ListenFails
<1>8. CASE Deinit
  BY <1>8 DEF Deinit
<1>9. CASE TellQuit
  BY <1>9 DEF TellQuit
<1>10. CASE JoinRec
  BY <1>10 DEF JoinRec
<1>11. CASE SetUnmounted
  BY <1>11 DEF SetUnmounted
<1>12. CASE JoinScan
  BY <1>12 DEF JoinScan
<1>13. CASE RecLoop
  BY <1>13 DEF RecLoop
<1>14. CASE GetNothing
  BY <1>14 DEF GetNothing
<1>15. CASE DevAdd
  BY <1>15 DEF DevAdd, TakeMsg
<1>16. CASE DevAddCreate
  BY <1>16 DEF DevAddCreate, CreateScan
<1>17. CASE DevRemove
  BY <1>17 DEF DevRemove, TakeMsg
<1>18. CASE DevRemoveJoin
  BY <1>18 DEF DevRemoveJoin
<1>19. CASE DevRemoveUmount
  BY <1>19 DEF DevRemoveUmount
<1>20. ASSUME NEW k \in Scans, ScanCheck(k) PROVE Remembers
  BY <1>20 DEF ScanCheck, Goto
<1>21. ASSUME NEW k \in Scans, ScanRepair(k) PROVE Remembers
  BY <1>21 DEF ScanRepair, Crash, Goto
<1>22. ASSUME NEW k \in Scans, ScanRecheck(k) PROVE Remembers
  BY <1>22 DEF ScanRecheck, Goto
<1>23. ASSUME NEW k \in Scans, ScanSet(k) PROVE Remembers
  BY <1>23 DEF ScanSet, Goto
<1>24. ASSUME NEW k \in Scans, ScanSize(k) PROVE Remembers
  BY <1>24 DEF ScanSize, Goto
<1>25. ASSUME NEW k \in Scans, ScanWatch(k) PROVE Remembers
  BY <1>25 DEF ScanWatch, Goto
<1>26. ASSUME NEW k \in Scans, ScanLoop(k) PROVE Remembers
  BY <1>26 DEF ScanLoop, Goto
<1>27. ASSUME NEW k \in Scans, ScanLoopFails(k) PROVE Remembers
  BY <1>27 DEF ScanLoopFails, Goto
<1>28. ASSUME NEW k \in Scans, ScanJoin(k) PROVE Remembers
  BY <1>28 DEF ScanJoin, Goto
<1>29. ASSUME NEW k \in Scans, ScanFree(k) PROVE Remembers
  BY <1>29 DEF ScanFree, Goto
<1>30. ASSUME NEW k \in Scans, MonitorStart(k) PROVE Remembers
  BY <1>30 DEF MonitorStart
<1>31. ASSUME NEW k \in Scans, MonitorFails(k) PROVE Remembers
  BY <1>31 DEF MonitorFails
<1>32. ASSUME NEW k \in Scans, MonitorEnd(k) PROVE Remembers
  BY <1>32 DEF MonitorEnd
<1>33. ASSUME NEW k \in Scans, MonitorUnmount(k) PROVE Remembers
  BY <1>33 DEF MonitorUnmount
<1>34. CASE UNCHANGED vars
  BY <1>34
<1> QED BY <1>1, <1>2, <1>3, <1>4, <1>5, <1>6, <1>7, <1>8, <1>9, <1>10, <1>11, <1>12, <1>13,
       <1>14, <1>15, <1>16, <1>17, <1>18, <1>19, <1>20, <1>21, <1>22, <1>23, <1>24, <1>25, <1>26,
       <1>27, <1>28, <1>29, <1>30, <1>31, <1>32, <1>33, <1>34 DEF Next, Udev, Startup, Stop,
       Message, ScanStep, MonStep

\* Unless that is so a thread is created only when none runs.
LEMMA CreatedAlone ==
  ASSUME NEW k, CreateScan(k), ~doubled'
  PROVE  Idle \/ UNCHANGED <<scan, tid>>
BY LiveMeans DEF CreateScan

\* One handle for the one that runs.
LEMMA NextHandle ==
  ASSUME TypeOK, Phases, Handle, [Next]_vars, ~doubled, ~doubled'
  PROVE  Handle'
<1> USE FirstScan DEF TypeOK, Phases, Handle, Idle, Ended, vars, cardVars, mainVars, shared,
       history, scanVars
<1>1. CASE InsertCard
  BY <1>1 DEF InsertCard
<1>2. CASE Automount
  BY <1>2 DEF Automount
<1>3. CASE PullCard
  BY <1>3 DEF PullCard
<1>4. CASE Announce
  BY <1>4 DEF Announce
<1>5. CASE AutoDeleteInit
  BY <1>5 DEF AutoDeleteInit, CreateScan
<1>6. CASE Listen
  BY <1>6 DEF Listen
<1>7. CASE ListenFails
  BY <1>7 DEF ListenFails
<1>8. CASE Deinit
  BY <1>8 DEF Deinit
<1>9. CASE TellQuit
  BY <1>9 DEF TellQuit
<1>10. CASE JoinRec
  BY <1>10 DEF JoinRec
<1>11. CASE SetUnmounted
  BY <1>11 DEF SetUnmounted
<1>12. CASE JoinScan
  BY <1>12 DEF JoinScan
<1>13. CASE RecLoop
  BY <1>13 DEF RecLoop
<1>14. CASE GetNothing
  BY <1>14 DEF GetNothing
<1>15. CASE DevAdd
  BY <1>15 DEF DevAdd, TakeMsg
<1>16. CASE DevAddCreate
  BY <1>16, CreatedAlone DEF DevAddCreate, CreateScan
<1>17. CASE DevRemove
  BY <1>17 DEF DevRemove, TakeMsg
<1>18. CASE DevRemoveJoin
  BY <1>18 DEF DevRemoveJoin
<1>19. CASE DevRemoveUmount
  BY <1>19 DEF DevRemoveUmount
<1>20. ASSUME NEW k \in Scans, ScanCheck(k) PROVE Handle'
  BY <1>20 DEF ScanCheck, Goto
<1>21. ASSUME NEW k \in Scans, ScanRepair(k) PROVE Handle'
  BY <1>21 DEF ScanRepair, Crash, Goto
<1>22. ASSUME NEW k \in Scans, ScanRecheck(k) PROVE Handle'
  BY <1>22 DEF ScanRecheck, Goto
<1>23. ASSUME NEW k \in Scans, ScanSet(k) PROVE Handle'
  BY <1>23 DEF ScanSet, Goto
<1>24. ASSUME NEW k \in Scans, ScanSize(k) PROVE Handle'
  BY <1>24 DEF ScanSize, Goto
<1>25. ASSUME NEW k \in Scans, ScanWatch(k) PROVE Handle'
  BY <1>25 DEF ScanWatch, Goto
<1>26. ASSUME NEW k \in Scans, ScanLoop(k) PROVE Handle'
  BY <1>26 DEF ScanLoop, Goto
<1>27. ASSUME NEW k \in Scans, ScanLoopFails(k) PROVE Handle'
  BY <1>27 DEF ScanLoopFails, Goto
<1>28. ASSUME NEW k \in Scans, ScanJoin(k) PROVE Handle'
  BY <1>28 DEF ScanJoin, Goto
<1>29. ASSUME NEW k \in Scans, ScanFree(k) PROVE Handle'
  BY <1>29 DEF ScanFree, Goto
<1>30. ASSUME NEW k \in Scans, MonitorStart(k) PROVE Handle'
  BY <1>30 DEF MonitorStart
<1>31. ASSUME NEW k \in Scans, MonitorFails(k) PROVE Handle'
  BY <1>31 DEF MonitorFails
<1>32. ASSUME NEW k \in Scans, MonitorEnd(k) PROVE Handle'
  BY <1>32 DEF MonitorEnd
<1>33. ASSUME NEW k \in Scans, MonitorUnmount(k) PROVE Handle'
  BY <1>33 DEF MonitorUnmount
<1>34. CASE UNCHANGED vars
  BY <1>34
<1> QED BY <1>1, <1>2, <1>3, <1>4, <1>5, <1>6, <1>7, <1>8, <1>9, <1>10, <1>11, <1>12, <1>13,
       <1>14, <1>15, <1>16, <1>17, <1>18, <1>19, <1>20, <1>21, <1>22, <1>23, <1>24, <1>25, <1>26,
       <1>27, <1>28, <1>29, <1>30, <1>31, <1>32, <1>33, <1>34 DEF Next, Udev, Startup, Stop,
       Message, ScanStep, MonStep

\* Monitors and their scan threads.
LEMMA NextMonitored ==
  ASSUME TypeOK, Phases, Handle, Monitored, Owning, [Next]_vars, ~doubled, ~doubled'
  PROVE  Monitored'
<1> USE FirstScan DEF TypeOK, Phases, Handle, Monitored, Owning, Ended, vars, cardVars,
       mainVars, shared, history, scanVars
<1>1. CASE InsertCard
  BY <1>1 DEF InsertCard
<1>2. CASE Automount
  BY <1>2 DEF Automount
<1>3. CASE PullCard
  BY <1>3 DEF PullCard
<1>4. CASE Announce
  BY <1>4 DEF Announce
<1>5. CASE AutoDeleteInit
  BY <1>5 DEF AutoDeleteInit, CreateScan
<1>6. CASE Listen
  BY <1>6 DEF Listen
<1>7. CASE ListenFails
  BY <1>7 DEF ListenFails
<1>8. CASE Deinit
  BY <1>8 DEF Deinit
<1>9. CASE TellQuit
  BY <1>9 DEF TellQuit
<1>10. CASE JoinRec
  BY <1>10 DEF JoinRec
<1>11. CASE SetUnmounted
  BY <1>11 DEF SetUnmounted
<1>12. CASE JoinScan
  BY <1>12 DEF JoinScan
<1>13. CASE RecLoop
  BY <1>13 DEF RecLoop
<1>14. CASE GetNothing
  BY <1>14 DEF GetNothing
<1>15. CASE DevAdd
  BY <1>15 DEF DevAdd, TakeMsg
<1>16. CASE DevAddCreate
  BY <1>16 DEF DevAddCreate, CreateScan
<1>17. CASE DevRemove
  BY <1>17 DEF DevRemove, TakeMsg
<1>18. CASE DevRemoveJoin
  BY <1>18 DEF DevRemoveJoin
<1>19. CASE DevRemoveUmount
  BY <1>19 DEF DevRemoveUmount
<1>20. ASSUME NEW k \in Scans, ScanCheck(k) PROVE Monitored'
  BY <1>20 DEF ScanCheck, Goto
<1>21. ASSUME NEW k \in Scans, ScanRepair(k) PROVE Monitored'
  BY <1>21 DEF ScanRepair, Crash, Goto
<1>22. ASSUME NEW k \in Scans, ScanRecheck(k) PROVE Monitored'
  BY <1>22 DEF ScanRecheck, Goto
<1>23. ASSUME NEW k \in Scans, ScanSet(k) PROVE Monitored'
  BY <1>23 DEF ScanSet, Goto
<1>24. ASSUME NEW k \in Scans, ScanSize(k) PROVE Monitored'
  BY <1>24 DEF ScanSize, Goto
<1>25. ASSUME NEW k \in Scans, ScanWatch(k) PROVE Monitored'
  BY <1>25 DEF ScanWatch, Goto
<1>26. ASSUME NEW k \in Scans, ScanLoop(k) PROVE Monitored'
  BY <1>26 DEF ScanLoop, Goto
<1>27. ASSUME NEW k \in Scans, ScanLoopFails(k) PROVE Monitored'
  BY <1>27 DEF ScanLoopFails, Goto
<1>28. ASSUME NEW k \in Scans, ScanJoin(k) PROVE Monitored'
  BY <1>28 DEF ScanJoin, Goto
<1>29. ASSUME NEW k \in Scans, ScanFree(k) PROVE Monitored'
  BY <1>29 DEF ScanFree, Goto
<1>30. ASSUME NEW k \in Scans, MonitorStart(k) PROVE Monitored'
  BY <1>30 DEF MonitorStart
<1>31. ASSUME NEW k \in Scans, MonitorFails(k) PROVE Monitored'
  BY <1>31 DEF MonitorFails
<1>32. ASSUME NEW k \in Scans, MonitorEnd(k) PROVE Monitored'
  BY <1>32 DEF MonitorEnd
<1>33. ASSUME NEW k \in Scans, MonitorUnmount(k) PROVE Monitored'
  BY <1>33 DEF MonitorUnmount
<1>34. CASE UNCHANGED vars
  BY <1>34
<1> QED BY <1>1, <1>2, <1>3, <1>4, <1>5, <1>6, <1>7, <1>8, <1>9, <1>10, <1>11, <1>12, <1>13,
       <1>14, <1>15, <1>16, <1>17, <1>18, <1>19, <1>20, <1>21, <1>22, <1>23, <1>24, <1>25, <1>26,
       <1>27, <1>28, <1>29, <1>30, <1>31, <1>32, <1>33, <1>34 DEF Next, Udev, Startup, Stop,
       Message, ScanStep, MonStep

\* The folders of the one that runs.
LEMMA NextOwning ==
  ASSUME TypeOK, Phases, Handle, Monitored, Owning, StaysGone, [Next]_vars, ~doubled, ~doubled'
  PROVE  Owning'
<1> USE FirstScan DEF TypeOK, Phases, Handle, Monitored, Owning, StaysGone, NextIs, Ended,
       vars, cardVars, mainVars, shared, history, scanVars
<1>1. CASE InsertCard
  BY <1>1 DEF InsertCard
<1>2. CASE Automount
  BY <1>2 DEF Automount
<1>3. CASE PullCard
  BY <1>3 DEF PullCard
<1>4. CASE Announce
  BY <1>4 DEF Announce
<1>5. CASE AutoDeleteInit
  BY <1>5 DEF AutoDeleteInit, CreateScan
<1>6. CASE Listen
  BY <1>6 DEF Listen
<1>7. CASE ListenFails
  BY <1>7 DEF ListenFails
<1>8. CASE Deinit
  BY <1>8 DEF Deinit
<1>9. CASE TellQuit
  BY <1>9 DEF TellQuit
<1>10. CASE JoinRec
  BY <1>10 DEF JoinRec
<1>11. CASE SetUnmounted
  BY <1>11 DEF SetUnmounted
<1>12. CASE JoinScan
  BY <1>12 DEF JoinScan
<1>13. CASE RecLoop
  BY <1>13 DEF RecLoop
<1>14. CASE GetNothing
  BY <1>14 DEF GetNothing
<1>15. CASE DevAdd
  BY <1>15 DEF DevAdd, TakeMsg
<1>16. CASE DevAddCreate
  BY <1>16 DEF DevAddCreate, CreateScan
<1>17. CASE DevRemove
  BY <1>17 DEF DevRemove, TakeMsg
<1>18. CASE DevRemoveJoin
  BY <1>18 DEF DevRemoveJoin
<1>19. CASE DevRemoveUmount
  BY <1>19 DEF DevRemoveUmount
<1>20. ASSUME NEW k \in Scans, ScanCheck(k) PROVE Owning'
  BY <1>20 DEF ScanCheck, Goto
<1>21. ASSUME NEW k \in Scans, ScanRepair(k) PROVE Owning'
  BY <1>21 DEF ScanRepair, Crash, Goto
<1>22. ASSUME NEW k \in Scans, ScanRecheck(k) PROVE Owning'
  BY <1>22 DEF ScanRecheck, Goto
<1>23. ASSUME NEW k \in Scans, ScanSet(k) PROVE Owning'
  BY <1>23 DEF ScanSet, Goto
<1>24. ASSUME NEW k \in Scans, ScanSize(k) PROVE Owning'
  BY <1>24 DEF ScanSize, Goto
<1>25. ASSUME NEW k \in Scans, ScanWatch(k) PROVE Owning'
  BY <1>25 DEF ScanWatch, Goto
<1>26. ASSUME NEW k \in Scans, ScanLoop(k) PROVE Owning'
  BY <1>26 DEF ScanLoop, Goto
<1>27. ASSUME NEW k \in Scans, ScanLoopFails(k) PROVE Owning'
  BY <1>27 DEF ScanLoopFails, Goto
<1>28. ASSUME NEW k \in Scans, ScanJoin(k) PROVE Owning'
  BY <1>28 DEF ScanJoin, Goto
<1>29. ASSUME NEW k \in Scans, ScanFree(k) PROVE Owning'
  BY <1>29 DEF ScanFree, Goto
<1>30. ASSUME NEW k \in Scans, MonitorStart(k) PROVE Owning'
  BY <1>30 DEF MonitorStart
<1>31. ASSUME NEW k \in Scans, MonitorFails(k) PROVE Owning'
  BY <1>31 DEF MonitorFails
<1>32. ASSUME NEW k \in Scans, MonitorEnd(k) PROVE Owning'
  BY <1>32 DEF MonitorEnd
<1>33. ASSUME NEW k \in Scans, MonitorUnmount(k) PROVE Owning'
  BY <1>33 DEF MonitorUnmount
<1>34. CASE UNCHANGED vars
  BY <1>34
<1> QED BY <1>1, <1>2, <1>3, <1>4, <1>5, <1>6, <1>7, <1>8, <1>9, <1>10, <1>11, <1>12, <1>13,
       <1>14, <1>15, <1>16, <1>17, <1>18, <1>19, <1>20, <1>21, <1>22, <1>23, <1>24, <1>25, <1>26,
       <1>27, <1>28, <1>29, <1>30, <1>31, <1>32, <1>33, <1>34 DEF Next, Udev, Startup, Stop,
       Message, ScanStep, MonStep

\* A disk that went stays away before the second look.
LEMMA NextStaysGone ==
  ASSUME TypeOK, Phases, Messages, Handle, Monitored, StaysGone, [Next]_vars, ~doubled, ~doubled'
  PROVE  StaysGone'
<1> USE FirstScan DEF TypeOK, Phases, Messages, Handle, Monitored, StaysGone, NextIs, Told,
       Open, Idle, Ended, vars, cardVars, mainVars, shared, history, scanVars
<1>1. CASE InsertCard
  BY <1>1 DEF InsertCard
<1>2. CASE Automount
  BY <1>2 DEF Automount
<1>3. CASE PullCard
  BY <1>3 DEF PullCard
<1>4. CASE Announce
  <2>1. NextIs("remove") => NextIs("remove")'
    BY <1>4, NextIsKept
  <2>2. UNCHANGED <<scan, mount, recPc>>
    BY <1>4 DEF Announce, shared, scanVars
  <2> QED BY <2>1, <2>2 DEF StaysGone
<1>5. CASE AutoDeleteInit
  BY <1>5 DEF AutoDeleteInit, CreateScan
<1>6. CASE Listen
  BY <1>6 DEF Listen
<1>7. CASE ListenFails
  BY <1>7 DEF ListenFails
<1>8. CASE Deinit
  BY <1>8 DEF Deinit
<1>9. CASE TellQuit
  BY <1>9 DEF TellQuit
<1>10. CASE JoinRec
  BY <1>10 DEF JoinRec
<1>11. CASE SetUnmounted
  BY <1>11 DEF SetUnmounted
<1>12. CASE JoinScan
  BY <1>12 DEF JoinScan
<1>13. CASE RecLoop
  BY <1>13 DEF RecLoop
<1>14. CASE GetNothing
  BY <1>14 DEF GetNothing
<1>15. CASE DevAdd
  BY <1>15 DEF DevAdd, TakeMsg
<1>16. CASE DevAddCreate
  BY <1>16 DEF DevAddCreate, CreateScan
<1>17. CASE DevRemove
  BY <1>17 DEF DevRemove, TakeMsg
<1>18. CASE DevRemoveJoin
  BY <1>18 DEF DevRemoveJoin
<1>19. CASE DevRemoveUmount
  BY <1>19 DEF DevRemoveUmount
<1>20. ASSUME NEW k \in Scans, ScanCheck(k) PROVE StaysGone'
  BY <1>20 DEF ScanCheck, Goto
<1>21. ASSUME NEW k \in Scans, ScanRepair(k) PROVE StaysGone'
  BY <1>21 DEF ScanRepair, Crash, Goto
<1>22. ASSUME NEW k \in Scans, ScanRecheck(k) PROVE StaysGone'
  BY <1>22 DEF ScanRecheck, Goto
<1>23. ASSUME NEW k \in Scans, ScanSet(k) PROVE StaysGone'
  BY <1>23 DEF ScanSet, Goto
<1>24. ASSUME NEW k \in Scans, ScanSize(k) PROVE StaysGone'
  BY <1>24 DEF ScanSize, Goto
<1>25. ASSUME NEW k \in Scans, ScanWatch(k) PROVE StaysGone'
  BY <1>25 DEF ScanWatch, Goto
<1>26. ASSUME NEW k \in Scans, ScanLoop(k) PROVE StaysGone'
  BY <1>26 DEF ScanLoop, Goto
<1>27. ASSUME NEW k \in Scans, ScanLoopFails(k) PROVE StaysGone'
  BY <1>27 DEF ScanLoopFails, Goto
<1>28. ASSUME NEW k \in Scans, ScanJoin(k) PROVE StaysGone'
  BY <1>28 DEF ScanJoin, Goto
<1>29. ASSUME NEW k \in Scans, ScanFree(k) PROVE StaysGone'
  BY <1>29 DEF ScanFree, Goto
<1>30. ASSUME NEW k \in Scans, MonitorStart(k) PROVE StaysGone'
  BY <1>30 DEF MonitorStart
<1>31. ASSUME NEW k \in Scans, MonitorFails(k) PROVE StaysGone'
  BY <1>31 DEF MonitorFails
<1>32. ASSUME NEW k \in Scans, MonitorEnd(k) PROVE StaysGone'
  BY <1>32 DEF MonitorEnd
<1>33. ASSUME NEW k \in Scans, MonitorUnmount(k) PROVE StaysGone'
  BY <1>33 DEF MonitorUnmount
<1>34. CASE UNCHANGED vars
  BY <1>34
<1> QED BY <1>1, <1>2, <1>3, <1>4, <1>5, <1>6, <1>7, <1>8, <1>9, <1>10, <1>11, <1>12, <1>13,
       <1>14, <1>15, <1>16, <1>17, <1>18, <1>19, <1>20, <1>21, <1>22, <1>23, <1>24, <1>25, <1>26,
       <1>27, <1>28, <1>29, <1>30, <1>31, <1>32, <1>33, <1>34 DEF Next, Udev, Startup, Stop,
       Message, ScanStep, MonStep

\* The ends.
LEMMA NextAtEnd ==
  ASSUME TypeOK, Phases, Handle, Owning, AtEnd, [Next]_vars, ~doubled, ~doubled'
  PROVE  AtEnd'
<1> USE FirstScan DEF TypeOK, Phases, Handle, Owning, AtEnd, Idle, Ended, vars, cardVars,
       mainVars, shared, history, scanVars
<1>1. CASE InsertCard
  BY <1>1 DEF InsertCard
<1>2. CASE Automount
  BY <1>2 DEF Automount
<1>3. CASE PullCard
  BY <1>3 DEF PullCard
<1>4. CASE Announce
  BY <1>4 DEF Announce
<1>5. CASE AutoDeleteInit
  BY <1>5 DEF AutoDeleteInit, CreateScan
<1>6. CASE Listen
  BY <1>6 DEF Listen
<1>7. CASE ListenFails
  BY <1>7 DEF ListenFails
<1>8. CASE Deinit
  BY <1>8 DEF Deinit
<1>9. CASE TellQuit
  BY <1>9 DEF TellQuit
<1>10. CASE JoinRec
  BY <1>10 DEF JoinRec
<1>11. CASE SetUnmounted
  BY <1>11 DEF SetUnmounted
<1>12. CASE JoinScan
  BY <1>12 DEF JoinScan
<1>13. CASE RecLoop
  BY <1>13 DEF RecLoop
<1>14. CASE GetNothing
  BY <1>14 DEF GetNothing
<1>15. CASE DevAdd
  BY <1>15 DEF DevAdd, TakeMsg
<1>16. CASE DevAddCreate
  BY <1>16 DEF DevAddCreate, CreateScan
<1>17. CASE DevRemove
  BY <1>17 DEF DevRemove, TakeMsg
<1>18. CASE DevRemoveJoin
  BY <1>18 DEF DevRemoveJoin
<1>19. CASE DevRemoveUmount
  BY <1>19 DEF DevRemoveUmount
<1>20. ASSUME NEW k \in Scans, ScanCheck(k) PROVE AtEnd'
  BY <1>20 DEF ScanCheck, Goto
<1>21. ASSUME NEW k \in Scans, ScanRepair(k) PROVE AtEnd'
  BY <1>21 DEF ScanRepair, Crash, Goto
<1>22. ASSUME NEW k \in Scans, ScanRecheck(k) PROVE AtEnd'
  BY <1>22 DEF ScanRecheck, Goto
<1>23. ASSUME NEW k \in Scans, ScanSet(k) PROVE AtEnd'
  BY <1>23 DEF ScanSet, Goto
<1>24. ASSUME NEW k \in Scans, ScanSize(k) PROVE AtEnd'
  BY <1>24 DEF ScanSize, Goto
<1>25. ASSUME NEW k \in Scans, ScanWatch(k) PROVE AtEnd'
  BY <1>25 DEF ScanWatch, Goto
<1>26. ASSUME NEW k \in Scans, ScanLoop(k) PROVE AtEnd'
  BY <1>26 DEF ScanLoop, Goto
<1>27. ASSUME NEW k \in Scans, ScanLoopFails(k) PROVE AtEnd'
  BY <1>27 DEF ScanLoopFails, Goto
<1>28. ASSUME NEW k \in Scans, ScanJoin(k) PROVE AtEnd'
  BY <1>28 DEF ScanJoin, Goto
<1>29. ASSUME NEW k \in Scans, ScanFree(k) PROVE AtEnd'
  BY <1>29 DEF ScanFree, Goto
<1>30. ASSUME NEW k \in Scans, MonitorStart(k) PROVE AtEnd'
  BY <1>30 DEF MonitorStart
<1>31. ASSUME NEW k \in Scans, MonitorFails(k) PROVE AtEnd'
  BY <1>31 DEF MonitorFails
<1>32. ASSUME NEW k \in Scans, MonitorEnd(k) PROVE AtEnd'
  BY <1>32 DEF MonitorEnd
<1>33. ASSUME NEW k \in Scans, MonitorUnmount(k) PROVE AtEnd'
  BY <1>33 DEF MonitorUnmount
<1>34. CASE UNCHANGED vars
  BY <1>34
<1> QED BY <1>1, <1>2, <1>3, <1>4, <1>5, <1>6, <1>7, <1>8, <1>9, <1>10, <1>11, <1>12, <1>13,
       <1>14, <1>15, <1>16, <1>17, <1>18, <1>19, <1>20, <1>21, <1>22, <1>23, <1>24, <1>25, <1>26,
       <1>27, <1>28, <1>29, <1>30, <1>31, <1>32, <1>33, <1>34 DEF Next, Udev, Startup, Stop,
       Message, ScanStep, MonStep

\* A step keeps what holds of the one scan thread.
LEMMA NextOwner ==
  ASSUME TypeOK, Messages, Phases, OneOwner, [Next]_vars
  PROVE  OneOwner'
<1> SUFFICES ASSUME ~doubled'
             PROVE  Handle' /\ Monitored' /\ Owning' /\ StaysGone' /\ AtEnd'
  BY DEF OneOwner
<1>1. ~doubled
  BY Remembered, TypeParts DEF Remembers
<1>2. Handle /\ Monitored /\ Owning /\ StaysGone /\ AtEnd
  BY <1>1 DEF OneOwner
<1> QED BY <1>1, <1>2, NextHandle, NextMonitored, NextOwning, NextStaysGone, NextAtEnd

\* A step keeps the order in which threads are made and joined.
LEMMA NextBooted ==
  ASSUME TypeOK, Messages, Phases, OneOwner, Booted, [Next]_vars
  PROVE  Booted'
<1> SUFFICES ASSUME ~bootRace' PROVE Booted'
  BY DEF Booted
<1>01. ~bootRace /\ ~doubled
  BY Remembered, TypeParts DEF Remembers, Booted
<1>02. Handle
  BY <1>01 DEF OneOwner
<1> USE <1>01, <1>02, FirstScan, LiveMeans DEF TypeOK, Messages, Phases, Handle, Booted,
       NextIs, Told, Open, Idle, Ended, vars, cardVars, mainVars, shared, history, scanVars
<1>1. CASE InsertCard
  BY <1>1 DEF InsertCard
<1>2. CASE Automount
  BY <1>2 DEF Automount
<1>3. CASE PullCard
  BY <1>3 DEF PullCard
<1>4. CASE Announce
  <2>1. NextIs("remove") => NextIs("remove")'
    BY <1>4, NextIsKept
  <2>2. UNCHANGED <<scan, recPc, mainPc, doubled>> /\ mainPc \notin {"init", "listen"}
    BY <1>4 DEF Announce, mainVars, shared, scanVars
  <2> QED BY <2>1, <2>2 DEF Booted, Idle
<1>5. CASE AutoDeleteInit
  BY <1>5 DEF AutoDeleteInit, CreateScan
<1>6. CASE Listen
  BY <1>6 DEF Listen
<1>7. CASE ListenFails
  BY <1>7 DEF ListenFails
<1>8. CASE Deinit
  BY <1>8 DEF Deinit
<1>9. CASE TellQuit
  BY <1>9 DEF TellQuit
<1>10. CASE JoinRec
  BY <1>10 DEF JoinRec
<1>11. CASE SetUnmounted
  BY <1>11 DEF SetUnmounted
<1>12. CASE JoinScan
  BY <1>12 DEF JoinScan
<1>13. CASE RecLoop
  BY <1>13 DEF RecLoop
<1>14. CASE GetNothing
  BY <1>14 DEF GetNothing
<1>15. CASE DevAdd
  BY <1>15 DEF DevAdd, TakeMsg
<1>16. CASE DevAddCreate
  BY <1>16 DEF DevAddCreate, CreateScan
<1>17. CASE DevRemove
  BY <1>17 DEF DevRemove, TakeMsg
<1>18. CASE DevRemoveJoin
  BY <1>18 DEF DevRemoveJoin
<1>19. CASE DevRemoveUmount
  BY <1>19 DEF DevRemoveUmount
<1>20. ASSUME NEW k \in Scans, ScanCheck(k) PROVE Booted'
  BY <1>20 DEF ScanCheck, Goto
<1>21. ASSUME NEW k \in Scans, ScanRepair(k) PROVE Booted'
  BY <1>21 DEF ScanRepair, Crash, Goto
<1>22. ASSUME NEW k \in Scans, ScanRecheck(k) PROVE Booted'
  BY <1>22 DEF ScanRecheck, Goto
<1>23. ASSUME NEW k \in Scans, ScanSet(k) PROVE Booted'
  BY <1>23 DEF ScanSet, Goto
<1>24. ASSUME NEW k \in Scans, ScanSize(k) PROVE Booted'
  BY <1>24 DEF ScanSize, Goto
<1>25. ASSUME NEW k \in Scans, ScanWatch(k) PROVE Booted'
  BY <1>25 DEF ScanWatch, Goto
<1>26. ASSUME NEW k \in Scans, ScanLoop(k) PROVE Booted'
  BY <1>26 DEF ScanLoop, Goto
<1>27. ASSUME NEW k \in Scans, ScanLoopFails(k) PROVE Booted'
  BY <1>27 DEF ScanLoopFails, Goto
<1>28. ASSUME NEW k \in Scans, ScanJoin(k) PROVE Booted'
  BY <1>28 DEF ScanJoin, Goto
<1>29. ASSUME NEW k \in Scans, ScanFree(k) PROVE Booted'
  BY <1>29 DEF ScanFree, Goto
<1>30. ASSUME NEW k \in Scans, MonitorStart(k) PROVE Booted'
  BY <1>30 DEF MonitorStart
<1>31. ASSUME NEW k \in Scans, MonitorFails(k) PROVE Booted'
  BY <1>31 DEF MonitorFails
<1>32. ASSUME NEW k \in Scans, MonitorEnd(k) PROVE Booted'
  BY <1>32 DEF MonitorEnd
<1>33. ASSUME NEW k \in Scans, MonitorUnmount(k) PROVE Booted'
  BY <1>33 DEF MonitorUnmount
<1>34. CASE UNCHANGED vars
  BY <1>34
<1> QED BY <1>1, <1>2, <1>3, <1>4, <1>5, <1>6, <1>7, <1>8, <1>9, <1>10, <1>11, <1>12, <1>13,
       <1>14, <1>15, <1>16, <1>17, <1>18, <1>19, <1>20, <1>21, <1>22, <1>23, <1>24, <1>25, <1>26,
       <1>27, <1>28, <1>29, <1>30, <1>31, <1>32, <1>33, <1>34 DEF Next, Udev, Startup, Stop,
       Message, ScanStep, MonStep

-----------------------------------------------------------------------------
(* The properties.                                                         *)

\* The inductive invariant.
CardInv == TypeOK /\ Messages /\ Phases /\ OneOwner /\ Booted

\* All of this is an invariant.
LEMMA CardInvariant == Spec => []CardInv
<1>1. Init => CardInv
  BY InitTyped, InitMessages, InitOwner DEF CardInv
<1>2. CardInv /\ [Next]_vars => CardInv'
  BY NextTyped, NextMessages, NextPhases, NextOwner, NextBooted DEF CardInv
<1> QED BY <1>1, <1>2, PTL DEF Spec

\* At most one scan thread runs at once unless udev spoke while the manager
\* came up, however many cards come and go.
THEOREM OneScanThreadAtMost == Spec => []OneScanThread
<1>1. CardInv => OneScanThread
  <2> SUFFICES ASSUME CardInv, ~(doubled /\ bootRace) PROVE ~(Cardinality(Live) > 1)
    BY DEF CardInv, OneScanThread
  <2>1. ~doubled
    BY DEF CardInv, Booted
  <2>2. Live \subseteq {tid}
    BY <2>1 DEF CardInv, OneOwner, Handle, Live
  <2>3. Cardinality(Live) <= Cardinality({tid}) /\ Cardinality({tid}) = 1
        /\ Cardinality(Live) \in Nat
    BY <2>2, FS_Singleton, FS_Subset, FS_CardinalityType
  <2> QED BY <2>3
<1> QED BY <1>1, CardInvariant, PTL

\* The folder array outlives the monitor that works on it, and the handle all
\* threads, unless two scan threads ran at once.
THEOREM FoldersKept == Spec => []FoldersOutliveThreads
<1>1. CardInv => FoldersOutliveThreads
  BY DEF CardInv, TypeOK, OneOwner, Handle, Monitored, Owning, AtEnd, Idle, Ended,
     FoldersOutliveThreads
<1> QED BY <1>1, CardInvariant, PTL

\* A step keeps the mounted disk served.
LEMMA NextServed ==
  ASSUME CardInv, MountedIsServed, [Next]_vars
  PROVE  MountedIsServed'
<1> SUFFICES ASSUME mount' = "MOUNTED", ~gaveUp', ~doubled', mainPc' # "dead"
             PROVE  MountedIsServed'
  BY DEF MountedIsServed
<1>01. ~doubled
  BY Remembered, TypeParts DEF Remembers, CardInv
<1>02. Handle /\ Monitored /\ Owning
  BY <1>01 DEF CardInv, OneOwner
<1>03. TypeOK /\ Phases
  BY DEF CardInv
<1> USE <1>01, <1>02, <1>03, FirstScan, LiveMeans DEF TypeOK, Phases, Handle, Monitored,
       Owning, MountedIsServed, Idle, Ended, vars, cardVars, mainVars, shared, history, scanVars
<1>1. CASE InsertCard
  BY <1>1 DEF InsertCard
<1>2. CASE Automount
  BY <1>2 DEF Automount
<1>3. CASE PullCard
  BY <1>3 DEF PullCard
<1>4. CASE Announce
  BY <1>4 DEF Announce
<1>5. CASE AutoDeleteInit
  BY <1>5 DEF AutoDeleteInit, CreateScan
<1>6. CASE Listen
  BY <1>6 DEF Listen
<1>7. CASE ListenFails
  BY <1>7 DEF ListenFails
<1>8. CASE Deinit
  BY <1>8 DEF Deinit
<1>9. CASE TellQuit
  BY <1>9 DEF TellQuit
<1>10. CASE JoinRec
  BY <1>10 DEF JoinRec
<1>11. CASE SetUnmounted
  BY <1>11 DEF SetUnmounted
<1>12. CASE JoinScan
  BY <1>12 DEF JoinScan
<1>13. CASE RecLoop
  BY <1>13 DEF RecLoop
<1>14. CASE GetNothing
  BY <1>14 DEF GetNothing
<1>15. CASE DevAdd
  BY <1>15 DEF DevAdd, TakeMsg
<1>16. CASE DevAddCreate
  BY <1>16 DEF DevAddCreate, CreateScan
<1>17. CASE DevRemove
  BY <1>17 DEF DevRemove, TakeMsg
<1>18. CASE DevRemoveJoin
  BY <1>18 DEF DevRemoveJoin
<1>19. CASE DevRemoveUmount
  BY <1>19 DEF DevRemoveUmount
<1>20. ASSUME NEW k \in Scans, ScanCheck(k) PROVE MountedIsServed'
  BY <1>20 DEF ScanCheck, Goto
<1>21. ASSUME NEW k \in Scans, ScanRepair(k) PROVE MountedIsServed'
  BY <1>21 DEF ScanRepair, Crash, Goto
<1>22. ASSUME NEW k \in Scans, ScanRecheck(k) PROVE MountedIsServed'
  BY <1>22 DEF ScanRecheck, Goto
<1>23. ASSUME NEW k \in Scans, ScanSet(k) PROVE MountedIsServed'
  BY <1>23 DEF ScanSet, Goto
<1>24. ASSUME NEW k \in Scans, ScanSize(k) PROVE MountedIsServed'
  BY <1>24 DEF ScanSize, Goto
<1>25. ASSUME NEW k \in Scans, ScanWatch(k) PROVE MountedIsServed'
  BY <1>25 DEF ScanWatch, Goto
<1>26. ASSUME NEW k \in Scans, ScanLoop(k) PROVE MountedIsServed'
  BY <1>26 DEF ScanLoop, Goto
<1>27. ASSUME NEW k \in Scans, ScanLoopFails(k) PROVE MountedIsServed'
  BY <1>27 DEF ScanLoopFails, Goto
<1>28. ASSUME NEW k \in Scans, ScanJoin(k) PROVE MountedIsServed'
  BY <1>28 DEF ScanJoin, Goto
<1>29. ASSUME NEW k \in Scans, ScanFree(k) PROVE MountedIsServed'
  BY <1>29 DEF ScanFree, Goto
<1>30. ASSUME NEW k \in Scans, MonitorStart(k) PROVE MountedIsServed'
  BY <1>30 DEF MonitorStart
<1>31. ASSUME NEW k \in Scans, MonitorFails(k) PROVE MountedIsServed'
  BY <1>31 DEF MonitorFails
<1>32. ASSUME NEW k \in Scans, MonitorEnd(k) PROVE MountedIsServed'
  BY <1>32 DEF MonitorEnd
<1>33. ASSUME NEW k \in Scans, MonitorUnmount(k) PROVE MountedIsServed'
  BY <1>33 DEF MonitorUnmount
<1>34. CASE UNCHANGED vars
  BY <1>34
<1> QED BY <1>1, <1>2, <1>3, <1>4, <1>5, <1>6, <1>7, <1>8, <1>9, <1>10, <1>11, <1>12, <1>13,
       <1>14, <1>15, <1>16, <1>17, <1>18, <1>19, <1>20, <1>21, <1>22, <1>23, <1>24, <1>25, <1>26,
       <1>27, <1>28, <1>29, <1>30, <1>31, <1>32, <1>33, <1>34 DEF Next, Udev, Startup, Stop,
       Message, ScanStep, MonStep

\* A mounted disk is cleaned and watched by the thread that owns the folders.
THEOREM MountedDiskServed == Spec => []MountedIsServed
<1>1. Init => MountedIsServed
  BY DEF Init, MountedIsServed
<1> QED BY <1>1, NextServed, CardInvariant, PTL DEF Spec
=============================================================================
