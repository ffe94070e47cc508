--------------------------- MODULE InferenceProofs --------------------------
(***************************************************************************)
(* Proofs about the inference, for any number of frames, restarts and      *)
(* failures: its lock is only lost to the failures named, and it           *)
(* implements the one-frame slot.                                          *)
(*                                                                         *)
(* The argument: who copies a frame holds the lock with recv set, and the  *)
(* frames on their way (FramesApart) are all different and none was worked *)
(* on, since each is a fresh one from the camera; so what reaches the slot *)
(* is new, and nobody changes it while the network is at it.               *)
(***************************************************************************)
EXTENDS InferenceProps, TLAPS

-----------------------------------------------------------------------------
(* Types, and the order of the starts.                                     *)

\* The vi_1 threads come one after the other.
StartsInOrder ==
  /\ main = "boot" => starts = 0 /\ ~stopped
  /\ stopped => starts <= MaxRestarts
  /\ \A g \in Grabbers : g > starts => grab[g] = "none"

Typed == TypeOK /\ StartsInOrder

LEMMA InitTyped == Init => Typed
<1> SUFFICES ASSUME Init PROVE Typed
  OBVIOUS
<1>1. StartsInOrder
  BY DEF Init, StartsInOrder
<1>2. lock \in Grabbers \cup {Npu, Nobody} /\ main \in MainPc /\ npu \in NpuPc
  BY DEF Init, MainPc, NpuPc
<1>3. grab \in [Grabbers -> GrabPc] /\ hand \in [Grabbers -> 0..MaxFrames]
  BY InferenceAssumption DEF Init, GrabPc
<1>4. /\ input \in 0..MaxFrames /\ frames \in 0..MaxFrames
      /\ starts \in 0..(MaxRestarts + 1) /\ fails \in Nat
  BY InferenceAssumption DEF Init
<1> QED BY <1>1, <1>2, <1>3, <1>4 DEF Init, Typed, TypeOK

LEMMA NextTyped ==
  ASSUME Typed, [Next]_vars
  PROVE  Typed'
<1> USE InferenceAssumption DEF Typed, TypeOK, StartsInOrder, Grabbers, GrabPc, NpuPc, MainPc,
         GrabGoto, StartGrab, slotVars, netVars, runVars
<1>1. CASE VideoInit
  BY <1>1 DEF VideoInit
<1>2. CASE RestartStop
  BY <1>2 DEF RestartStop
<1>3. CASE RestartStart
  <2>1. starts + 1 \in Grabbers /\ starts \in Nat
    BY <1>3 DEF RestartStart
  <2>2. grab' \in [Grabbers -> GrabPc]
    BY <1>3, <2>1 DEF RestartStart
  <2>3. StartsInOrder'
    BY <1>3, <2>1 DEF RestartStart
  <2>4. starts' \in 0..(MaxRestarts + 1) /\ run' \in BOOLEAN /\ stopped' \in BOOLEAN
    <3>1. starts' = starts + 1 /\ run' = TRUE /\ stopped' = FALSE
      BY <1>3 DEF RestartStart
    <3>2. starts + 1 \in 0..(MaxRestarts + 1)
      BY <2>1
    <3> QED BY <3>1, <3>2
  <2>5. UNCHANGED <<lock, recv, done, input, worked, owned, npuRun, npu, hand, main, broken, frames, fails>>
    BY <1>3 DEF RestartStart
  <2> QED BY <2>2, <2>3, <2>4, <2>5
<1>4. CASE NetworkExit
  BY <1>4 DEF NetworkExit
<1>5. CASE NetworkJoin
  BY <1>5 DEF NetworkJoin
<1>6. CASE NetworkFree
  BY <1>6 DEF NetworkFree
<1>7. CASE VideoDeinit
  BY <1>7 DEF VideoDeinit
<1>8. CASE NpuLock
  BY <1>8 DEF NpuLock
<1>9. CASE NpuWork
  <2>1. worked' \subseteq 0..MaxFrames
    BY <1>9 DEF NpuWork
  <2>2. broken' \subseteq {"save", "infer", "crash", "storage"} /\ fails' \in Nat
    <3>1. fails' \in Nat
      BY <1>9 DEF NpuWork
    <3>2. broken' \subseteq broken \cup {"save", "infer", "crash", "storage"}
      BY <1>9 DEF NpuWork
    <3> QED BY <3>1, <3>2
  <2>3. recv' \in BOOLEAN /\ done' \in BOOLEAN /\ lock' \in Grabbers \cup {Npu, Nobody} /\ npu' \in NpuPc
    BY <1>9 DEF NpuWork
  <2> QED BY <1>9, <2>1, <2>2, <2>3 DEF NpuWork
<1>10. CASE NpuTest
  BY <1>10 DEF NpuTest
<1>11. ASSUME NEW g \in Grabbers, GrabLoop(g) PROVE Typed'
  BY <1>11 DEF GrabLoop
<1>12. ASSUME NEW g \in Grabbers, GrabGet(g) PROVE Typed'
  <2>1. /\ grab' \in [Grabbers -> GrabPc] /\ hand' \in [Grabbers -> 0..MaxFrames]
        /\ frames' \in 0..MaxFrames
    BY <1>12 DEF GrabGet
  <2>2. StartsInOrder'
    BY <1>12 DEF GrabGet
  <2> QED BY <1>12, <2>1, <2>2 DEF GrabGet
<1>13. ASSUME NEW g \in Grabbers, GrabSend(g) PROVE Typed'
  BY <1>13 DEF GrabSend
<1>14. ASSUME NEW g \in Grabbers, RecvSave(g) PROVE Typed'
  <2>1. broken' \subseteq {"save", "infer", "crash", "storage"} /\ fails' \in Nat
    <3>1. fails' \in Nat
      BY <1>14 DEF RecvSave
    <3>2. broken' \subseteq broken \cup {"save", "infer", "crash", "storage"}
      BY <1>14 DEF RecvSave
    <3> QED BY <3>1, <3>2
  <2>2. grab' \in [Grabbers -> GrabPc]
    BY <1>14 DEF RecvSave
  <2>3. StartsInOrder'
    BY <1>14 DEF RecvSave
  <2> QED BY <1>14, <2>1, <2>2, <2>3 DEF RecvSave
<1>15. ASSUME NEW g \in Grabbers, RecvCopy(g) PROVE Typed'
  BY <1>15 DEF RecvCopy
<1>16. ASSUME NEW g \in Grabbers, Recv(g) PROVE Typed'
  <2>1. grab' \in [Grabbers -> GrabPc]
    BY <1>16 DEF Recv
  <2>2. StartsInOrder'
    BY <1>16 DEF Recv
  <2>3. recv' \in BOOLEAN /\ done' \in BOOLEAN /\ lock' \in Grabbers \cup {Npu, Nobody}
    BY <1>16 DEF Recv
  <2> QED BY <1>16, <2>1, <2>2, <2>3 DEF Recv
<1>17. CASE UNCHANGED vars
  BY <1>17 DEF vars
<1>18. CASE StorageDeinit
  <2>1. broken' \subseteq {"save", "infer", "crash", "storage"} /\ fails' \in Nat
    <3>1. fails' \in Nat /\ broken' \subseteq broken \cup {"storage"}
      BY <1>18 DEF StorageDeinit
    <3> QED BY <3>1
  <2>2. main' \in MainPc /\ main' # "boot"
    BY <1>18 DEF StorageDeinit
  <2> QED BY <1>18, <2>1, <2>2 DEF StorageDeinit
<1>19. CASE ServerDeinit
  BY <1>19 DEF ServerDeinit
<1> QED
  BY <1>1, <1>2, <1>3, <1>4, <1>5, <1>6, <1>7, <1>8, <1>9, <1>10, <1>11,
     <1>12, <1>13, <1>14, <1>15, <1>16, <1>17, <1>18, <1>19 DEF Next, MainStep, Grab

\* Types.
THEOREM InferenceTypes == Spec => []TypeOK
<1>1. Typed => TypeOK
  BY DEF Typed
<1> QED BY <1>1, InitTyped, NextTyped, PTL DEF Spec

-----------------------------------------------------------------------------
(* The lock.                                                               *)

\* Who is between the two ends of recv_frame has the lock, and the frame is
\* announced; the inference has it likewise; after network_exit's join there
\* is no npu thread.
LockHeld ==
  /\ \A g \in Grabbers : grab[g] \in {"save", "copy"} => lock = g /\ recv
  /\ npu = "work" => lock = Npu /\ recv
  /\ done = ~recv
  /\ main \in {"free", "storage", "hung", "server", "video", "end"} => npu = "none"
  /\ ~owned => main \in {"storage", "hung", "server", "video", "end"}

Locked == Typed /\ LockHeld /\ NetworkSafe

LEMMA InitLocked == Init => Locked
<1> SUFFICES ASSUME Init PROVE Locked
  OBVIOUS
<1>1. Typed
  BY InitTyped
<1>2. LockHeld
  BY DEF Init, LockHeld
<1>3. NetworkSafe
  BY InferenceAssumption DEF Init, NetworkSafe
<1> QED BY <1>1, <1>2, <1>3 DEF Locked

LEMMA NextHeld ==
  ASSUME Locked, [Next]_vars
  PROVE  LockHeld'
<1> USE InferenceAssumption DEF Locked, LockHeld, NetworkSafe, Typed, TypeOK, StartsInOrder,
         Grabbers, GrabGoto, StartGrab, slotVars, netVars, runVars
<1>1. CASE VideoInit
  BY <1>1 DEF VideoInit
<1>2. CASE RestartStop
  BY <1>2 DEF RestartStop
<1>3. CASE RestartStart
  BY <1>3 DEF RestartStart
<1>4. CASE NetworkExit
  BY <1>4 DEF NetworkExit
<1>5. CASE NetworkJoin
  BY <1>5 DEF NetworkJoin
<1>6. CASE NetworkFree
  BY <1>6 DEF NetworkFree
<1>7. CASE VideoDeinit
  BY <1>7 DEF VideoDeinit
<1>8. CASE NpuLock
  BY <1>8 DEF NpuLock
<1>9. CASE NpuWork
  BY <1>9 DEF NpuWork
<1>10. CASE NpuTest
  BY <1>10 DEF NpuTest
<1>11. ASSUME NEW g \in Grabbers, GrabLoop(g) PROVE LockHeld'
  BY <1>11 DEF GrabLoop
<1>12. ASSUME NEW g \in Grabbers, GrabGet(g) PROVE LockHeld'
  BY <1>12 DEF GrabGet
<1>13. ASSUME NEW g \in Grabbers, GrabSend(g) PROVE LockHeld'
  BY <1>13 DEF GrabSend
<1>14. ASSUME NEW g \in Grabbers, RecvSave(g) PROVE LockHeld'
  BY <1>14 DEF RecvSave
<1>15. ASSUME NEW g \in Grabbers, RecvCopy(g) PROVE LockHeld'
  BY <1>15 DEF RecvCopy
<1>16. ASSUME NEW g \in Grabbers, Recv(g) PROVE LockHeld'
  BY <1>16 DEF Recv
<1>17. CASE UNCHANGED vars
  BY <1>17 DEF vars
<1>18. CASE StorageDeinit
  BY <1>18 DEF StorageDeinit
<1>19. CASE ServerDeinit
  BY <1>19 DEF ServerDeinit
<1> QED
  BY <1>1, <1>2, <1>3, <1>4, <1>5, <1>6, <1>7, <1>8, <1>9, <1>10, <1>11,
     <1>12, <1>13, <1>14, <1>15, <1>16, <1>17, <1>18, <1>19 DEF Next, MainStep, Grab

LEMMA NextSafe ==
  ASSUME Locked, [Next]_vars
  PROVE  NetworkSafe'
<1> USE InferenceAssumption DEF Locked, LockHeld, NetworkSafe, Typed, TypeOK, StartsInOrder,
         Grabbers, GrabGoto, StartGrab, slotVars, netVars, runVars
<1>1. CASE VideoInit
  BY <1>1 DEF VideoInit
<1>2. CASE RestartStop
  BY <1>2 DEF RestartStop
<1>3. CASE RestartStart
  BY <1>3 DEF RestartStart
<1>4. CASE NetworkExit
  BY <1>4 DEF NetworkExit
<1>5. CASE NetworkJoin
  BY <1>5 DEF NetworkJoin
<1>6. CASE NetworkFree
  BY <1>6 DEF NetworkFree
<1>7. CASE VideoDeinit
  BY <1>7 DEF VideoDeinit
<1>8. CASE NpuLock
  BY <1>8 DEF NpuLock
<1>9. CASE NpuWork
  BY <1>9 DEF NpuWork
<1>10. CASE NpuTest
  BY <1>10 DEF NpuTest
<1>11. ASSUME NEW g \in Grabbers, GrabLoop(g) PROVE NetworkSafe'
  BY <1>11 DEF GrabLoop
<1>12. ASSUME NEW g \in Grabbers, GrabGet(g) PROVE NetworkSafe'
  BY <1>12 DEF GrabGet
<1>13. ASSUME NEW g \in Grabbers, GrabSend(g) PROVE NetworkSafe'
  BY <1>13 DEF GrabSend
<1>14. ASSUME NEW g \in Grabbers, RecvSave(g) PROVE NetworkSafe'
  BY <1>14 DEF RecvSave
<1>15. ASSUME NEW g \in Grabbers, RecvCopy(g) PROVE NetworkSafe'
  BY <1>15 DEF RecvCopy
<1>16. ASSUME NEW g \in Grabbers, Recv(g) PROVE NetworkSafe'
  BY <1>16 DEF Recv
<1>17. CASE UNCHANGED vars
  BY <1>17 DEF vars
<1>18. CASE StorageDeinit
  BY <1>18 DEF StorageDeinit
<1>19. CASE ServerDeinit
  BY <1>19 DEF ServerDeinit
<1> QED
  BY <1>1, <1>2, <1>3, <1>4, <1>5, <1>6, <1>7, <1>8, <1>9, <1>10, <1>11,
     <1>12, <1>13, <1>14, <1>15, <1>16, <1>17, <1>18, <1>19 DEF Next, MainStep, Grab

LEMMA NextLocked == ASSUME Locked, [Next]_vars PROVE Locked'
  BY NextTyped, NextHeld, NextSafe DEF Locked

\* The lock is held by a thread that will give it back, but for the failures
\* named; the network works only on buffers that are there.
THEOREM NetworkKept == Spec => []NetworkSafe
<1>1. Locked => NetworkSafe
  BY DEF Locked
<1> QED BY <1>1, InitLocked, NextLocked, PTL DEF Spec

-----------------------------------------------------------------------------
(* The slot.                                                               *)

\* The frames on their way to the slot are fresh and all different.
OnItsWay(g) == grab[g] \in {"recv", "save", "copy"}
FramesApart ==
  /\ worked \subseteq 1..frames
  /\ input \in 0..frames
  /\ \A g \in Grabbers : OnItsWay(g) =>
       hand[g] \in 1..frames /\ hand[g] \notin worked /\ hand[g] # input
  /\ \A g, h \in Grabbers : OnItsWay(g) /\ OnItsWay(h) /\ g # h => hand[g] # hand[h]

\* A frame in the slot was not worked on before.
SlotFresh == recv /\ lock \in {Nobody, Npu} => input # 0 /\ input \notin worked

Slotted == Locked /\ FramesApart /\ SlotFresh

LEMMA InitSlotted == Init => Slotted
<1> SUFFICES ASSUME Init PROVE Slotted
  OBVIOUS
<1>1. Locked
  BY InitLocked
<1>2. FramesApart /\ SlotFresh
  BY InferenceAssumption DEF Init, FramesApart, SlotFresh, OnItsWay
<1> QED BY <1>1, <1>2 DEF Slotted

LEMMA NextApart ==
  ASSUME Slotted, [Next]_vars
  PROVE  FramesApart'
<1> USE InferenceAssumption DEF Slotted, FramesApart, SlotFresh, OnItsWay, Locked, LockHeld, Typed, TypeOK,
         StartsInOrder, Grabbers, GrabGoto, StartGrab, slotVars, netVars, runVars
<1>1. CASE VideoInit
  BY <1>1 DEF VideoInit
<1>2. CASE RestartStop
  BY <1>2 DEF RestartStop
<1>3. CASE RestartStart
  BY <1>3 DEF RestartStart
<1>4. CASE NetworkExit
  BY <1>4 DEF NetworkExit
<1>5. CASE NetworkJoin
  BY <1>5 DEF NetworkJoin
<1>6. CASE NetworkFree
  BY <1>6 DEF NetworkFree
<1>7. CASE VideoDeinit
  BY <1>7 DEF VideoDeinit
<1>8. CASE NpuLock
  BY <1>8 DEF NpuLock
<1>9. CASE NpuWork
  <2>1. input # 0 /\ input \in 1..frames
    BY <1>9 DEF NpuWork
  <2>2. worked' \subseteq worked \cup {input} /\ frames' = frames /\ input' = input
    BY <1>9 DEF NpuWork
  <2>3. worked' \subseteq 1..frames
    BY <2>1, <2>2
  <2>4. grab' = grab /\ hand' = hand
    BY <1>9 DEF NpuWork
  <2> QED BY <2>2, <2>3, <2>4
<1>10. CASE NpuTest
  BY <1>10 DEF NpuTest
<1>11. ASSUME NEW g \in Grabbers, GrabLoop(g) PROVE FramesApart'
  BY <1>11 DEF GrabLoop
<1>12. ASSUME NEW g \in Grabbers, GrabGet(g) PROVE FramesApart'
  <2>1. CASE frames < MaxFrames /\ frames' = frames + 1 /\ hand' = [hand EXCEPT ![g] = frames + 1]
             /\ GrabGoto(g, "recv")
    <3>1. frames \in Nat /\ worked' = worked /\ input' = input
      BY <1>12 DEF GrabGet
    <3>2. worked' \subseteq 1..frames' /\ input' \in 0..frames'
      BY <2>1, <3>1
    <3>3. \A h \in Grabbers : hand'[h] = IF h = g THEN frames + 1 ELSE hand[h]
      BY <2>1
    <3>4. \A h \in Grabbers : OnItsWay(h)' => h = g \/ OnItsWay(h)
      BY <2>1
    <3>5. frames + 1 \in 1..frames' /\ frames + 1 \notin worked /\ frames + 1 # input
      BY <2>1, <3>1
    <3>6. \A h \in Grabbers : OnItsWay(h) => hand[h] \in 1..frames' /\ hand[h] # frames + 1
      BY <2>1, <3>1
    <3> HIDE DEF OnItsWay
    <3> QED BY <3>1, <3>2, <3>3, <3>4, <3>5, <3>6
  <2>2. CASE GrabGoto(g, "loop") /\ UNCHANGED <<hand, frames>>
    BY <1>12, <2>2 DEF GrabGet
  <2> QED BY <1>12, <2>1, <2>2 DEF GrabGet
<1>13. ASSUME NEW g \in Grabbers, GrabSend(g) PROVE FramesApart'
  BY <1>13 DEF GrabSend
<1>14. ASSUME NEW g \in Grabbers, RecvSave(g) PROVE FramesApart'
  <2>1. \A h \in Grabbers : OnItsWay(h)' => OnItsWay(h)
    BY <1>14 DEF RecvSave
  <2>2. UNCHANGED <<hand, frames, worked, input>>
    BY <1>14 DEF RecvSave
  <2> HIDE DEF OnItsWay
  <2> QED BY <2>1, <2>2
<1>15. ASSUME NEW g \in Grabbers, RecvCopy(g) PROVE FramesApart'
  BY <1>15 DEF RecvCopy
<1>16. ASSUME NEW g \in Grabbers, Recv(g) PROVE FramesApart'
  BY <1>16 DEF Recv
<1>17. CASE UNCHANGED vars
  BY <1>17 DEF vars
<1>18. CASE StorageDeinit
  BY <1>18 DEF StorageDeinit
<1>19. CASE ServerDeinit
  BY <1>19 DEF ServerDeinit
<1> QED
  BY <1>1, <1>2, <1>3, <1>4, <1>5, <1>6, <1>7, <1>8, <1>9, <1>10, <1>11,
     <1>12, <1>13, <1>14, <1>15, <1>16, <1>17, <1>18, <1>19 DEF Next, MainStep, Grab

LEMMA NextFresh ==
  ASSUME Slotted, [Next]_vars
  PROVE  SlotFresh'
<1> USE InferenceAssumption DEF Slotted, FramesApart, SlotFresh, OnItsWay, Locked, LockHeld, Typed, TypeOK,
         StartsInOrder, Grabbers, GrabGoto, StartGrab, slotVars, netVars, runVars
<1>1. CASE VideoInit
  BY <1>1 DEF VideoInit
<1>2. CASE RestartStop
  BY <1>2 DEF RestartStop
<1>3. CASE RestartStart
  BY <1>3 DEF RestartStart
<1>4. CASE NetworkExit
  BY <1>4 DEF NetworkExit
<1>5. CASE NetworkJoin
  BY <1>5 DEF NetworkJoin
<1>6. CASE NetworkFree
  BY <1>6 DEF NetworkFree
<1>7. CASE VideoDeinit
  BY <1>7 DEF VideoDeinit
<1>8. CASE NpuLock
  BY <1>8 DEF NpuLock
<1>9. CASE NpuWork
  BY <1>9 DEF NpuWork
<1>10. CASE NpuTest
  BY <1>10 DEF NpuTest
<1>11. ASSUME NEW g \in Grabbers, GrabLoop(g) PROVE SlotFresh'
  BY <1>11 DEF GrabLoop
<1>12. ASSUME NEW g \in Grabbers, GrabGet(g) PROVE SlotFresh'
  BY <1>12 DEF GrabGet
<1>13. ASSUME NEW g \in Grabbers, GrabSend(g) PROVE SlotFresh'
  BY <1>13 DEF GrabSend
<1>14. ASSUME NEW g \in Grabbers, RecvSave(g) PROVE SlotFresh'
  BY <1>14 DEF RecvSave
<1>15. ASSUME NEW g \in Grabbers, RecvCopy(g) PROVE SlotFresh'
  BY <1>15 DEF RecvCopy
<1>16. ASSUME NEW g \in Grabbers, Recv(g) PROVE SlotFresh'
  <2>1. CASE ~done /\ UNCHANGED <<lock, recv, done>>
    BY <1>16, <2>1 DEF Recv
  <2>2. CASE lock' = g
    <3>1. g \notin {Nobody, Npu}
      OBVIOUS
    <3> QED BY <2>2, <3>1
  <2> QED BY <1>16, <2>1, <2>2 DEF Recv
<1>17. CASE UNCHANGED vars
  BY <1>17 DEF vars
<1>18. CASE StorageDeinit
  BY <1>18 DEF StorageDeinit
<1>19. CASE ServerDeinit
  BY <1>19 DEF ServerDeinit
<1> QED
  BY <1>1, <1>2, <1>3, <1>4, <1>5, <1>6, <1>7, <1>8, <1>9, <1>10, <1>11,
     <1>12, <1>13, <1>14, <1>15, <1>16, <1>17, <1>18, <1>19 DEF Next, MainStep, Grab

LEMMA NextSlotted == ASSUME Slotted, [Next]_vars PROVE Slotted'
  BY NextLocked, NextApart, NextFresh DEF Slotted

\* What the network has of a frame.
SlotNow == IF recv /\ lock \in {Nobody, Npu} THEN input ELSE 0
SlotStep ==
  \/ SlotNow = 0 /\ SlotNow' \in Frames \ worked /\ worked' = worked
  \/ SlotNow # 0 /\ worked' = worked \cup {SlotNow} /\ SlotNow' = 0
  \/ SlotNow' = SlotNow /\ worked' = worked

LEMMA StepOfSlot ==
  ASSUME Slotted, Slotted', [Next]_vars
  PROVE  SlotStep
<1> USE InferenceAssumption DEF Slotted, SlotFresh, FramesApart, OnItsWay, Locked, LockHeld, Typed, TypeOK, Grabbers, Frames,
         GrabGoto, StartGrab, slotVars, netVars, runVars, SlotNow, SlotStep
<1>1. CASE VideoInit
  BY <1>1 DEF VideoInit
<1>2. CASE RestartStop
  BY <1>2 DEF RestartStop
<1>3. CASE RestartStart
  BY <1>3 DEF RestartStart
<1>4. CASE NetworkExit
  BY <1>4 DEF NetworkExit
<1>5. CASE NetworkJoin
  BY <1>5 DEF NetworkJoin
<1>6. CASE NetworkFree
  BY <1>6 DEF NetworkFree
<1>7. CASE VideoDeinit
  BY <1>7 DEF VideoDeinit
<1>8. CASE NpuLock
  BY <1>8 DEF NpuLock
<1>9. CASE NpuWork
  BY <1>9 DEF NpuWork
<1>10. CASE NpuTest
  BY <1>10 DEF NpuTest
<1>11. ASSUME NEW g \in Grabbers, GrabLoop(g) PROVE SlotStep
  BY <1>11 DEF GrabLoop
<1>12. ASSUME NEW g \in Grabbers, GrabGet(g) PROVE SlotStep
  BY <1>12 DEF GrabGet
<1>13. ASSUME NEW g \in Grabbers, GrabSend(g) PROVE SlotStep
  BY <1>13 DEF GrabSend
<1>14. ASSUME NEW g \in Grabbers, RecvSave(g) PROVE SlotStep
  BY <1>14 DEF RecvSave
<1>15. ASSUME NEW g \in Grabbers, RecvCopy(g) PROVE SlotStep
  BY <1>15 DEF RecvCopy
<1>16. ASSUME NEW g \in Grabbers, Recv(g) PROVE SlotStep
  BY <1>16 DEF Recv
<1>17. CASE UNCHANGED vars
  BY <1>17 DEF vars
<1>18. CASE StorageDeinit
  BY <1>18 DEF StorageDeinit
<1>19. CASE ServerDeinit
  BY <1>19 DEF ServerDeinit
<1> QED
  BY <1>1, <1>2, <1>3, <1>4, <1>5, <1>6, <1>7, <1>8, <1>9, <1>10, <1>11,
     <1>12, <1>13, <1>14, <1>15, <1>16, <1>17, <1>18, <1>19 DEF Next, MainStep, Grab

\* Every behaviour is one of the one-frame slot.
THEOREM ImplementsSlot == Spec => FrameSlotSpec
<1>1. Init => Slot!Init
  BY DEF Init, Slot!Init
<1>2. Slotted /\ Slotted' /\ [Next]_vars => [Slot!Next]_<<SlotNow, worked>>
  BY StepOfSlot DEF SlotStep, SlotNow, Slot!Next, Slot!Accept, Slot!Finish
<1> QED BY <1>1, <1>2, InitSlotted, NextSlotted, PTL DEF Spec, FrameSlotSpec, Slot!Spec, SlotNow
=============================================================================
