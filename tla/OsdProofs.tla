----------------------------- MODULE OsdProofs ------------------------------
(***************************************************************************)
(* Proofs about the on-screen display, for any number of clients, restarts *)
(* and failures.                                                           *)
(*                                                                         *)
(* The argument: who is past the lock of deinit or of init holds the mutex *)
(* (LockInv), so that two restarts are both under way only if one of them  *)
(* was between its halves when the other one took the mutex, which is what *)
(* "crossed" means.  Until then the pc of the one restart under way says   *)
(* what there is of threads, signal and callbacks (SafeInv).               *)
(***************************************************************************)
EXTENDS OsdProps, FiniteSetTheorems, TLAPS

Quiet(c) == pc[c] \in {"idle", "deinit"}
Dead(k)  == clock[k] \in {"none", "joined"}
Live     == {"create", "loop", "read", "wait", "change"}

\* Who is in the middle of deinit or init has the mutex.
LockInv == \A c \in Callers : pc[c] \in {"join", "gone", "make"} => mutex = c

\* A signal is there only with a thread to join, or one about to be made.
SignalInv ==
  /\ \A c \in Callers : pc[c] = "join" => signal
  /\ signal /\ "noclock" \notin cause =>
       (\E c \in Callers : pc[c] = "make") \/ (handle # 0 /\ ~Dead(handle))

\* Threads are made in the order of their numbers, one for a restart.
Pending == {c \in Callers : pc[c] # "idle"}
Made(n) == \A k \in Threads : clock[k] # "none" <=> k <= n
ThreadInv ==
  /\ IsFiniteSet(Pending)
  /\ restarts <= MaxRestarts
  /\ \E n \in 0..(MaxRestarts + 1) : Made(n) /\ n + Cardinality(Pending) <= restarts + 1

\* Until restarts cross.
SafeInv ==
  "crossed" \notin cause /\ why = {} =>
    /\ \A c, d \in Callers : ~Quiet(c) /\ ~Quiet(d) => c = d
    /\ ~regs => pc[Video] = "reg"
    /\ \A k \in Threads : ~Dead(k) => k = handle
    /\ \A c \in Callers :
         /\ pc[c] \in Between \cup {"gone", "make"} => \A k \in Threads : Dead(k)
         /\ pc[c] \in Between \cup {"gone"} => ~signal
         /\ pc[c] = "make" => signal
         /\ pc[c] \in {"unreg", "reg"} => c = Video
    /\ (\A c \in Callers : Quiet(c)) /\ ~signal => mutex # Nobody

\* Until anything happens that the display may suffer from.
KeptInv ==
  cause = {} /\ why = {} =>
    /\ \A c \in Callers : pc[c] \in Between \cup {"make"} => regions = {}
    /\ (\A c \in Callers : Quiet(c)) =>
         /\ handle # 0 /\ clock[handle] \in Live
         /\ run /\ signal
         /\ regions = {"text"} \cup (IF clock[handle] = "create" THEN {} ELSE {"clock"})

OsdInv == TypeOK /\ LockInv /\ SignalInv /\ ThreadInv /\ SafeInv /\ KeptInv /\ OsdSafe
-----------------------------------------------------------------------------
\* The thread that is made next.
LEMMA NextNumber ==
  ASSUME TypeOK, ThreadInv, NEW c \in Callers, pc[c] # "idle",
         NEW n \in 0..(MaxRestarts + 1), Made(n), n + Cardinality(Pending) <= restarts + 1
  PROVE  /\ NewThread = n + 1 /\ NewThread \in Threads
         /\ clock[NewThread] = "none"
         /\ Cardinality(Pending) \in Nat /\ Cardinality(Pending) >= 1
<1>1. c \in Pending /\ IsFiniteSet(Pending) /\ Pending # {}
  BY DEF Pending, ThreadInv
<1>2. Cardinality(Pending) \in Nat /\ Cardinality(Pending) # 0
  BY <1>1, FS_CardinalityType, FS_EmptySet
<1>3. n + 1 \in Threads /\ clock[n + 1] = "none" /\ \A j \in Threads : j < n + 1 => clock[j] # "none"
  BY <1>2, OsdAssumption DEF Threads, Made, ThreadInv, TypeOK
<1>4. \A k \in Threads : clock[k] = "none" /\ (\A j \in Threads : j < k => clock[j] # "none") => k = n + 1
  BY <1>3, OsdAssumption DEF Threads, Made
<1> QED BY <1>2, <1>3, <1>4 DEF NewThread

LEMMA NewThreadFree ==
  ASSUME TypeOK, ThreadInv, NEW c \in Callers, pc[c] # "idle"
  PROVE  NewThread \in Threads /\ clock[NewThread] = "none"
<1> PICK n \in 0..(MaxRestarts + 1) : Made(n) /\ n + Cardinality(Pending) <= restarts + 1
  BY DEF ThreadInv
<1> QED BY NextNumber

LEMMA NextTyped ==
  ASSUME TypeOK, ThreadInv, [Next]_vars
  PROVE  TypeOK'
<1> USE OsdAssumption DEF TypeOK, ClockPc, CallerPc
<1>1. ASSUME NEW c \in Callers, Deinit(c) \/ Signal(c) \/ Join(c) \/ Gone(c) \/ Restart(c)
      PROVE  TypeOK'
  <2>1. CASE Deinit(c)
    BY <2>1 DEF Deinit, Goto, Between, threadVars, boundVars
  <2>2. CASE Signal(c)
    <3>1. mutex' \in Callers \cup {Nobody} /\ why' \in SUBSET {"nothread", "freed", "null"}
      BY <2>2 DEF Signal
    <3>2. pc' \in [Callers -> CallerPc] /\ signal' \in BOOLEAN /\ up' \in BOOLEAN
      BY <2>2 DEF Signal, Goto
    <3>3. cause' \in SUBSET {"crossed", "noclock", "signal"}
      BY <2>2 DEF Signal
    <3>5. fails' \in Nat
      BY <2>2 DEF Signal
    <3>4. UNCHANGED <<threadVars, regs, enabled, regions, restarts, toggles>>
      BY <2>2 DEF Signal
    <3> QED BY <3>1, <3>2, <3>3, <3>4, <3>5 DEF threadVars
  <2>3. CASE Join(c)
    BY <2>3 DEF Join, Goto, boundVars
  <2>4. CASE Gone(c)
    BY <2>4 DEF Gone, Goto, threadVars, boundVars
  <2>5. CASE Restart(c)
    BY <2>5 DEF Restart, Goto, threadVars
  <2> QED BY <1>1, <2>1, <2>2, <2>3, <2>4, <2>5
<1>2. ASSUME NEW c \in Callers, Make(c) PROVE TypeOK'
  <2>1. NewThread \in Threads
    BY <1>2, NewThreadFree DEF Make
  <2>2. clock' \in [Threads -> ClockPc] /\ handle' \in {0} \cup Threads
    BY <1>2, <2>1 DEF Make, threadVars
  <2>3. run' \in BOOLEAN
    BY <1>2, ZenonT(30) DEF Make, threadVars
  <2>4. cause' \in SUBSET {"crossed", "noclock", "signal"} /\ fails' \in Nat
    <3>1. /\ cause' = cause \/ cause' = cause \cup {"noclock"}
          /\ fails' = fails \/ fails' = fails + 1
      BY <1>2, ZenonT(30) DEF Make, threadVars
    <3>2. fails' \in Nat
      BY <3>1
    <3>3. cause' \subseteq {"crossed", "noclock", "signal"}
      BY <3>1
    <3> QED BY <3>2, <3>3
  <2>5. regions' \in SUBSET {"text", "clock"} /\ why' \in SUBSET {"nothread", "freed", "null"}
    BY <1>2 DEF Make, Created
  <2>6. pc' \in [Callers -> CallerPc] /\ mutex' \in Callers \cup {Nobody} /\ up' \in BOOLEAN
    BY <1>2 DEF Make, Goto
  <2>7. UNCHANGED <<signal, regs, enabled, restarts, toggles>>
    BY <1>2 DEF Make
  <2> QED BY <2>2, <2>3, <2>4, <2>5, <2>6, <2>7
<1>3. CASE Unregister \/ Register
  BY <1>3 DEF Unregister, Register, Goto, threadVars, boundVars, Callers
<1>4. CASE SetEnabled
  BY <1>4 DEF SetEnabled, threadVars
<1>5. ASSUME NEW k \in Threads, Clock(k) PROVE TypeOK'
  BY <1>5 DEF Clock, ClockCreate, ClockLoop, ClockRead, ClockWait, ClockChange, ClockGoto,
     ClockUnchanged, Created, boundVars
<1>6. CASE UNCHANGED vars
  BY <1>6 DEF vars, threadVars, boundVars
<1> QED BY <1>1, <1>2, <1>3, <1>4, <1>5, <1>6 DEF Next, Caller

\* Where the steps of a caller lead, and what they leave alone.
LEMMA CallerMoves ==
  ASSUME TypeOK, NEW c \in Callers,
         Deinit(c) \/ Signal(c) \/ Caller(c) \/ Restart(c)
           \/ (c = Video /\ (Unregister \/ Register))
  PROVE  \E l \in CallerPc :
           /\ pc' = [pc EXCEPT ![c] = l]
           /\ \/ pc[c] = "deinit" /\ l \in {"join", "gone"} /\ mutex = Nobody /\ mutex' = c
              \/ pc[c] = "join" /\ l = "gone" /\ mutex' = mutex
              \/ pc[c] = "gone" /\ l \in {"unreg", "init"} /\ mutex' = Nobody
              \/ pc[c] = "unreg" /\ l = "reg" /\ mutex' = mutex
              \/ pc[c] = "reg" /\ l = "init" /\ mutex' = mutex
              \/ pc[c] = "init" /\ l \in {"make", "idle"} /\ mutex = Nobody /\ mutex' = c
              \/ pc[c] = "make" /\ l = "idle" /\ mutex' = Nobody
              \/ pc[c] = "idle" /\ l = "deinit" /\ mutex' = mutex
BY DEF Deinit, Signal, Caller, Join, Gone, Make, Restart, Unregister, Register, Goto, CallerPc

LEMMA OthersKeep ==
  SetEnabled \/ (\E k \in Threads : Clock(k)) \/ UNCHANGED vars => UNCHANGED <<mutex, pc>>
BY DEF SetEnabled, Clock, ClockCreate, ClockLoop, ClockRead, ClockWait, ClockChange,
   ClockUnchanged, vars

LEMMA NextLock ==
  ASSUME TypeOK, LockInv, [Next]_vars
  PROVE  LockInv'
<1>1. ASSUME NEW c \in Callers,
             Deinit(c) \/ Signal(c) \/ Caller(c) \/ Restart(c)
               \/ (c = Video /\ (Unregister \/ Register))
      PROVE  LockInv'
  BY <1>1, CallerMoves, OsdAssumption DEF LockInv, TypeOK
<1> QED BY <1>1, OthersKeep DEF Next, LockInv, Callers

\* The steps of a clock thread.
LEMMA ClockMoves ==
  ASSUME TypeOK, NEW k \in Threads, Clock(k)
  PROVE  /\ UNCHANGED <<mutex, signal, run, handle, regs, enabled, pc, up, cause, boundVars>>
         /\ \E l \in Live \cup {"ended"} :
              /\ clock[k] \in Live /\ clock' = [clock EXCEPT ![k] = l]
              /\ l = "ended" => ~run
              /\ l # "create"
              /\ regions' = IF clock[k] = "create" /\ regs THEN Created("clock") ELSE regions
         /\ why' = why \/ (~regs /\ why' = why \cup {"null"})
<1>1. CASE ClockCreate(k)
  BY <1>1 DEF ClockCreate, ClockGoto, ClockUnchanged, Live
<1>2. CASE ClockLoop(k)
  BY <1>2 DEF ClockLoop, ClockGoto, ClockUnchanged, Live
<1>3. CASE ClockRead(k)
  BY <1>3 DEF ClockRead, ClockGoto, ClockUnchanged, Live
<1>4. CASE ClockWait(k)
  BY <1>4 DEF ClockWait, ClockGoto, ClockUnchanged, Live
<1>5. CASE ClockChange(k)
  BY <1>5 DEF ClockChange, ClockGoto, ClockUnchanged, Live, TypeOK
<1> QED BY <1>1, <1>2, <1>3, <1>4, <1>5 DEF Clock

LEMMA NextSignal ==
  ASSUME TypeOK, LockInv, ThreadInv, SignalInv, [Next]_vars
  PROVE  SignalInv'
<1> USE DEF SignalInv, Dead
<1>1. ASSUME NEW c \in Callers, Deinit(c) PROVE SignalInv'
  BY <1>1 DEF Deinit, Goto, TypeOK, LockInv, threadVars
<1>2. ASSUME NEW c \in Callers, Signal(c) PROVE SignalInv'
  <2>1. \A d \in Callers : pc'[d] # "join"
    BY <1>2, OsdAssumption DEF Signal, Goto, TypeOK, LockInv
  <2>2. signal' => pc'[c] = "make"
    BY <1>2 DEF Signal, Goto, TypeOK
  <2> QED BY <2>1, <2>2
<1>3. ASSUME NEW c \in Callers, Join(c) PROVE SignalInv'
  <2>1. \A d \in Callers : pc[d] \notin {"join", "gone", "make"} \/ d = c
    BY <1>3 DEF Join, LockInv
  <2>2. \A d \in Callers : pc'[d] # "join"
    BY <1>3, <2>1 DEF Join, Goto, TypeOK
  <2>3. signal' => "noclock" \in cause /\ cause' = cause
    BY <1>3, <2>1 DEF Join
  <2> QED BY <2>2, <2>3
<1>4. ASSUME NEW c \in Callers, Gone(c) PROVE SignalInv'
  BY <1>4 DEF Gone, Goto, TypeOK, LockInv, threadVars
<1>5. ASSUME NEW c \in Callers, Make(c) PROVE SignalInv'
  <2>1. \A d \in Callers : pc'[d] # "join"
    BY <1>5, OsdAssumption DEF Make, Goto, TypeOK, LockInv
  <2>2. NewThread \in Threads /\ NewThread # 0
    BY <1>5, NewThreadFree, OsdAssumption DEF Make, Threads
  <2>3. "noclock" \notin cause' => handle' = NewThread /\ clock'[NewThread] = "create"
    BY <1>5, <2>2 DEF Make, TypeOK
  <2> QED BY <2>1, <2>2, <2>3
<1>6. ASSUME NEW c \in Callers, Restart(c) PROVE SignalInv'
  BY <1>6 DEF Restart, Goto, TypeOK, threadVars
<1>7. CASE Unregister \/ Register
  BY <1>7 DEF Unregister, Register, Goto, TypeOK, threadVars, Callers
<1>8. CASE SetEnabled \/ UNCHANGED vars
  BY <1>8 DEF SetEnabled, vars, threadVars
<1>9. ASSUME NEW k \in Threads, Clock(k) PROVE SignalInv'
  BY <1>9, ClockMoves DEF TypeOK, Live
<1> QED BY <1>1, <1>2, <1>3, <1>4, <1>5, <1>6, <1>7, <1>8, <1>9 DEF Next, Caller

LEMMA NextThread ==
  ASSUME TypeOK, ThreadInv, [Next]_vars
  PROVE  ThreadInv'
<1> PICK n \in 0..(MaxRestarts + 1) : Made(n) /\ n + Cardinality(Pending) <= restarts + 1
  BY DEF ThreadInv
<1>0. IsFiniteSet(Pending) /\ restarts <= MaxRestarts /\ restarts \in Nat /\ MaxRestarts \in Nat
      /\ Cardinality(Pending) \in Nat
  BY FS_CardinalityType, OsdAssumption DEF ThreadInv, TypeOK
<1>1. ASSUME NEW c \in Callers, Restart(c) PROVE ThreadInv'
  <2>1. Pending' = Pending \cup {c} /\ c \notin Pending
    BY <1>1 DEF Restart, Goto, Pending, TypeOK
  <2>2. IsFiniteSet(Pending') /\ Cardinality(Pending') = Cardinality(Pending) + 1
    BY <1>0, <2>1, FS_AddElement
  <2>3. Made(n)' /\ restarts' = restarts + 1 /\ restarts' <= MaxRestarts
    BY <1>0, <1>1 DEF Restart, Made, threadVars
  <2>4. n + Cardinality(Pending') <= restarts' + 1
    BY <1>0, <2>2, <2>3
  <2> QED BY <2>2, <2>3, <2>4 DEF ThreadInv
<1>2. ASSUME NEW c \in Callers, Make(c) PROVE ThreadInv'
  <2>0. pc[c] # "idle"
    BY <1>2 DEF Make
  <2>1. NewThread = n + 1 /\ NewThread \in Threads /\ Cardinality(Pending) >= 1
    BY <2>0, NextNumber
  <2>2. Pending' = Pending \ {c} /\ c \in Pending
    BY <1>2 DEF Make, Goto, Pending, TypeOK
  <2>3. IsFiniteSet(Pending') /\ Cardinality(Pending') = Cardinality(Pending) - 1
    BY <1>0, <2>2, FS_RemoveElement
  <2>4. UNCHANGED restarts
    BY <1>2 DEF Make, boundVars
  <2>5. CASE clock' = [clock EXCEPT ![NewThread] = "create"]
    <3>1. Made(n + 1)'
      BY <2>1, <2>5 DEF Made, TypeOK, Threads
    <3>2. n + 1 \in 0..(MaxRestarts + 1) /\ n + 1 + Cardinality(Pending') <= restarts' + 1
      BY <1>0, <2>1, <2>3, <2>4
    <3> QED BY <1>0, <2>3, <2>4, <3>1, <3>2 DEF ThreadInv
  <2>6. CASE clock' = clock
    <3>1. Made(n)' /\ n + Cardinality(Pending') <= restarts' + 1
      BY <1>0, <2>3, <2>4, <2>6 DEF Made
    <3> QED BY <1>0, <2>3, <2>4, <3>1 DEF ThreadInv
  <2> QED BY <1>2, <2>5, <2>6 DEF Make, threadVars
<1>3. ASSUME NEW c \in Callers, Signal(c) PROVE ThreadInv'
  <2>1. Made(n)' /\ UNCHANGED restarts
    BY <1>3 DEF Signal, Made, threadVars
  <2>2. Pending' = Pending \/ (c \in Pending /\ Pending' = Pending \ {c})
    BY <1>3 DEF Signal, Goto, Pending, TypeOK
  <2>3. IsFiniteSet(Pending') /\ Cardinality(Pending') \in Nat
        /\ Cardinality(Pending') <= Cardinality(Pending)
    <3>1. CASE Pending' = Pending
      BY <1>0, <3>1
    <3>2. CASE c \in Pending /\ Pending' = Pending \ {c}
      <4>1. IsFiniteSet(Pending') /\ Cardinality(Pending') = Cardinality(Pending) - 1
        BY <1>0, <3>2, FS_RemoveElement
      <4> QED BY <1>0, <4>1, FS_CardinalityType
    <3> QED BY <2>2, <3>1, <3>2
  <2>4. n + Cardinality(Pending') <= restarts' + 1
    BY <1>0, <2>1, <2>3
  <2> QED BY <1>0, <2>1, <2>3, <2>4 DEF ThreadInv
<1>4. CASE Pending' = Pending /\ UNCHANGED restarts /\ Made(n)'
  BY <1>0, <1>4 DEF ThreadInv
<1>5. ASSUME NEW c \in Callers, Deinit(c) \/ Join(c) \/ Gone(c)
      PROVE  Pending' = Pending /\ UNCHANGED restarts /\ Made(n)'
  BY <1>5 DEF Deinit, Join, Gone, Goto, Pending, Made, TypeOK, threadVars, boundVars
<1>6. ASSUME Unregister \/ Register \/ SetEnabled \/ UNCHANGED vars
      PROVE  Pending' = Pending /\ UNCHANGED restarts /\ Made(n)'
  BY <1>6 DEF Unregister, Register, SetEnabled, vars, Goto, Pending, Made, TypeOK, threadVars, boundVars
<1>7. ASSUME NEW k \in Threads, Clock(k)
      PROVE  Pending' = Pending /\ UNCHANGED restarts /\ Made(n)'
  BY <1>7, ClockMoves DEF Pending, Made, TypeOK, Live, boundVars
<1> QED BY <1>1, <1>2, <1>3, <1>4, <1>5, <1>6, <1>7 DEF Next, Caller

\* Causes and undefined behaviour are not taken back.
LEMMA WasSafe ==
  ASSUME TypeOK, [Next]_vars, why' = {}
  PROVE  why = {} /\ cause \subseteq cause'
<1>1. ASSUME NEW c \in Callers, Deinit(c) \/ Signal(c) \/ Caller(c) \/ Restart(c)
      PROVE  cause \subseteq cause'
  BY <1>1 DEF Deinit, Signal, Caller, Join, Gone, Make, Restart
<1>2. CASE Unregister \/ Register \/ SetEnabled \/ UNCHANGED vars
  BY <1>2 DEF Unregister, Register, SetEnabled, vars
<1>3. ASSUME NEW k \in Threads, Clock(k) PROVE cause \subseteq cause'
  BY <1>3, ClockMoves
<1> QED BY <1>1, <1>2, <1>3 DEF Next, vars

LEMMA NextSafe ==
  ASSUME TypeOK, LockInv, SignalInv, ThreadInv, SafeInv, [Next]_vars
  PROVE  SafeInv'
<1> SUFFICES ASSUME "crossed" \notin cause', why' = {} PROVE SafeInv'
  BY DEF SafeInv
<1>0. "crossed" \notin cause /\ why = {}
  BY WasSafe
<1> USE <1>0 DEF SafeInv, Quiet, Dead, Between
<1>1. ASSUME NEW c \in Callers, Deinit(c) PROVE SafeInv'
  <2>1. \A d \in Callers : Quiet(d)
    BY <1>1, OsdAssumption DEF Deinit, TypeOK, CallerPc, LockInv
  <2>2. signal /\ pc' = [pc EXCEPT ![c] = "join"] /\ UNCHANGED <<signal, clock, handle, regs>>
    BY <1>1, <2>1 DEF Deinit, Goto
  <2> QED BY <2>1, <2>2, OsdAssumption DEF TypeOK, Callers
<1>2. ASSUME NEW c \in Callers, Signal(c) PROVE SafeInv'
  <2>1. \A d \in Callers : d # c => Quiet(d)
    BY <1>2 DEF Signal
  <2>2. UNCHANGED <<clock, handle, regs>> /\ regs
    BY <1>2, OsdAssumption DEF Signal, threadVars, Callers
  <2>3. mutex' # Nobody
    BY <1>2, OsdAssumption DEF Signal
  <2>4. \A k \in Threads : Dead(k)
    BY <1>2 DEF Signal
  <2>5. \/ signal' /\ pc' = [pc EXCEPT ![c] = "make"]
        \/ pc' = [pc EXCEPT ![c] = "idle"]
    BY <1>2 DEF Signal, Goto
  <2> QED BY <2>1, <2>2, <2>3, <2>4, <2>5 DEF TypeOK
<1>3. ASSUME NEW c \in Callers, Join(c) PROVE SafeInv'
  <2>1. /\ handle # 0 /\ clock' = [clock EXCEPT ![handle] = "joined"]
        /\ ~signal' /\ UNCHANGED <<regs, handle>>
        /\ pc[c] = "join" /\ pc' = [pc EXCEPT ![c] = "gone"]
    BY <1>3 DEF Join, Goto
  <2>2. \A k \in Threads : clock'[k] \in {"none", "joined"}
    BY <2>1 DEF TypeOK
  <2> QED BY <2>1, <2>2 DEF TypeOK
<1>4. ASSUME NEW c \in Callers, Gone(c) PROVE SafeInv'
  <2>1. UNCHANGED <<signal, clock, handle, regs>> /\ regs /\ pc[c] = "gone"
    BY <1>4 DEF Gone, threadVars
  <2>2. \E l \in {"unreg", "init"} : pc' = [pc EXCEPT ![c] = l] /\ (l = "unreg" => c = Video)
    BY <1>4 DEF Gone, Goto
  <2> QED BY <2>1, <2>2 DEF TypeOK
<1>5. ASSUME NEW c \in Callers, Make(c) PROVE SafeInv'
  <2>1. /\ UNCHANGED <<signal, regs>> /\ regs /\ pc[c] = "make"
        /\ pc' = [pc EXCEPT ![c] = "idle"]
    BY <1>5 DEF Make, Goto
  <2>2. NewThread \in Threads
    BY <2>1, NewThreadFree
  <2>3. \A k \in Threads : clock'[k] \notin {"none", "joined"} => k = handle'
    BY <1>5, <2>1, <2>2 DEF Make, TypeOK, threadVars
  <2> QED BY <2>1, <2>3 DEF TypeOK
<1>6. ASSUME NEW c \in Callers, Restart(c) PROVE SafeInv'
  BY <1>6 DEF Restart, Goto, TypeOK, threadVars
<1>7. CASE Unregister \/ Register
  BY <1>7 DEF Unregister, Register, Goto, TypeOK, threadVars, Callers
<1>8. CASE SetEnabled \/ UNCHANGED vars
  BY <1>8 DEF SetEnabled, vars, threadVars
<1>9. ASSUME NEW k \in Threads, Clock(k) PROVE SafeInv'
  <2>1. /\ UNCHANGED <<mutex, signal, handle, regs, pc>> /\ clock[k] \in Live
        /\ \E l \in Live \cup {"ended"} : clock' = [clock EXCEPT ![k] = l]
    BY <1>9, ClockMoves
  <2>2. ~Dead(k) /\ k = handle
    BY <2>1 DEF Live
  <2> QED BY <2>1, <2>2 DEF TypeOK
<1> QED BY <1>1, <1>2, <1>3, <1>4, <1>5, <1>6, <1>7, <1>8, <1>9 DEF Next, Caller

LEMMA NextKept ==
  ASSUME TypeOK, LockInv, SignalInv, ThreadInv, SafeInv, KeptInv, [Next]_vars
  PROVE  KeptInv'
<1> SUFFICES ASSUME cause' = {}, why' = {} PROVE KeptInv'
  BY DEF KeptInv
<1>0. cause = {} /\ why = {}
  BY WasSafe
<1> USE <1>0 DEF KeptInv, Quiet, Between
<1>1. ASSUME NEW c \in Callers, Deinit(c) PROVE KeptInv'
  BY <1>1 DEF Deinit, Goto, TypeOK
<1>2. ASSUME NEW c \in Callers, Signal(c) PROVE KeptInv'
  <2>1. pc' = [pc EXCEPT ![c] = "make"] /\ pc[c] = "init" /\ UNCHANGED regions
    BY <1>2 DEF Signal, Goto
  <2> QED BY <2>1 DEF TypeOK
<1>3. ASSUME NEW c \in Callers, Join(c) PROVE KeptInv'
  BY <1>3 DEF Join, Goto, TypeOK
<1>4. ASSUME NEW c \in Callers, Gone(c) PROVE KeptInv'
  <2>1. regions' = {} /\ (pc' = [pc EXCEPT ![c] = "unreg"] \/ pc' = [pc EXCEPT ![c] = "init"])
    BY <1>4 DEF Gone, Goto
  <2> QED BY <2>1 DEF TypeOK
<1>5. ASSUME NEW c \in Callers, Make(c) PROVE KeptInv'
  <2>1. regs /\ regions' = {"text"} /\ pc[c] = "make" /\ pc' = [pc EXCEPT ![c] = "idle"]
    BY <1>5 DEF Make, Goto, Created
  <2>2. NewThread \in Threads /\ NewThread # 0
    BY <2>1, NewThreadFree, OsdAssumption DEF Threads
  <2>3. /\ clock' = [clock EXCEPT ![NewThread] = "create"] /\ handle' = NewThread
        /\ run' /\ signal'
    BY <1>5 DEF Make, SafeInv
  <2>4. clock'[handle'] = "create"
    BY <2>2, <2>3 DEF TypeOK
  <2>5. \A d \in Callers : pc'[d] \notin {"unreg", "reg", "init", "make"}
    BY <2>1 DEF SafeInv, TypeOK
  <2> QED BY <2>1, <2>2, <2>3, <2>4, <2>5 DEF Live
<1>6. ASSUME NEW c \in Callers, Restart(c) PROVE KeptInv'
  BY <1>6 DEF Restart, Goto, TypeOK, threadVars
<1>7. CASE Unregister \/ Register
  BY <1>7 DEF Unregister, Register, Goto, TypeOK, Callers
<1>8. CASE SetEnabled \/ UNCHANGED vars
  BY <1>8 DEF SetEnabled, vars, threadVars
<1>9. ASSUME NEW k \in Threads, Clock(k) PROVE KeptInv'
  <2>1. PICK l \in Live \cup {"ended"} :
          /\ UNCHANGED <<signal, run, handle, regs, pc>>
          /\ clock[k] \in Live /\ clock' = [clock EXCEPT ![k] = l]
          /\ l = "ended" => ~run
          /\ l # "create"
          /\ regions' = IF clock[k] = "create" /\ regs THEN Created("clock") ELSE regions
    BY <1>9, ClockMoves
  <2>2. k = handle /\ \A c \in Callers : pc[c] \notin Between \cup {"gone", "make"}
    BY <2>1 DEF SafeInv, Dead, Live
  <2>3. regs
    BY <2>2, OsdAssumption DEF SafeInv, Callers
  <2>4. ASSUME \A c \in Callers : Quiet(c)
        PROVE  /\ clock'[handle] \in Live /\ clock'[handle] # "create"
               /\ regions' = {"text", "clock"}
    <3>1. l \in Live /\ clock'[handle] = l
      BY <2>1, <2>2, <2>4 DEF TypeOK
    <3>2. clock[k] = "create" => regions = {"text"}
      BY <2>2, <2>4
    <3>3. clock[k] # "create" => regions = {"text", "clock"}
      BY <2>2, <2>4
    <3> QED BY <2>1, <2>3, <3>1, <3>2, <3>3 DEF Created
  <2> QED BY <2>1, <2>2, <2>4
<1> QED BY <1>1, <1>2, <1>3, <1>4, <1>5, <1>6, <1>7, <1>8, <1>9 DEF Next, Caller

LEMMA NextOsdSafe ==
  ASSUME TypeOK, LockInv, SignalInv, ThreadInv, SafeInv, OsdSafe, [Next]_vars
  PROVE  OsdSafe'
<1>0. TypeOK'
  BY NextTyped
<1>1. CASE UNCHANGED vars
  BY <1>0, <1>1 DEF OsdSafe, vars
<1>2. CASE Next
  <2>0. why = {} /\ cause \subseteq {"crossed", "noclock", "signal"}
    BY <1>2 DEF Next, TypeOK
  <2>1. ASSUME NEW c \in Callers, Join(c) PROVE OsdSafe'
    <3>1. signal /\ (\A d \in Callers : pc[d] # "make")
      BY <2>1 DEF Join, SignalInv, LockInv
    <3>2. "nothread" \in why' => "noclock" \in cause'
      <4>1. "noclock" \notin cause => handle # 0 /\ clock[handle] \notin {"none", "joined"}
        BY <3>1 DEF SignalInv, Dead
      <4>2. cause' = cause /\ ("nothread" \in why' => handle = 0 \/ clock[handle] \in {"none", "joined"})
        BY <2>0, <2>1 DEF Join
      <4> QED BY <4>1, <4>2
    <3>3. "crossed" \notin cause => why' \cap {"freed", "null"} = {}
      <4>1. CASE why' = why \cup {"nothread"}
        BY <2>0, <4>1
      <4>2. CASE handle # 0 /\ clock[handle] = "ended" /\ why' = IF Waiting THEN why \cup {"freed"} ELSE why
        <5>1. "crossed" \notin cause => ~Waiting
          BY <2>0, <4>2 DEF SafeInv, Waiting, Dead
        <5> QED BY <2>0, <4>2, <5>1
      <4> QED BY <2>1, <4>1, <4>2 DEF Join
    <3> QED BY <1>0, <2>1, <3>2, <3>3 DEF OsdSafe, Join
  <2>2. ASSUME NEW c \in Callers, Signal(c) PROVE OsdSafe'
    <3>1. "crossed" \notin cause => why' = {}
      BY <2>0, <2>2 DEF Signal, SafeInv, Between
    <3>2. why' \subseteq {"freed"} /\ cause \subseteq cause'
      BY <2>0, <2>2 DEF Signal
    <3> QED BY <1>0, <3>1, <3>2 DEF OsdSafe
  <2>3. ASSUME NEW c \in Callers, Gone(c) \/ Make(c) PROVE OsdSafe'
    <3>1. "crossed" \notin cause => regs
      BY <2>0, <2>3, OsdAssumption DEF Gone, Make, SafeInv, Quiet, Callers
    <3>2. (why' = {} \/ (~regs /\ why' = {"null"})) /\ cause \subseteq cause'
      BY <2>0, <2>3 DEF Gone, Make
    <3> QED BY <1>0, <3>1, <3>2 DEF OsdSafe
  <2>4. ASSUME NEW k \in Threads, Clock(k) PROVE OsdSafe'
    <3>1. clock[k] \in Live /\ UNCHANGED cause /\ (why' = {} \/ (~regs /\ why' = {"null"}))
      BY <2>0, <2>4, ClockMoves
    <3>2. "crossed" \notin cause => regs
      BY <2>0, <3>1, OsdAssumption DEF SafeInv, Dead, Live, Between, Callers
    <3> QED BY <1>0, <3>1, <3>2 DEF OsdSafe
  <2>5. ASSUME NEW c \in Callers, Deinit(c) \/ Restart(c) PROVE why' = {}
    BY <2>0, <2>5 DEF Deinit, Restart
  <2>6. CASE Unregister \/ Register \/ SetEnabled
    BY <1>0, <2>0, <2>6 DEF Unregister, Register, SetEnabled, OsdSafe
  <2> QED BY <1>0, <1>2, <2>1, <2>2, <2>3, <2>4, <2>5, <2>6 DEF Next, Caller, OsdSafe
<1> QED BY <1>1, <1>2

THEOREM OsdInvariant == Spec => []OsdInv
<1>1. Init => OsdInv
  <2> SUFFICES ASSUME Init PROVE OsdInv
    OBVIOUS
  <2>1. TypeOK /\ OsdSafe
    BY OsdAssumption DEF Init, TypeOK, OsdSafe, ClockPc, CallerPc, Callers
  <2>2. LockInv /\ SignalInv
    BY DEF Init, LockInv, SignalInv
  <2>3. ThreadInv
    <3>1. Pending = {Video}
      BY DEF Init, Pending, Callers
    <3>2. IsFiniteSet(Pending) /\ Cardinality(Pending) = 1
      BY <3>1, FS_Singleton
    <3>3. Made(0) /\ 0 \in 0..(MaxRestarts + 1) /\ restarts = 0
      BY OsdAssumption DEF Init, Made, Threads
    <3> QED BY <3>2, <3>3, OsdAssumption DEF ThreadInv
  <2>4. SafeInv
    BY OsdAssumption DEF Init, SafeInv, Quiet, Dead, Between, Callers
  <2>5. KeptInv
    BY OsdAssumption DEF Init, KeptInv, Quiet, Between, Callers
  <2> QED BY <2>1, <2>2, <2>3, <2>4, <2>5 DEF OsdInv
<1>2. OsdInv /\ [Next]_vars => OsdInv'
  BY NextTyped, NextLock, NextSignal, NextThread, NextSafe, NextKept, NextOsdSafe DEF OsdInv
<1> QED BY <1>1, <1>2, PTL DEF Spec

\* The types, and: a join without its thread follows an init with the clock
\* switched off; a freed signal and a missing callback follow crossed restarts.
THEOREM OsdIsSafe == Spec => []OsdSafe
<1>1. OsdInv => OsdSafe
  BY DEF OsdInv
<1> QED BY <1>1, OsdInvariant, PTL

\* Between restarts one thread keeps the clock in the region that is there, and
\* none while a restart is between its halves.
THEOREM ClockIsKept == Spec => []ClockKept
<1>1. ASSUME OsdInv PROVE ClockKept
  <2> SUFFICES ASSUME cause = {}, why = {},
                      \A c \in Callers : pc[c] \in {"idle", "deinit"} \cup Between
               PROVE  \/ (\E c \in Callers : pc[c] \in Between) /\ Running = {} /\ regions = {} /\ ~signal
                      \/ \E k \in Running :
                           /\ Running = {k} /\ handle = k /\ run /\ signal
                           /\ regions = {"text"} \cup (IF clock[k] = "create" THEN {} ELSE {"clock"})
    BY DEF ClockKept
  <2>1. Running \subseteq {k \in Threads : ~Dead(k)}
    BY DEF Running, Dead
  <2>2. CASE \E c \in Callers : pc[c] \in Between
    BY <1>1, <2>1, <2>2 DEF OsdInv, SafeInv, KeptInv
  <2>3. CASE \A c \in Callers : Quiet(c)
    <3>1. /\ handle # 0 /\ clock[handle] \in Live /\ run /\ signal
          /\ regions = {"text"} \cup (IF clock[handle] = "create" THEN {} ELSE {"clock"})
      BY <1>1, <2>3 DEF OsdInv, KeptInv
    <3>2. handle \in Threads /\ Running = {handle}
      BY <1>1, <2>1, <3>1 DEF OsdInv, SafeInv, TypeOK, Running, Live
    <3> QED BY <3>1, <3>2
  <2> QED BY <2>2, <2>3 DEF Quiet
<1> QED BY <1>1, OsdInvariant, PTL
=============================================================================
