------------------------- MODULE RecordingProofs ---------------------------
(***************************************************************************)
(* Proofs about what makes recordings and what makes room for them.        *)
(*                                                                         *)
(* The recorder, for any number of clients, whether they record or         *)
(* restart: the signal outlives the record thread, the thread does not     *)
(* sleep through a deinit, and deinit closes its file.  The argument needs *)
(* that one caller at a time is inside init or deinit (Solo); where two    *)
(* are, the model ends.                                                    *)
(*                                                                         *)
(* The cleaning pass, for every capacity, every pair of marks, every width *)
(* of its numbers and every three quotas that leave three percent of       *)
(* slack.  Rounding a share down loses less than one percent, so if no     *)
(* folder is over its quota the three shares add up to less than 97 + 3    *)
(* percent of the sum they were taken from (NotAllWithinQuota).  Where     *)
(* nothing overflows, the code computes these shares (OffTFits,            *)
(* QuotientFits).  The pass looks at the folders later than it summed them *)
(* up; the invariant PassInv records that, without foreign deletions, they *)
(* have only grown.                                                        *)
(***************************************************************************)
EXTENDS RecorderProps, QuotaPass, TLAPS

\* One caller at a time is inside init or deinit.
Solo == \A c, d \in Callers : Inside(c) /\ Inside(d) => c = d

\* The record thread has its signal, and only if recording is enabled: else
\* deinit would pass it by.  Without the handle there is neither.
ThreadHasSignal ==
  /\ ~Threadless => signal # NoSignal
  /\ signal # NoSignal => enable
  /\ ~handle => Threadless /\ signal = NoSignal
  /\ stale => Threadless

\* Init makes the signal before the thread, of which there is none yet, and
\* deinit keeps the signal until it has joined the thread.
PhaseHasSignal ==
  \A c \in Callers :
    /\ callPc[c] \in {"muxer", "run", "thread", "destroy", "manager_deinit"} => Threadless
    /\ callPc[c] \in {"muxer", "run", "thread"} => handle
    /\ callPc[c] \in {"run", "thread", "give", "join", "destroy"} => signal # NoSignal
    /\ callPc[c] = "manager_deinit" => signal = NoSignal

\* With run cleared and no start since, a thread that is past its loop check
\* has the give ahead of it.
GiveIsAhead ==
  \A c \in Callers :
    /\ callPc[c] \in {"give", "join"} /\ ~started => run = 0
    /\ callPc[c] = "join" /\ ~started /\ recPc \in {"close", "open", "wait"} => signal = 1

IInv == /\ TypeOK /\ Solo /\ ThreadHasSignal /\ PhaseHasSignal /\ GiveIsAhead
        /\ DeinitClosesUnless

USE DEF NoSignal, Threadless, Inside, Initialising, Finishing

\* The initial states are typed and have no thread, no signal and no file.
LEMMA InitIInv == Init => IInv
<1> SUFFICES ASSUME Init PROVE IInv
  OBVIOUS
<1>1. TypeOK
  BY DEF Init, TypeOK
<1>2. Solo /\ ThreadHasSignal /\ PhaseHasSignal /\ GiveIsAhead /\ DeinitClosesUnless
  BY DEF Init, Solo, ThreadHasSignal, PhaseHasSignal, GiveIsAhead, DeinitClosesUnless
<1> QED BY <1>1, <1>2 DEF IInv

\* A step of a caller moves that caller alone.
LEMMA Moved ==
  ASSUME TypeOK, NEW c \in Callers, NEW from, NEW to, At(c, from, to)
  PROVE  /\ callPc[c] = from /\ callPc'[c] = to
         /\ \A d \in Callers \ {c} : callPc'[d] = callPc[d]
BY DEF At, TypeOK

\* Every step keeps the types.
LEMMA NextTypeOK == TypeOK /\ [Next]_vars => TypeOK'
<1> SUFFICES ASSUME TypeOK, [Next]_vars PROVE TypeOK'
  OBVIOUS
<1> USE DEF TypeOK, history, shared
<1>1. ASSUME NEW c \in Callers, Startup(c) PROVE TypeOK'
  <2>1. CASE InitEnter(c)
    BY <2>1 DEF InitEnter, At
  <2>2. CASE InitManager(c)
    <3>1. handle' \in BOOLEAN
      BY <2>2, Zenon DEF InitManager
    <3> QED BY <2>2, <3>1 DEF InitManager, At, Returned
  <2>3. CASE InitMuxer(c)
    BY <2>3 DEF InitMuxer, At, Returned, NewSignal
  <2>4. CASE InitRun(c)
    BY <2>4 DEF InitRun, At
  <2>5. CASE InitThread(c)
    <3>1. stale' \in BOOLEAN
      BY <2>5, Zenon DEF InitThread
    <3> QED BY <2>5, <3>1 DEF InitThread, At, Returned
  <2> QED BY <1>1, <2>1, <2>2, <2>3, <2>4, <2>5 DEF Startup
<1>2. ASSUME NEW c \in Callers, Deinit(c) \/ Cross(c) PROVE TypeOK'
  <2>1. CASE DeinitStop(c)
    BY <2>1 DEF DeinitStop, At, AfterStop
  <2>2. CASE Give(c)
    BY <2>2 DEF Give, At
  <2>3. CASE Join(c)
    BY <2>3 DEF Join, At
  <2>4. CASE JoinStale(c)
    BY <2>4 DEF JoinStale, At
  <2>5. CASE Destroy(c)
    BY <2>5 DEF Destroy, At
  <2>6. CASE DeinitManager(c)
    <3>1. handle' \in BOOLEAN
      BY <2>6, Zenon DEF DeinitManager
    <3> QED BY <2>6, <3>1 DEF DeinitManager, At
  <2>7. CASE Cross(c)
    BY <2>7 DEF Cross
  <2> QED BY <1>2, <2>1, <2>2, <2>3, <2>4, <2>5, <2>6, <2>7 DEF Deinit, Shutdown
<1>3. CASE Record
  <2>1. CASE RecLoop
    BY <2>1 DEF RecLoop
  <2>2. CASE RecClose
    BY <2>2 DEF RecClose
  <2>3. CASE RecOpen
    BY <2>3 DEF RecOpen
  <2>4. CASE RecWait
    BY <2>4 DEF RecWait
  <2>5. CASE RecExit
    BY <2>5 DEF RecExit
  <2> QED BY <1>3, <2>1, <2>2, <2>3, <2>4, <2>5 DEF Record
<1>4. ASSUME NEW c \in Clients, Client(c) PROVE TypeOK'
  <2> c \in Callers
    BY DEF Callers
  <2>1. CASE StartClose(c)
    BY <2>1 DEF StartClose, At
  <2>2. CASE StartOpen(c)
    BY <2>2 DEF StartOpen, At
  <2>3. CASE StartRun(c)
    BY <2>3 DEF StartRun, At
  <2>4. CASE StopClose(c)
    BY <2>4 DEF StopClose, At
  <2>5. CASE StopRun(c)
    BY <2>5 DEF StopRun, At
  <2> QED BY <1>4, <2>1, <2>2, <2>3, <2>4, <2>5 DEF Client
<1>5. CASE UNCHANGED vars
  BY <1>5 DEF vars
<1> QED BY <1>1, <1>2, <1>3, <1>4, <1>5 DEF Next

\* A step of init keeps the rest of the invariant.
LEMMA StartupIInv ==
  ASSUME IInv, TypeOK', NEW c \in Callers, Startup(c)
  PROVE  IInv'
<1> USE DEF IInv, TypeOK, Solo, ThreadHasSignal, PhaseHasSignal, GiveIsAhead,
            DeinitClosesUnless, history, shared
<1>1. CASE InitEnter(c)
  BY <1>1, Moved DEF InitEnter, Alone, At
<1>2. CASE InitManager(c)
  BY <1>2, Moved DEF InitManager, Returned, At
<1>3. CASE InitMuxer(c)
  BY <1>3, Moved DEF InitMuxer, Returned, NewSignal, At
<1>4. CASE InitRun(c)
  BY <1>4, Moved DEF InitRun, At
<1>5. CASE InitThread(c)
  BY <1>5, Moved DEF InitThread, Returned, At
<1> QED BY <1>1, <1>2, <1>3, <1>4, <1>5 DEF Startup

\* A step of deinit, or of a caller that crosses another.
LEMMA DeinitIInv ==
  ASSUME IInv, TypeOK', NEW c \in Callers, Deinit(c) \/ Cross(c)
  PROVE  IInv'
<1> USE DEF IInv, TypeOK, Solo, ThreadHasSignal, PhaseHasSignal, GiveIsAhead,
            DeinitClosesUnless, history, shared
<1>1. CASE DeinitStop(c)
  BY <1>1, Moved DEF DeinitStop, Alone, AfterStop, At
<1>2. CASE Give(c)
  BY <1>2, Moved DEF Give, At
<1>3. CASE Join(c)
  BY <1>3, Moved DEF Join, At
<1>4. CASE JoinStale(c)
  BY <1>4, Moved DEF JoinStale, At
<1>5. CASE Destroy(c)
  BY <1>5, Moved DEF Destroy, At
<1>6. CASE DeinitManager(c)
  BY <1>6, Moved DEF DeinitManager, At
<1>7. CASE Cross(c)
  BY <1>7, Moved DEF Cross
<1> QED BY <1>1, <1>2, <1>3, <1>4, <1>5, <1>6, <1>7 DEF Deinit, Shutdown

\* A step of the record thread.
LEMMA RecordIInv ==
  ASSUME IInv, TypeOK', Record
  PROVE  IInv'
<1> USE DEF IInv, TypeOK, Solo, ThreadHasSignal, PhaseHasSignal, GiveIsAhead,
            DeinitClosesUnless, history, shared
<1>1. CASE RecLoop
  BY <1>1, Moved DEF RecLoop
<1>2. CASE RecClose
  BY <1>2, Moved DEF RecClose
<1>3. CASE RecOpen
  BY <1>3, Moved DEF RecOpen
<1>4. CASE RecWait
  BY <1>4, Moved DEF RecWait
<1>5. CASE RecExit
  BY <1>5, Moved DEF RecExit
<1> QED BY <1>1, <1>2, <1>3, <1>4, <1>5 DEF Record

\* A step of a client that starts or stops recording.
LEMMA ClientIInv ==
  ASSUME IInv, TypeOK', NEW c \in Clients, Client(c)
  PROVE  IInv'
<1> USE DEF IInv, TypeOK, Solo, ThreadHasSignal, PhaseHasSignal, GiveIsAhead,
            DeinitClosesUnless, history, shared
<1> c \in Callers
  BY DEF Callers
<1>1. CASE StartClose(c)
  BY <1>1, Moved DEF StartClose, At
<1>2. CASE StartOpen(c)
  BY <1>2, Moved DEF StartOpen, At
<1>3. CASE StartRun(c)
  BY <1>3, Moved DEF StartRun, At
<1>4. CASE StopClose(c)
  BY <1>4, Moved DEF StopClose, At
<1>5. CASE StopRun(c)
  BY <1>5, Moved DEF StopRun, At
<1> QED BY <1>1, <1>2, <1>3, <1>4, <1>5 DEF Client

\* The invariant holds for ever.
LEMMA IInvHolds == Spec => []IInv
<1>1. IInv /\ [Next]_vars => IInv'
  <2> SUFFICES ASSUME IInv, [Next]_vars PROVE IInv'
    OBVIOUS
  <2>1. TypeOK'
    BY NextTypeOK DEF IInv
  <2>2. CASE UNCHANGED vars
    BY <2>2 DEF vars, history, shared, IInv, TypeOK, Solo, ThreadHasSignal, PhaseHasSignal,
                GiveIsAhead, DeinitClosesUnless
  <2> QED BY <2>1, <2>2, StartupIInv, DeinitIInv, RecordIInv, ClientIInv DEF Next
<1> QED BY <1>1, InitIInv, PTL DEF Spec

\* Deinit joins the record thread before it destroys the signal, and its give
\* reaches a record thread that is about to wait.
THEOREM WakeIsPrompt == Spec => []NoSleepThroughDeinit
<1>1. IInv => NoSleepThroughDeinit
  BY DEF IInv, ThreadHasSignal, GiveIsAhead, NoSleepThroughDeinit
<1> QED BY <1>1, IInvHolds, PTL

\* A file is open without a record thread only if it was opened without one.
THEOREM DeinitCloseSafe == Spec => []DeinitClosesUnless
<1>1. IInv => DeinitClosesUnless
  BY DEF IInv
<1> QED BY <1>1, IInvHolds, PTL

\* Types.
THEOREM RecorderTypes == Spec => []TypeOK
<1>1. IInv => TypeOK
  BY DEF IInv
<1> QED BY <1>1, IInvHolds, PTL
HIDE DEF NoSignal, Threadless, Inside, Initialising, Finishing
-----------------------------------------------------------------------------
(* The cleaning pass.                                                      *)

Percent(a, total) == (a * 100) \div total

LEMMA MulMono ==
  ASSUME NEW a \in Nat, NEW b \in Nat, NEW t \in Nat, a <= b
  PROVE  a * t <= b * t
  BY Z3

\* What rounding down means.
LEMMA DivFacts ==
  ASSUME NEW x \in Nat, NEW t \in Nat, t > 0
  PROVE  /\ x \div t \in Nat
         /\ (x \div t) * t <= x
         /\ x < (x \div t) * t + t
  BY Z3

\* A share that is not over q percent is less than q + 1 percent.
LEMMA WithinQuota ==
  ASSUME NEW a \in Nat, NEW t \in Nat, t > 0, NEW q \in Nat, ~(Percent(a, t) > q)
  PROVE  a * 100 < q * t + t
<1> DEFINE d == (a * 100) \div t
<1>1. d \in Nat /\ a * 100 < d * t + t
  BY DivFacts, a * 100 \in Nat
<1>2. d <= q
  BY <1>1 DEF Percent
<1>3. d * t <= q * t
  BY <1>1, <1>2, MulMono
<1> HIDE DEF d
<1>4. d * t \in Nat /\ q * t \in Nat
  BY <1>1
<1> QED BY <1>1, <1>3, <1>4

\* Shares grow with the folder.
LEMMA ShareMono ==
  ASSUME NEW a \in Nat, NEW b \in Nat, a <= b, NEW t \in Nat, t > 0,
         NEW q \in Nat, ~(Percent(b, t) > q)
  PROVE  a * 100 < q * t + t
<1>1. b * 100 < q * t + t
  BY WithinQuota
<1> QED BY <1>1, q * t \in Nat

\* Three folders cannot all be within quotas that add up to 97.
LEMMA NotAllWithinQuota ==
  ASSUME NEW a \in Nat, NEW b \in Nat, NEW c \in Nat, NEW t \in Nat,
         t > 0, t = a + b + c,
         NEW p \in Nat, NEW q \in Nat, NEW r \in Nat, p + q + r <= 97,
         a * 100 < p * t + t, b * 100 < q * t + t, c * 100 < r * t + t
  PROVE  FALSE
<1>1. p * t \in Nat /\ q * t \in Nat /\ r * t \in Nat /\ (p + q + r) * t \in Nat
  OBVIOUS
<1>2. (p + q + r) * t = p * t + q * t + r * t
  BY Z3
<1>3. (p + q + r) * t <= 97 * t
  BY MulMono, p + q + r \in Nat, 97 \in Nat
<1>4. t * 100 = a * 100 + b * 100 + c * 100
  OBVIOUS
<1> QED BY <1>1, <1>2, <1>3, <1>4
-----------------------------------------------------------------------------
\* A remainder of a natural number.
LEMMA ModFacts ==
  ASSUME NEW x \in Nat, NEW t \in Nat, t > 0
  PROVE  x % t \in Nat /\ x % t <= x
<1>1. x % t \in 0..(t - 1)
  OBVIOUS
<1>2. x < t => x % t = x
  BY Z3
<1> QED BY <1>1, <1>2

\* An int that fits is the off_t it is stored in.
LEMMA OffTFits ==
  ASSUME NEW n, Fits(n)
  PROVE  OffT(n) = n /\ n \in Nat
<1> DEFINE w == OffMax + 1
<1>1. n \in Nat /\ w \in Nat /\ n < w
  BY WidthAssumption DEF Fits
<1>2. \A x \in Nat : x < 2 * w => x % (2 * w) = x
  BY <1>1, Z3
<1>3. (n + w) % (2 * w) = n + w
  BY <1>1, <1>2
<1> QED BY <1>1, <1>3, WidthAssumption DEF OffT

\* Any int is stored as some off_t.
LEMMA OffTInt ==
  ASSUME NEW n \in Int
  PROVE  OffT(n) \in Int
<1>1. n + OffMax + 1 \in Int /\ 2 * (OffMax + 1) \in Nat \ {0}
  BY WidthAssumption
<1>2. (n + OffMax + 1) % (2 * (OffMax + 1)) \in Int
  BY <1>1
<1> QED BY <1>2, WidthAssumption DEF OffT

\* The division of two off_t that are not negative.
LEMMA QuotientFits ==
  ASSUME NEW a \in Nat, Fits(a), NEW t \in Nat, t > 0
  PROVE  Quotient(a, t) = a \div t
<1>1. a \div t \in Nat /\ (a \div t) * t <= a
  BY DivFacts
<1>2. (a \div t) * 1 <= (a \div t) * t
  BY <1>1, Z3
<1>3. Fits(a \div t)
  BY <1>1, <1>2, WidthAssumption DEF Fits
<1>4. OffT(a \div t) = a \div t
  BY <1>3, OffTFits
<1>5. Abs(a) = a /\ Abs(t) = t /\ ~(a < 0) /\ ~(t < 0)
  BY DEF Abs
<1>6. Quotient(a, t) = OffT(a \div t)
  BY <1>5 DEF Quotient
<1> QED BY <1>4, <1>6

\* A folder the pass has let off counted for less than its quota and one
\* percent when the spaces were summed up.
LetOff(f) == seen[f] * 100 < Quota[f] * Seen + Seen

Summing ==
  pc = "sum" =>
    /\ i \in 1..4
    /\ \A f \in Folder : f >= i => seen[f] = 0
    /\ outside = 1 \/ \A f \in Folder : seen[f] <= space[f]

Cleaning ==
  pc = "clean" =>
    /\ Seen > 0
    /\ \/ outside = 1
       \/ removed > 0
       \/ misjudged = 1
       \/ \A f \in Folder : IF f < i THEN LetOff(f) ELSE seen[f] <= space[f]

\* An undisturbed pass that is at its end has removed a file.
Effective == pc = "end" => removed > 0 \/ outside = 1 \/ misjudged = 1

PassInv ==
  /\ PassTypeOK
  /\ Fits(Seen) => passTotal = Seen
  /\ Summing
  /\ Cleaning
  /\ Effective
  /\ Free <= DelMin => lowSeen = 1
  /\ auto = 1 => lowSeen = 1 \/ misread = 1
  /\ pc # "sleep" => auto = 1 /\ measured < DelMax

USE DEF Folder

LEMMA InitHolds == PassInit => PassInv
<1> SUFFICES ASSUME PassInit PROVE PassInv
  OBVIOUS
<1> USE DEF PassInit
<1>1. Free \in Nat /\ Free % FreeMod \in Nat
  BY CapacityAssumption, WidthAssumption DEF Recorded, Free
<1>2. PassTypeOK
  BY <1>1, CapacityAssumption DEF PassTypeOK, Recorded
<1> QED BY <1>2 DEF PassInv, Seen, Summing, Cleaning, Effective

LEMMA RecordStep ==
  ASSUME PassInv, Recording
  PROVE  PassInv'
<1> USE DEF PassInv, PassTypeOK
<1>1. PICK f \in Folder, s \in 1..Free : space' = [space EXCEPT ![f] = @ + s]
  BY DEF Recording
<1>2. s \in Nat /\ space' \in [Folder -> Nat] /\ Recorded' = Recorded + s
      /\ \A g \in Folder : space[g] <= space'[g]
  BY <1>1, CapacityAssumption DEF Free, Recorded
<1>3. PassTypeOK'
  BY <1>1, <1>2, CapacityAssumption DEF Recording, passVars, Free, Recorded
<1>4. Summing'
  BY <1>2 DEF Recording, passVars, Summing
<1>5. Cleaning'
  BY <1>2 DEF Recording, passVars, Cleaning, LetOff, Seen
<1>6. Effective' /\ (Fits(Seen) => passTotal = Seen)'
  BY DEF Recording, passVars, Effective, Seen, Fits
<1>7. (Free <= DelMin => lowSeen = 1)' /\ (lowSeen = 1 => lowSeen' = 1) /\ misread' = misread
  BY DEF Recording, Free, passVars
<1> QED BY <1>3, <1>4, <1>5, <1>6, <1>7 DEF PassInv, Recording, passVars

LEMMA OutsideStep ==
  ASSUME PassInv, DeleteOutside
  PROVE  PassInv'
<1> USE DEF PassInv, PassTypeOK
<1>1. PICK f \in Folder : \E s \in 1..space[f] : space' = [space EXCEPT ![f] = @ - s]
  BY DEF DeleteOutside
<1>2. PICK s \in 1..space[f] : space' = [space EXCEPT ![f] = @ - s]
  BY <1>1
<1>3. space' \in [Folder -> Nat] /\ Recorded' = Recorded - s
  BY <1>1, <1>2 DEF Recorded
<1>4. PassTypeOK'
  BY <1>2, <1>3, CapacityAssumption DEF DeleteOutside, passVars, Recorded
<1>5. (Free <= DelMin => lowSeen = 1)'
  BY <1>3, CapacityAssumption, MarksAssumption DEF DeleteOutside, Free, Recorded
<1> QED BY <1>4, <1>5 DEF DeleteOutside, passVars, Summing, Cleaning, Effective, Seen, Fits

LEMMA MeasureStep ==
  ASSUME PassInv, Measure
  PROVE  PassInv'
<1> USE DEF PassInv, PassTypeOK
<1>1. Free \in Nat /\ Free % FreeMod \in Nat /\ Free % FreeMod <= Free
  BY CapacityAssumption, WidthAssumption, ModFacts DEF Free, Recorded
<1>2. measured' \in Nat /\ measured' <= Free /\ Free' = Free
  BY <1>1 DEF Measure, Free, Recorded
<1>3. auto' \in {0, 1} /\ (auto' = 1 => measured' < DelMax)
  BY <1>2, MarksAssumption DEF Measure, AutoDelete
<1>a. /\ lowSeen' = IF measured' >= DelMax THEN 0 ELSE lowSeen
      /\ misread' = IF measured' >= DelMax THEN 0
                    ELSE IF measured' <= DelMin /\ Free > DelMin THEN 1 ELSE misread
      /\ auto' = AutoDelete(measured')
  BY DEF Measure
<1> HIDE DEF PassInv
<1>b. lowSeen \in {0, 1} /\ misread \in {0, 1} /\ (Free <= DelMin => lowSeen = 1)
      /\ (auto = 1 => lowSeen = 1 \/ misread = 1)
  BY DEF PassInv
<1>4. lowSeen' \in {0, 1} /\ misread' \in {0, 1} /\ (Free <= DelMin => lowSeen = 1)'
  BY <1>1, <1>2, <1>a, <1>b, MarksAssumption
<1>5. auto' = 1 => lowSeen' = 1 \/ misread' = 1
  <2>1. CASE measured' <= DelMin
    BY <1>1, <1>2, <1>a, <1>b, <2>1, MarksAssumption
  <2>2. CASE ~(measured' <= DelMin)
    BY <1>1, <1>2, <1>a, <1>b, <2>2, MarksAssumption DEF AutoDelete
  <2> QED BY <2>1, <2>2
<1> USE DEF PassInv
<1>6. PassTypeOK'
  BY <1>2, <1>3, <1>4 DEF Measure, Recorded
<1>7. Seen' = 0
  BY DEF Measure, Seen
<1> QED BY <1>2, <1>3, <1>4, <1>5, <1>6, <1>7 DEF Measure, Summing, Cleaning, Effective

LEMMA AddUpStep ==
  ASSUME PassInv, AddUp
  PROVE  PassInv'
<1> USE DEF PassInv, PassTypeOK
<1>1. i \in Folder /\ space[i] \in Nat /\ seen[i] = 0 /\ Seen \in Nat
  BY DEF AddUp, Summing, Seen
<1>2. Seen' = Seen + space[i]
  BY <1>1 DEF AddUp, Seen
<1>3. passTotal' \in Int
  BY <1>1, OffTInt DEF AddUp
<1>4. (Fits(Seen) => passTotal = Seen)'
  <2> SUFFICES ASSUME Fits(Seen') PROVE passTotal' = Seen'
    BY DEF Fits
  <2>1. Fits(Seen)
    BY <1>1, <1>2, WidthAssumption DEF Fits
  <2>2. OffT(Seen') = Seen'
    BY OffTFits
  <2> QED BY <1>2, <2>1, <2>2 DEF AddUp
<1>5. PassTypeOK'
  BY <1>3 DEF AddUp, Recorded
<1>6. Summing'
  BY DEF AddUp, Summing
<1> QED BY <1>4, <1>5, <1>6 DEF AddUp, Cleaning, Effective, Free, Recorded

LEMMA SumDoneStep ==
  ASSUME PassInv, SumDone
  PROVE  PassInv'
<1> USE DEF PassInv, PassTypeOK
<1>1. PassTypeOK'
  BY DEF SumDone, Recorded
<1>2. passTotal # 0 => Seen > 0
  BY WidthAssumption DEF Seen, Fits
<1>3. Cleaning'
  BY <1>2 DEF SumDone, Summing, Cleaning, Seen
<1> QED BY <1>1, <1>3 DEF SumDone, Summing, Effective, Free, Recorded, Seen, Fits

\* The step the argument turns on: a folder is cleaned, or it is let off, or an
\* overflow is to blame.
LEMMA CleanFolderStep ==
  ASSUME PassInv, CleanFolder
  PROVE  PassInv'
<1> USE DEF PassInv, PassTypeOK
<1>1. i \in Folder /\ i' = i + 1 /\ Seen > 0 /\ Seen \in Nat
  BY DEF CleanFolder, Cleaning, Seen
<1>2. UNCHANGED <<seen, passTotal, outside, Seen>>
  BY DEF CleanFolder, Seen
<1>3. CASE OverQuota(i) /\ space[i] > 0
  <2>1. PICK s \in 1..space[i] : space' = [space EXCEPT ![i] = @ - s]
    BY <1>3 DEF CleanFolder
  <2>2. removed' > 0 /\ removed' \in Nat /\ misjudged' = misjudged
    BY <1>3 DEF CleanFolder
  <2>3. PassTypeOK'
    BY <1>1, <2>1, <2>2, CapacityAssumption DEF CleanFolder, Recorded
  <2>4. (Free <= DelMin => lowSeen = 1)'
    BY <1>1, <2>1, CapacityAssumption, MarksAssumption DEF CleanFolder, Free, Recorded
  <2> QED BY <1>1, <1>2, <2>2, <2>3, <2>4 DEF CleanFolder, Summing, Cleaning, Effective, Fits
<1>4. CASE ~(OverQuota(i) /\ space[i] > 0)
  <2>1. UNCHANGED <<space, removed>> /\ misjudged' \in {0, 1} /\ (misjudged = 1 => misjudged' = 1)
    BY <1>4 DEF CleanFolder
  <2>2. PassTypeOK'
    BY <1>1, <2>1 DEF CleanFolder, Recorded
  <2>3. seen[i] <= space[i] => LetOff(i) \/ misjudged' = 1
    <3> SUFFICES ASSUME seen[i] <= space[i], misjudged' # 1 PROVE LetOff(i)
      OBVIOUS
    <3>1. Quota[i] \in Nat /\ space[i] \in Nat /\ seen[i] \in Nat /\ space[i] * 100 \in Nat
      BY <1>1, QuotaAssumption
    <3>2. CASE ~IsOver(i)
      <4>1. ~(Percent(space[i], Seen) > Quota[i])
        BY <3>2 DEF IsOver, Percent
      <4> QED BY <1>1, <3>1, <4>1, ShareMono DEF LetOff
    <3>3. CASE IsOver(i)
      <4>1. Fits(space[i] * 100) /\ Fits(Seen)
        BY <1>4, <3>3 DEF CleanFolder, Overflows
      <4>2. passTotal = Seen /\ OffT(space[i] * 100) = space[i] * 100
        BY <4>1, OffTFits
      <4>3. Quotient(space[i] * 100, Seen) = (space[i] * 100) \div Seen
        BY <1>1, <3>1, <4>1, QuotientFits
      <4>4. OverQuota(i)
        BY <1>1, <3>3, <4>2, <4>3 DEF OverQuota, Share, IsOver
      <4>5. space[i] = 0
        BY <1>4, <3>1, <4>4
      <4>6. seen[i] = 0 /\ Quota[i] * Seen \in Nat
        BY <1>1, <3>1, <4>5
      <4> QED BY <1>1, <4>6 DEF LetOff
    <3> QED BY <3>2, <3>3
  <2>4. \A f \in Folder : LetOff(f)' <=> LetOff(f)
    BY <1>2 DEF LetOff
  <2>5. Cleaning'
    <3> SUFFICES ASSUME outside = 0, removed = 0, misjudged' = 0, NEW f \in Folder
                 PROVE  IF f < i' THEN LetOff(f) ELSE seen[f] <= space[f]
      BY <1>1, <1>2, <2>1, <2>4 DEF CleanFolder, Cleaning
    <3>1. IF f < i THEN LetOff(f) ELSE seen[f] <= space[f]
      BY <2>1 DEF CleanFolder, Cleaning
    <3>2. CASE f = i
      BY <1>1, <2>3, <3>1, <3>2
    <3>3. CASE f # i
      BY <1>1, <3>1, <3>3
    <3> QED BY <3>2, <3>3
  <2> QED BY <1>2, <2>1, <2>2, <2>5 DEF CleanFolder, Summing, Effective, Free, Recorded, Fits
<1> QED BY <1>3, <1>4

\* At the end of the pass three folders let off would contradict the quotas.
LEMMA CleanDoneStep ==
  ASSUME PassInv, CleanDone
  PROVE  PassInv'
<1> USE DEF PassInv, PassTypeOK
<1>1. PassTypeOK'
  BY DEF CleanDone, Recorded
<1>2. ~(LetOff(1) /\ LetOff(2) /\ LetOff(3))
  <2> SUFFICES ASSUME LetOff(1), LetOff(2), LetOff(3) PROVE FALSE
    OBVIOUS
  <2>1. seen[1] \in Nat /\ seen[2] \in Nat /\ seen[3] \in Nat
        /\ Quota[1] \in Nat /\ Quota[2] \in Nat /\ Quota[3] \in Nat
    BY QuotaAssumption
  <2>2. Seen \in Nat /\ Seen > 0 /\ Seen = seen[1] + seen[2] + seen[3]
    BY DEF CleanDone, Cleaning, Seen
  <2>3. /\ seen[1] * 100 < Quota[1] * Seen + Seen
        /\ seen[2] * 100 < Quota[2] * Seen + Seen
        /\ seen[3] * 100 < Quota[3] * Seen + Seen
    BY DEF LetOff
  <2>4. Quota[1] + Quota[2] + Quota[3] <= 97
    BY QuotaAssumption
  <2> HIDE DEF PassInv, PassTypeOK
  <2> QED BY <2>1, <2>2, <2>3, <2>4, NotAllWithinQuota
<1>3. outside = 1 \/ removed > 0 \/ misjudged = 1
  BY <1>2 DEF CleanDone, Cleaning
<1> QED BY <1>1, <1>3 DEF CleanDone, Summing, Cleaning, Effective, Free, Recorded, Seen, Fits

LEMMA SleepStep ==
  ASSUME PassInv, Sleep
  PROVE  PassInv'
  BY DEF PassInv, PassTypeOK, Sleep, Free, Recorded, Summing, Cleaning, Effective, Seen, Fits

LEMMA StutterStep ==
  ASSUME PassInv, UNCHANGED quotaVars
  PROVE  PassInv'
  BY DEF PassInv, PassTypeOK, quotaVars, passVars, Free, Recorded, Summing, Cleaning, Effective,
         LetOff, Seen, Fits

LEMMA StepHolds == PassInv /\ [PassNext]_quotaVars => PassInv'
  BY RecordStep, OutsideStep, MeasureStep, AddUpStep, SumDoneStep, CleanFolderStep,
     CleanDoneStep, SleepStep, StutterStep DEF PassNext, Loop

LEMMA InvHolds == PassSpec => []PassInv
<1>1. PassInit => PassInv
  BY InitHolds
<1>2. PassInv /\ [PassNext]_quotaVars => PassInv'
  BY StepHolds
<1> QED BY <1>1, <1>2, PTL DEF PassSpec

\* The variables of the cleaning loop have their types, and the disk is never
\* filled beyond its capacity.
THEOREM PassTypes == PassSpec => []PassTypeOK
<1>1. PassInv => PassTypeOK
  BY DEF PassInv
<1> QED BY <1>1, InvHolds, PTL

\* Quotas with three percent of slack leave no pass without effect unless an
\* overflow is to blame, and it runs only between the marks unless the free
\* space was misread (storage.c:885-935).
THEOREM PassHasReasonAndEffect == PassSpec => []PassJustified
<1>1. PassInv => PassJustified
  BY DEF PassInv, Effective, PassJustified
<1> QED BY <1>1, InvHolds, PTL
=============================================================================
