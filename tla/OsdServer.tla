------------------------------ MODULE OsdServer -----------------------------
(***************************************************************************)
(* The on-screen display of common/osd/osd.c: texts and images are set up  *)
(* once, the clock by a thread of its own.  rk_osd_restart is deinit and   *)
(* init, each under g_osd_mutex, the pair under nothing; clients call it   *)
(* when they have changed a display parameter.  A video restart does the   *)
(* same with the callbacks into the video unregistered in between.         *)
(*                                                                         *)
(* The model ends where the behaviour is undefined (why # {}): a join of a *)
(* thread that is not there, the signal freed under a thread that waits on *)
(* it, a call through a callback that is not registered.                   *)
(***************************************************************************)
EXTENDS Integers

CONSTANTS
  Clients, \* threads that serve a client
  Video,   \* the thread that starts the video, and restarts it
  Nobody,  \* g_osd_mutex is free
  MaxRestarts, MaxToggles, MaxFails \* bounds

Callers == Clients \cup {Video}
Threads == 1..(MaxRestarts + 1) \* clock threads, by creation

ASSUME OsdAssumption ==
  /\ Video \notin Clients
  /\ Nobody \notin Callers
  /\ MaxRestarts \in Nat /\ MaxToggles \in Nat /\ MaxFails \in Nat

VARIABLES
  mutex,   \* g_osd_mutex
  signal,  \* g_osd_signal is there
  run,     \* g_osd_server_run_
  handle,  \* osd_time_thread_id_, 0 before the first
  clock,   \* the clock threads
  regs,    \* the callbacks are registered
  enabled, \* osd.N:enabled of the clock
  regions, \* the regions on the picture
  pc,      \* the callers
  up,      \* the server has been started
  why,     \* history: what is undefined
  cause,   \* history: what things may suffer from, see below
  restarts, toggles, fails \* counters of the bounds

threadVars == <<run, handle, clock>>
boundVars  == <<restarts, toggles, fails>>
vars == <<mutex, signal, threadVars, regs, enabled, regions, pc, up, why, cause, boundVars>>

ClockPc  == {"none", "create", "loop", "read", "wait", "change", "ended", "joined"}
CallerPc == {"idle", "deinit", "join", "gone", "unreg", "reg", "init", "make"}

TypeOK ==
  /\ mutex \in Callers \cup {Nobody}
  /\ signal \in BOOLEAN /\ run \in BOOLEAN /\ regs \in BOOLEAN
  /\ handle \in Threads \cup {0}
  /\ clock \in [Threads -> ClockPc]
  /\ enabled \in BOOLEAN /\ up \in BOOLEAN
  /\ regions \subseteq {"text", "clock"}
  /\ pc \in [Callers -> CallerPc]
  /\ why \subseteq {"nothread", "freed", "null"}
  /\ cause \subseteq {"crossed", "noclock", "signal"}
  /\ restarts \in Nat /\ toggles \in Nat /\ fails \in Nat

\* main is at rkipc_osd_init.
Init ==
  /\ mutex = Nobody
  /\ signal = FALSE /\ run = TRUE /\ regs = FALSE
  /\ handle = 0
  /\ clock = [k \in Threads |-> "none"]
  /\ enabled = TRUE /\ up = FALSE
  /\ regions = {}
  /\ pc = [c \in Callers |-> IF c = Video THEN "reg" ELSE "idle"]
  /\ why = {} /\ cause = {}
  /\ restarts = 0 /\ toggles = 0 /\ fails = 0

Goto(c, l) == pc' = [pc EXCEPT ![c] = l]
Between == {"unreg", "reg", "init"}  \* a restart is between its two halves
Waiting == \E k \in Threads : clock[k] = "wait"

\* RK_MPI_RGN_Create: a second one fails, and its error path takes the region
\* away that is there.
Created(r) == IF r \in regions THEN regions \ {r} ELSE regions \cup {r}

-----------------------------------------------------------------------------
(* rk_osd_deinit.                                                          *)

\* Slip: the thread is not told.
DeinitUntold(c) ==
  /\ pc[c] = "deinit"
  /\ mutex = Nobody
  /\ mutex' = c
  /\ cause' = IF \E d \in Callers : pc[d] \in Between THEN cause \cup {"crossed"} ELSE cause
  /\ Goto(c, IF signal THEN "join" ELSE "gone")
  /\ UNCHANGED <<signal, threadVars, regs, enabled, regions, up, why, boundVars>>

\* Two restarts have crossed if the other one is between its halves.
Deinit(c) ==
  /\ pc[c] = "deinit"
  /\ mutex = Nobody
  /\ mutex' = c
  /\ run' = FALSE
  /\ cause' = IF \E d \in Callers : pc[d] \in Between THEN cause \cup {"crossed"} ELSE cause
  /\ Goto(c, IF signal THEN "join" ELSE "gone")
  /\ UNCHANGED <<signal, handle, clock, regs, enabled, regions, up, why, boundVars>>

\* Slip: the signal goes without the thread's having ended.
JoinSkipped(c) ==
  /\ pc[c] = "join"
  /\ why' = IF Waiting THEN why \cup {"freed"} ELSE why
  /\ signal' = FALSE
  /\ Goto(c, "gone")
  /\ UNCHANGED <<mutex, threadVars, regs, enabled, regions, up, cause, boundVars>>

\* The signal is given, which but shortens the thread's wait of 100 ms; the
\* join, the end of the signal.
Join(c) ==
  /\ pc[c] = "join"
  /\ \/ /\ handle = 0 \/ (handle # 0 /\ clock[handle] \in {"none", "joined"})
        /\ why' = why \cup {"nothread"}
        /\ UNCHANGED <<clock, signal>>
     \/ /\ handle # 0
        /\ clock[handle] = "ended"
        /\ clock' = [clock EXCEPT ![handle] = "joined"]
        /\ why' = IF Waiting THEN why \cup {"freed"} ELSE why
        /\ signal' = FALSE
  /\ Goto(c, "gone")
  /\ UNCHANGED <<mutex, run, handle, regs, enabled, regions, up, cause, boundVars>>

\* Slip: as in init, only what is enabled.
GoneEnabled(c) ==
  /\ pc[c] = "gone"
  /\ IF regs THEN regions' = (IF enabled THEN {} ELSE regions \ {"text"}) /\ UNCHANGED why
             ELSE why' = why \cup {"null"} /\ UNCHANGED regions
  /\ mutex' = Nobody
  /\ Goto(c, IF c = Video THEN "unreg" ELSE "init")
  /\ UNCHANGED <<signal, threadVars, regs, enabled, up, cause, boundVars>>

\* The destroy callbacks for every display that has a type, enabled or not.
Gone(c) ==
  /\ pc[c] = "gone"
  /\ IF regs THEN regions' = {} /\ UNCHANGED why
             ELSE why' = why \cup {"null"} /\ UNCHANGED regions
  /\ mutex' = Nobody
  /\ Goto(c, IF c = Video THEN "unreg" ELSE "init")
  /\ UNCHANGED <<signal, threadVars, regs, enabled, up, cause, boundVars>>

-----------------------------------------------------------------------------
(* rkipc_osd_deinit and rkipc_osd_init, around it.                         *)

Unregister ==
  /\ pc[Video] = "unreg"
  /\ regs' = FALSE
  /\ Goto(Video, "reg")
  /\ UNCHANGED <<mutex, signal, threadVars, enabled, regions, up, why, cause, boundVars>>

Register ==
  /\ pc[Video] = "reg"
  /\ regs' = TRUE
  /\ Goto(Video, "init")
  /\ UNCHANGED <<mutex, signal, threadVars, enabled, regions, up, why, cause, boundVars>>

-----------------------------------------------------------------------------
(* rk_osd_init.                                                            *)

\* A signal that is still there is replaced.  When none can be had the call
\* returns with the mutex.
Signal(c) ==
  /\ pc[c] = "init"
  /\ mutex = Nobody
  /\ mutex' = c
  /\ why' = IF signal /\ Waiting THEN why \cup {"freed"} ELSE why
  /\ \/ /\ signal' = TRUE
        /\ Goto(c, "make")
        /\ UNCHANGED <<up, cause, fails>>
     \/ /\ fails < MaxFails
        /\ fails' = fails + 1
        /\ signal' = FALSE
        /\ cause' = cause \cup {"signal"}
        /\ up' = TRUE
        /\ Goto(c, "idle")
  /\ UNCHANGED <<threadVars, regs, enabled, regions, restarts, toggles>>

NewThread == CHOOSE k \in Threads : clock[k] = "none" /\ \A j \in Threads : j < k => clock[j] # "none"

\* Texts and images are created, and the thread of the clock if it is enabled.
\* When that fails nobody notices, and the id of an older thread stays, if it
\* is any's.
Make(c) ==
  /\ pc[c] = "make"
  /\ IF regs THEN regions' = Created("text") /\ UNCHANGED why
             ELSE why' = why \cup {"null"} /\ UNCHANGED regions
  /\ \/ /\ enabled
        /\ run' = TRUE
        /\ clock' = [clock EXCEPT ![NewThread] = "create"]
        /\ handle' = NewThread
        /\ UNCHANGED <<cause, fails>>
     \/ /\ enabled
        /\ fails < MaxFails
        /\ fails' = fails + 1
        /\ run' = TRUE
        /\ cause' = cause \cup {"noclock"}
        /\ UNCHANGED <<handle, clock>>
     \/ /\ ~enabled
        /\ cause' = cause \cup {"noclock"}
        /\ UNCHANGED <<threadVars, fails>>
  /\ mutex' = Nobody
  /\ up' = TRUE
  /\ Goto(c, "idle")
  /\ UNCHANGED <<signal, regs, enabled, restarts, toggles>>

Caller(c) == Join(c) \/ Gone(c) \/ Make(c)

\* A client's rk_osd_restart, or a video restart.
Restart(c) ==
  /\ up
  /\ pc[c] = "idle"
  /\ restarts < MaxRestarts
  /\ restarts' = restarts + 1
  /\ Goto(c, "deinit")
  /\ UNCHANGED <<mutex, signal, threadVars, regs, enabled, regions, up, why, cause, toggles, fails>>

\* A client's rk_osd_set_enabled.
SetEnabled ==
  /\ up
  /\ toggles < MaxToggles
  /\ toggles' = toggles + 1
  /\ enabled' = ~enabled
  /\ UNCHANGED <<mutex, signal, threadVars, regs, regions, pc, up, why, cause, restarts, fails>>

-----------------------------------------------------------------------------
(* osd_time_server.                                                        *)

ClockGoto(k, l) == clock' = [clock EXCEPT ![k] = l]
ClockUnchanged == UNCHANGED <<mutex, signal, run, handle, regs, enabled, pc, up, cause, boundVars>>

ClockCreate(k) ==
  /\ clock[k] = "create"
  /\ IF regs THEN regions' = Created("clock") /\ UNCHANGED why
             ELSE why' = why \cup {"null"} /\ UNCHANGED regions
  /\ ClockGoto(k, "loop")
  /\ ClockUnchanged

ClockLoop(k) ==
  /\ clock[k] = "loop"
  /\ ClockGoto(k, IF run THEN "read" ELSE "ended")
  /\ UNCHANGED <<regions, why>>
  /\ ClockUnchanged

\* rk_signal_wait does not wait without a signal.
ClockRead(k) ==
  /\ clock[k] = "read"
  /\ ClockGoto(k, IF signal THEN "wait" ELSE "change")
  /\ UNCHANGED <<regions, why>>
  /\ ClockUnchanged

ClockWait(k) ==
  /\ clock[k] = "wait"
  /\ ClockGoto(k, "change")
  /\ UNCHANGED <<regions, why>>
  /\ ClockUnchanged

\* Once a second the picture of the clock is changed.
ClockChange(k) ==
  /\ clock[k] = "change"
  /\ why' \in {why} \cup (IF regs THEN {} ELSE {why \cup {"null"}})
  /\ ClockGoto(k, "loop")
  /\ UNCHANGED regions
  /\ ClockUnchanged

Clock(k) == ClockCreate(k) \/ ClockLoop(k) \/ ClockRead(k) \/ ClockWait(k) \/ ClockChange(k)

-----------------------------------------------------------------------------
Next ==
  /\ why = {}
  /\ \/ \E c \in Callers : Deinit(c) \/ Signal(c) \/ Caller(c) \/ Restart(c)
     \/ Unregister \/ Register
     \/ SetEnabled
     \/ \E k \in Threads : Clock(k)

\* Threads go on, and who waits for the mutex gets it in the end.
Defined(A) == why = {} /\ A
Fairness ==
  /\ \A c \in Callers : /\ SF_vars(Defined(Deinit(c))) /\ SF_vars(Defined(Signal(c)))
                        /\ WF_vars(Defined(Caller(c)))
  /\ WF_vars(Defined(Unregister)) /\ WF_vars(Defined(Register))
  /\ \A k \in Threads : WF_vars(Defined(Clock(k)))

Spec == Init /\ [][Next]_vars /\ Fairness
=============================================================================
