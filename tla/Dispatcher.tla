----------------------------- MODULE Dispatcher -----------------------------
(***************************************************************************)
(* The dispatcher processes (startup/event_dispatcher.c): the main process *)
(* forks one child per further core, all of them go through start-up, the  *)
(* dispatch loop and shutdown in step, and main tears the platform down.   *)
(*                                                                         *)
(* pc[c] is the place of the process on core c in that sequence.  The      *)
(* places in ActiveSyncs are the ActiveSync calls: a core that has arrived *)
(* there has incremented the shared counter and dispatches events, in      *)
(* chunks, until it reads a counter that is high enough.  The places in    *)
(* Barriers are ODP barriers, where a core waits without dispatching.      *)
(*                                                                         *)
(* Workers appear only as far as shutdown cares: which of them exist, and  *)
(* the cores that have still to run the local start or stop function EM    *)
(* has sent them (the Workers module has the details).  A process may be   *)
(* killed by a fatal exception (MayDie); SIGINT may come at any time.      *)
(***************************************************************************)
EXTENDS Integers, FiniteSets

CONSTANTS Main,      (* the process on core 0                     *)
          Children,  (* the processes forked for the other cores  *)
          Workers,   (* worker IDs                                *)
          MayDie,    (* whether processes may crash               *)
          MainPid,   (* process ID of main                        *)
          AdopterPid (* process ID of the process that becomes    *)
                     (* the parent of main's children if main     *)
                     (* dies: init, or a subreaper                *)

ASSUME DispatcherAssumption ==
    /\ Main \notin Children
    /\ IsFiniteSet(Children)
    /\ MayDie \in BOOLEAN
    /\ MainPid \in Nat /\ AdopterPid \in Nat

VARIABLES pc,         (* where each process is                              *)
          counter,    (* the shared counters and barriers                   *)
          exitFlag,   (* DispatcherExitFlag                                 *)
          polling,    (* cores with s_pollingEnabled                        *)
          allow,      (* cores that may create timers and deploy workers    *)
          worker,     (* state of each worker                               *)
          pending,    (* cores with a local function of the worker to run   *)
          scan,       (* workers TerminateAllWorkers has still to look at   *)
          torn,       (* the worker table has been freed                    *)
          signalled   (* processes with a signal on its way: SIGCHLD for    *)
                      (* main, SIGTERM for a child                          *)

vars == <<pc, counter, exitFlag, polling, allow, worker, pending, scan, torn, signalled>>
workerVars == <<worker, pending, scan, torn>>
localVars == <<exitFlag, polling, allow, signalled>>

Cores == {Main} \cup Children

ActiveSyncs == {"LocalInits", "LocalExits", "WaitGlobalExit", "GlobalExitDone",
                "WorkersTeardown", "FinalSync"}
Barriers == {"StartBarrier", "ExitBarrier", "ExitBarrier2"}

(* All places; the numbers give their order. *)
Order ==
    [Unborn |-> 0, GlobalInit |-> 1, Fork |-> 2, Forked |-> 1, DeathSignalSet |-> 2,
     StartBarrier |-> 3, RunLocalInits |-> 4, LocalInits |-> 5, Loop |-> 6,
     LastRound |-> 7, RunLocalExits |-> 8, LocalExits |-> 9, Retire |-> 10,
     RunGlobalExits |-> 11, WaitGlobalExit |-> 12, GlobalExitDone |-> 13,
     TerminateWorkers |-> 14, WorkersTeardown |-> 15, Teardown |-> 16,
     FinalSync |-> 17, Drain |-> 18, ExitBarrier |-> 19, ExitBarrier2 |-> 20,
     Reap |-> 21, Exited |-> 22, Dead |-> 23]
Places == DOMAIN Order

Gone(c) == pc[c] \in {"Exited", "Dead"}
Dispatching(c) == pc[c] \in ActiveSyncs \cup {"Loop", "LastRound", "Drain"}

(* User code runs in the initializations and exits of the applications and  *)
(* in everything that is dispatched.                                        *)
UserCode(c) ==
    \/ pc[c] \in {"GlobalInit", "RunLocalInits", "RunLocalExits", "RunGlobalExits"}
    \/ Dispatching(c)

-----------------------------------------------------------------------------
Init ==
    /\ pc = [c \in Cores |-> IF c = Main THEN "GlobalInit" ELSE "Unborn"]
    /\ counter = [s \in ActiveSyncs \cup Barriers |-> 0]
    /\ exitFlag = FALSE
    /\ polling = {}
    /\ allow = Cores
    /\ worker = [w \in Workers |-> "Inactive"]
    /\ pending = [w \in Workers |-> {}]
    /\ scan = Workers
    /\ torn = FALSE
    /\ signalled = {}

(* A slip: one counter serves the wait for the global exits and the one     *)
(* that follows it.                                                         *)
SharedCounterGo(c, from, to) ==
    LET sync == IF to = "GlobalExitDone" THEN "WaitGlobalExit" ELSE to
    IN  /\ pc[c] = from
        /\ pc' = [pc EXCEPT ![c] = to]
        /\ counter' = IF sync \in DOMAIN counter
                      THEN [counter EXCEPT ![sync] = @ + 1] ELSE counter

(* Process c moves on; where it is to wait, it first announces itself. *)
Go(c, from, to) ==
    /\ pc[c] = from
    /\ pc' = [pc EXCEPT ![c] = to]
    /\ counter' = IF to \in DOMAIN counter
                  THEN [counter EXCEPT ![to] = @ + 1] ELSE counter

(* A slip: the waiting core does not count itself. *)
OffByOneMeets(sync) == counter[sync] >= Cardinality(Cores) - 1

(* The loop condition of ActiveSync, and that of an ODP barrier. *)
Meets(sync) == counter[sync] >= Cardinality(Cores)

Wait(c, sync, to) == Go(c, sync, to) /\ Meets(sync)

-----------------------------------------------------------------------------
(* RunMainDispatcher up to the fork: platform and application inits. *)
RunGlobalInits ==
    /\ Go(Main, "GlobalInit", "Fork")
    /\ UNCHANGED <<localVars, workerVars>>

(* ForkChildDispatchers *)
ForkChild(k) ==
    /\ pc[Main] = "Fork"
    /\ Go(k, "Unborn", "Forked")
    /\ UNCHANGED <<localVars, workerVars>>
AllForked ==
    /\ \A k \in Children : pc[k] # "Unborn"
    /\ Go(Main, "Fork", "StartBarrier")
    /\ UNCHANGED <<localVars, workerVars>>

(* ChildDispatcherInit: ask for SIGTERM at the parent's death ... *)
SetDeathSignal(k) ==
    /\ Go(k, "Forked", "DeathSignalSet")
    /\ UNCHANGED <<localVars, workerVars>>

(* getppid, called by a child *)
Getppid == IF Gone(Main) THEN AdopterPid ELSE MainPid

(* The end of a process: SIGCHLD to main, or SIGTERM to those children of   *)
(* main that have asked for it.                                             *)
SignalsAtDeath(c) ==
    IF c = Main THEN {k \in Children : pc[k] \notin {"Unborn", "Forked", "Exited", "Dead"}}
                ELSE {Main}

(* A slip: a parent that has died before goes unnoticed. *)
NoCheckParent(k) ==
    /\ Go(k, "DeathSignalSet", "StartBarrier")
    /\ UNCHANGED <<localVars, workerVars>>

(* ... and see whether it has died already: whether the parent is init.     *)
CheckParent(k) ==
    /\ IF Getppid = 1
       THEN /\ Go(k, "DeathSignalSet", "Dead")
            /\ signalled' = signalled \cup SignalsAtDeath(k)
       ELSE Go(k, "DeathSignalSet", "StartBarrier") /\ UNCHANGED signalled
    /\ UNCHANGED <<exitFlag, polling, allow, workerVars>>

(* DispatcherEntryPoint *)
LeaveStartBarrier(c) ==
    /\ Wait(c, "StartBarrier", "RunLocalInits")
    /\ UNCHANGED <<localVars, workerVars>>
LocalInitsReturn(c) ==
    /\ Go(c, "RunLocalInits", "LocalInits")
    /\ UNCHANGED <<localVars, workerVars>>
EnterLoop(c) ==
    /\ Wait(c, "LocalInits", "Loop")
    /\ polling' = polling \cup {c}
    /\ UNCHANGED <<exitFlag, allow, signalled, workerVars>>
SeeExitFlag(c) ==
    /\ exitFlag
    /\ Go(c, "Loop", "LastRound")
    /\ UNCHANGED <<localVars, workerVars>>

(* A slip: the resources are not locked at the end of the dispatch loop. *)
NoDisableLeaveLoop(c) ==
    /\ Go(c, "LastRound", "RunLocalExits")
    /\ polling' = polling \ {c}
    /\ UNCHANGED <<exitFlag, allow, signalled, workerVars>>

(* DisableInputPolling, DisableTimerAllocation, DisableWorkerDeployment *)
LeaveLoop(c) ==
    /\ Go(c, "LastRound", "RunLocalExits")
    /\ polling' = polling \ {c}
    /\ allow' = allow \ {c}
    /\ UNCHANGED <<exitFlag, signalled, workerVars>>
LocalExitsReturn(c) ==
    /\ Go(c, "RunLocalExits", "LocalExits")
    /\ UNCHANGED <<localVars, workerVars>>

(* RunMainDispatcher: RetireAllTimers, RunApplicationsGlobalExits *)
StartRetire ==
    /\ Wait(Main, "LocalExits", "Retire")
    /\ UNCHANGED <<localVars, workerVars>>
RetireAllTimers ==
    /\ Go(Main, "Retire", "RunGlobalExits")
    /\ UNCHANGED <<localVars, workerVars>>
GlobalExitsReturn ==
    /\ Go(Main, "RunGlobalExits", "WaitGlobalExit")
    /\ UNCHANGED <<localVars, workerVars>>

(* ChildDispatcherTeardown; the second synchronization is common to all. *)
ChildWaitsForGlobalExit(k) ==
    /\ Wait(k, "LocalExits", "WaitGlobalExit")
    /\ UNCHANGED <<localVars, workerVars>>
GlobalExitSeen(c) ==
    /\ Wait(c, "WaitGlobalExit", "GlobalExitDone")
    /\ UNCHANGED <<localVars, workerVars>>
ChildWaitsForWorkers(k) ==
    /\ Wait(k, "GlobalExitDone", "WorkersTeardown")
    /\ UNCHANGED <<localVars, workerVars>>
ChildWorkersDone(k) ==
    /\ Wait(k, "WorkersTeardown", "FinalSync")
    /\ UNCHANGED <<localVars, workerVars>>

(* RunPlatformGlobalTeardown: TerminateAllWorkers looks at one entry after  *)
(* the other, without the lock, and terminates those that are active.       *)
StartTeardown ==
    /\ Wait(Main, "GlobalExitDone", "TerminateWorkers")
    /\ UNCHANGED <<localVars, workerVars>>
Terminate(w) ==
    /\ worker' = [worker EXCEPT ![w] = "Terminating"]
    /\ pending' = [pending EXCEPT ![w] = Cores]
TerminateNext(w) ==
    /\ pc[Main] = "TerminateWorkers"
    /\ w \in scan
    /\ scan' = scan \ {w}
    /\ IF worker[w] = "Active" THEN Terminate(w) ELSE UNCHANGED <<worker, pending>>
    /\ UNCHANGED <<pc, counter, localVars, torn>>
WorkersTerminated ==
    /\ scan = {}
    /\ Go(Main, "TerminateWorkers", "WorkersTeardown")
    /\ UNCHANGED <<localVars, workerVars>>

(* TimingTeardown, MessagingTeardown, WorkersTeardown, TearDownQueueGroups. *)
MainWorkersDone ==
    /\ Wait(Main, "WorkersTeardown", "Teardown")
    /\ UNCHANGED <<localVars, workerVars>>
TearDown ==
    /\ Go(Main, "Teardown", "FinalSync")
    /\ torn' = TRUE
    /\ UNCHANGED <<localVars, worker, pending, scan>>

(* FinalizeExit: a core drains its events; em_term_core is called between   *)
(* the two uses of the exit barrier.  An event that core c can dispatch is  *)
(* a local function sent to it or, on any core, the notification that all   *)
(* local functions of a worker are done.                                    *)
HasEvent(c, w) ==
    \/ c \in pending[w]
    \/ worker[w] \in {"Deploying", "Terminating"} /\ pending[w] = {}
StartDrain(c) ==
    /\ Wait(c, "FinalSync", "Drain")
    /\ UNCHANGED <<localVars, workerVars>>
Drained(c) ==
    /\ \A w \in Workers : ~ HasEvent(c, w)
    /\ Go(c, "Drain", "ExitBarrier")
    /\ UNCHANGED <<localVars, workerVars>>

(* A slip: EM is terminated on a core without waiting for the others. *)
NoWaitTermCore(c) ==
    /\ Go(c, "ExitBarrier", "ExitBarrier2")
    /\ UNCHANGED <<localVars, workerVars>>
TermCore(c) ==
    /\ Wait(c, "ExitBarrier", "ExitBarrier2")
    /\ UNCHANGED <<localVars, workerVars>>

(* The child ends; SIGCHLD tells main. *)
ChildExits(k) ==
    /\ Wait(k, "ExitBarrier2", "Exited")
    /\ signalled' = signalled \cup {Main}
    /\ UNCHANGED <<exitFlag, polling, allow, workerVars>>

(* MemoryTeardown, then WaitForChildDispatchers. *)
StartReap ==
    /\ Wait(Main, "ExitBarrier2", "Reap")
    /\ UNCHANGED <<localVars, workerVars>>

(* A slip: main does not wait for its children. *)
NoWaitReapChildren ==
    /\ Go(Main, "Reap", "Exited")
    /\ UNCHANGED <<localVars, workerVars>>
ReapChildren ==
    /\ \A k \in Children : Gone(k)
    /\ Go(Main, "Reap", "Exited")
    /\ UNCHANGED <<localVars, workerVars>>

-----------------------------------------------------------------------------
(* What is dispatched: the local start and stop functions, and what follows *)
(* the last of them - the completion daemon, or WorkerEoStop.               *)
RunLocalFunction(c, w) ==
    /\ Dispatching(c)
    /\ c \in pending[w]
    /\ pending' = [pending EXCEPT ![w] = @ \ {c}]
    /\ UNCHANGED <<pc, counter, localVars, worker, scan, torn>>
AllLocalFunctionsDone(c, w) ==
    /\ Dispatching(c)
    /\ worker[w] \in {"Deploying", "Terminating"}
    /\ pending[w] = {}
    /\ worker' = [worker EXCEPT ![w] = IF @ = "Deploying" THEN "Active" ELSE "Inactive"]
    /\ UNCHANGED <<pc, counter, localVars, pending, scan, torn>>

(* User code deploys and terminates workers. *)
DeployWorker(c, w) ==
    /\ UserCode(c)
    /\ c \in allow
    /\ worker[w] = "Inactive"
    /\ worker' = [worker EXCEPT ![w] = "Deploying"]
    /\ pending' = [pending EXCEPT ![w] = Cores]
    /\ UNCHANGED <<pc, counter, localVars, scan, torn>>
TerminateWorker(c, w) ==
    /\ UserCode(c)
    /\ worker[w] = "Active"
    /\ Terminate(w)
    /\ UNCHANGED <<pc, counter, localVars, scan, torn>>

-----------------------------------------------------------------------------
(* SIGINT to any of the processes. *)
SigintListener ==
    /\ ~ Gone(Main)
    /\ exitFlag' = TRUE
    /\ UNCHANGED <<pc, counter, polling, allow, signalled, workerVars>>

(* A fatal exception, or a fork that fails. *)
Die(c) ==
    /\ MayDie
    /\ ~ Gone(c) /\ pc[c] # "Unborn"
    /\ Go(c, pc[c], "Dead")
    /\ signalled' = signalled \cup SignalsAtDeath(c)
    /\ UNCHANGED <<exitFlag, polling, allow, workerVars>>

(* Main learns of the end of a child: that is fine during teardown, and     *)
(* otherwise main exits.                                                    *)
SigchldListener ==
    /\ Main \in signalled
    /\ ~ Gone(Main)
    /\ IF exitFlag
       THEN signalled' = signalled \ {Main} /\ UNCHANGED <<pc, counter>>
       ELSE signalled' = SignalsAtDeath(Main) /\ Go(Main, pc[Main], "Dead")
    /\ UNCHANGED <<exitFlag, polling, allow, workerVars>>

(* SIGTERM ends a child (RestoreDefaultHandlerAndRaise). *)
Sigterm(k) ==
    /\ k \in signalled
    /\ ~ Gone(k)
    /\ Go(k, pc[k], "Dead")
    /\ signalled' = signalled \ {k}
    /\ UNCHANGED <<exitFlag, polling, allow, workerVars>>

-----------------------------------------------------------------------------
CommonStep(c) ==
    \/ LeaveStartBarrier(c) \/ LocalInitsReturn(c) \/ EnterLoop(c) \/ SeeExitFlag(c)
    \/ LeaveLoop(c) \/ LocalExitsReturn(c) \/ GlobalExitSeen(c) \/ StartDrain(c)
    \/ Drained(c) \/ TermCore(c)
ChildStep(k) ==
    \/ SetDeathSignal(k) \/ CheckParent(k) \/ ChildWaitsForGlobalExit(k)
    \/ ChildWaitsForWorkers(k) \/ ChildWorkersDone(k) \/ ChildExits(k)
MainStep ==
    \/ RunGlobalInits \/ (\E k \in Children : ForkChild(k)) \/ AllForked
    \/ StartRetire \/ RetireAllTimers \/ GlobalExitsReturn \/ StartTeardown
    \/ (\E w \in Workers : TerminateNext(w)) \/ WorkersTerminated \/ MainWorkersDone
    \/ TearDown \/ StartReap \/ ReapChildren
Dispatch(c) ==
    \E w \in Workers : RunLocalFunction(c, w) \/ AllLocalFunctionsDone(c, w)
Signals ==
    \/ SigintListener \/ SigchldListener
    \/ \E k \in Children : Sigterm(k)
    \/ \E c \in Cores : Die(c)

Next ==
    \/ MainStep
    \/ \E k \in Children : ChildStep(k)
    \/ \E c \in Cores : \/ CommonStep(c) \/ Dispatch(c)
                        \/ \E w \in Workers : DeployWorker(c, w) \/ TerminateWorker(c, w)
    \/ Signals

Spec == Init /\ [][Next]_vars

(* Every process gets on, user code returns, events that wait for a core    *)
(* are dispatched there, and signals are delivered.                         *)
Fairness ==
    /\ WF_vars(MainStep)
    /\ \A k \in Children : WF_vars(ChildStep(k)) /\ WF_vars(Sigterm(k))
    /\ \A c \in Cores : WF_vars(CommonStep(c)) /\ WF_vars(Dispatch(c))
    /\ WF_vars(SigchldListener)

FairSpec == Spec /\ Fairness

-----------------------------------------------------------------------------
(* Every variable has its type; no counter exceeds the number of cores.     *)
TypeOK ==
    /\ pc \in [Cores -> Places]
    /\ counter \in [ActiveSyncs \cup Barriers -> 0 .. Cardinality(Cores)]
    /\ exitFlag \in BOOLEAN
    /\ polling \subseteq Cores
    /\ allow \subseteq Cores
    /\ worker \in [Workers -> {"Inactive", "Deploying", "Active", "Terminating"}]
    /\ pending \in [Workers -> SUBSET Cores]
    /\ scan \subseteq Workers
    /\ torn \in BOOLEAN
    /\ signalled \subseteq Cores

(* The counters of ActiveSync and the barriers do synchronize: when a core  *)
(* is past one of them, every process that has not died has got there.      *)
Past(c, place) == pc[c] # "Dead" /\ Order[pc[c]] > Order[place]
Reached(c, place) == pc[c] = "Dead" \/ Order[pc[c]] >= Order[place]
NobodyRunsAhead ==
    \A s \in ActiveSyncs \cup Barriers : \A c, d \in Cores :
        Past(c, s) => Reached(d, s)

(* Main retires the timers, runs the global exits of the applications,      *)
(* terminates the workers and tears the platform down "while other cores    *)
(* are still dispatching" (comments in RunMainDispatcher and                *)
(* RunPlatformGlobalTeardown), and no core dispatches any more when EM is   *)
(* terminated on the first of them.                                         *)
OthersKeepDispatching ==
    /\ pc[Main] \in {"Retire", "RunGlobalExits", "TerminateWorkers", "Teardown"} =>
          \A k \in Children : pc[k] = "Dead" \/ Dispatching(k)
    /\ (\E c \in Cores : pc[c] \in {"ExitBarrier2", "Reap", "Exited"}) =>
          \A d \in Cores : ~ Dispatching(d)

(* From RetireAllTimers on, no core polls inputs, creates timers or deploys *)
(* workers: a loop over a whole table misses nothing that comes later.      *)
QuietAtShutdown ==
    (pc[Main] # "Dead" /\ Order[pc[Main]] >= Order["Retire"]) =>
        \A c \in Cores : pc[c] # "Dead" => c \notin polling \cup allow

(* The shared memory that main frees at its end is used by nobody.          *)
MainExitsLast ==
    pc[Main] = "Exited" => \A k \in Children : Gone(k)

(* Main may tear things down: nothing new is created behind its back, and   *)
(* nobody is left to use what it frees.                                     *)
TeardownAlone == TypeOK /\ QuietAtShutdown /\ MainExitsLast

(* SIGINT ends the platform, in whatever phase it comes, unless a process   *)
(* dies: no core waits for ever in a synchronization.                       *)
ShutdownCompletes ==
    exitFlag ~> \/ \A c \in Cores : pc[c] = "Exited"
                \/ \E c \in Cores : pc[c] = "Dead"

(* The children do not survive main, even if it dies before they have asked *)
(* for the signal (the comment on the race in ChildDispatcherInit).         *)
OrphansDie ==
    pc[Main] = "Dead" ~> \A k \in Children : pc[k] = "Unborn" \/ Gone(k)

(* The comments in event_dispatcher.c: all cores keep dispatching "while    *)
(* terminating workers to allow local exits to complete on all of them",    *)
(* so no worker is left when the worker table is freed.                     *)
WorkersGoneAtTeardown == torn => \A w \in Workers : worker[w] = "Inactive"

(* The comment in SigchldListener: the signal is ignored when "child        *)
(* process termination has been requested as part of regular teardown", so  *)
(* the death of any other child ends main.                                  *)
DeathsNoticed ==
    (\E k \in Children : pc[k] = "Dead") /\ ~ Gone(Main) => Main \in signalled
=============================================================================
