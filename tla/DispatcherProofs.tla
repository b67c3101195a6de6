-------------------------- MODULE DispatcherProofs --------------------------
(***************************************************************************)
(* Proof that ActiveSync and the barriers synchronize any finite number of *)
(* dispatchers, some of which may die: NobodyRunsAhead.  The invariant     *)
(* needs a bound on the counters: none exceeds the number of processes     *)
(* that have got to its synchronization (or have died).  From the order    *)
(* that enforces follow what runs beside main's shutdown and, with what    *)
(* each process may still do at a place, that main tears down alone.       *)
(***************************************************************************)
EXTENDS Dispatcher, FiniteSetTheorems, TLAPS

Syncs == ActiveSyncs \cup Barriers
Arrived(s) == {c \in Cores : Reached(c, s)}

CountInv == \A s \in Syncs : counter[s] <= Cardinality(Arrived(s))

SyncInv ==
    /\ pc \in [Cores -> Places]
    /\ counter \in [Syncs -> Nat]
    /\ CountInv
    /\ NobodyRunsAhead

(* There are finitely many processes. *)
LEMMA CoresFinite == IsFiniteSet(Cores)
BY DispatcherAssumption, FS_AddElement, FS_Union, FS_Singleton DEF Cores

(* A synchronization that is met has been reached by every process. *)
LEMMA MeetsAll ==
    ASSUME SyncInv, NEW s \in Syncs, Meets(s)
    PROVE  \A d \in Cores : Reached(d, s)
<1>1. Arrived(s) \subseteq Cores
  BY DEF Arrived
<1>2. Cardinality(Cores) \in Nat /\ Cardinality(Arrived(s)) \in Nat
  BY <1>1, CoresFinite, FS_Subset, FS_CardinalityType
<1>3. Cardinality(Arrived(s)) >= Cardinality(Cores)
  BY <1>2 DEF SyncInv, CountInv, Meets
<1>4. Arrived(s) = Cores
  BY <1>1, <1>2, <1>3, CoresFinite, FS_Subset
<1> QED BY <1>4 DEF Arrived

(* Places are ordered. *)
LEMMA OrderType == \A p \in Places : Order[p] \in Nat
BY DEF Places, Order

(* The places of the synchronizations. *)
LEMMA SyncsArePlaces == Syncs \subseteq Places \ {"Dead"}
BY DEF Syncs, ActiveSyncs, Barriers, Places, Order

(* A process that has reached a place stays beyond it. *)
LEMMA ArrivedGrows ==
    ASSUME SyncInv, NEW c \in Cores, NEW from \in Places, NEW to \in Places,
           Order[from] < Order[to], from # "Dead", Go(c, from, to), NEW s \in Syncs
    PROVE  /\ Arrived(s) \subseteq Arrived(s)'
           /\ to = s => c \in Arrived(s)' \ Arrived(s)
<1>1. /\ pc[c] = from /\ pc'[c] = to
      /\ \A d \in Cores : d # c => pc'[d] = pc[d]
  BY DEF Go, SyncInv
<1>2. Order[from] \in Nat /\ Order[to] \in Nat /\ Order[s] \in Nat
  BY OrderType, SyncsArePlaces
<1> QED BY <1>1, <1>2 DEF Arrived, Reached

(* A step to the next place preserves the invariant: a process leaves a     *)
(* synchronization only when it is met, and passes none without stopping.   *)
LEMMA GoInv ==
    ASSUME SyncInv, NEW c \in Cores, NEW from \in Places, NEW to \in Places,
           Order[from] < Order[to], from # "Dead", Go(c, from, to),
           to # "Dead" /\ from \in Syncs => Meets(from),
           to = "Dead" \/ \A s \in Syncs \ {from} : Order[s] >= Order[from] => Order[s] >= Order[to]
    PROVE  SyncInv'
<1>1. /\ pc[c] = from /\ pc'[c] = to
      /\ \A d \in Cores : d # c => pc'[d] = pc[d]
  BY DEF Go, SyncInv
<1>2. \A p \in Places : Order[p] \in Nat
  BY OrderType
<1>3. pc' \in [Cores -> Places] /\ counter' \in [Syncs -> Nat]
  BY DEF Go, SyncInv
<1>4. CountInv'
  <2> SUFFICES ASSUME NEW s \in Syncs PROVE counter'[s] <= Cardinality(Arrived(s)')
    BY DEF CountInv
  <2>1. Arrived(s) \subseteq Arrived(s)' /\ (to = s => c \in Arrived(s)' \ Arrived(s))
    BY ArrivedGrows
  <2>2. IsFiniteSet(Arrived(s)') /\ IsFiniteSet(Arrived(s))
    BY CoresFinite, FS_Subset DEF Arrived
  <2>3. /\ Cardinality(Arrived(s)) \in Nat /\ Cardinality(Arrived(s)') \in Nat
        /\ Cardinality(Arrived(s)) <= Cardinality(Arrived(s)')
    BY <2>1, <2>2, FS_Subset, FS_CardinalityType
  <2>4. counter[s] \in Nat /\ counter[s] <= Cardinality(Arrived(s))
    BY DEF SyncInv, CountInv
  <2>5. CASE to = s
    <3>1. Arrived(s) \cup {c} \subseteq Arrived(s)'
      BY <2>1, <2>5
    <3>2. Cardinality(Arrived(s) \cup {c}) = Cardinality(Arrived(s)) + 1
      BY <2>1, <2>2, <2>5, FS_AddElement
    <3>3. Cardinality(Arrived(s) \cup {c}) <= Cardinality(Arrived(s)')
      BY <3>1, <2>2, FS_Subset
    <3>4. counter'[s] = counter[s] + 1
      BY <2>5 DEF Go, SyncInv
    <3> QED BY <3>2, <3>3, <3>4, <2>3, <2>4
  <2>6. CASE to # s
    <3>1. counter'[s] = counter[s]
      BY <2>6 DEF Go, SyncInv
    <3> QED BY <3>1, <2>3, <2>4
  <2> QED BY <2>5, <2>6
<1>5. NobodyRunsAhead'
  <2> SUFFICES ASSUME NEW s \in Syncs, NEW a \in Cores, NEW d \in Cores, Past(a, s)'
               PROVE  Reached(d, s)'
    BY DEF NobodyRunsAhead, Syncs
  <2>1. Reached(d, s) => Reached(d, s)'
    BY ArrivedGrows DEF Arrived
  <2>2. CASE Past(a, s)
    BY <2>1, <2>2 DEF SyncInv, NobodyRunsAhead, Syncs
  <2>3. CASE ~ Past(a, s)
    <3>1. a = c /\ to # "Dead" /\ Order[to] > Order[s] /\ ~ (Order[from] > Order[s])
      BY <1>1, <2>3 DEF Past
    <3>2. from = s
      BY <3>1, <1>2, SyncsArePlaces
    <3> QED BY <3>1, <3>2, <2>1, MeetsAll
  <2> QED BY <2>2, <2>3
<1> QED BY <1>3, <1>4, <1>5 DEF SyncInv

(* The facts about two places that GoInv asks for. *)
Follows(from, to) ==
    /\ from \in Places \ {"Dead"} /\ to \in Places
    /\ Order[from] < Order[to]
    /\ to = "Dead" \/ \A s \in Syncs \ {from} : Order[s] >= Order[from] => Order[s] >= Order[to]

(* The places follow one another as the code has it, on main and children. *)
LEMMA PlacesFollow ==
    /\ Follows("GlobalInit", "Fork") /\ Follows("Fork", "StartBarrier")
    /\ Follows("Unborn", "Forked") /\ Follows("Forked", "DeathSignalSet")
    /\ Follows("DeathSignalSet", "StartBarrier")
    /\ Follows("StartBarrier", "RunLocalInits") /\ Follows("RunLocalInits", "LocalInits")
    /\ Follows("LocalInits", "Loop") /\ Follows("Loop", "LastRound")
    /\ Follows("LastRound", "RunLocalExits") /\ Follows("RunLocalExits", "LocalExits")
    /\ Follows("LocalExits", "Retire") /\ Follows("Retire", "RunGlobalExits")
    /\ Follows("RunGlobalExits", "WaitGlobalExit") /\ Follows("LocalExits", "WaitGlobalExit")
    /\ Follows("WaitGlobalExit", "GlobalExitDone") /\ Follows("GlobalExitDone", "WorkersTeardown")
    /\ Follows("WorkersTeardown", "FinalSync") /\ Follows("GlobalExitDone", "TerminateWorkers")
    /\ Follows("TerminateWorkers", "WorkersTeardown") /\ Follows("WorkersTeardown", "Teardown")
    /\ Follows("Teardown", "FinalSync") /\ Follows("FinalSync", "Drain")
    /\ Follows("Drain", "ExitBarrier") /\ Follows("ExitBarrier", "ExitBarrier2")
    /\ Follows("ExitBarrier2", "Exited") /\ Follows("ExitBarrier2", "Reap")
    /\ Follows("Reap", "Exited")
<1>1. /\ Follows("GlobalInit", "Fork") /\ Follows("Fork", "StartBarrier")
      /\ Follows("Unborn", "Forked") /\ Follows("Forked", "DeathSignalSet")
      /\ Follows("DeathSignalSet", "StartBarrier")
      /\ Follows("StartBarrier", "RunLocalInits") /\ Follows("RunLocalInits", "LocalInits")
      /\ Follows("LocalInits", "Loop") /\ Follows("Loop", "LastRound")
  BY DEF Follows, Syncs, ActiveSyncs, Barriers, Places, Order
<1>2. /\ Follows("LastRound", "RunLocalExits") /\ Follows("RunLocalExits", "LocalExits")
      /\ Follows("LocalExits", "Retire") /\ Follows("Retire", "RunGlobalExits")
      /\ Follows("RunGlobalExits", "WaitGlobalExit") /\ Follows("LocalExits", "WaitGlobalExit")
      /\ Follows("WaitGlobalExit", "GlobalExitDone") /\ Follows("GlobalExitDone", "WorkersTeardown")
      /\ Follows("WorkersTeardown", "FinalSync") /\ Follows("GlobalExitDone", "TerminateWorkers")
  BY DEF Follows, Syncs, ActiveSyncs, Barriers, Places, Order
<1>3. /\ Follows("TerminateWorkers", "WorkersTeardown") /\ Follows("WorkersTeardown", "Teardown")
      /\ Follows("Teardown", "FinalSync") /\ Follows("FinalSync", "Drain")
      /\ Follows("Drain", "ExitBarrier") /\ Follows("ExitBarrier", "ExitBarrier2")
      /\ Follows("ExitBarrier2", "Exited") /\ Follows("ExitBarrier2", "Reap")
      /\ Follows("Reap", "Exited")
  BY DEF Follows, Syncs, ActiveSyncs, Barriers, Places, Order
<1> QED BY <1>1, <1>2, <1>3

(* The death of a process, wherever it is. *)
LEMMA AnyPlaceThenDeath == \A p \in Places \ {"Dead"} : Follows(p, "Dead")
BY DEF Follows, Places, Order

(* A step between two such places. *)
LEMMA StepTo ==
    ASSUME SyncInv, NEW c \in Cores, NEW from, NEW to, Follows(from, to), Go(c, from, to),
           to # "Dead" /\ from \in Syncs => Meets(from)
    PROVE  SyncInv'
BY GoInv DEF Follows

(* Leaving a synchronization. *)
LEMMA WaitTo ==
    ASSUME SyncInv, NEW c \in Cores, NEW from, NEW to, Follows(from, to), Wait(c, from, to)
    PROVE  SyncInv'
BY StepTo DEF Wait

(* Steps that leave the places alone. *)
LEMMA StayInv ==
    ASSUME SyncInv, UNCHANGED <<pc, counter>>
    PROVE  SyncInv'
BY DEF SyncInv, CountInv, Arrived, NobodyRunsAhead, Past, Reached

(* All processes start before the first synchronization. *)
LEMMA InitSync == Init => SyncInv
<1> SUFFICES ASSUME Init PROVE SyncInv
  OBVIOUS
<1>1. pc \in [Cores -> Places] /\ \A c \in Cores : Order[pc[c]] <= 1
  BY DEF Init, Places, Order
<1>2. counter \in [Syncs -> Nat] /\ \A s \in Syncs : counter[s] = 0
  BY DEF Init, Syncs
<1>3. CountInv
  <2> SUFFICES ASSUME NEW s \in Syncs PROVE counter[s] <= Cardinality(Arrived(s))
    BY DEF CountInv
  <2>1. Cardinality(Arrived(s)) \in Nat
    BY CoresFinite, FS_Subset, FS_CardinalityType DEF Arrived
  <2> QED BY <2>1, <1>2
<1>4. \A s \in Syncs : Order[s] >= 3
  BY DEF Syncs, ActiveSyncs, Barriers, Order
<1>5. NobodyRunsAhead
  BY <1>1, <1>4, OrderType, SyncsArePlaces DEF NobodyRunsAhead, Past, Syncs
<1> QED BY <1>1, <1>2, <1>3, <1>5 DEF SyncInv

(* The steps of main ... *)
LEMMA MainStepInv ==
    ASSUME SyncInv, MainStep
    PROVE  SyncInv'
<1>1. Main \in Cores /\ Children \subseteq Cores
  BY DEF Cores
<1>2. {"GlobalInit", "Fork", "Unborn", "Retire", "RunGlobalExits", "TerminateWorkers",
       "Teardown", "Reap"} \cap Syncs = {}
  BY DEF Syncs, ActiveSyncs, Barriers
<1>3. CASE RunGlobalInits \/ AllForked \/ RetireAllTimers \/ GlobalExitsReturn
  BY <1>1, <1>2, <1>3, StepTo, PlacesFollow
     DEF RunGlobalInits, AllForked, RetireAllTimers, GlobalExitsReturn
<1>4. CASE WorkersTerminated \/ TearDown \/ ReapChildren
  BY <1>1, <1>2, <1>4, StepTo, PlacesFollow DEF WorkersTerminated, TearDown, ReapChildren
<1>5. CASE StartRetire \/ StartTeardown \/ MainWorkersDone \/ StartReap
  BY <1>1, <1>5, WaitTo, PlacesFollow DEF StartRetire, StartTeardown, MainWorkersDone, StartReap
<1>6. ASSUME NEW k \in Children, ForkChild(k) PROVE SyncInv'
  BY <1>1, <1>2, <1>6, StepTo, PlacesFollow DEF ForkChild
<1>7. ASSUME NEW w \in Workers, TerminateNext(w) PROVE SyncInv'
  BY <1>7, StayInv DEF TerminateNext
<1> QED BY <1>3, <1>4, <1>5, <1>6, <1>7 DEF MainStep

(* ... of a child ... *)
LEMMA ChildStepInv ==
    ASSUME SyncInv, NEW k \in Children, ChildStep(k)
    PROVE  SyncInv'
<1>1. k \in Cores
  BY DEF Cores
<1>2. {"Forked", "DeathSignalSet"} \cap Syncs = {}
  BY DEF Syncs, ActiveSyncs, Barriers
<1>3. CASE SetDeathSignal(k)
  BY <1>1, <1>2, <1>3, StepTo, PlacesFollow DEF SetDeathSignal
<1>4. CASE CheckParent(k)
  <2>1. Follows("DeathSignalSet", "Dead")
    BY AnyPlaceThenDeath, PlacesFollow DEF Follows
  <2> QED BY <1>1, <1>2, <1>4, <2>1, StepTo, PlacesFollow DEF CheckParent
<1>5. CASE ChildWaitsForGlobalExit(k) \/ ChildWaitsForWorkers(k) \/ ChildWorkersDone(k) \/ ChildExits(k)
  BY <1>1, <1>5, WaitTo, PlacesFollow
     DEF ChildWaitsForGlobalExit, ChildWaitsForWorkers, ChildWorkersDone, ChildExits
<1> QED BY <1>3, <1>4, <1>5 DEF ChildStep

(* ... and of either. *)
LEMMA CommonStepInv ==
    ASSUME SyncInv, NEW c \in Cores, CommonStep(c)
    PROVE  SyncInv'
<1>1. {"RunLocalInits", "Loop", "LastRound", "RunLocalExits", "Drain"} \cap Syncs = {}
  BY DEF Syncs, ActiveSyncs, Barriers
<1>2. CASE LocalInitsReturn(c) \/ SeeExitFlag(c) \/ LeaveLoop(c) \/ LocalExitsReturn(c) \/ Drained(c)
  BY <1>1, <1>2, StepTo, PlacesFollow
     DEF LocalInitsReturn, SeeExitFlag, LeaveLoop, LocalExitsReturn, Drained
<1>3. CASE LeaveStartBarrier(c) \/ EnterLoop(c) \/ GlobalExitSeen(c) \/ StartDrain(c) \/ TermCore(c)
  BY <1>3, WaitTo, PlacesFollow
     DEF LeaveStartBarrier, EnterLoop, GlobalExitSeen, StartDrain, TermCore
<1> QED BY <1>2, <1>3 DEF CommonStep

(* The signals: a process that dies counts as having got everywhere. *)
LEMMA SignalsInv ==
    ASSUME SyncInv, Signals
    PROVE  SyncInv'
<1>1. ASSUME NEW c \in Cores, ~ Gone(c), Go(c, pc[c], "Dead") PROVE SyncInv'
  <2>1. Follows(pc[c], "Dead")
    BY <1>1, AnyPlaceThenDeath DEF Gone, SyncInv
  <2> QED BY <1>1, <2>1, StepTo
<1>2. Main \in Cores /\ Children \subseteq Cores
  BY DEF Cores
<1>3. CASE SigintListener
  BY <1>3, StayInv DEF SigintListener
<1>4. CASE SigchldListener
  BY <1>1, <1>2, <1>4, StayInv DEF SigchldListener
<1>5. ASSUME NEW k \in Children, Sigterm(k) PROVE SyncInv'
  BY <1>1, <1>2, <1>5 DEF Sigterm
<1>6. ASSUME NEW c \in Cores, Die(c) PROVE SyncInv'
  BY <1>1, <1>6 DEF Die
<1> QED BY <1>3, <1>4, <1>5, <1>6 DEF Signals

(* Every step preserves the invariant. *)
LEMMA StepSync == SyncInv /\ [Next]_vars => SyncInv'
<1> SUFFICES ASSUME SyncInv, [Next]_vars PROVE SyncInv'
  OBVIOUS
<1>1. CASE UNCHANGED vars
  BY <1>1, StayInv DEF vars
<1>2. ASSUME NEW c \in Cores, NEW w \in Workers,
             \/ RunLocalFunction(c, w) \/ AllLocalFunctionsDone(c, w)
             \/ DeployWorker(c, w) \/ TerminateWorker(c, w)
      PROVE  SyncInv'
  BY <1>2, StayInv DEF RunLocalFunction, AllLocalFunctionsDone, DeployWorker, TerminateWorker
<1> QED BY <1>1, <1>2, MainStepInv, ChildStepInv, CommonStepInv, SignalsInv DEF Next, Dispatch

(* The synchronization points of start-up and shutdown do synchronize, for  *)
(* any number of cores, crashes of processes included.                      *)
THEOREM CoresInStep == Spec => []NobodyRunsAhead
<1>1. SyncInv => NobodyRunsAhead
  BY DEF SyncInv
<1> QED BY <1>1, InitSync, StepSync, PTL DEF Spec

(* What main does on its own, no child does. *)
MainPlaces == {"Retire", "RunGlobalExits", "TerminateWorkers", "Teardown", "Reap"}
RoleInv == \A k \in Children : pc[k] \notin MainPlaces

(* A child never gets to the places of main. *)
LEMMA RoleStep == SyncInv /\ RoleInv /\ [Next]_vars => RoleInv'
<1> SUFFICES ASSUME SyncInv, RoleInv, [Next]_vars PROVE RoleInv'
  OBVIOUS
<1>1. ASSUME NEW c \in Cores, NEW from, NEW to, Go(c, from, to), c = Main \/ to \notin MainPlaces
      PROVE  RoleInv'
  BY <1>1, DispatcherAssumption DEF Go, RoleInv, SyncInv, Cores
<1>2. ASSUME UNCHANGED pc PROVE RoleInv'
  BY <1>2 DEF RoleInv
<1>3. Main \in Cores /\ Children \subseteq Cores
  BY DEF Cores
<1>4. CASE MainStep
  <2>1. ASSUME NEW k \in Children, ForkChild(k) PROVE RoleInv'
    BY <1>1, <1>3, <2>1 DEF ForkChild, MainPlaces
  <2>2. ASSUME NEW w \in Workers, TerminateNext(w) PROVE RoleInv'
    BY <1>2, <2>2 DEF TerminateNext
  <2> QED BY <1>1, <1>3, <1>4, <2>1, <2>2 DEF MainStep, Wait, RunGlobalInits, AllForked,
          StartRetire, RetireAllTimers, GlobalExitsReturn, StartTeardown, WorkersTerminated,
          MainWorkersDone, TearDown, StartReap, ReapChildren
<1>5. ASSUME NEW k \in Children, ChildStep(k) PROVE RoleInv'
  BY <1>1, <1>3, <1>5 DEF ChildStep, Wait, MainPlaces, SetDeathSignal, CheckParent,
     ChildWaitsForGlobalExit, ChildWaitsForWorkers, ChildWorkersDone, ChildExits
<1>6. ASSUME NEW c \in Cores, CommonStep(c) PROVE RoleInv'
  BY <1>1, <1>6 DEF CommonStep, Wait, MainPlaces, LeaveStartBarrier, LocalInitsReturn, EnterLoop,
     SeeExitFlag, LeaveLoop, LocalExitsReturn, GlobalExitSeen, StartDrain, Drained, TermCore
<1>7. CASE Signals
  BY <1>1, <1>2, <1>3, <1>7 DEF Signals, SigintListener, SigchldListener, Sigterm, Die, MainPlaces
<1>8. ASSUME NEW c \in Cores, NEW w \in Workers,
             \/ RunLocalFunction(c, w) \/ AllLocalFunctionsDone(c, w)
             \/ DeployWorker(c, w) \/ TerminateWorker(c, w)
      PROVE  RoleInv'
  BY <1>2, <1>8 DEF RunLocalFunction, AllLocalFunctionsDone, DeployWorker, TerminateWorker
<1>9. CASE UNCHANGED vars
  BY <1>2, <1>9 DEF vars
<1> QED BY <1>4, <1>5, <1>6, <1>7, <1>8, <1>9 DEF Next, Dispatch

(* Between two neighbouring synchronizations there is, for a child, only    *)
(* dispatching.                                                             *)
LEMMA OverlapFromSync == SyncInv /\ RoleInv => OthersKeepDispatching
<1> SUFFICES ASSUME SyncInv, RoleInv PROVE OthersKeepDispatching
  OBVIOUS
<1>1. Main \in Cores /\ Children \subseteq Cores
  BY DEF Cores
<1>2. ASSUME NEW k \in Children, pc[k] # "Dead",
             pc[Main] \in {"Retire", "RunGlobalExits", "TerminateWorkers", "Teardown"}
      PROVE  Dispatching(k)
  <2>1. pc[k] \in Places \ MainPlaces
    BY <1>1 DEF SyncInv, RoleInv
  <2>2. CASE pc[Main] \in {"Retire", "RunGlobalExits"}
    <3>1. Reached(k, "LocalExits") /\ ~ Past(k, "WaitGlobalExit")
      BY <1>1, <2>2 DEF SyncInv, NobodyRunsAhead, Past, Reached, ActiveSyncs, Order
    <3> QED BY <1>2, <2>1, <3>1 DEF Reached, Past, Places, MainPlaces, Order, Dispatching, ActiveSyncs
  <2>3. CASE pc[Main] = "TerminateWorkers"
    <3>1. Reached(k, "GlobalExitDone") /\ ~ Past(k, "WorkersTeardown")
      BY <1>1, <2>3 DEF SyncInv, NobodyRunsAhead, Past, Reached, ActiveSyncs, Order
    <3> QED BY <1>2, <2>1, <3>1 DEF Reached, Past, Places, MainPlaces, Order, Dispatching, ActiveSyncs
  <2>4. CASE pc[Main] = "Teardown"
    <3>1. Reached(k, "WorkersTeardown") /\ ~ Past(k, "FinalSync")
      BY <1>1, <2>4 DEF SyncInv, NobodyRunsAhead, Past, Reached, ActiveSyncs, Order
    <3> QED BY <1>2, <2>1, <3>1 DEF Reached, Past, Places, MainPlaces, Order, Dispatching, ActiveSyncs
  <2> QED BY <1>2, <2>2, <2>3, <2>4
<1>3. ASSUME NEW c \in Cores, pc[c] \in {"ExitBarrier2", "Reap", "Exited"}, NEW d \in Cores
      PROVE  ~ Dispatching(d)
  <2>1. Reached(d, "ExitBarrier")
    BY <1>3 DEF SyncInv, NobodyRunsAhead, Past, Barriers, Order
  <2> QED BY <2>1 DEF Reached, Dispatching, ActiveSyncs, Order
<1> QED BY <1>2, <1>3 DEF OthersKeepDispatching

(* Main retires timers, runs the global exits, terminates workers and tears *)
(* the platform down only while the other cores dispatch, and nobody        *)
(* dispatches once EM is terminated on a core - for any number of cores.    *)
THEOREM ShutdownOverlaps == Spec => []OthersKeepDispatching
<1>1. Init => RoleInv
  BY DispatcherAssumption DEF Init, RoleInv, MainPlaces, Cores
<1> QED BY <1>1, InitSync, StepSync, RoleStep, OverlapFromSync, PTL DEF Spec
-----------------------------------------------------------------------------
(* What a move of process c in the sequence of places does to the other     *)
(* local state: nobody comes back from its end, main ends after its         *)
(* children, and polling and allow are given up before the local exits.     *)
Move(c, from, to) ==
    /\ Go(c, from, to)
    /\ from \notin {"Exited", "Dead"}
    /\ c = Main /\ to = "Exited" => \A k \in Children : Gone(k)
    /\ polling' \subseteq polling \cup (IF to = "Loop" THEN {c} ELSE {})
    /\ allow' \subseteq allow
    /\ \/ to = "Dead"
       \/ Order[to] < Order["RunLocalExits"]
       \/ Order[from] >= Order["RunLocalExits"] /\ to # "Loop"
       \/ c \notin polling' \cup allow'

(* Every step moves one process, or leaves all of them where they are. *)
LEMMA StepMoves ==
    ASSUME SyncInv, [Next]_vars
    PROVE  \/ UNCHANGED <<pc, polling, allow>>
           \/ \E c \in Cores : \E from, to \in Places : Move(c, from, to)
<1> DEFINE Goal == \/ UNCHANGED <<pc, polling, allow>>
                   \/ \E c \in Cores : \E from, to \in Places : Move(c, from, to)
<1>1. ASSUME NEW c \in Cores, NEW from \in Places \ {"Exited", "Dead"}, NEW to \in Places,
             Go(c, from, to), UNCHANGED <<polling, allow>>, c # Main \/ to # "Exited", to # "Loop",
             \/ to = "Dead" \/ Order[to] < Order["RunLocalExits"]
             \/ Order[from] >= Order["RunLocalExits"]
      PROVE  Goal
  <2>1. Move(c, from, to)
    BY <1>1 DEF Move
  <2> QED BY <2>1
<1>2. Main \in Cores /\ Children \subseteq Cores
  BY DEF Cores
<1>3. CASE MainStep
  <2>1. CASE RunGlobalInits \/ AllForked \/ StartRetire \/ RetireAllTimers
    BY <1>1, <1>2, <2>1 DEF RunGlobalInits, AllForked, StartRetire, RetireAllTimers, Wait,
       localVars, Places, Order
  <2>2. CASE GlobalExitsReturn \/ StartTeardown \/ WorkersTerminated \/ MainWorkersDone
    BY <1>1, <1>2, <2>2 DEF GlobalExitsReturn, StartTeardown, WorkersTerminated, MainWorkersDone,
       Wait, localVars, Places, Order
  <2>3. CASE TearDown \/ StartReap
    BY <1>1, <1>2, <2>3 DEF TearDown, StartReap, Wait, localVars, Places, Order
  <2>4. CASE ReapChildren
    <3>1. Move(Main, "Reap", "Exited")
      BY <2>4 DEF ReapChildren, Move, localVars, Order
    <3>2. "Reap" \in Places /\ "Exited" \in Places
      BY DEF Places, Order
    <3> QED BY <1>2, <3>1, <3>2
  <2>5. ASSUME NEW k \in Children, ForkChild(k) PROVE Goal
    BY <1>1, <1>2, <2>5 DEF ForkChild, localVars, Places, Order
  <2>6. ASSUME NEW w \in Workers, TerminateNext(w) PROVE Goal
    BY <2>6 DEF TerminateNext, localVars
  <2> QED BY <1>3, <2>1, <2>2, <2>3, <2>4, <2>5, <2>6 DEF MainStep
<1>4. ASSUME NEW k \in Children, ChildStep(k) PROVE Goal
  <2>1. k \in Cores /\ k # Main
    BY <1>2, DispatcherAssumption
  <2>2. CASE SetDeathSignal(k) \/ CheckParent(k)
    BY <1>1, <2>1, <2>2 DEF SetDeathSignal, CheckParent, localVars, Places, Order
  <2>3. CASE ChildWaitsForGlobalExit(k) \/ ChildWaitsForWorkers(k)
    BY <1>1, <2>1, <2>3 DEF ChildWaitsForGlobalExit, ChildWaitsForWorkers, Wait, localVars,
       Places, Order
  <2>4. CASE ChildWorkersDone(k) \/ ChildExits(k)
    BY <1>1, <2>1, <2>4 DEF ChildWorkersDone, ChildExits, Wait, localVars, Places, Order
  <2> QED BY <1>4, <2>2, <2>3, <2>4 DEF ChildStep
<1>5. ASSUME NEW c \in Cores, CommonStep(c) PROVE Goal
  <2>1. CASE LeaveStartBarrier(c) \/ LocalInitsReturn(c) \/ SeeExitFlag(c)
    BY <1>1, <2>1 DEF LeaveStartBarrier, LocalInitsReturn, SeeExitFlag, Wait, localVars,
       Places, Order
  <2>2. CASE LocalExitsReturn(c) \/ GlobalExitSeen(c) \/ StartDrain(c) \/ Drained(c) \/ TermCore(c)
    BY <1>1, <2>2 DEF LocalExitsReturn, GlobalExitSeen, StartDrain, Drained, TermCore, Wait,
       localVars, Places, Order
  <2>3. CASE EnterLoop(c)
    <3>1. Move(c, "LocalInits", "Loop")
      BY <2>3 DEF EnterLoop, Wait, Move, Order
    <3>2. "LocalInits" \in Places /\ "Loop" \in Places
      BY DEF Places, Order
    <3> QED BY <3>1, <3>2
  <2>4. CASE LeaveLoop(c)
    <3>1. Move(c, "LastRound", "RunLocalExits")
      BY <2>4 DEF LeaveLoop, Move
    <3>2. "LastRound" \in Places /\ "RunLocalExits" \in Places
      BY DEF Places, Order
    <3> QED BY <3>1, <3>2
  <2> QED BY <1>5, <2>1, <2>2, <2>3, <2>4 DEF CommonStep
<1>6. CASE Signals
  <2>1. ASSUME NEW c \in Cores, ~ Gone(c), Go(c, pc[c], "Dead"), UNCHANGED <<polling, allow>>
        PROVE  Goal
    <3>1. pc[c] \in Places \ {"Exited", "Dead"} /\ "Dead" \in Places
      BY <2>1 DEF Gone, SyncInv, Places, Order
    <3> QED BY <1>1, <2>1, <3>1
  <2>2. CASE SigintListener
    BY <2>2 DEF SigintListener
  <2>3. CASE SigchldListener
    BY <1>2, <2>1, <2>3 DEF SigchldListener
  <2>4. ASSUME NEW k \in Children, Sigterm(k) PROVE Goal
    BY <1>2, <2>1, <2>4 DEF Sigterm
  <2>5. ASSUME NEW c \in Cores, Die(c) PROVE Goal
    BY <2>1, <2>5 DEF Die
  <2> QED BY <1>6, <2>2, <2>3, <2>4, <2>5 DEF Signals
<1>7. ASSUME NEW c \in Cores, NEW w \in Workers,
             \/ RunLocalFunction(c, w) \/ AllLocalFunctionsDone(c, w)
             \/ DeployWorker(c, w) \/ TerminateWorker(c, w)
      PROVE  Goal
  BY <1>7 DEF RunLocalFunction, AllLocalFunctionsDone, DeployWorker, TerminateWorker, localVars
<1>8. CASE UNCHANGED vars
  BY <1>8 DEF vars
<1> QED BY <1>3, <1>4, <1>5, <1>6, <1>7, <1>8 DEF Next, Dispatch

(* A core in its local exits or beyond has given up polling and creating. *)
QuietInv ==
    \A c \in Cores :
        pc[c] # "Dead" /\ Order[pc[c]] >= Order["RunLocalExits"] => c \notin polling \cup allow

(* The variables that SyncInv does not mention have their types. *)
RestTypeOK ==
    /\ exitFlag \in BOOLEAN
    /\ polling \subseteq Cores
    /\ allow \subseteq Cores
    /\ worker \in [Workers -> {"Inactive", "Deploying", "Active", "Terminating"}]
    /\ pending \in [Workers -> SUBSET Cores]
    /\ scan \subseteq Workers
    /\ torn \in BOOLEAN
    /\ signalled \subseteq Cores

TeardownInv == RestTypeOK /\ QuietInv /\ MainExitsLast

(* At the start no core is anywhere near its local exits. *)
LEMMA InitTeardown == Init => TeardownInv
<1> SUFFICES ASSUME Init PROVE TeardownInv
  OBVIOUS
<1>1. RestTypeOK
  BY DEF Init, RestTypeOK
<1>2. \A c \in Cores : pc[c] \in {"GlobalInit", "Unborn"}
  BY DEF Init
<1>3. QuietInv
  BY <1>2 DEF QuietInv, Order
<1>4. MainExitsLast
  BY <1>2 DEF MainExitsLast, Cores
<1> QED BY <1>1, <1>3, <1>4 DEF TeardownInv

(* Moves keep the cores quiet, and main the last to exit. *)
LEMMA MoveQuiet ==
    ASSUME SyncInv, QuietInv, MainExitsLast, NEW c \in Cores, NEW from \in Places,
           NEW to \in Places, Move(c, from, to)
    PROVE  QuietInv' /\ MainExitsLast'
<1>1. /\ pc[c] = from /\ pc'[c] = to
      /\ \A d \in Cores : d # c => pc'[d] = pc[d]
  BY DEF Move, Go, SyncInv
<1>2. Main \in Cores /\ Children \subseteq Cores /\ Main \notin Children
  BY DispatcherAssumption DEF Cores
<1>3. Order["RunLocalExits"] \in Nat /\ Order[from] \in Nat /\ Order[to] \in Nat
  BY OrderType DEF Places, Order
<1>4. ASSUME NEW d \in Cores, pc'[d] # "Dead", Order[pc'[d]] >= Order["RunLocalExits"]
      PROVE  d \notin polling' \cup allow'
  <2>1. CASE d # c
    BY <1>1, <1>4, <2>1 DEF QuietInv, Move
  <2>2. CASE d = c
    <3>1. (Order[from] >= Order["RunLocalExits"] /\ to # "Loop") \/ c \notin polling' \cup allow'
      BY <1>1, <1>3, <1>4, <2>2 DEF Move
    <3> QED BY <1>1, <2>2, <3>1 DEF QuietInv, Move
  <2> QED BY <2>1, <2>2
<1>5. MainExitsLast'
  BY <1>1, <1>2 DEF MainExitsLast, Gone, Move
<1> QED BY <1>4, <1>5 DEF QuietInv

(* The types of the other variables, action by action. *)
LEMMA StepRestType == RestTypeOK /\ [Next]_vars => RestTypeOK'
<1> SUFFICES ASSUME RestTypeOK, [Next]_vars PROVE RestTypeOK'
  OBVIOUS
<1>1. Main \in Cores /\ Children \subseteq Cores
  BY DEF Cores
<1>2. CASE UNCHANGED <<localVars, workerVars>>
  BY <1>2 DEF RestTypeOK, localVars, workerVars
<1>3. CASE MainStep
  <2>1. ASSUME NEW w \in Workers, TerminateNext(w) PROVE RestTypeOK'
    BY <2>1 DEF TerminateNext, Terminate, RestTypeOK, localVars
  <2>2. CASE TearDown
    BY <2>2 DEF TearDown, RestTypeOK, localVars
  <2> QED BY <1>2, <1>3, <2>1, <2>2 DEF MainStep, RunGlobalInits, ForkChild, AllForked,
          StartRetire, RetireAllTimers, GlobalExitsReturn, StartTeardown, WorkersTerminated,
          MainWorkersDone, StartReap, ReapChildren
<1>4. ASSUME NEW k \in Children, ChildStep(k) PROVE RestTypeOK'
  <2>1. CASE ChildExits(k)
    BY <1>1, <2>1 DEF ChildExits, RestTypeOK, workerVars
  <2>2. CASE CheckParent(k)
    <3>1. signalled' \subseteq Cores
      BY <1>1, <2>2 DEF CheckParent, SignalsAtDeath, RestTypeOK
    <3> QED BY <2>2, <3>1 DEF CheckParent, RestTypeOK, workerVars
  <2> QED BY <1>2, <1>4, <2>1, <2>2 DEF ChildStep, SetDeathSignal,
          ChildWaitsForGlobalExit, ChildWaitsForWorkers, ChildWorkersDone
<1>5. ASSUME NEW c \in Cores, CommonStep(c) PROVE RestTypeOK'
  <2>1. CASE EnterLoop(c)
    BY <2>1 DEF EnterLoop, RestTypeOK, workerVars
  <2>2. CASE LeaveLoop(c)
    BY <2>2 DEF LeaveLoop, RestTypeOK, workerVars
  <2> QED BY <1>2, <1>5, <2>1, <2>2 DEF CommonStep, LeaveStartBarrier, LocalInitsReturn,
          SeeExitFlag, LocalExitsReturn, GlobalExitSeen, StartDrain, Drained, TermCore
<1>6. CASE Signals
  <2>1. \A c \in Cores : SignalsAtDeath(c) \subseteq Cores
    BY <1>1 DEF SignalsAtDeath
  <2> QED BY <1>1, <1>6, <2>1 DEF Signals, SigintListener, SigchldListener, Sigterm, Die,
          RestTypeOK, workerVars
<1>7. ASSUME NEW c \in Cores, NEW w \in Workers,
             RunLocalFunction(c, w) \/ AllLocalFunctionsDone(c, w)
      PROVE  RestTypeOK'
  BY <1>7 DEF RunLocalFunction, AllLocalFunctionsDone, RestTypeOK, localVars
<1>8. ASSUME NEW c \in Cores, NEW w \in Workers, DeployWorker(c, w) \/ TerminateWorker(c, w)
      PROVE  RestTypeOK'
  BY <1>8 DEF DeployWorker, TerminateWorker, Terminate, RestTypeOK, localVars
<1>9. CASE UNCHANGED vars
  BY <1>9 DEF vars, RestTypeOK
<1> QED BY <1>3, <1>4, <1>5, <1>6, <1>7, <1>8, <1>9 DEF Next, Dispatch

(* Every step preserves the invariant. *)
LEMMA StepTeardown == SyncInv /\ TeardownInv /\ [Next]_vars => TeardownInv'
<1> SUFFICES ASSUME SyncInv, TeardownInv, [Next]_vars PROVE TeardownInv'
  OBVIOUS
<1>1. RestTypeOK'
  BY StepRestType DEF TeardownInv
<1>2. ASSUME UNCHANGED <<pc, polling, allow>> PROVE QuietInv' /\ MainExitsLast'
  BY <1>2 DEF TeardownInv, QuietInv, MainExitsLast, Gone
<1>3. QuietInv' /\ MainExitsLast'
  BY <1>2, StepMoves, MoveQuiet DEF TeardownInv
<1> QED BY <1>1, <1>3 DEF TeardownInv

(* Main gets to RetireAllTimers past LocalExits, so all have left the loop. *)
LEMMA TeardownFromSync == SyncInv /\ TeardownInv => TeardownAlone
<1> SUFFICES ASSUME SyncInv, TeardownInv PROVE TeardownAlone
  OBVIOUS
<1>1. QuietAtShutdown
  <2> SUFFICES ASSUME pc[Main] # "Dead", Order[pc[Main]] >= Order["Retire"],
                      NEW c \in Cores, pc[c] # "Dead"
               PROVE  c \notin polling \cup allow
    BY DEF QuietAtShutdown
  <2>1. Main \in Cores /\ pc[Main] \in Places /\ pc[c] \in Places
    BY DEF Cores, SyncInv
  <2>2. /\ Order["Retire"] = 10 /\ Order["LocalExits"] = 9 /\ Order["RunLocalExits"] = 8
        /\ Order[pc[Main]] \in Nat /\ Order[pc[c]] \in Nat
    BY <2>1, OrderType DEF Order
  <2>3. Past(Main, "LocalExits")
    BY <2>2 DEF Past
  <2>4. Reached(c, "LocalExits")
    BY <2>1, <2>3 DEF SyncInv, NobodyRunsAhead, ActiveSyncs
  <2> QED BY <2>2, <2>4 DEF Reached, TeardownInv, QuietInv
<1>2. counter \in [Syncs -> 0 .. Cardinality(Cores)]
  <2>1. ASSUME NEW s \in Syncs PROVE counter[s] \in 0 .. Cardinality(Cores)
    <3>1. Arrived(s) \subseteq Cores
      BY DEF Arrived
    <3>2. /\ Cardinality(Cores) \in Nat /\ Cardinality(Arrived(s)) \in Nat
          /\ Cardinality(Arrived(s)) <= Cardinality(Cores)
      BY <3>1, CoresFinite, FS_Subset, FS_CardinalityType
    <3> QED BY <3>2 DEF SyncInv, CountInv
  <2> QED BY <2>1 DEF SyncInv
<1> QED BY <1>1, <1>2 DEF TeardownAlone, TypeOK, TeardownInv, RestTypeOK, SyncInv, Syncs

(* Main tears the platform down alone: from RetireAllTimers on no live core *)
(* polls, creates timers or deploys workers, and main is the last to exit,  *)
(* for any number of cores and with crashes at any moment.                  *)
THEOREM MainTearsDownAlone == Spec => []TeardownAlone
BY InitSync, StepSync, InitTeardown, StepTeardown, TeardownFromSync, PTL DEF Spec
=============================================================================
