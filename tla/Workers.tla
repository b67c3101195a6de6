------------------------------ MODULE Workers ------------------------------
(***************************************************************************)
(* The life of a worker: the worker table (worker_table.c), deployment and *)
(* termination (workers.c), the completion daemon (completion_daemon.c)    *)
(* and the routing of messages inside a node, with the buffer for messages *)
(* that arrive before the worker is up (messaging/local, messaging/        *)
(* router.c).                                                              *)
(*                                                                         *)
(* Every core is a process that runs one thing at a time; stack[c] holds   *)
(* the calls it is in, innermost first.  A core with an empty stack is in  *)
(* the dispatch loop (or in application start-up code).  A frame is a      *)
(* DeployWorker call, at one of its steps, or an EO callback that runs     *)
(* user code.  Whatever the code does while it holds the lock of a table   *)
(* entry is one action.                                                    *)
(*                                                                         *)
(* The event machine is external: eo[e] is an execution object with its    *)
(* queue.  em_eo_start runs the start function at once and the local start *)
(* function on every core, from the dispatch loop, then makes the EO       *)
(* "Running" and sends the notification; em_eo_stop disables the queue,    *)
(* runs the local stop function on every core and then the stop function.  *)
(* Events of a disabled queue are dropped.                                 *)
(*                                                                         *)
(* Calls that the code refuses, and messages that it destroys before       *)
(* anybody holds them, are stuttering steps.  Any core of the core mask    *)
(* may run the body at any time, which covers parallel workers and atomic  *)
(* ones that leave their atomic context (EndAtomicContext) at once.        *)
(***************************************************************************)
EXTENDS IdFifo, Subsequence

CONSTANTS Cores,         (* the dispatcher processes, one per core           *)
          CoreMasks,     (* the core masks that configurations ask for       *)
          Names,         (* worker names                                     *)
          NoName,        (* the empty name                                   *)
          Eos,           (* handles of execution objects                     *)
          NoEo,          (* EM_EO_UNDEF                                      *)
          Messages,      (* message handles                                  *)
          BufferLength,  (* MESSAGE_BUFFER_LENGTH                            *)
          MaxDepth,      (* bound on nested calls on one core                *)
          Failures       (* what may fail: "Eo", "Queue", "Init", "Send"     *)

ASSUME WorkersAssumption ==
    /\ CoreMasks \subseteq SUBSET Cores
    /\ NoEo \notin Eos
    /\ NoName \notin Names
    /\ BufferLength \in Nat
    /\ MaxDepth \in Nat \ {0}
    /\ Failures \subseteq {"Eo", "Queue", "Init", "Send"}

VARIABLES table,    (* s_workerTable: one context per local worker ID        *)
          fifo,     (* s_idFifo: the free dynamic IDs                        *)
          eo,       (* the execution objects of EM                           *)
          notifs,   (* deployment notifications on their way to the daemon   *)
          stack,    (* per core: the calls in progress, innermost first      *)
          live,     (* messages that have been sent and not been freed       *)
          allow,    (* the cores with s_allowAllocations set                 *)
          failed    (* the assertions that did not hold                      *)

vars == <<table, fifo, eo, notifs, stack, live, allow, failed>>

(* Local IDs below IdBase (WORKER_ID_DYNAMIC_BASE) are static. *)
Workers == 0 .. (IdBase + IdCount - 1)
WorkerStates == {"Inactive", "Deploying", "Active", "Terminating"}
Buffers == UNION {[1 .. n -> Messages] : n \in 0 .. BufferLength}

Contexts == [State : WorkerStates, WorkerId : Workers \cup {NoId},
             TerminationRequested : BOOLEAN, CoreMask : SUBSET Cores,
             Name : Names \cup {NoName}, Eo : Eos \cup {NoEo},
             MessageBuffer : Buffers]

(* An EO is "Start"ing or "Stop"ping in its global function, "LocalStart"   *)
(* or "LocalStop" while the cores in Pending have not run the local one.    *)
EoStates == {"Undef", "Created", "Start", "LocalStart", "Running", "LocalStop", "Stop"}
NoEoRecord == [State |-> "Undef", Context |-> NoId, Name |-> NoName,
               Pending |-> {}, Queue |-> << >>]

(* Where a frame is: in a callback of worker w, in its DeployWorker call,   *)
(* or in em_eo_delete, which ends both; pad tells whether s_jumpPad leads   *)
(* to this frame.                                                           *)
Callbacks == {"Start", "LocalStart", "Receive", "LocalStop", "Stop"}
DeploySteps == {"Allocated", "Reserved", "Starting", "Started", "RollBack"}
Frames == [at : Callbacks \cup DeploySteps \cup {"DeleteEo", "Crashed"},
           w : Workers, eo : Eos \cup {NoEo}, pad : BOOLEAN]

-----------------------------------------------------------------------------
Check(name, condition) == IF condition THEN {} ELSE {name}

Top(c) == Head(stack[c])
At(c, place) == stack[c] # << >> /\ Top(c).at = place

Dispatching(c) == stack[c] = << >>

(* User code runs in a callback, or outside EM in the application's         *)
(* initialization, which here includes the platform's own senders.          *)
UserCode(c) == ~ Dispatching(c) => Top(c).at \in Callbacks

(* The innermost frame of c moves on to another step. *)
GoTo(c, place, e) ==
    [stack EXCEPT ![c] =
       <<[at |-> place, w |-> Top(c).w, eo |-> e, pad |-> FALSE]>> \o Tail(@)]
Call(c, place, w, e, pad) ==
    [stack EXCEPT ![c] = <<[at |-> place, w |-> w, eo |-> e, pad |-> pad]>> \o @]
Return(c) == [stack EXCEPT ![c] = Tail(@)]

(* The start function returns, and em_eo_start to DeployWorker. *)
LeaveStart(c, place) ==
    [stack EXCEPT ![c] =
       <<[at |-> place, w |-> Top(c).w, eo |-> Top(c).eo, pad |-> FALSE]>> \o Tail(Tail(@))]

ResetContext ==
    [State |-> "Inactive", WorkerId |-> NoId, TerminationRequested |-> FALSE,
     CoreMask |-> {}, Name |-> NoName, Eo |-> NoEo, MessageBuffer |-> << >>]

(* A slip: dynamic IDs are not recycled. *)
NoRecycleReleaseWorkerContext(w) ==
    /\ table' = [table EXCEPT ![w] = ResetContext]
    /\ UNCHANGED fifo

(* ReleaseWorkerContext, and what it asserts. *)
ReleaseWorkerContext(w) ==
    /\ table' = [table EXCEPT ![w] = ResetContext]
    /\ fifo' = IF w >= IdBase THEN ReleaseId(fifo, w) ELSE fifo
ReleaseChecks(w) ==
    Check("ReleaseWorkerContext", table[w].State # "Active" /\ table[w].WorkerId = w)
      \cup Check("ReleaseDynamicLocalId", w >= IdBase => ReleaseAssert(fifo))

(* em_eo_stop on the EO of worker w; it must be running. *)
EoStop(w) ==
    [eo EXCEPT ![table[w].Eo] = [@ EXCEPT !.State = "LocalStop", !.Pending = Cores]]
EoStopCheck(w) ==
    Check("em_eo_stop", table[w].Eo # NoEo /\ eo[table[w].Eo].State = "Running")

(* The messages in a sequence. *)
In(s) == {s[i] : i \in 1 .. Len(s)}

-----------------------------------------------------------------------------
Init ==
    /\ table = [w \in Workers |-> ResetContext]
    /\ fifo = FifoInit
    /\ eo = [e \in Eos |-> NoEoRecord]
    /\ notifs = {}
    /\ stack = [c \in Cores |-> << >>]
    /\ live = {}
    /\ allow = Cores
    /\ failed = {}

(* DeployWorker may be called from any user code but exit code (workers.h). *)
MayDeploy(c) ==
    /\ c \in allow
    /\ UserCode(c)
    /\ ~ At(c, "LocalStop") /\ ~ At(c, "Stop")
    /\ Len(stack[c]) + 2 <= MaxDepth

(* ReserveWorkerContext with a dynamic ID: first AllocateDynamicLocalId ... *)
DeployDynamic(c) ==
    /\ MayDeploy(c)
    /\ fifo.FreeIds > 0
    /\ failed' = failed \cup Check("AllocateDynamicLocalId", AllocateAssert(fifo))
    /\ stack' = Call(c, "Allocated", AllocatedId(fifo), NoEo, FALSE)
    /\ fifo' = AllocateId(fifo)
    /\ UNCHANGED <<table, eo, notifs, live, allow>>

(* ... and then the entry, under its lock. *)
ReserveDynamic(c) ==
    LET w == Top(c).w
    IN  /\ At(c, "Allocated")
        /\ failed' = failed \cup Check("ReserveWorkerContext", table[w].State = "Inactive")
        /\ table' = [table EXCEPT ![w].State = "Deploying", ![w].WorkerId = w]
        /\ stack' = GoTo(c, "Reserved", NoEo)
        /\ UNCHANGED <<fifo, eo, notifs, live, allow>>

(* A slip: an entry whose worker is terminating passes for a free one. *)
AnyStateDeployStatic(c, w) ==
    /\ MayDeploy(c)
    /\ w < IdBase
    /\ table[w].State \notin {"Deploying", "Active"}
    /\ table' = [table EXCEPT ![w].State = "Deploying", ![w].WorkerId = w]
    /\ stack' = Call(c, "Reserved", w, NoEo, FALSE)
    /\ UNCHANGED <<fifo, eo, notifs, live, allow, failed>>

(* ReserveWorkerContext with a static ID. *)
DeployStatic(c, w) ==
    /\ MayDeploy(c)
    /\ w < IdBase
    /\ table[w].State = "Inactive"
    /\ table' = [table EXCEPT ![w].State = "Deploying", ![w].WorkerId = w]
    /\ stack' = Call(c, "Reserved", w, NoEo, FALSE)
    /\ UNCHANGED <<fifo, eo, notifs, live, allow, failed>>

(* No notification event or no EO to be had: the context is released. *)
DeployNoEo(c) ==
    LET w == Top(c).w
    IN  /\ At(c, "Reserved")
        /\ "Eo" \in Failures \/ \A e \in Eos : eo[e].State # "Undef"
        /\ failed' = failed \cup ReleaseChecks(w)
        /\ ReleaseWorkerContext(w)
        /\ stack' = Return(c)
        /\ UNCHANGED <<eo, notifs, live, allow>>

(* No queue: the context is released and the new EO is to be deleted. *)
DeployNoQueue(c, e) ==
    LET w == Top(c).w
    IN  /\ At(c, "Reserved")
        /\ "Queue" \in Failures
        /\ eo[e].State = "Undef"
        /\ \E name \in Names :
              eo' = [eo EXCEPT ![e] = [NoEoRecord EXCEPT !.State = "Created",
                                                         !.Context = w, !.Name = name]]
        /\ failed' = failed \cup ReleaseChecks(w)
        /\ ReleaseWorkerContext(w)
        /\ stack' = GoTo(c, "DeleteEo", e)
        /\ UNCHANGED <<notifs, live, allow>>

(* EO and queue are there; em_eo_start calls WorkerEoStart, which sets the  *)
(* landing pad, the only one there is, and calls UserInit.                  *)
DeployStart(c, e, mask, name) ==
    LET w == Top(c).w
    IN  /\ At(c, "Reserved")
        /\ eo[e].State = "Undef"
        /\ table' = [table EXCEPT ![w].CoreMask = mask, ![w].Name = name, ![w].Eo = e]
        /\ eo' = [eo EXCEPT ![e] = [NoEoRecord EXCEPT !.State = "Start",
                                                      !.Context = w, !.Name = name]]
        /\ stack' = [stack EXCEPT ![c] =
                       <<[at |-> "Start", w |-> w, eo |-> e, pad |-> TRUE],
                         [at |-> "Starting", w |-> w, eo |-> e, pad |-> FALSE]>>
                       \o [i \in DOMAIN Tail(@) |-> [Tail(@)[i] EXCEPT !.pad = FALSE]]]
        /\ UNCHANGED <<fifo, notifs, live, allow, failed>>

(* UserInit fails, em_eo_start returns an error. *)
StartFails(c) ==
    /\ At(c, "Start")
    /\ "Init" \in Failures
    /\ eo' = [eo EXCEPT ![Top(c).eo].State = "Created"]
    /\ stack' = LeaveStart(c, "RollBack")
    /\ UNCHANGED <<table, fifo, notifs, live, allow, failed>>

(* A slip: the EO is forgotten when its start has failed. *)
KeepEoDeployRollBack(c) ==
    /\ At(c, "RollBack")
    /\ failed' = failed \cup ReleaseChecks(Top(c).w)
    /\ ReleaseWorkerContext(Top(c).w)
    /\ stack' = Return(c)
    /\ UNCHANGED <<eo, notifs, live, allow>>

DeployRollBack(c) ==
    /\ At(c, "RollBack")
    /\ failed' = failed \cup ReleaseChecks(Top(c).w)
    /\ ReleaseWorkerContext(Top(c).w)
    /\ stack' = GoTo(c, "DeleteEo", Top(c).eo)
    /\ UNCHANGED <<eo, notifs, live, allow>>

(* em_eo_delete, after a failed deployment or at the end of WorkerEoStop;   *)
(* the queue goes with the EO.                                              *)
DeleteEo(c) ==
    LET e == Top(c).eo
    IN  /\ At(c, "DeleteEo")
        /\ failed' = failed \cup Check("em_eo_delete", eo[e].State \in {"Created", "Stop"})
        /\ live' = live \ In(eo[e].Queue)
        /\ eo' = [eo EXCEPT ![e] = NoEoRecord]
        /\ stack' = Return(c)
        /\ UNCHANGED <<table, fifo, notifs, allow>>

(* DeployWorker returns context->WorkerId, read without the lock. *)
DeployReturn(c) ==
    /\ At(c, "Started")
    /\ failed' = failed \cup Check("DeployWorker result", table[Top(c).w].WorkerId = Top(c).w)
    /\ stack' = Return(c)
    /\ UNCHANGED <<table, fifo, eo, notifs, live, allow>>

-----------------------------------------------------------------------------
(* A slip: the local initialization runs on every core. *)
EverywhereEoLocalStart(c, e) ==
    /\ Dispatching(c)
    /\ eo[e].State = "LocalStart"
    /\ c \in eo[e].Pending
    /\ stack' = Call(c, "LocalStart", eo[e].Context, e, TRUE)
    /\ UNCHANGED <<table, fifo, eo, notifs, live, allow, failed>>

(* EM calls WorkerEoLocalStart and WorkerEoLocalStop on every core; those   *)
(* that do not host the worker run no user code.                            *)
EoLocalStart(c, e) ==
    LET w == eo[e].Context
    IN  /\ Dispatching(c)
        /\ eo[e].State = "LocalStart"
        /\ c \in eo[e].Pending
        /\ IF c \in table[w].CoreMask
           THEN /\ stack' = Call(c, "LocalStart", w, e, TRUE)
                /\ UNCHANGED eo
           ELSE /\ eo' = [eo EXCEPT ![e].Pending = @ \ {c}]
                /\ UNCHANGED stack
        /\ UNCHANGED <<table, fifo, notifs, live, allow, failed>>

(* The last local start is done: EM sends the notification event. *)
EoStartDone(e) ==
    /\ eo[e].State = "LocalStart"
    /\ eo[e].Pending = {}
    /\ eo' = [eo EXCEPT ![e].State = "Running"]
    /\ notifs' = notifs \cup {eo[e].Context}
    /\ UNCHANGED <<table, fifo, stack, live, allow, failed>>

(* The EO after its queue has accepted the messages s. *)
Enqueue(e, s) == [eo EXCEPT ![e].Queue = @ \o s]

(* Slips: the termination request is not looked at; or it is, but nothing   *)
(* is done about it; the flushed messages stay in the buffer; the messages  *)
(* of a worker to be terminated are not dropped.                            *)
IgnoreRequestComplete(w) ==
    /\ w \in notifs
    /\ notifs' = notifs \ {w}
    /\ eo' = Enqueue(table[w].Eo, table[w].MessageBuffer)
    /\ table' = [table EXCEPT ![w].State = "Active", ![w].MessageBuffer = << >>]
    /\ UNCHANGED <<fifo, stack, live, allow, failed>>
NothingDoneComplete(w) ==
    /\ w \in notifs
    /\ notifs' = notifs \ {w}
    /\ IF table[w].TerminationRequested
       THEN UNCHANGED <<table, eo>>
       ELSE /\ eo' = Enqueue(table[w].Eo, table[w].MessageBuffer)
            /\ table' = [table EXCEPT ![w].State = "Active", ![w].MessageBuffer = << >>]
    /\ UNCHANGED <<fifo, stack, live, allow, failed>>
KeepBufferComplete(w) ==
    /\ w \in notifs
    /\ notifs' = notifs \ {w}
    /\ ~ table[w].TerminationRequested
    /\ eo' = Enqueue(table[w].Eo, table[w].MessageBuffer)
    /\ table' = [table EXCEPT ![w].State = "Active"]
    /\ UNCHANGED <<fifo, stack, live, allow, failed>>
ForgetDropComplete(w) ==
    /\ w \in notifs
    /\ notifs' = notifs \ {w}
    /\ IF table[w].TerminationRequested
       THEN table' = [table EXCEPT ![w].State = "Terminating"] /\ eo' = EoStop(w)
       ELSE /\ eo' = Enqueue(table[w].Eo, table[w].MessageBuffer)
            /\ table' = [table EXCEPT ![w].State = "Active", ![w].MessageBuffer = << >>]
    /\ UNCHANGED <<fifo, stack, live, allow, failed>>

(* The completion daemon handles a notification: CompleteWorkerDeployment,  *)
(* with FlushBufferedMessages or DropBufferedMessages.  Sending a buffered  *)
(* message may fail, then it is destroyed.                                  *)
CompleteWorkerDeployment(w) ==
    LET e == table[w].Eo
        buffer == table[w].MessageBuffer
    IN  /\ w \in notifs
        /\ \E c \in Cores : Dispatching(c)
        /\ notifs' = notifs \ {w}
        /\ failed' = failed
             \cup Check("CompleteWorkerDeployment", e # NoEo /\ eo[e].State = "Running")
             \cup Check("MarkDeploymentSuccessful", table[w].State = "Deploying")
        /\ IF ~ table[w].TerminationRequested
           THEN \E sent \in IF "Send" \in Failures THEN SUBSET In(buffer) ELSE {In(buffer)} :
                  /\ eo' = Enqueue(e, Kept(buffer, sent))
                  /\ live' = live \ (In(buffer) \ sent)
                  /\ table' = [table EXCEPT ![w].State = "Active", ![w].MessageBuffer = << >>]
           ELSE /\ live' = live \ In(buffer)
                /\ table' = [table EXCEPT ![w].State = "Terminating", ![w].MessageBuffer = << >>]
                /\ eo' = EoStop(w)
        /\ UNCHANGED <<fifo, stack, allow>>

(* A message is dispatched to WorkerEoReceive on a core that hosts the      *)
(* worker; from then on it is the application's.                            *)
Receive(c, e) ==
    LET w == eo[e].Context
    IN  /\ Dispatching(c)
        /\ eo[e].State = "Running"
        /\ eo[e].Queue # << >>
        /\ c \in table[w].CoreMask
        /\ failed' = failed \cup Check("WorkerBody", table[w].State # "Inactive")
        /\ live' = live \ {Head(eo[e].Queue)}
        /\ eo' = [eo EXCEPT ![e].Queue = Tail(@)]
        /\ stack' = Call(c, "Receive", w, e, TRUE)
        /\ UNCHANGED <<table, fifo, notifs, allow>>

(* External: EM drops an event of a queue that has been disabled. *)
DropEvent(e) ==
    /\ eo[e].State \in {"LocalStop", "Stop"}
    /\ eo[e].Queue # << >>
    /\ live' = live \ {Head(eo[e].Queue)}
    /\ eo' = [eo EXCEPT ![e].Queue = Tail(@)]
    /\ UNCHANGED <<table, fifo, notifs, stack, allow, failed>>

EoLocalStop(c, e) ==
    LET w == eo[e].Context
    IN  /\ Dispatching(c)
        /\ eo[e].State = "LocalStop"
        /\ c \in eo[e].Pending
        /\ IF c \in table[w].CoreMask
           THEN stack' = Call(c, "LocalStop", w, e, FALSE) /\ UNCHANGED eo
           ELSE eo' = [eo EXCEPT ![e].Pending = @ \ {c}] /\ UNCHANGED stack
        /\ UNCHANGED <<table, fifo, notifs, live, allow, failed>>

(* The last local stop is done: EM calls WorkerEoStop, on any core ... *)
EoStopStart(c, e) ==
    /\ Dispatching(c)
    /\ eo[e].State = "LocalStop"
    /\ eo[e].Pending = {}
    /\ eo' = [eo EXCEPT ![e].State = "Stop"]
    /\ stack' = Call(c, "Stop", eo[e].Context, e, FALSE)
    /\ UNCHANGED <<table, fifo, notifs, live, allow, failed>>

(* A slip: the context is not released. *)
NoReleaseEoStopRelease(c) ==
    /\ At(c, "Stop")
    /\ stack' = GoTo(c, "DeleteEo", Top(c).eo)
    /\ UNCHANGED <<table, fifo, eo, notifs, live, allow, failed>>

(* ... and after UserExit the context is released, before the EO. *)
EoStopRelease(c) ==
    /\ At(c, "Stop")
    /\ failed' = failed \cup ReleaseChecks(Top(c).w)
    /\ ReleaseWorkerContext(Top(c).w)
    /\ stack' = GoTo(c, "DeleteEo", Top(c).eo)
    /\ UNCHANGED <<eo, notifs, live, allow>>

(* What the end of the callback on core c means to EM: the local starts of  *)
(* an EO follow its start function, and EM counts the cores that are done.  *)
EndCallback(c, eos) ==
    LET e == Top(c).eo
    IN  CASE Top(c).at = "Start" ->
               [eos EXCEPT ![e] = [@ EXCEPT !.State = "LocalStart", !.Pending = Cores]]
          [] Top(c).at \in {"LocalStart", "LocalStop"} ->
               [eos EXCEPT ![e].Pending = @ \ {c}]
          [] OTHER -> eos

LeaveCallback(c) == IF Top(c).at = "Start" THEN LeaveStart(c, "Started") ELSE Return(c)

CallbackReturns(c) ==
    /\ ~ Dispatching(c)
    /\ Top(c).at \in {"Start", "LocalStart", "Receive", "LocalStop"}
    /\ eo' = EndCallback(c, eo)
    /\ stack' = LeaveCallback(c)
    /\ UNCHANGED <<table, fifo, notifs, live, allow, failed>>

-----------------------------------------------------------------------------
(* A slip: the EO of a worker that is being deployed is stopped at once. *)
EagerTerminateActive(w) ==
    /\ table[w].State \in {"Deploying", "Active"}
    /\ table' = [table EXCEPT ![w].State = "Terminating"]
    /\ IF table[w].Eo # NoEo THEN eo' = EoStop(w) ELSE UNCHANGED eo
    /\ failed' = failed \cup EoStopCheck(w)

(* TerminateWorker of an active worker: teardown starts. *)
TerminateActive(w) ==
    /\ table[w].State = "Active"
    /\ failed' = failed \cup Check("TerminateWorker", table[w].WorkerId = w) \cup EoStopCheck(w)
    /\ table' = [table EXCEPT ![w].State = "Terminating"]
    /\ eo' = EoStop(w)

(* TerminateWorker during deployment: left to the completion daemon. *)
TerminateDeploying(w) ==
    /\ table[w].State = "Deploying"
    /\ failed' = failed \cup Check("TerminateWorker", table[w].WorkerId = w)
    /\ table' = [table EXCEPT ![w].TerminationRequested = TRUE]
    /\ UNCHANGED eo

(* TerminateWorker(w), by any user code; otherwise it warns and returns. *)
TerminateWorker(w) ==
    /\ \E c \in Cores : UserCode(c)
    /\ TerminateActive(w) \/ TerminateDeploying(w)
    /\ UNCHANGED <<fifo, notifs, stack, live, allow>>

(* TerminateWorker(WORKER_ID_INVALID) in initialization code or a body: the *)
(* worker is terminated and longjmp leaves the callback.  A worker that is  *)
(* neither active nor being deployed must be terminating already.  Exit     *)
(* code may not do this.                                                    *)
TerminateSelf(c) ==
    LET w == Top(c).w
    IN  /\ ~ Dispatching(c)
        /\ Top(c).at \in {"Start", "LocalStart", "Receive"}
        /\ CASE table[w].State = "Active" ->
                  /\ table' = [table EXCEPT ![w].State = "Terminating"]
                  /\ eo' = EndCallback(c, EoStop(w))
                  /\ failed' = failed \cup EoStopCheck(w)
             [] table[w].State = "Deploying" ->
                  /\ table' = [table EXCEPT ![w].TerminationRequested = TRUE]
                  /\ eo' = EndCallback(c, eo)
                  /\ UNCHANGED failed
             [] OTHER ->
                  /\ failed' = failed \cup Check("TerminateWorker", table[w].State = "Terminating")
                  /\ eo' = EndCallback(c, eo)
                  /\ UNCHANGED table
        /\ stack' = IF Top(c).pad THEN LeaveCallback(c) ELSE GoTo(c, "Crashed", NoEo)
        /\ UNCHANGED <<fifo, notifs, live, allow>>

(* A slip: the buffer's length is not looked at. *)
UnboundedSendMessage(m, w) ==
    /\ m \notin live
    /\ table[w].State = "Deploying"
    /\ table' = [table EXCEPT ![w].MessageBuffer = Append(@, m)]
    /\ live' = live \cup {m}
    /\ UNCHANGED <<fifo, eo, notifs, stack, allow, failed>>

(* SendMessage and RouteMessage inside a node: RouteIntranodeMessage.  A    *)
(* message for a worker that is up goes to its queue, one for a worker that *)
(* is being deployed into its buffer if there is room.                      *)
SendMessage(m, w) ==
    /\ \E c \in Cores : UserCode(c)
    /\ m \notin live
    /\ \/ /\ table[w].State = "Active"
          /\ eo' = Enqueue(table[w].Eo, <<m>>)
          /\ UNCHANGED table
       \/ /\ table[w].State = "Deploying"
          /\ Len(table[w].MessageBuffer) < BufferLength
          /\ table' = [table EXCEPT ![w].MessageBuffer = Append(@, m)]
          /\ UNCHANGED eo
    /\ live' = live \cup {m}
    /\ UNCHANGED <<fifo, notifs, stack, allow, failed>>

(* A core leaves its dispatch loop for good: no deployments from then on.   *)
DisableWorkerDeployment(c) ==
    /\ Dispatching(c)
    /\ c \in allow
    /\ allow' = allow \ {c}
    /\ UNCHANGED <<table, fifo, eo, notifs, stack, live, failed>>

-----------------------------------------------------------------------------
PlatformStep(c) ==
    \/ ReserveDynamic(c) \/ DeployNoEo(c) \/ DeployRollBack(c) \/ DeleteEo(c)
    \/ DeployReturn(c) \/ EoStopRelease(c)
    \/ \E e \in Eos : DeployNoQueue(c, e)
    \/ \E e \in Eos, mask \in CoreMasks, name \in Names : DeployStart(c, e, mask, name)

EmStep(e) ==
    \/ EoStartDone(e) \/ DropEvent(e)
    \/ \E c \in Cores : EoLocalStart(c, e) \/ Receive(c, e) \/ EoLocalStop(c, e) \/ EoStopStart(c, e)

UserStep ==
    \/ \E c \in Cores :
          \/ DeployDynamic(c) \/ TerminateSelf(c) \/ DisableWorkerDeployment(c)
          \/ \E w \in Workers : DeployStatic(c, w)
    \/ \E w \in Workers : TerminateWorker(w) \/ \E m \in Messages : SendMessage(m, w)

Next ==
    \/ \E c \in Cores : PlatformStep(c) \/ CallbackReturns(c) \/ StartFails(c)
    \/ \E e \in Eos : EmStep(e)
    \/ \E w \in Workers : CompleteWorkerDeployment(w)
    \/ UserStep

Spec == Init /\ [][Next]_vars
(* The dispatch loop of a core gets to what EM has for it, calls return     *)
(* (user code included), and the daemon is served.  Between two callbacks   *)
(* the scheduler may always choose other events, hence strong fairness.     *)
Fairness ==
    /\ \A c \in Cores :
          /\ WF_vars(PlatformStep(c))
          /\ WF_vars(CallbackReturns(c))
          /\ \A e \in Eos : SF_vars(EoLocalStart(c, e)) /\ SF_vars(EoLocalStop(c, e))
    /\ \A e \in Eos : WF_vars(EoStartDone(e)) /\ SF_vars(\E c \in Cores : EoStopStart(c, e))
    /\ \A w \in Workers : SF_vars(CompleteWorkerDeployment(w))

FairSpec == Spec /\ Fairness

-----------------------------------------------------------------------------
(* Every variable has its type. *)
TypeOK ==
    /\ table \in [Workers -> Contexts]
    /\ fifo \in Fifos
    /\ \A e \in Eos :
          /\ eo[e].State \in EoStates
          /\ eo[e].Context \in Workers \cup {NoId}
          /\ eo[e].Name \in Names \cup {NoName}
          /\ eo[e].Pending \subseteq Cores
          /\ eo[e].Queue \in Seq(Messages)
    /\ notifs \subseteq Workers
    /\ \A c \in Cores : stack[c] \in Seq(Frames) /\ Len(stack[c]) <= MaxDepth
    /\ live \subseteq Messages
    /\ allow \subseteq Cores

(* No assertion of workers.c, worker_table.c and completion_daemon.c fails: *)
(* EM never refuses a stop or a delete, a dynamic ID from the ring has a    *)
(* free entry, DeployWorker returns the ID it reserved although it reads it *)
(* without the lock, and a worker that terminates itself is in a state in   *)
(* which that makes sense, on whatever cores it runs.                       *)
NoFatal == failed = {}

(* A context outlives everything that uses it: while any core is inside a   *)
(* callback of a worker, or in the DeployWorker call that started it, the   *)
(* entry still belongs to that worker and its EO, in a state that admits    *)
(* the callback, and only cores of its core mask run its body.              *)
Admits(at) ==
    CASE at = "Receive" -> {"Active", "Terminating"}
      [] at \in {"LocalStop", "Stop"} -> {"Terminating"}
      [] OTHER -> {"Deploying"}
ContextOutlivesUsers ==
    \A c \in Cores : \A i \in 1 .. Len(stack[c]) :
        LET f == stack[c][i]
            ctx == table[f.w]
        IN  f.at \notin {"Allocated", "DeleteEo", "Crashed"} =>
              /\ ctx.WorkerId = f.w
              /\ ctx.Eo = f.eo
              /\ ctx.State \in Admits(f.at)
              /\ f.at \in {"LocalStart", "Receive", "LocalStop"} => c \in ctx.CoreMask

(* The dynamic IDs in use: those of entries that are not free and those a   *)
(* core is about to reserve.                                                *)
DynamicInUse ==
    {w \in Ids : \/ table[w].State # "Inactive"
                 \/ \E c \in Cores : \E i \in 1 .. Len(stack[c]) :
                       stack[c][i].at = "Allocated" /\ stack[c][i].w = w}

(* The worker table and the ring of dynamic IDs agree at all times, across  *)
(* failed deployments and terminations on other cores.                      *)
TableMatchesRing == RingInv(fifo, DynamicInUse)

(* No EO is left behind: one that exists is that of a table entry, or some  *)
(* core is about to delete it, and no two do.                               *)
NoEoLeak ==
    \A e \in Eos : eo[e].State # "Undef" =>
        \/ /\ eo[e].Context \in Workers
           /\ table[eo[e].Context].Eo = e
        \/ Cardinality({c \in Cores : At(c, "DeleteEo") /\ Top(c).eo = e}) = 1

(* How many places hold message m: buffers of deploying workers and queues. *)
Holders(m) ==
    Cardinality({p \in Workers \X (1 .. BufferLength) :
                   p[2] <= Len(table[p[1]].MessageBuffer) /\ table[p[1]].MessageBuffer[p[2]] = m})
    + Cardinality({p \in Eos \X (1 .. Cardinality(Messages)) :
                     p[2] <= Len(eo[p[1]].Queue) /\ eo[p[1]].Queue[p[2]] = m})

(* The messages that are held somewhere. *)
Held ==
    (UNION {In(table[w].MessageBuffer) : w \in Workers}) \cup UNION {In(eo[e].Queue) : e \in Eos}

(* A message is never in two places and never used after it was freed,      *)
(* whatever fails.                                                          *)
NoMessageTwice ==
    \A m \in Messages : Holders(m) <= (IF m \in live THEN 1 ELSE 0)

(* Whatever step of a deployment fails, and whoever terminates the worker   *)
(* meanwhile, every ID, EO and message has exactly one owner.               *)
ResourcesAccounted == TypeOK /\ TableMatchesRing /\ NoEoLeak /\ NoMessageTwice

(* menabrea/messaging.h: after SendMessage "the platform is responsible for *)
(* the message delivery or destruction", so a message that was neither      *)
(* delivered nor destroyed is held somewhere.                               *)
NoMessageLost == \A m \in live : Holders(m) = 1

(* The one way in which a message is lost: a message that nobody holds any  *)
(* more has been delivered or destroyed, unless it was buffered for a       *)
(* worker whose deployment has just been rolled back.                       *)
OnlyRollBackLosesMessages ==
    [][live \cap live' \cap (Held \ Held')
          \subseteq UNION {In(table[w].MessageBuffer) :
                        w \in {x \in Workers : /\ table[x].State = "Deploying"
                                               /\ table'[x].State = "Inactive"}}]_vars

(* menabrea/workers.h: terminating itself, a worker's "execution is         *)
(* immediately interrupted": longjmp goes to the callback it is called in.  *)
JumpLandsInCallback == \A c \in Cores : ~ At(c, "Crashed")

(* menabrea/workers.h: FindLocalWorker(name) returns the "Corresponding     *)
(* worker ID or WORKER_ID_INVALID if no matching worker found": the context *)
(* found through the EO of that name is not that of a worker of another one. *)
FindsNamedWorker ==
    \A e \in Eos : eo[e].State # "Undef" =>
        LET ctx == table[eo[e].Context]
        IN  ctx.WorkerId # NoId => ctx.Name \in {NoName, eo[e].Name}

-----------------------------------------------------------------------------
(* The promise made to the users of workers, as WorkerService states it: in *)
(* particular messages buffered during deployment are delivered before      *)
(* those sent later and in their order, and a worker whose termination is   *)
(* requested during deployment never runs its body.                         *)
Status == [w \in Workers |->
             CASE table[w].State = "Inactive" -> "Down"
               [] table[w].State = "Deploying" -> "Opening"
               [] table[w].State = "Active" -> "Open"
               [] OTHER -> "Closing"]
Mail == [w \in Workers |->
           CASE table[w].State = "Deploying" -> table[w].MessageBuffer
             [] table[w].State = "Active" -> eo[table[w].Eo].Queue
             [] OTHER -> << >>]
Service == INSTANCE WorkerService WITH
    status <- Status, mail <- Mail, Capacity <- BufferLength,
    doomed <- {w \in Workers : table[w].TerminationRequested}
ImplementsWorkerService == Service!Spec

(* Every deployment comes to an end, whatever the other cores do.           *)
DeploymentResolves ==
    \A w \in Workers : table[w].State = "Deploying" ~> table[w].State # "Deploying"

(* Every termination comes to an end: the entry is free again.              *)
TerminationCompletes ==
    \A w \in Workers : table[w].State = "Terminating" ~> table[w].State = "Inactive"
=============================================================================
