-------------------------------- MODULE Locks -------------------------------
(***************************************************************************)
(* The spinlocks of the platform and the calls that take them, on several  *)
(* cores: one lock for each entry of the timer and of the worker table,    *)
(* and one for each identifier ring.  A call that holds one may take       *)
(* another: a timer entry is locked while its message is sent, which locks *)
(* the entry of the receiver.                                              *)
(*                                                                         *)
(* The ring of module IdAllocator is that of the timers; here an operation *)
(* on it takes two steps, one that reads the ring and one that changes it. *)
(* Of the ring of the workers, the same code, only the lock is here.       *)
(***************************************************************************)
EXTENDS IdAllocator, TLC

CONSTANTS Cores,
          Workers,    (* entries of the worker table               *)
          Nobody      (* not a core                                *)

ASSUME LocksAssumption == Nobody \notin Cores /\ IsFiniteSet(Cores)

CoreSymmetry == Permutations(Cores)

VARIABLES lock,   (* the core that holds each lock                         *)
          todo,   (* what is left of the call of each core                 *)
          seen,   (* the ring as each core has read it                     *)
          timers  (* timers whose CreateTimer has returned                 *)

lockVars == <<vars, lock, todo, seen, timers>>

TimerEntry(t) == <<"timer", t>>
WorkerEntry(w) == <<"worker", w>>
TimerRing == <<"ring", "timers">>
WorkerRing == <<"ring", "workers">>
Locks == {TimerEntry(t) : t \in Ids} \cup {WorkerEntry(w) : w \in Workers}
             \cup {TimerRing, WorkerRing}

(***************************************************************************)
(* Calls, as the sequence of what they do to the locks and to the ring     *)
(***************************************************************************)
Acquire(l) == [op |-> "acquire", of |-> l]
Unlock(l) == [op |-> "release", of |-> l]
Section(l) == <<Acquire(l), Unlock(l)>>
RingStep(op, t) == [op |-> op, of |-> t]

(* ReleaseTimerId *)
(* A slip: the ring is not locked. *)
UnlockedFreeTimerId(t) == <<RingStep("read", t), RingStep("free", t)>>
FreeTimerId(t) ==
    <<Acquire(TimerRing), RingStep("read", t), RingStep("free", t), Unlock(TimerRing)>>

(* CreateTimer until it has an identifier, or there is none *)
CreateTimer == <<Acquire(TimerRing), RingStep("read", NoId), RingStep("allocate", NoId)>>

(* The rest of CreateTimer: the entry is set to idle, and when there is no  *)
(* timeout object for it the identifier goes back without the entry's lock. *)
CreateTimerRests(t) ==
    IF t = NoId THEN {<<Unlock(TimerRing)>>}
    ELSE {<<Unlock(TimerRing)>> \o Section(TimerEntry(t)) \o end :
             end \in {<<RingStep("created", t)>>, FreeTimerId(t)}}

(* ArmTimer and DisarmTimer, and the calls that find a timer they cannot    *)
(* use: nothing else is locked.                                             *)
UseTimer(t) == Section(TimerEntry(t))

(* DestroyTimer, the end of a destruction that the timing daemon was left   *)
(* with, and RetireTimer give the identifier back with the entry locked.    *)
(* A slip: the ring is locked first. *)
RingFirstDestroyTimer(t) ==
    <<Acquire(TimerRing), Acquire(TimerEntry(t)), RingStep("check", t), RingStep("read", t),
      RingStep("free", t), Unlock(TimerEntry(t)), Unlock(TimerRing)>>
DestroyTimer(t) ==
    <<Acquire(TimerEntry(t)), RingStep("check", t)>> \o FreeTimerId(t)
        \o <<Unlock(TimerEntry(t))>>

(* RouteIntranodeMessage; TerminateWorker, CompleteWorkerDeployment and the *)
(* reservation of a static identifier lock the same entry.                  *)
UseWorker(w) == Section(WorkerEntry(w))

(* HandleCleanTimeout: the message is sent with the timer entry locked. *)
HandleCleanTimeout(t, w) ==
    <<Acquire(TimerEntry(t))>> \o UseWorker(w) \o <<Unlock(TimerEntry(t))>>

(* ReserveWorkerContext takes the two locks one after the other,            *)
(* ReleaseWorkerContext one inside the other.                               *)
ReserveWorkerContext(w) == Section(WorkerRing) \o Section(WorkerEntry(w))
ReleaseWorkerContext(w) ==
    <<Acquire(WorkerEntry(w))>> \o Section(WorkerRing) \o <<Unlock(WorkerEntry(w))>>

Calls ==
    {CreateTimer}
        \cup (UNION {{UseTimer(t), DestroyTimer(t)} : t \in Ids})
        \cup (UNION {{UseWorker(w), ReserveWorkerContext(w), ReleaseWorkerContext(w)} : w \in Workers})
        \cup {HandleCleanTimeout(t, w) : t \in Ids, w \in Workers}

(***************************************************************************)
(* Steps of core c                                                         *)
(***************************************************************************)
LocksInit ==
    /\ Init
    /\ lock = [l \in Locks |-> Nobody]
    /\ todo = [c \in Cores |-> << >>]
    /\ seen = [c \in Cores |-> FifoInit]
    /\ timers = {}

Call(c, call) ==
    /\ todo[c] = << >>
    /\ todo' = [todo EXCEPT ![c] = call]
    /\ UNCHANGED <<vars, lock, seen, timers>>

Doing(c, op) == todo[c] # << >> /\ Head(todo[c]).op = op
Object(c) == Head(todo[c]).of
Continue(c) == todo' = [todo EXCEPT ![c] = Tail(@)]

SpinlockAcquire(c) ==
    /\ Doing(c, "acquire")
    /\ lock[Object(c)] = Nobody
    /\ lock' = [lock EXCEPT ![Object(c)] = c]
    /\ Continue(c)
    /\ UNCHANGED <<vars, seen, timers>>

SpinlockRelease(c) ==
    /\ Doing(c, "release")
    /\ lock' = [lock EXCEPT ![Object(c)] = Nobody]
    /\ Continue(c)
    /\ UNCHANGED <<vars, seen, timers>>

ReadRing(c) ==
    /\ Doing(c, "read")
    /\ seen' = [seen EXCEPT ![c] = fifo]
    /\ Continue(c)
    /\ UNCHANGED <<vars, lock, timers>>

Forget(c) == seen' = [seen EXCEPT ![c] = FifoInit]

AllocateTimerId(c) ==
    LET t == AllocatedId(seen[c])
    IN  /\ Doing(c, "allocate")
        /\ fifo' = AllocateId(seen[c])
        /\ held' = held \cup ({t} \ {NoId})
        /\ failed' = failed \cup (IF AllocateAssert(seen[c]) THEN {} ELSE {"Allocate"})
        /\ \E rest \in CreateTimerRests(t) : todo' = [todo EXCEPT ![c] = rest]
        /\ Forget(c)
        /\ UNCHANGED <<lock, timers>>

ReleaseTimerId(c) ==
    /\ Doing(c, "free")
    /\ fifo' = ReleaseId(seen[c], Object(c))
    /\ held' = held \ {Object(c)}
    /\ failed' = failed \cup (IF ReleaseAssert(seen[c]) THEN {} ELSE {"Release"})
    /\ Continue(c) /\ Forget(c)
    /\ UNCHANGED <<lock, timers>>

CreateTimerReturns(c) ==
    /\ Doing(c, "created")
    /\ timers' = timers \cup {Object(c)}
    /\ Continue(c)
    /\ UNCHANGED <<vars, lock, seen>>

(* The entry of t is Idle already, but without its timeout object. *)
UnderConstruction(t) ==
    \E d \in Cores : todo[d] # << >> /\ Head(todo[d]) = RingStep("created", t)

(* The state of the timer is looked at, and changed, under the entry's      *)
(* lock: of two calls that destroy a timer one finds it gone.  In an entry  *)
(* under construction the call would find State Idle, go on and die of the  *)
(* assertion of em_tmo_delete with the entry locked: a core that takes no   *)
(* further step.  (When em_tmo_create fails, State is Idle until the entry  *)
(* is reset; a check in that time counts as one after the reset.)           *)
CheckTimer(c) ==
    /\ Doing(c, "check")
    /\ ~ UnderConstruction(Object(c))
    /\ IF Object(c) \in timers
       THEN timers' = timers \ {Object(c)} /\ Continue(c)
       ELSE /\ todo' = [todo EXCEPT ![c] = <<Unlock(TimerEntry(Object(c)))>>]
            /\ UNCHANGED timers
    /\ UNCHANGED <<vars, lock, seen>>

LocksNext ==
    \E c \in Cores :
        \/ SpinlockAcquire(c) \/ SpinlockRelease(c) \/ ReadRing(c)
        \/ AllocateTimerId(c) \/ ReleaseTimerId(c) \/ CreateTimerReturns(c) \/ CheckTimer(c)
        \/ \E call \in Calls : Call(c, call)

LocksSpec == LocksInit /\ [][LocksNext]_lockVars

-----------------------------------------------------------------------------
(* The lock a core spins on, if it is taken, and who has it *)
Spins(c) == Doing(c, "acquire") /\ lock[Object(c)] # Nobody
Holder(c) == lock[Object(c)]

(* No group of cores spins on locks that they hold among themselves, a core *)
(* never on a lock of its own, and a core that is not in a call has left    *)
(* none of them locked.                                                     *)
NoCircularWait ==
    /\ \A group \in (SUBSET Cores) \ {{}} : \E c \in group : ~Spins(c) \/ Holder(c) \notin group
    /\ \A l \in Locks : lock[l] # Nobody => todo[lock[l]] # << >>

(* What the calls of all cores do to the ring, reading it and changing it   *)
(* in separate steps, is what module IdAllocator says of operations in one  *)
(* step: no update is lost, and an identifier is put back once and only     *)
(* after it was handed out.                                                 *)
ImplementsIdAllocator == Spec
=============================================================================
