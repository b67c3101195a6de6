------------------------------- MODULE Timing -------------------------------
(***************************************************************************)
(* The timers of the platform: the timer table (timer_table.c), the API    *)
(* that applications call on any core (timing.c), the daemon that receives *)
(* the timeout events (timing_daemon.c) and the retirement of all timers   *)
(* at shutdown (setup.c, event_dispatcher.c).                              *)
(*                                                                         *)
(* Whatever the code does while it holds the spinlock of a table entry is  *)
(* one action; CreateTimer, which works on the entry without its lock, has *)
(* one action per step.  EM's timeout objects are external: tmo[t] is the  *)
(* state of the object of timer t, inFlight[t] the number of its timeout   *)
(* events in the daemon's queue.  The queue is parallel, so the daemon may *)
(* handle them on any core; all events of one timer are alike.             *)
(*                                                                         *)
(* Applications may call with any identifier that CreateTimer has once     *)
(* returned, at any time: the timer may have been destroyed long ago, or   *)
(* its entry be in the hands of another CreateTimer call. An assertion     *)
(* that fails kills the process inside its critical section, so the entry  *)
(* stays locked; which core it was is not recorded, so the model may let   *)
(* it run on, which adds behaviours and hides none.                        *)
(*                                                                         *)
(* Ticks are abstracted to what the code tests: whether a period is zero,  *)
(* and whether PreviousExpiration is zero (0) or a tick value (1).  Calls  *)
(* the code refuses, and calls that fail without a trace (an event or a    *)
(* timeout that EM does not provide), are stuttering steps.                *)
(***************************************************************************)
EXTENDS IdFifo

CONSTANTS Cores,        (* the dispatcher processes, one per core            *)
          Messages,     (* message handles                                   *)
          NoMessage,    (* MESSAGE_INVALID                                   *)
          Receivers,    (* worker IDs a timer may be armed for               *)
          NoReceiver,   (* WORKER_ID_INVALID                                 *)
          PeriodsUs,    (* the periods applications ask for, in microseconds *)
          NsPerTick,    (* resolution of the EM timer                        *)
          MaxInFlight   (* bound on undelivered events per timer: the size   *)
                        (* of the event pool they come from                  *)

ASSUME TimingAssumption ==
    /\ NoMessage \notin Messages
    /\ NoReceiver \notin Receivers
    /\ PeriodsUs \subseteq Nat
    /\ NsPerTick \in Nat \ {0}
    /\ MaxInFlight \in Nat \ {0}

VARIABLES table,     (* s_timerTable: one context per timer ID               *)
          fifo,      (* s_idFifo                                             *)
          tmo,       (* state of each timer's EM timeout object              *)
          inFlight,  (* timeout events waiting for the timing daemon         *)
          owner,     (* who owns each message                                *)
          creating,  (* per core: the CreateTimer call in progress, if any   *)
          allow,     (* per core: s_allowAllocations                         *)
          retireNext,(* main's loop counter in RetireAllTimers               *)
          issued,    (* the identifiers that CreateTimer has ever returned   *)
          failed     (* the assertions and fatal exceptions met so far, each *)
                     (* with the timer it was met on                         *)

vars == <<table, fifo, tmo, inFlight, owner, creating, allow, retireNext, issued,
          failed>>

Timers == Ids
TimerStates == {"Invalid", "Idle", "Armed", "Destroyed", "Retired"}
TmoStates == {"Undef", "Idle", "Set", "Expired"}

Contexts == [State : TimerStates, Period : Nat, PreviousExpiration : {0, 1},
             SkipEvents : Nat, Message : Messages \cup {NoMessage},
             Receiver : Receivers \cup {NoReceiver}]

(* The steps of CreateTimer: identifier taken from the ring ("Allocated"),  *)
(* entry reserved but without timeout object ("Reserved").                  *)
NoCall == [at |-> "None", id |-> NoId]
Calls == [at : {"None", "Allocated", "Reserved"}, id : Timers \cup {NoId}]

-----------------------------------------------------------------------------
(* em_timer_ns_to_tick *)
MicrosecondsToTicks(us) == (us * 1000) \div NsPerTick

ResetContext ==
    [State |-> "Invalid", Period |-> 0, PreviousExpiration |-> 0,
     SkipEvents |-> 0, Message |-> NoMessage, Receiver |-> NoReceiver]

(* A failed AssertTrue, or a fatal exception, leaves its name behind. *)
Check(name, t, condition) == IF condition THEN {} ELSE {<<name, t>>}

(* The lock of an entry inside whose critical section a process has died. *)
Locked(t) == \E f \in failed : f[2] = t

(* The context after ChangeStateFromArmedToIdle, with SkipEvents as given ... *)
ChangeStateFromArmedToIdle(skipEvents) ==
    [State |-> "Idle", Period |-> 0, PreviousExpiration |-> 0,
     SkipEvents |-> skipEvents, Message |-> NoMessage, Receiver |-> NoReceiver]

(* ... and its DestroyMessage. *)
DestroyMessage(m) == [owner EXCEPT ![m] = "Pool"]

(* em_tmo_cancel on a one-shot timeout: it succeeds and hands the event     *)
(* back while the timeout runs, and returns EM_ERR_BAD_STATE once the event *)
(* has been sent.                                                           *)
Cancelled(t) == tmo[t] = "Set"
TmoCancel(t) == IF Cancelled(t) THEN [tmo EXCEPT ![t] = "Idle"] ELSE tmo

(* The assertions of FinalizeTimerDestruction (and of the daemon's deferred *)
(* destruction): EM deletes the timeout and returns no event, the message   *)
(* is gone, the ring takes the identifier back.                             *)
FinalizeChecks(t, ctx) ==
    Check("em_tmo_delete", t, tmo[t] \notin {"Undef", "Set"})
      \cup Check("message leak", t, ctx.Message = NoMessage /\ ctx.Receiver = NoReceiver)
      \cup Check("ReleaseTimerId", t, ReleaseAssert(fifo))

(* An application calls from a core that is not itself in CreateTimer, with *)
(* an identifier it was given once, perhaps for a timer destroyed since, and *)
(* gets the lock of the entry.                                              *)
Called(t) ==
    /\ t \in issued
    /\ ~ Locked(t)
    /\ \E c \in Cores : creating[c] = NoCall

(* A CreateTimer call has marked the entry Idle and not yet stored the      *)
(* timeout object in it.                                                    *)
UnderConstruction(t) == \E c \in Cores : creating[c] = [at |-> "Reserved", id |-> t]

-----------------------------------------------------------------------------
Init ==
    /\ table = [t \in Timers |-> ResetContext]
    /\ fifo = FifoInit
    /\ tmo = [t \in Timers |-> "Undef"]
    /\ inFlight = [t \in Timers |-> 0]
    /\ owner = [m \in Messages |-> "Pool"]
    /\ creating = [c \in Cores |-> NoCall]
    /\ allow = Cores
    /\ retireNext = IdBase
    /\ issued = {}
    /\ failed = {}

(* CreateTimer, ReserveTimerContext: AllocateTimerId *)
CreateAllocate(c) ==
    /\ creating[c] = NoCall
    /\ c \in allow
    /\ fifo.FreeIds > 0
    /\ creating' = [creating EXCEPT ![c] = [at |-> "Allocated", id |-> AllocatedId(fifo)]]
    /\ failed' = failed \cup Check("AllocateTimerId", AllocatedId(fifo), AllocateAssert(fifo))
    /\ fifo' = AllocateId(fifo)
    /\ UNCHANGED <<table, tmo, inFlight, owner, allow, retireNext, issued>>

(* CreateTimer, ReserveTimerContext: the entry is marked under its lock. *)
CreateReserve(c) ==
    LET t == creating[c].id
    IN  /\ creating[c].at = "Allocated"
        /\ ~ Locked(t)
        /\ failed' = failed \cup Check("ReserveTimerContext", t, table[t].State = "Invalid")
        /\ table' = [table EXCEPT ![t].State = "Idle"]
        /\ creating' = [creating EXCEPT ![c] = [at |-> "Reserved", id |-> t]]
        /\ UNCHANGED <<fifo, tmo, inFlight, owner, allow, retireNext, issued>>

(* CreateTimer: em_tmo_create succeeds, and the identifier is returned.     *)
(* (The value tested is taken to be the one em_tmo_create returned, as in   *)
(* an optimized build.  Read again from the entry, it could be that of an   *)
(* entry destroyed meanwhile by a caller with an old copy of the ID.) ...   *)
CreateTmo(c) ==
    LET t == creating[c].id
    IN  /\ creating[c].at = "Reserved"
        /\ tmo' = [tmo EXCEPT ![t] = "Idle"]
        /\ creating' = [creating EXCEPT ![c] = NoCall]
        /\ issued' = issued \cup {t}
        /\ UNCHANGED <<table, fifo, inFlight, owner, allow, retireNext, failed>>

(* A slip: the identifier is not given back when em_tmo_create fails. *)
LeakIdCreateTmoFails(c) ==
    /\ creating[c].at = "Reserved"
    /\ table' = [table EXCEPT ![creating[c].id] = ResetContext]
    /\ creating' = [creating EXCEPT ![c] = NoCall]
    /\ UNCHANGED <<fifo, tmo, inFlight, owner, allow, retireNext, failed, issued>>

(* ... or fails, and the context is released. *)
CreateTmoFails(c) ==
    LET t == creating[c].id
    IN  /\ creating[c].at = "Reserved"
        /\ table' = [table EXCEPT ![t] = ResetContext]
        /\ fifo' = ReleaseId(fifo, t)
        /\ failed' = failed \cup Check("ReleaseTimerId", t, ReleaseAssert(fifo))
        /\ creating' = [creating EXCEPT ![c] = NoCall]
        /\ UNCHANGED <<tmo, inFlight, owner, allow, retireNext, issued>>

ArmTimer(t, us, m, r) ==
    /\ Called(t)
    /\ table[t].State = "Idle"
    /\ owner[m] = "Pool"
    /\ tmo[t] \notin {"Undef", "Set"}
    /\ tmo' = [tmo EXCEPT ![t] = "Set"]
    /\ table' = [table EXCEPT ![t] =
                   [State |-> "Armed", Period |-> MicrosecondsToTicks(us),
                    PreviousExpiration |-> table[t].PreviousExpiration,
                    SkipEvents |-> table[t].SkipEvents, Message |-> m, Receiver |-> r]]
    /\ owner' = [owner EXCEPT ![m] = "Timer"]
    /\ UNCHANGED <<fifo, inFlight, creating, allow, retireNext, failed, issued>>

(* ArmTimer of an idle timer without timeout object: the assertion fails. *)
ArmTimerAborts(t) ==
    /\ Called(t)
    /\ table[t].State = "Idle"
    /\ tmo[t] = "Undef"
    /\ failed' = failed \cup Check("ArmTimer", t, tmo[t] # "Undef")
    /\ UNCHANGED <<table, fifo, tmo, inFlight, owner, creating, allow, retireNext, issued>>

(* The timeout of an armed timer elapses; EM sends the event to the daemon. *)
TmoExpires(t) ==
    /\ tmo[t] = "Set"
    /\ inFlight[t] < MaxInFlight
    /\ tmo' = [tmo EXCEPT ![t] = "Expired"]
    /\ inFlight' = [inFlight EXCEPT ![t] = @ + 1]
    /\ UNCHANGED <<table, fifo, owner, creating, allow, retireNext, failed, issued>>

(* Slips: the event on its way is not counted; or one is counted although   *)
(* the timeout was cancelled in time.                                       *)
NoSkipDisarmArmed(t) ==
    /\ Called(t)
    /\ table[t].State = "Armed"
    /\ tmo' = TmoCancel(t)
    /\ table' = [table EXCEPT ![t] =
                   ChangeStateFromArmedToIdle(table[t].SkipEvents)]
    /\ owner' = DestroyMessage(table[t].Message)
    /\ UNCHANGED <<fifo, inFlight, creating, allow, retireNext, failed, issued>>
AlwaysSkipDisarmArmed(t) ==
    /\ Called(t)
    /\ table[t].State = "Armed"
    /\ tmo' = TmoCancel(t)
    /\ table' = [table EXCEPT ![t] =
                   ChangeStateFromArmedToIdle(table[t].SkipEvents + 1)]
    /\ owner' = DestroyMessage(table[t].Message)
    /\ UNCHANGED <<fifo, inFlight, creating, allow, retireNext, failed, issued>>

(* DisarmTimer of an armed timer: the event that is on its way, if it is,   *)
(* is to be skipped by the daemon.                                          *)
DisarmArmed(t) ==
    /\ Called(t)
    /\ table[t].State = "Armed"
    /\ failed' = failed \cup Check("em_tmo_cancel", t, tmo[t] # "Undef")
    /\ tmo' = TmoCancel(t)
    /\ table' = [table EXCEPT ![t] =
                   ChangeStateFromArmedToIdle(
                      IF Cancelled(t) THEN table[t].SkipEvents ELSE table[t].SkipEvents + 1)]
    /\ owner' = DestroyMessage(table[t].Message)
    /\ UNCHANGED <<fifo, inFlight, creating, allow, retireNext, issued>>

(* DisarmTimer of an idle timer: sanity checks, one of which is written as  *)
(* an assignment to Receiver.                                               *)
DisarmIdle(t) ==
    /\ Called(t)
    /\ table[t].State = "Idle"
    /\ failed' = failed \cup Check("DisarmTimer", t, /\ table[t].Message = NoMessage
                                                  /\ table[t].Period = 0
                                                  /\ table[t].PreviousExpiration = 0)
    /\ table' = [table EXCEPT ![t].Receiver = NoReceiver]
    /\ UNCHANGED <<fifo, tmo, inFlight, owner, creating, allow, retireNext, issued>>

(* DestroyTimer while events are still to be skipped: left to the daemon. *)
DestroyDeferred(t) ==
    /\ Called(t)
    /\ table[t].State = "Idle"
    /\ table[t].SkipEvents > 0
    /\ table' = [table EXCEPT ![t].State = "Destroyed"]
    /\ UNCHANGED <<fifo, tmo, inFlight, owner, creating, allow, retireNext, failed, issued>>

(* A slip: the timer is destroyed although events are on their way. *)
EagerDestroyNow(t) ==
    /\ Called(t)
    /\ table[t].State = "Idle"
    /\ FinalizeChecks(t, table[t]) = {}
    /\ tmo' = [tmo EXCEPT ![t] = "Undef"]
    /\ table' = [table EXCEPT ![t] = ResetContext]
    /\ fifo' = ReleaseId(fifo, t)
    /\ UNCHANGED <<inFlight, owner, creating, allow, retireNext, failed, issued>>

(* DestroyTimer with no event on its way: FinalizeTimerDestruction. *)
DestroyNow(t) ==
    /\ Called(t)
    /\ table[t].State = "Idle"
    /\ table[t].SkipEvents = 0
    /\ FinalizeChecks(t, table[t]) = {}
    /\ tmo' = [tmo EXCEPT ![t] = "Undef"]
    /\ table' = [table EXCEPT ![t] = ResetContext]
    /\ fifo' = ReleaseId(fifo, t)
    /\ UNCHANGED <<inFlight, owner, creating, allow, retireNext, failed, issued>>

(* ... in which an assertion fails. *)
DestroyTimerAborts(t) ==
    /\ Called(t)
    /\ table[t].State = "Idle"
    /\ table[t].SkipEvents = 0
    /\ FinalizeChecks(t, table[t]) # {}
    /\ failed' = failed \cup FinalizeChecks(t, table[t])
    /\ UNCHANGED <<table, fifo, tmo, inFlight, owner, creating, allow, retireNext, issued>>

-----------------------------------------------------------------------------
(* HandleTimeoutEvent takes one event of timer t off the daemon's queue. *)
TakeEvent(t) ==
    /\ inFlight[t] > 0
    /\ ~ Locked(t)
    /\ inFlight' = [inFlight EXCEPT ![t] = @ - 1]

(* The event of an arming that was cancelled: skipped. *)
SkipEvent(t) ==
    /\ TakeEvent(t)
    /\ \/ table[t].State = "Armed" /\ table[t].SkipEvents > 0
       \/ table[t].State = "Idle"
    /\ failed' = failed \cup Check("HandleTimeoutEvent", t, table[t].SkipEvents > 0)
    /\ table' = [table EXCEPT ![t].SkipEvents = @ - 1]
    /\ UNCHANGED <<fifo, tmo, owner, creating, allow, retireNext, issued>>

(* Slips: events to be skipped are not; the message stays in the context    *)
(* after it has been sent.                                                  *)
NoSkipCleanTimeoutOneShot(t) ==
    /\ TakeEvent(t)
    /\ table[t].State = "Armed"
    /\ table[t].Period = 0
    /\ owner' = [owner EXCEPT ![table[t].Message] = "Receiver"]
    /\ table' = [table EXCEPT ![t] =
                   [table[t] EXCEPT !.State = "Idle", !.Message = NoMessage,
                                    !.Receiver = NoReceiver]]
    /\ UNCHANGED <<fifo, tmo, creating, allow, retireNext, failed, issued>>
KeepMessageCleanTimeoutOneShot(t) ==
    /\ TakeEvent(t)
    /\ table[t].State = "Armed"
    /\ table[t].SkipEvents = 0
    /\ table[t].Period = 0
    /\ owner' = [owner EXCEPT ![table[t].Message] = "Receiver"]
    /\ table' = [table EXCEPT ![t].State = "Idle"]
    /\ UNCHANGED <<fifo, tmo, creating, allow, retireNext, failed, issued>>

(* HandleCleanTimeout of a one-shot timer. *)
CleanTimeoutOneShot(t) ==
    /\ TakeEvent(t)
    /\ table[t].State = "Armed"
    /\ table[t].SkipEvents = 0
    /\ table[t].Period = 0
    /\ owner' = [owner EXCEPT ![table[t].Message] = "Receiver"]
    /\ table' = [table EXCEPT ![t] =
                   [table[t] EXCEPT !.State = "Idle", !.Period = 0,
                                    !.Message = NoMessage, !.Receiver = NoReceiver]]
    /\ UNCHANGED <<fifo, tmo, creating, allow, retireNext, failed, issued>>

(* HandleCleanTimeout of a periodic timer: a copy of the message is sent,   *)
(* if there is memory for one, and RearmPeriodicTimer sets the timeout      *)
(* again, absolutely or, after an overrun, relatively.                      *)
CleanTimeoutPeriodic(t) ==
    /\ TakeEvent(t)
    /\ table[t].State = "Armed"
    /\ table[t].SkipEvents = 0
    /\ table[t].Period > 0
    /\ failed' = failed \cup Check("RearmPeriodicTimer", t, tmo[t] \notin {"Undef", "Set"})
    /\ tmo' = [tmo EXCEPT ![t] = "Set"]
    /\ table' = [table EXCEPT ![t].PreviousExpiration = 1]
    /\ UNCHANGED <<fifo, owner, creating, allow, retireNext, issued>>

(* An event of a destroyed timer: one of several, or the last one, which    *)
(* completes the destruction.                                               *)
DestroyedSkip(t) ==
    /\ TakeEvent(t)
    /\ table[t].State = "Destroyed"
    /\ table[t].SkipEvents # 1
    /\ failed' = failed \cup Check("HandleTimeoutEvent", t, table[t].SkipEvents > 0)
    /\ table' = [table EXCEPT ![t].SkipEvents = @ - 1]
    /\ UNCHANGED <<fifo, tmo, owner, creating, allow, retireNext, issued>>
DestroyedLast(t) ==
    /\ TakeEvent(t)
    /\ table[t].State = "Destroyed"
    /\ table[t].SkipEvents = 1
    /\ failed' = failed \cup FinalizeChecks(t, table[t])
    /\ tmo' = [tmo EXCEPT ![t] = "Undef"]
    /\ table' = [table EXCEPT ![t] = ResetContext]
    /\ fifo' = ReleaseId(fifo, t)
    /\ UNCHANGED <<owner, creating, allow, retireNext, issued>>

(* A slip: the counter is compared with zero before it is decremented. *)
LateDestroyedEvent(t) ==
    /\ TakeEvent(t)
    /\ table[t].State = "Destroyed"
    /\ table[t].SkipEvents > 0
    /\ table' = [table EXCEPT ![t].SkipEvents = @ - 1]
    /\ UNCHANGED <<fifo, tmo, owner, creating, allow, retireNext, failed, issued>>

DestroyedEvent(t) == DestroyedSkip(t) \/ DestroyedLast(t)

(* An event of a retired timer is dropped; one of a timer that does not     *)
(* exist is a fatal exception.                                              *)
RetiredEvent(t) ==
    /\ TakeEvent(t)
    /\ table[t].State \in {"Retired", "Invalid"}
    /\ failed' = failed \cup Check("HandleTimeoutEvent", t, table[t].State = "Retired")
    /\ UNCHANGED <<table, fifo, tmo, owner, creating, allow, retireNext, issued>>

HandleTimeoutEvent(t) ==
    \/ SkipEvent(t) \/ CleanTimeoutOneShot(t) \/ CleanTimeoutPeriodic(t)
    \/ DestroyedEvent(t) \/ RetiredEvent(t)

-----------------------------------------------------------------------------
(* Shutdown.  DispatcherEntryPoint: each core disables its allocations when *)
(* it has left the dispatch loop, so not in the middle of a CreateTimer.    *)
DisableTimerAllocation(c) ==
    /\ c \in allow
    /\ creating[c] = NoCall
    /\ allow' = allow \ {c}
    /\ UNCHANGED <<table, fifo, tmo, inFlight, owner, creating, retireNext, failed, issued>>

(* RetireAllTimers on the main core, one RetireTimer per table entry, after *)
(* every core has gone through the synchronisation of the local exits.      *)
RetireStep(t) ==
    /\ allow = {}
    /\ retireNext = t
    /\ ~ Locked(t)
    /\ retireNext' = t + 1
    /\ UNCHANGED <<inFlight, creating, allow, issued>>

(* RetireTimer of an entry not in use; one already retired is corruption. *)
RetireUnused(t) ==
    /\ RetireStep(t)
    /\ table[t].State \in {"Invalid", "Retired"}
    /\ failed' = failed \cup Check("RetireTimer", t, table[t].State = "Invalid")
    /\ table' = [table EXCEPT ![t].State = "Retired"]
    /\ UNCHANGED <<tmo, fifo, owner>>

(* RetireTimer of a timer that is not running: FinalizeTimerDestruction. *)
RetireIdle(t) ==
    /\ RetireStep(t)
    /\ table[t].State \in {"Idle", "Destroyed"}
    /\ failed' = failed \cup FinalizeChecks(t, table[t])
    /\ tmo' = [tmo EXCEPT ![t] = "Undef"]
    /\ table' = [table EXCEPT ![t] = [ResetContext EXCEPT !.State = "Retired"]]
    /\ fifo' = ReleaseId(fifo, t)
    /\ UNCHANGED owner

(* RetireTimer of a running timer: cancelled, or its event left to the      *)
(* daemon, in both cases through Idle to FinalizeTimerDestruction.          *)
RetireArmed(t) ==
    /\ RetireStep(t)
    /\ table[t].State = "Armed"
    /\ failed' = failed \cup Check("em_tmo_cancel", t, tmo[t] # "Undef")
                        \cup Check("ReleaseTimerId", t, ReleaseAssert(fifo))
    /\ owner' = DestroyMessage(table[t].Message)
    /\ tmo' = [tmo EXCEPT ![t] = "Undef"]
    /\ table' = [table EXCEPT ![t] = [ResetContext EXCEPT !.State = "Retired"]]
    /\ fifo' = ReleaseId(fifo, t)

RetireTimer(t) == RetireUnused(t) \/ RetireIdle(t) \/ RetireArmed(t)

(* External: the receiver of a message is done with it. *)
ConsumeMessage(m) ==
    /\ owner[m] = "Receiver"
    /\ owner' = [owner EXCEPT ![m] = "Pool"]
    /\ UNCHANGED <<table, fifo, tmo, inFlight, creating, allow, retireNext, failed, issued>>

-----------------------------------------------------------------------------
Create(c) == CreateAllocate(c) \/ CreateReserve(c) \/ CreateTmo(c) \/ CreateTmoFails(c)

Next ==
    \/ \E c \in Cores : Create(c) \/ DisableTimerAllocation(c)
    \/ \E t \in Timers :
          \/ \E us \in PeriodsUs, m \in Messages, r \in Receivers : ArmTimer(t, us, m, r)
          \/ ArmTimerAborts(t)
          \/ TmoExpires(t)
          \/ DisarmArmed(t) \/ DisarmIdle(t)
          \/ DestroyDeferred(t) \/ DestroyNow(t) \/ DestroyTimerAborts(t)
          \/ HandleTimeoutEvent(t)
          \/ RetireTimer(t)
    \/ \E m \in Messages : ConsumeMessage(m)

Spec == Init /\ [][Next]_vars

(* EM dispatches every event and every timeout elapses; a core in           *)
(* CreateTimer runs on.  Applications owe nothing.  After a failed          *)
(* assertion a core may be dead or spin on a lock that nobody gives back;   *)
(* no liveness is claimed then.                                             *)
Fairness ==
    /\ \A t \in Timers : WF_vars(TmoExpires(t)) /\ WF_vars(HandleTimeoutEvent(t))
    /\ \A c \in Cores : WF_vars(CreateReserve(c)) /\ WF_vars(CreateTmo(c) \/ CreateTmoFails(c))
    /\ \A m \in Messages : WF_vars(ConsumeMessage(m))

FairSpec == Spec /\ Fairness

-----------------------------------------------------------------------------
(* Every variable has its type: no counter goes below zero, no entry takes  *)
(* a state outside ETimerState.                                             *)
TypeOK ==
    /\ table \in [Timers -> Contexts]
    /\ fifo \in Fifos
    /\ tmo \in [Timers -> TmoStates]
    /\ inFlight \in [Timers -> 0 .. MaxInFlight]
    /\ owner \in [Messages -> {"Pool", "Timer", "Receiver"}]
    /\ creating \in [Cores -> Calls]
    /\ allow \subseteq Cores
    /\ retireNext \in IdBase .. (IdBase + IdCount)
    /\ issued \subseteq Timers

(* The AssertTrue conditions and fatal exceptions of timing.c,              *)
(* timer_table.c and timing_daemon.c are met in one situation only: a call  *)
(* with an old identifier comes between ReserveTimerContext and             *)
(* em_tmo_create of the call that reuses it, and finds no timeout object    *)
(* to set (timing.c:107) or delete (timing.c:429).  In all others, whichever *)
(* identifiers, old or new, applications call with: no event of a dead      *)
(* timer, no event to be skipped that is not counted, no leaked message, no *)
(* timeout deleted while it runs, no reserved entry that is not free.       *)
OnlyUnfinishedTimersFail ==
    [][\A f \in failed' \ failed :
          f[1] \in {"ArmTimer", "em_tmo_delete"} /\ UnderConstruction(f[2])]_vars

(* The assertion of ArmTimer (timing.c:107), made after State has been      *)
(* found Idle: an idle timer has a timeout object.  It fails.               *)
ArmTimerAssertHolds == \A t \in Timers : <<"ArmTimer", t>> \notin failed

(* The SkipEvents counter is exact.  The events of a live timer in the      *)
(* daemon's queue are those to be skipped, plus the one of the current      *)
(* arming if its timeout has elapsed; so the daemon never takes the event   *)
(* of an old arming for that of a new one, and an identifier goes back to   *)
(* the ring only when no event of the old timer can reach its next user.    *)
EventAccounting ==
    \A t \in Timers :
        /\ table[t].State \in {"Idle", "Armed", "Destroyed"} =>
              inFlight[t] = table[t].SkipEvents +
                 (IF table[t].State = "Armed" /\ tmo[t] = "Expired" THEN 1 ELSE 0)
        /\ table[t].State = "Invalid" => inFlight[t] = 0

(* A timer holds a message exactly while it is armed, no two timers hold    *)
(* the same one, and a message is marked as a timer's exactly when a timer  *)
(* holds it: none leaks, none is sent or destroyed twice.                   *)
MessageOwnership ==
    /\ \A t \in Timers : table[t].State = "Armed" <=> table[t].Message # NoMessage
    /\ \A t, u \in Timers :
          table[t].Message = table[u].Message /\ table[t].Message # NoMessage => t = u
    /\ \A m \in Messages :
          owner[m] = "Timer" <=> \E t \in Timers : table[t].Message = m

(* The identifiers in use: those of live timers and those a core is about   *)
(* to reserve.                                                              *)
InUse ==
    {t \in Timers : \/ table[t].State \in {"Idle", "Armed", "Destroyed"}
                    \/ \E c \in Cores : creating[c] = [at |-> "Allocated", id |-> t]}

(* The table and the ring agree at all times, across the steps of           *)
(* concurrent CreateTimer calls and the deferred destruction in the daemon: *)
(* an identifier is in the ring exactly when its entry is not in use.       *)
TableMatchesRing == RingInv(fifo, InUse)

-----------------------------------------------------------------------------
(* What the entries look like between two critical sections; with the       *)
(* invariants above this is inductive.                                      *)

(* The fields of a context follow its state. *)
ContextInv ==
    \A t \in Timers :
        /\ table[t].State # "Armed" =>
              /\ table[t].Period = 0
              /\ table[t].PreviousExpiration = 0
              /\ table[t].Receiver = NoReceiver
        /\ table[t].State = "Armed" /\ table[t].Period = 0
              => table[t].PreviousExpiration = 0
        /\ table[t].State \in {"Invalid", "Retired"} => table[t].SkipEvents = 0

(* The timeout object follows the state: it exists while the timer does,    *)
(* and runs only while the timer is armed.                                  *)
TmoInv ==
    \A t \in Timers :
        /\ table[t].State = "Armed" => tmo[t] \in {"Set", "Expired"}
        /\ table[t].State = "Destroyed" => tmo[t] \in {"Idle", "Expired"}
        /\ table[t].State \in {"Invalid", "Retired"} => tmo[t] = "Undef"
        /\ table[t].State = "Idle" => tmo[t] # "Set"
        /\ table[t].State = "Idle" /\ tmo[t] = "Undef" => UnderConstruction(t)

(* Concurrent CreateTimer calls work on different entries. *)
CreatingInv ==
    /\ \A c \in Cores :
          /\ creating[c].at = "None" => creating[c] = NoCall
          /\ creating[c].at # "None" => creating[c].id \in Timers
          /\ creating[c].at = "Allocated" => table[creating[c].id].State = "Invalid"
          /\ creating[c].at = "Reserved" =>
                /\ table[creating[c].id].State = "Idle"
                /\ table[creating[c].id].SkipEvents = 0
                /\ tmo[creating[c].id] = "Undef"
          /\ c \notin allow => creating[c] = NoCall
    /\ \A c, d \in Cores :
          creating[c].id = creating[d].id /\ creating[c].at # "None" => c = d

(* The retirement loop has retired the entries it has passed and no other,  *)
(* and it starts only when no core can create timers any more.              *)
RetireInv ==
    /\ \A t \in Timers : table[t].State = "Retired" <=> t < retireNext
    /\ retireNext # IdBase => allow = {}

IInv ==
    /\ TypeOK /\ EventAccounting /\ MessageOwnership /\ TableMatchesRing
    /\ ContextInv /\ TmoInv /\ CreatingInv /\ RetireInv

-----------------------------------------------------------------------------
(* The promise of menabrea/timing.h, as TimerService states it. *)
Status(t) ==
    IF table[t].State = "Idle" THEN "Idle"
    ELSE IF table[t].State = "Armed" THEN (IF tmo[t] = "Expired" THEN "Due" ELSE "Armed")
    ELSE "Off"
Statuses == [t \in Timers |-> Status(t)]
Held == [t \in Timers |-> table[t].Message]
Service == INSTANCE TimerService WITH status <- Statuses, held <- Held
ImplementsTimerService == Service!Spec

(* A destroyed timer does not stay behind: its last late event releases the *)
(* entry (or shutdown retires it).                                          *)
DestroyCompletes ==
    \A t \in Timers :
        table[t].State = "Destroyed" ~> table[t].State # "Destroyed" \/ failed # {}

(* Once the timeout of an armed timer has elapsed the daemon gets to it, in *)
(* spite of the events to be skipped that are in front: the message of a    *)
(* one-shot timer is sent, or was withdrawn meanwhile.                      *)
TimeoutServed ==
    \A t \in Timers :
        (table[t].State = "Armed" /\ table[t].Period = 0)
            ~> ~ (table[t].State = "Armed" /\ table[t].Period = 0) \/ failed # {}
=============================================================================
