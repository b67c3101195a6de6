---------------------------- MODULE TimingProofs ----------------------------
(***************************************************************************)
(* Proofs about Timing: its inductive invariant IInv holds in every        *)
(* reachable state, for any number of timers, cores and messages; hence    *)
(* the type invariant and the safety invariants that the runs check on     *)
(* small instances.  There is one lemma per action, and in it one step per *)
(* conjunct of IInv.  The second part shows that Timing implements         *)
(* TimerService.                                                           *)
(***************************************************************************)
EXTENDS Timing, IdFifoProofs

(* The conversion of a period yields a natural number of ticks, possibly 0. *)
LEMMA TicksNat == \A us \in PeriodsUs : MicrosecondsToTicks(us) \in Nat
<1> SUFFICES ASSUME NEW us \in PeriodsUs PROVE MicrosecondsToTicks(us) \in Nat
  OBVIOUS
<1>1. us * 1000 \in Nat /\ NsPerTick \in Nat \ {0}
  BY TimingAssumption
<1> QED BY <1>1 DEF MicrosecondsToTicks

(* CreateTimer has taken an identifier. *)
LEMMA CreateAllocateInv ==
    ASSUME IInv, NEW c \in Cores, CreateAllocate(c)
    PROVE  IInv' /\ UNCHANGED failed
<1> DEFINE id == AllocatedId(fifo)
<1>1. /\ AllocateAssert(fifo) /\ id \in Timers \ InUse
      /\ RingInv(AllocateId(fifo), InUse \cup {id})
  BY AllocateRing DEF CreateAllocate, IInv, TableMatchesRing, Timers
<1>a. /\ table[id].State \notin {"Idle", "Armed", "Destroyed"}
      /\ \A d \in Cores : creating[d].at # "None" => creating[d].id # id
  BY <1>1 DEF IInv, InUse, CreatingInv, TypeOK, Calls
<1>b. table[id].State = "Invalid"
  BY <1>1, <1>a DEF CreateAllocate, IInv, RetireInv, TypeOK, Contexts, TimerStates, Timers, Ids
<1>2. TypeOK'
  <2>1. AllocateId(fifo) \in Fifos
    BY <1>1 DEF RingInv
  <2>2. creating' \in [Cores -> Calls]
    BY <1>1 DEF CreateAllocate, IInv, TypeOK, Calls
  <2> QED BY <2>1, <2>2 DEF CreateAllocate, IInv, TypeOK
<1>3. UNCHANGED failed
  BY <1>1 DEF CreateAllocate, IInv, Check
<1>4. EventAccounting'
  BY DEF CreateAllocate, IInv, EventAccounting
<1>5. MessageOwnership'
  BY DEF CreateAllocate, IInv, MessageOwnership
<1>6. TableMatchesRing'
  <2>1. InUse' = InUse \cup {id}
    BY <1>1 DEF CreateAllocate, IInv, InUse, TypeOK, NoCall
  <2> QED BY <2>1, <1>1 DEF CreateAllocate, TableMatchesRing
<1>7. ContextInv'
  BY DEF CreateAllocate, IInv, ContextInv
<1>8. TmoInv'
  BY DEF CreateAllocate, IInv, TmoInv, UnderConstruction, NoCall
<1>9. CreatingInv'
  BY <1>1, <1>a, <1>b, IdAssumption DEF CreateAllocate, IInv, CreatingInv, NoCall, Timers
<1>10. RetireInv'
  BY DEF CreateAllocate, IInv, RetireInv
<1> QED BY <1>2, <1>3, <1>4, <1>5, <1>6, <1>7, <1>8, <1>9, <1>10 DEF IInv

(* CreateTimer has reserved its entry. *)
LEMMA CreateReserveInv ==
    ASSUME IInv, NEW c \in Cores, CreateReserve(c)
    PROVE  IInv' /\ UNCHANGED failed
<1> DEFINE x == [table[creating[c].id] EXCEPT !.State = "Idle"]
<1> DEFINE id == creating[c].id
<1>a. /\ id \in Timers /\ table[id] \in Contexts /\ table[id].State = "Invalid"
      /\ \A d \in Cores : d # c /\ creating[d].at # "None" => creating[d].id # id
      /\ \A d \in Cores : d # c => creating'[d] = creating[d]
      /\ creating'[c] = [at |-> "Reserved", id |-> id]
      /\ c \in allow /\ creating[c].at = "Allocated"
  BY DEF CreateReserve, IInv, CreatingInv, TypeOK, NoCall
<1>1. table[id] \in Contexts /\ x \in Contexts /\ table' = [table EXCEPT ![id] = x]
  <2>1. x \in Contexts
    BY <1>a DEF Contexts, TimerStates
  <2> QED BY <2>1, <1>a DEF CreateReserve
<1>2. TypeOK'
  BY <1>1 DEF CreateReserve, IInv, TypeOK, Calls
<1>3. UNCHANGED failed
  BY DEF CreateReserve, IInv, Check, CreatingInv
<1>4. EventAccounting'
  BY DEF CreateReserve, IInv, EventAccounting, CreatingInv, ContextInv
<1>5. MessageOwnership'
  BY DEF CreateReserve, IInv, MessageOwnership, CreatingInv
<1>6. TableMatchesRing'
  <2>1. InUse' = InUse
    BY DEF CreateReserve, IInv, InUse, TypeOK, Calls
  <2> QED BY <2>1 DEF CreateReserve, IInv, TableMatchesRing
<1>7. ContextInv'
  BY DEF CreateReserve, IInv, ContextInv, CreatingInv
<1>8. TmoInv'
  BY DEF CreateReserve, IInv, TmoInv, UnderConstruction, CreatingInv, TypeOK
<1>9. CreatingInv'
  <2>1. \A d \in Cores : creating'[d].at # "None" => creating'[d].id \in Timers
    BY <1>a DEF IInv, CreatingInv
  <2>2. \A d \in Cores : d # c /\ creating[d].at # "None" => table'[creating[d].id] = table[creating[d].id]
    BY <1>a, <1>1
  <2>3. /\ table'[id].State = "Idle" /\ table'[id].SkipEvents = 0 /\ tmo[id] = "Undef"
    BY <1>a, <1>1 DEF IInv, TypeOK, ContextInv, TmoInv
  <2>4. UNCHANGED <<tmo, allow>>
    BY DEF CreateReserve
  <2> QED BY <2>2, <2>3, <2>4, <1>a DEF IInv, CreatingInv
<1>10. RetireInv'
  BY DEF CreateReserve, IInv, RetireInv, CreatingInv
<1> QED BY <1>2, <1>3, <1>4, <1>5, <1>6, <1>7, <1>8, <1>9, <1>10 DEF IInv

(* CreateTimer returns a timer. *)
LEMMA CreateTmoInv ==
    ASSUME IInv, NEW c \in Cores, CreateTmo(c)
    PROVE  IInv' /\ UNCHANGED failed
<1>a. /\ creating[c].id \in Timers
      /\ \A d \in Cores : d # c /\ creating[d].at # "None" => creating[d].id # creating[c].id
      /\ \A d \in Cores : d # c => creating'[d] = creating[d]
      /\ creating'[c] = NoCall
  BY DEF CreateTmo, IInv, CreatingInv, TypeOK
<1>2. TypeOK'
  BY <1>a DEF CreateTmo, IInv, TypeOK, TmoStates, Calls, NoCall
<1>3. UNCHANGED failed
  BY DEF CreateTmo, IInv
<1>4. EventAccounting'
  BY DEF CreateTmo, IInv, EventAccounting, CreatingInv
<1>5. MessageOwnership'
  BY DEF CreateTmo, IInv, MessageOwnership
<1>6. TableMatchesRing'
  <2>1. InUse' = InUse
    BY DEF CreateTmo, InUse, NoCall
  <2> QED BY <2>1 DEF CreateTmo, IInv, TableMatchesRing
<1>7. ContextInv'
  BY DEF CreateTmo, IInv, ContextInv
<1>8. TmoInv'
  BY DEF CreateTmo, IInv, TmoInv, UnderConstruction, CreatingInv, TypeOK
<1>9. CreatingInv'
  <2>1. \A d \in Cores : d # c /\ creating[d].at # "None" => tmo'[creating[d].id] = tmo[creating[d].id]
    BY <1>a DEF CreateTmo
  <2>2. UNCHANGED <<table, allow>>
    BY DEF CreateTmo
  <2> QED BY <2>1, <2>2, <1>a, IdAssumption DEF IInv, CreatingInv, NoCall, Timers
<1>10. RetireInv'
  BY DEF CreateTmo, IInv, RetireInv
<1> QED BY <1>2, <1>3, <1>4, <1>5, <1>6, <1>7, <1>8, <1>9, <1>10 DEF IInv

(* CreateTimer gives everything back. *)
LEMMA CreateTmoFailsInv ==
    ASSUME IInv, NEW c \in Cores, CreateTmoFails(c)
    PROVE  IInv' /\ UNCHANGED failed
<1> DEFINE x == ResetContext
<1>a. /\ ReleaseAssert(fifo)
      /\ RingInv(ReleaseId(fifo, creating[c].id), InUse \ {creating[c].id})
  <2>1. creating[c].id \in InUse
    BY DEF CreateTmoFails, IInv, InUse, CreatingInv
  <2> QED BY <2>1, ReleaseRing DEF IInv, TableMatchesRing
<1>b. /\ creating[c].id \in Timers
      /\ \A d \in Cores : d # c /\ creating[d].at # "None" => creating[d].id # creating[c].id
      /\ \A d \in Cores : d # c => creating'[d] = creating[d]
      /\ creating'[c] = NoCall
  BY DEF CreateTmoFails, IInv, CreatingInv, TypeOK
<1>1. table[creating[c].id] \in Contexts /\ x \in Contexts /\ table' = [table EXCEPT ![creating[c].id] = x]
  BY DEF CreateTmoFails, ResetContext, IInv, TypeOK, Contexts, TimerStates, CreatingInv
<1>2. TypeOK'
  <2>1. ReleaseId(fifo, creating[c].id) \in Fifos
    BY <1>a DEF RingInv
  <2> QED BY <2>1, <1>1 DEF CreateTmoFails, IInv, TypeOK, Calls, NoCall
<1>3. UNCHANGED failed
  BY <1>a DEF CreateTmoFails, IInv, Check
<1>4. EventAccounting'
  BY DEF CreateTmoFails, ResetContext, IInv, EventAccounting, CreatingInv
<1>5. MessageOwnership'
  BY DEF CreateTmoFails, ResetContext, IInv, MessageOwnership, CreatingInv
<1>6. TableMatchesRing'
  <2>1. InUse' = InUse \ {creating[c].id}
    BY DEF CreateTmoFails, ResetContext, IInv, InUse, CreatingInv, TypeOK, NoCall
  <2> QED BY <2>1, <1>a DEF CreateTmoFails, TableMatchesRing
<1>7. ContextInv'
  BY <1>1 DEF ResetContext, IInv, ContextInv
<1>8. TmoInv'
  <2>1. \A u \in Timers : u # creating[c].id => UnderConstruction(u)' = UnderConstruction(u)
    BY <1>b DEF UnderConstruction, NoCall
  <2>2. UNCHANGED tmo /\ tmo[creating[c].id] = "Undef"
    BY DEF CreateTmoFails, IInv, CreatingInv
  <2>3. /\ table'[creating[c].id].State = "Invalid"
        /\ \A u \in Timers : u # creating[c].id => table'[u] = table[u]
    BY <1>1, <1>b DEF IInv, TypeOK, ResetContext
  <2> QED BY <2>1, <2>2, <2>3 DEF IInv, TmoInv
<1>9. CreatingInv'
  <2>1. \A d \in Cores : d # c /\ creating[d].at # "None" => table'[creating[d].id] = table[creating[d].id]
    BY <1>1, <1>b
  <2>2. UNCHANGED <<tmo, allow>>
    BY DEF CreateTmoFails
  <2> QED BY <2>1, <2>2, <1>b, IdAssumption DEF IInv, CreatingInv, NoCall, Timers
<1>10. RetireInv'
  BY DEF CreateTmoFails, ResetContext, IInv, RetireInv, CreatingInv
<1> QED BY <1>2, <1>3, <1>4, <1>5, <1>6, <1>7, <1>8, <1>9, <1>10 DEF IInv

(* ArmTimer. *)
LEMMA ArmTimerInv ==
    ASSUME IInv, NEW t \in Timers, NEW us \in PeriodsUs, NEW m \in Messages,
           NEW r \in Receivers, ArmTimer(t, us, m, r)
    PROVE  IInv' /\ UNCHANGED failed
<1> DEFINE x == [State |-> "Armed", Period |-> MicrosecondsToTicks(us),
                 PreviousExpiration |-> table[t].PreviousExpiration,
                 SkipEvents |-> table[t].SkipEvents, Message |-> m, Receiver |-> r]
<1>1. table[t] \in Contexts /\ x \in Contexts /\ table' = [table EXCEPT ![t] = x]
  BY TicksNat DEF ArmTimer, IInv, TypeOK, Contexts, TimerStates
<1>2. TypeOK'
  BY <1>1 DEF ArmTimer, IInv, TypeOK, TmoStates, NoCall
<1>3. UNCHANGED failed
  BY DEF ArmTimer, IInv, Check, TmoInv
<1>4. EventAccounting'
  BY DEF ArmTimer, IInv, EventAccounting, TypeOK
<1>5. MessageOwnership'
  BY TimingAssumption DEF ArmTimer, IInv, MessageOwnership, TypeOK
<1>6. TableMatchesRing'
  <2>1. InUse' = InUse
    BY DEF ArmTimer, InUse
  <2> QED BY <2>1 DEF ArmTimer, IInv, TableMatchesRing
<1>7. ContextInv'
  BY DEF ArmTimer, IInv, ContextInv
<1>8. TmoInv'
  BY DEF ArmTimer, IInv, TmoInv, UnderConstruction, TypeOK
<1>9. CreatingInv'
  BY DEF ArmTimer, IInv, CreatingInv, UnderConstruction
<1>10. RetireInv'
  BY DEF ArmTimer, IInv, RetireInv
<1> QED BY <1>2, <1>3, <1>4, <1>5, <1>6, <1>7, <1>8, <1>9, <1>10 DEF IInv

(* A timeout elapses. *)
LEMMA TmoExpiresInv ==
    ASSUME IInv, NEW t \in Timers, TmoExpires(t)
    PROVE  IInv' /\ UNCHANGED failed
<1>2. TypeOK'
  BY TimingAssumption DEF TmoExpires, IInv, TypeOK, TmoStates, NoCall
<1>3. UNCHANGED failed
  BY DEF TmoExpires, IInv
<1>4. EventAccounting'
  BY DEF TmoExpires, IInv, EventAccounting, TmoInv, TypeOK, Contexts
<1>5. MessageOwnership'
  BY DEF TmoExpires, IInv, MessageOwnership
<1>6. TableMatchesRing'
  <2>1. InUse' = InUse
    BY DEF TmoExpires, InUse
  <2> QED BY <2>1 DEF TmoExpires, IInv, TableMatchesRing
<1>7. ContextInv'
  BY DEF TmoExpires, IInv, ContextInv
<1>8. TmoInv'
  BY DEF TmoExpires, IInv, TmoInv, UnderConstruction
<1>9. CreatingInv'
  BY DEF TmoExpires, IInv, CreatingInv
<1>10. RetireInv'
  BY DEF TmoExpires, IInv, RetireInv
<1> QED BY <1>2, <1>3, <1>4, <1>5, <1>6, <1>7, <1>8, <1>9, <1>10 DEF IInv

(* DisarmTimer of an armed timer. *)
LEMMA DisarmArmedInv ==
    ASSUME IInv, NEW t \in Timers, DisarmArmed(t)
    PROVE  IInv' /\ UNCHANGED failed
<1> DEFINE x == ChangeStateFromArmedToIdle(
              IF Cancelled(t) THEN table[t].SkipEvents ELSE table[t].SkipEvents + 1)
<1>1. table[t] \in Contexts /\ x \in Contexts /\ table' = [table EXCEPT ![t] = x]
  BY DEF DisarmArmed, ChangeStateFromArmedToIdle, IInv, TypeOK, Contexts, TimerStates
<1>2. TypeOK'
  <2>1. tmo' \in [Timers -> TmoStates]
    BY DEF DisarmArmed, TmoCancel, IInv, TypeOK, TmoStates
  <2>2. owner' \in [Messages -> {"Pool", "Timer", "Receiver"}]
    BY DEF DisarmArmed, DestroyMessage, IInv, TypeOK
  <2> QED BY <1>1, <2>1, <2>2 DEF DisarmArmed, IInv, TypeOK
<1>3. UNCHANGED failed
  BY DEF DisarmArmed, IInv, Check, TmoInv
<1>4. EventAccounting'
  BY DEF DisarmArmed, ChangeStateFromArmedToIdle, TmoCancel, Cancelled, IInv, EventAccounting, TmoInv, TypeOK
<1>5. MessageOwnership'
  BY TimingAssumption DEF DisarmArmed, ChangeStateFromArmedToIdle, DestroyMessage, IInv, MessageOwnership, TypeOK
<1>6. TableMatchesRing'
  <2>1. InUse' = InUse
    BY DEF DisarmArmed, ChangeStateFromArmedToIdle, InUse
  <2> QED BY <2>1 DEF DisarmArmed, IInv, TableMatchesRing
<1>7. ContextInv'
  BY <1>1 DEF ChangeStateFromArmedToIdle, IInv, ContextInv
<1>8. TmoInv'
  BY DEF DisarmArmed, ChangeStateFromArmedToIdle, TmoCancel, Cancelled, IInv, TmoInv, UnderConstruction, TypeOK
<1>9. CreatingInv'
  BY DEF DisarmArmed, TmoCancel, IInv, CreatingInv
<1>10. RetireInv'
  BY DEF DisarmArmed, ChangeStateFromArmedToIdle, IInv, RetireInv
<1> QED BY <1>2, <1>3, <1>4, <1>5, <1>6, <1>7, <1>8, <1>9, <1>10 DEF IInv

(* DisarmTimer of an idle timer. *)
LEMMA DisarmIdleInv ==
    ASSUME IInv, NEW t \in Timers, DisarmIdle(t)
    PROVE  IInv' /\ UNCHANGED failed
<1> DEFINE x == [table[t] EXCEPT !.Receiver = NoReceiver]
<1>1. table[t] \in Contexts /\ x \in Contexts /\ table' = [table EXCEPT ![t] = x]
  BY DEF DisarmIdle, IInv, TypeOK, Contexts
<1>2. TypeOK'
  BY <1>1 DEF DisarmIdle, IInv, TypeOK
<1>3. UNCHANGED failed
  BY DEF DisarmIdle, IInv, Check, MessageOwnership, ContextInv
<1>4. EventAccounting'
  BY DEF DisarmIdle, IInv, EventAccounting
<1>5. MessageOwnership'
  BY DEF DisarmIdle, IInv, MessageOwnership
<1>6. TableMatchesRing'
  <2>1. InUse' = InUse
    BY DEF DisarmIdle, InUse
  <2> QED BY <2>1 DEF DisarmIdle, IInv, TableMatchesRing
<1>7. ContextInv'
  BY <1>1 DEF IInv, ContextInv
<1>8. TmoInv'
  BY DEF DisarmIdle, IInv, TmoInv, UnderConstruction
<1>9. CreatingInv'
  BY DEF DisarmIdle, IInv, CreatingInv
<1>10. RetireInv'
  BY DEF DisarmIdle, IInv, RetireInv
<1> QED BY <1>2, <1>3, <1>4, <1>5, <1>6, <1>7, <1>8, <1>9, <1>10 DEF IInv

(* DestroyTimer, left to the daemon. *)
LEMMA DestroyDeferredInv ==
    ASSUME IInv, NEW t \in Timers, DestroyDeferred(t)
    PROVE  IInv' /\ UNCHANGED failed
<1> DEFINE x == [table[t] EXCEPT !.State = "Destroyed"]
<1>1. table[t] \in Contexts /\ x \in Contexts /\ table' = [table EXCEPT ![t] = x]
  BY DEF DestroyDeferred, IInv, TypeOK, Contexts, TimerStates
<1>2. TypeOK'
  BY <1>1 DEF DestroyDeferred, IInv, TypeOK
<1>3. UNCHANGED failed
  BY DEF DestroyDeferred, IInv
<1>4. EventAccounting'
  BY DEF DestroyDeferred, IInv, EventAccounting
<1>5. MessageOwnership'
  BY DEF DestroyDeferred, IInv, MessageOwnership
<1>6. TableMatchesRing'
  <2>1. InUse' = InUse
    BY DEF DestroyDeferred, InUse
  <2> QED BY <2>1 DEF DestroyDeferred, IInv, TableMatchesRing
<1>7. ContextInv'
  BY DEF DestroyDeferred, IInv, ContextInv
<1>8. TmoInv'
  <2>1. ~ UnderConstruction(t)
    BY DEF DestroyDeferred, UnderConstruction, IInv, CreatingInv
  <2>2. tmo[t] \in {"Idle", "Expired"} /\ UNCHANGED <<tmo, creating>>
    BY <2>1 DEF DestroyDeferred, IInv, TmoInv, TypeOK, TmoStates
  <2> QED BY <2>2, <1>1 DEF IInv, TmoInv, UnderConstruction, TypeOK
<1>9. CreatingInv'
  BY DEF DestroyDeferred, IInv, CreatingInv
<1>10. RetireInv'
  BY DEF DestroyDeferred, IInv, RetireInv
<1> QED BY <1>2, <1>3, <1>4, <1>5, <1>6, <1>7, <1>8, <1>9, <1>10 DEF IInv

(* DestroyTimer with no event on its way. *)
LEMMA DestroyNowInv ==
    ASSUME IInv, NEW t \in Timers, DestroyNow(t)
    PROVE  IInv' /\ UNCHANGED failed
<1> DEFINE x == ResetContext
<1>a. /\ ReleaseAssert(fifo)
      /\ RingInv(ReleaseId(fifo, t), InUse \ {t})
  <2>1. t \in InUse
    BY DEF DestroyNow, InUse
  <2> QED BY <2>1, ReleaseRing DEF IInv, TableMatchesRing
<1>b. \A c \in Cores : creating[c].at # "None" => creating[c].id # t
  <2>1. tmo[t] # "Undef"
    BY DEF DestroyNow, FinalizeChecks, Check
  <2> QED BY <2>1 DEF DestroyNow, IInv, CreatingInv, TypeOK, Calls
<1>1. table[t] \in Contexts /\ x \in Contexts /\ table' = [table EXCEPT ![t] = x]
  BY DEF DestroyNow, ResetContext, IInv, TypeOK, Contexts, TimerStates
<1>2. TypeOK'
  <2>1. ReleaseId(fifo, t) \in Fifos
    BY <1>a DEF RingInv
  <2> QED BY <2>1, <1>1 DEF DestroyNow, IInv, TypeOK, TmoStates
<1>3. UNCHANGED failed
  BY <1>a DEF DestroyNow, IInv, TmoInv, MessageOwnership, ContextInv
<1>4. EventAccounting'
  BY DEF DestroyNow, ResetContext, IInv, EventAccounting
<1>5. MessageOwnership'
  BY DEF DestroyNow, ResetContext, IInv, MessageOwnership
<1>6. TableMatchesRing'
  <2>1. InUse' = InUse \ {t}
    BY <1>b DEF DestroyNow, ResetContext, IInv, InUse, TypeOK
  <2> QED BY <2>1, <1>a DEF DestroyNow, TableMatchesRing
<1>7. ContextInv'
  BY <1>1 DEF ResetContext, IInv, ContextInv
<1>8. TmoInv'
  BY DEF DestroyNow, ResetContext, IInv, TmoInv, UnderConstruction, TypeOK
<1>9. CreatingInv'
  BY <1>b DEF DestroyNow, IInv, CreatingInv
<1>10. RetireInv'
  BY DEF DestroyNow, ResetContext, IInv, RetireInv
<1> QED BY <1>2, <1>3, <1>4, <1>5, <1>6, <1>7, <1>8, <1>9, <1>10 DEF IInv

(* The daemon skips an event. *)
LEMMA SkipEventInv ==
    ASSUME IInv, NEW t \in Timers, SkipEvent(t)
    PROVE  IInv' /\ UNCHANGED failed
<1> DEFINE x == [table[t] EXCEPT !.SkipEvents = @ - 1]
<1>a. table[t].SkipEvents > 0
  BY DEF SkipEvent, TakeEvent, IInv, TypeOK, Contexts, EventAccounting
<1>1. table[t] \in Contexts /\ x \in Contexts /\ table' = [table EXCEPT ![t] = x]
  <2>1. table[t] \in Contexts
    BY DEF IInv, TypeOK
  <2>2. x \in Contexts
    BY <1>a, <2>1 DEF Contexts
  <2> QED BY <2>1, <2>2 DEF SkipEvent
<1>2. TypeOK'
  BY <1>1, TimingAssumption DEF SkipEvent, TakeEvent, IInv, TypeOK
<1>3. UNCHANGED failed
  BY <1>a DEF SkipEvent, IInv, Check
<1>4. EventAccounting'
  BY DEF SkipEvent, TakeEvent, IInv, EventAccounting, TypeOK, Contexts
<1>5. MessageOwnership'
  BY DEF SkipEvent, IInv, MessageOwnership
<1>6. TableMatchesRing'
  <2>1. InUse' = InUse
    BY DEF SkipEvent, InUse
  <2> QED BY <2>1 DEF SkipEvent, IInv, TableMatchesRing
<1>7. ContextInv'
  BY DEF SkipEvent, IInv, ContextInv
<1>8. TmoInv'
  BY DEF SkipEvent, IInv, TmoInv, UnderConstruction
<1>9. CreatingInv'
  BY <1>a DEF SkipEvent, IInv, CreatingInv
<1>10. RetireInv'
  BY DEF SkipEvent, IInv, RetireInv
<1> QED BY <1>2, <1>3, <1>4, <1>5, <1>6, <1>7, <1>8, <1>9, <1>10 DEF IInv

(* The daemon serves a one-shot timer. *)
LEMMA CleanTimeoutOneShotInv ==
    ASSUME IInv, NEW t \in Timers, CleanTimeoutOneShot(t)
    PROVE  IInv' /\ UNCHANGED failed
<1> DEFINE x == [table[t] EXCEPT !.State = "Idle", !.Period = 0,
                                !.Message = NoMessage, !.Receiver = NoReceiver]
<1>1. table[t] \in Contexts /\ x \in Contexts /\ table' = [table EXCEPT ![t] = x]
  <2>1. table[t] \in Contexts
    BY DEF IInv, TypeOK
  <2>2. x \in Contexts
    BY <2>1 DEF Contexts, TimerStates
  <2> QED BY <2>1, <2>2 DEF CleanTimeoutOneShot
<1>2. TypeOK'
  <2>1. inFlight' \in [Timers -> 0 .. MaxInFlight]
    BY TimingAssumption DEF CleanTimeoutOneShot, TakeEvent, IInv, TypeOK
  <2>2. owner' \in [Messages -> {"Pool", "Timer", "Receiver"}]
    BY DEF CleanTimeoutOneShot, IInv, TypeOK
  <2> QED BY <1>1, <2>1 DEF CleanTimeoutOneShot, IInv, TypeOK
<1>3. UNCHANGED failed
  BY DEF CleanTimeoutOneShot, IInv
<1>4. EventAccounting'
  BY DEF CleanTimeoutOneShot, TakeEvent, IInv, EventAccounting, TypeOK
<1>5. MessageOwnership'
  BY TimingAssumption DEF CleanTimeoutOneShot, IInv, MessageOwnership, TypeOK
<1>6. TableMatchesRing'
  <2>1. InUse' = InUse
    BY DEF CleanTimeoutOneShot, InUse
  <2> QED BY <2>1 DEF CleanTimeoutOneShot, IInv, TableMatchesRing
<1>7. ContextInv'
  BY DEF CleanTimeoutOneShot, IInv, ContextInv
<1>8. TmoInv'
  <2>1. x.State = "Idle" /\ table[t].State = "Armed" /\ tmo[t] = "Expired"
    BY DEF CleanTimeoutOneShot, TakeEvent, IInv, EventAccounting
  <2>2. UNCHANGED <<tmo, creating>>
    BY DEF CleanTimeoutOneShot
  <2> QED BY <2>1, <2>2, <1>1 DEF IInv, TmoInv, UnderConstruction
<1>9. CreatingInv'
  BY DEF CleanTimeoutOneShot, IInv, CreatingInv
<1>10. RetireInv'
  BY DEF CleanTimeoutOneShot, IInv, RetireInv
<1> QED BY <1>2, <1>3, <1>4, <1>5, <1>6, <1>7, <1>8, <1>9, <1>10 DEF IInv

(* The daemon serves a periodic timer. *)
LEMMA CleanTimeoutPeriodicInv ==
    ASSUME IInv, NEW t \in Timers, CleanTimeoutPeriodic(t)
    PROVE  IInv' /\ UNCHANGED failed
<1> DEFINE x == [table[t] EXCEPT !.PreviousExpiration = 1]
<1>1. table[t] \in Contexts /\ x \in Contexts /\ table' = [table EXCEPT ![t] = x]
  BY SMTT(20), TimingAssumption DEF CleanTimeoutPeriodic, TakeEvent, IInv, TypeOK, Contexts, TimerStates, CreatingInv
<1>2. TypeOK'
  BY <1>1, TimingAssumption DEF CleanTimeoutPeriodic, TakeEvent, IInv, TypeOK, TmoStates, NoCall
<1>3. UNCHANGED failed
  BY DEF CleanTimeoutPeriodic, TakeEvent, IInv, Check, EventAccounting
<1>4. EventAccounting'
  BY DEF CleanTimeoutPeriodic, TakeEvent, IInv, EventAccounting, TypeOK
<1>5. MessageOwnership'
  BY DEF CleanTimeoutPeriodic, IInv, MessageOwnership
<1>6. TableMatchesRing'
  <2>1. InUse' = InUse
    BY DEF CleanTimeoutPeriodic, InUse
  <2> QED BY <2>1 DEF CleanTimeoutPeriodic, IInv, TableMatchesRing
<1>7. ContextInv'
  BY DEF CleanTimeoutPeriodic, IInv, ContextInv
<1>8. TmoInv'
  BY DEF CleanTimeoutPeriodic, IInv, TmoInv, UnderConstruction
<1>9. CreatingInv'
  BY DEF CleanTimeoutPeriodic, IInv, CreatingInv
<1>10. RetireInv'
  BY DEF CleanTimeoutPeriodic, IInv, RetireInv
<1> QED BY <1>2, <1>3, <1>4, <1>5, <1>6, <1>7, <1>8, <1>9, <1>10 DEF IInv

(* The daemon skips an event of a destroyed timer. *)
LEMMA DestroyedSkipInv ==
    ASSUME IInv, NEW t \in Timers, DestroyedSkip(t)
    PROVE  IInv' /\ UNCHANGED failed
<1> DEFINE x == [table[t] EXCEPT !.SkipEvents = @ - 1]
<1>a. table[t].SkipEvents > 0 /\ table[t].SkipEvents # 1
  BY DEF DestroyedSkip, TakeEvent, IInv, TypeOK, Contexts, EventAccounting
<1>1. table[t] \in Contexts /\ x \in Contexts /\ table' = [table EXCEPT ![t] = x]
  <2>1. table[t] \in Contexts
    BY DEF IInv, TypeOK
  <2>2. x \in Contexts
    BY <1>a, <2>1 DEF Contexts
  <2> QED BY <2>1, <2>2 DEF DestroyedSkip
<1>2. TypeOK'
  BY <1>1, TimingAssumption DEF DestroyedSkip, TakeEvent, IInv, TypeOK
<1>3. UNCHANGED failed
  BY <1>a DEF DestroyedSkip, IInv, Check
<1>4. EventAccounting'
  BY DEF DestroyedSkip, TakeEvent, IInv, EventAccounting, TypeOK, Contexts
<1>5. MessageOwnership'
  BY DEF DestroyedSkip, IInv, MessageOwnership
<1>6. TableMatchesRing'
  <2>1. InUse' = InUse
    BY DEF DestroyedSkip, InUse
  <2> QED BY <2>1 DEF DestroyedSkip, IInv, TableMatchesRing
<1>7. ContextInv'
  BY DEF DestroyedSkip, IInv, ContextInv
<1>8. TmoInv'
  BY DEF DestroyedSkip, IInv, TmoInv, UnderConstruction
<1>9. CreatingInv'
  BY DEF DestroyedSkip, IInv, CreatingInv
<1>10. RetireInv'
  BY DEF DestroyedSkip, IInv, RetireInv
<1> QED BY <1>2, <1>3, <1>4, <1>5, <1>6, <1>7, <1>8, <1>9, <1>10 DEF IInv

(* The daemon completes a destruction. *)
LEMMA DestroyedLastInv ==
    ASSUME IInv, NEW t \in Timers, DestroyedLast(t)
    PROVE  IInv' /\ UNCHANGED failed
<1> DEFINE x == ResetContext
<1>a. /\ ReleaseAssert(fifo)
      /\ RingInv(ReleaseId(fifo, t), InUse \ {t})
  <2>1. t \in InUse
    BY DEF DestroyedLast, InUse
  <2> QED BY <2>1, ReleaseRing DEF IInv, TableMatchesRing
<1>b. \A c \in Cores : creating[c].at # "None" => creating[c].id # t
  BY DEF DestroyedLast, IInv, CreatingInv, TypeOK, Calls
<1>1. table[t] \in Contexts /\ x \in Contexts /\ table' = [table EXCEPT ![t] = x]
  BY DEF DestroyedLast, ResetContext, IInv, TypeOK, Contexts, TimerStates
<1>2. TypeOK'
  <2>1. ReleaseId(fifo, t) \in Fifos
    BY <1>a DEF RingInv
  <2> QED BY <2>1, <1>1, TimingAssumption DEF DestroyedLast, TakeEvent, IInv, TypeOK, TmoStates
<1>3. UNCHANGED failed
  BY <1>a DEF DestroyedLast, FinalizeChecks, Check, IInv, TmoInv, MessageOwnership, ContextInv
<1>4. EventAccounting'
  BY DEF DestroyedLast, ResetContext, TakeEvent, IInv, EventAccounting, TypeOK
<1>5. MessageOwnership'
  BY DEF DestroyedLast, ResetContext, IInv, MessageOwnership
<1>6. TableMatchesRing'
  <2>1. InUse' = InUse \ {t}
    BY <1>b DEF DestroyedLast, ResetContext, IInv, InUse, TypeOK
  <2> QED BY <2>1, <1>a DEF DestroyedLast, TableMatchesRing
<1>7. ContextInv'
  BY <1>1 DEF ResetContext, IInv, ContextInv
<1>8. TmoInv'
  BY DEF DestroyedLast, ResetContext, IInv, TmoInv, UnderConstruction, TypeOK
<1>9. CreatingInv'
  BY DEF DestroyedLast, IInv, CreatingInv
<1>10. RetireInv'
  BY DEF DestroyedLast, ResetContext, IInv, RetireInv
<1> QED BY <1>2, <1>3, <1>4, <1>5, <1>6, <1>7, <1>8, <1>9, <1>10 DEF IInv

(* The daemon drops an event of a retired timer. *)
LEMMA RetiredEventInv ==
    ASSUME IInv, NEW t \in Timers, RetiredEvent(t)
    PROVE  IInv' /\ UNCHANGED failed
<1>2. TypeOK'
  BY TimingAssumption DEF RetiredEvent, TakeEvent, IInv, TypeOK
<1>3. UNCHANGED failed
  BY DEF RetiredEvent, TakeEvent, IInv, Check, EventAccounting
<1>4. EventAccounting'
  BY DEF RetiredEvent, TakeEvent, IInv, EventAccounting
<1>5. MessageOwnership'
  BY DEF RetiredEvent, IInv, MessageOwnership
<1>6. TableMatchesRing'
  <2>1. InUse' = InUse
    BY DEF RetiredEvent, InUse
  <2> QED BY <2>1 DEF RetiredEvent, IInv, TableMatchesRing
<1>7. ContextInv'
  BY DEF RetiredEvent, IInv, ContextInv
<1>8. TmoInv'
  BY DEF RetiredEvent, IInv, TmoInv, UnderConstruction
<1>9. CreatingInv'
  BY DEF RetiredEvent, IInv, CreatingInv
<1>10. RetireInv'
  BY DEF RetiredEvent, IInv, RetireInv
<1> QED BY <1>2, <1>3, <1>4, <1>5, <1>6, <1>7, <1>8, <1>9, <1>10 DEF IInv

(* A core leaves its dispatch loop. *)
LEMMA DisableTimerAllocationInv ==
    ASSUME IInv, NEW c \in Cores, DisableTimerAllocation(c)
    PROVE  IInv' /\ UNCHANGED failed
<1>2. TypeOK'
  BY DEF DisableTimerAllocation, IInv, TypeOK
<1>3. UNCHANGED failed
  BY DEF DisableTimerAllocation, IInv
<1>4. EventAccounting'
  BY DEF DisableTimerAllocation, IInv, EventAccounting
<1>5. MessageOwnership'
  BY DEF DisableTimerAllocation, IInv, MessageOwnership
<1>6. TableMatchesRing'
  <2>1. InUse' = InUse
    BY DEF DisableTimerAllocation, InUse
  <2> QED BY <2>1 DEF DisableTimerAllocation, IInv, TableMatchesRing
<1>7. ContextInv'
  BY DEF DisableTimerAllocation, IInv, ContextInv
<1>8. TmoInv'
  BY DEF DisableTimerAllocation, IInv, TmoInv, UnderConstruction
<1>9. CreatingInv'
  BY DEF DisableTimerAllocation, IInv, CreatingInv
<1>10. RetireInv'
  BY DEF DisableTimerAllocation, IInv, RetireInv
<1> QED BY <1>2, <1>3, <1>4, <1>5, <1>6, <1>7, <1>8, <1>9, <1>10 DEF IInv

(* Shutdown passes an entry that is not in use. *)
LEMMA RetireUnusedInv ==
    ASSUME IInv, NEW t \in Timers, RetireUnused(t)
    PROVE  IInv' /\ UNCHANGED failed
<1> DEFINE x == [table[t] EXCEPT !.State = "Retired"]
<1>b. \A c \in Cores : creating[c] = NoCall
  BY DEF RetireUnused, RetireStep, IInv, CreatingInv
<1>1. table[t] \in Contexts /\ x \in Contexts /\ table' = [table EXCEPT ![t] = x]
  BY DEF RetireUnused, IInv, TypeOK, Contexts, TimerStates
<1>2. TypeOK'
  <2>1. retireNext' \in IdBase .. (IdBase + IdCount)
    BY IdAssumption DEF RetireUnused, RetireStep, Timers, Ids
  <2> QED BY <2>1, <1>1 DEF RetireUnused, RetireStep, IInv, TypeOK
<1>3. UNCHANGED failed
  <2>1. table[t].State = "Invalid"
    BY DEF RetireUnused, RetireStep, IInv, RetireInv, Timers, Ids
  <2> QED BY <2>1 DEF RetireUnused, IInv, Check
<1>4. EventAccounting'
  BY DEF RetireUnused, RetireStep, IInv, EventAccounting
<1>5. MessageOwnership'
  BY DEF RetireUnused, IInv, MessageOwnership
<1>6. TableMatchesRing'
  <2>1. InUse' = InUse
    BY DEF RetireUnused, RetireStep, InUse
  <2> QED BY <2>1 DEF RetireUnused, IInv, TableMatchesRing
<1>7. ContextInv'
  BY DEF RetireUnused, IInv, ContextInv
<1>8. TmoInv'
  BY DEF RetireUnused, RetireStep, IInv, TmoInv, UnderConstruction
<1>9. CreatingInv'
  BY <1>b DEF RetireUnused, RetireStep, CreatingInv, NoCall
<1>10. RetireInv'
  <2>1. t \in Int /\ IdBase \in Int /\ \A u \in Timers : u \in Int
    BY IdAssumption DEF Timers, Ids
  <2>2. /\ table'[t].State = "Retired"
        /\ \A u \in Timers : u # t => table'[u] = table[u]
    BY <1>1 DEF IInv, TypeOK
  <2> QED BY <2>1, <2>2 DEF RetireUnused, RetireStep, IInv, RetireInv
<1> QED BY <1>2, <1>3, <1>4, <1>5, <1>6, <1>7, <1>8, <1>9, <1>10 DEF IInv

(* Shutdown retires a timer that is not running. *)
LEMMA RetireIdleInv ==
    ASSUME IInv, NEW t \in Timers, RetireIdle(t)
    PROVE  IInv' /\ UNCHANGED failed
<1> DEFINE x == [ResetContext EXCEPT !.State = "Retired"]
<1>a. /\ ReleaseAssert(fifo)
      /\ RingInv(ReleaseId(fifo, t), InUse \ {t})
  <2>1. t \in InUse
    BY DEF RetireIdle, InUse
  <2> QED BY <2>1, ReleaseRing DEF IInv, TableMatchesRing
<1>b. \A c \in Cores : creating[c] = NoCall
  BY DEF RetireIdle, RetireStep, IInv, CreatingInv
<1>1. table[t] \in Contexts /\ x \in Contexts /\ table' = [table EXCEPT ![t] = x]
  BY DEF RetireIdle, ResetContext, IInv, TypeOK, Contexts, TimerStates
<1>2. TypeOK'
  <2>1. ReleaseId(fifo, t) \in Fifos
    BY <1>a DEF RingInv
  <2>2. retireNext' \in IdBase .. (IdBase + IdCount)
    BY IdAssumption DEF RetireIdle, RetireStep, Timers, Ids
  <2>3. tmo' \in [Timers -> TmoStates] /\ owner' \in [Messages -> {"Pool", "Timer", "Receiver"}]
    BY DEF RetireIdle, DestroyMessage, IInv, TypeOK, TmoStates
  <2> QED BY <2>1, <2>2, <2>3, <1>1 DEF RetireIdle, RetireStep, IInv, TypeOK
<1>3. UNCHANGED failed
  <2>1. tmo[t] \notin {"Undef", "Set"}
    <3>1. ~ UnderConstruction(t)
      BY <1>b DEF UnderConstruction, NoCall
    <3> QED BY <3>1, <1>b DEF RetireIdle, IInv, TmoInv
  <2>2. table[t].Message = NoMessage /\ table[t].Receiver = NoReceiver
    BY DEF RetireIdle, IInv, MessageOwnership, ContextInv
  <2> QED BY <2>1, <2>2, <1>a DEF RetireIdle, FinalizeChecks, Check, IInv
<1>4. EventAccounting'
  BY DEF RetireIdle, RetireStep, IInv, EventAccounting
<1>5. MessageOwnership'
  BY DEF RetireIdle, ResetContext, IInv, MessageOwnership
<1>6. TableMatchesRing'
  <2>1. \A u \in Timers : table'[u] = IF u = t THEN x ELSE table[u]
    BY <1>1 DEF IInv, TypeOK
  <2>2. x.State = "Retired" /\ UNCHANGED creating
    BY DEF RetireIdle, RetireStep
  <2>3. \A c \in Cores : creating[c].at = "None" /\ creating'[c].at = "None"
    BY <1>b, <2>2 DEF NoCall
  <2>4. \A u \in Timers :
          /\ u \in InUse <=> table[u].State \in {"Idle", "Armed", "Destroyed"}
          /\ u \in InUse' <=> table'[u].State \in {"Idle", "Armed", "Destroyed"}
    BY <2>3 DEF InUse
  <2>5. InUse \subseteq Timers /\ InUse' \subseteq Timers
    BY DEF InUse
  <2>6. InUse' = InUse \ {t}
    BY <2>1, <2>2, <2>4, <2>5
  <2> QED BY <2>6, <1>a DEF RetireIdle, TableMatchesRing
<1>7. ContextInv'
  BY <1>1 DEF ResetContext, IInv, ContextInv
<1>8. TmoInv'
  BY DEF RetireIdle, RetireStep, IInv, TmoInv, UnderConstruction, TypeOK
<1>9. CreatingInv'
  BY <1>b DEF RetireIdle, RetireStep, CreatingInv, NoCall
<1>10. RetireInv'
  <2>1. t \in Int /\ IdBase \in Int /\ \A u \in Timers : u \in Int
    BY IdAssumption DEF Timers, Ids
  <2>2. /\ table'[t].State = "Retired"
        /\ \A u \in Timers : u # t => table'[u] = table[u]
    BY <1>1 DEF IInv, TypeOK
  <2> QED BY <2>1, <2>2 DEF RetireIdle, RetireStep, IInv, RetireInv
<1> QED BY <1>2, <1>3, <1>4, <1>5, <1>6, <1>7, <1>8, <1>9, <1>10 DEF IInv

(* Shutdown retires a running timer. *)
LEMMA RetireArmedInv ==
    ASSUME IInv, NEW t \in Timers, RetireArmed(t)
    PROVE  IInv' /\ UNCHANGED failed
<1> DEFINE x == [ResetContext EXCEPT !.State = "Retired"]
<1>a. /\ ReleaseAssert(fifo)
      /\ RingInv(ReleaseId(fifo, t), InUse \ {t})
  <2>1. t \in InUse
    BY DEF RetireArmed, InUse
  <2> QED BY <2>1, ReleaseRing DEF IInv, TableMatchesRing
<1>b. \A c \in Cores : creating[c] = NoCall
  BY DEF RetireArmed, RetireStep, IInv, CreatingInv
<1>1. table[t] \in Contexts /\ x \in Contexts /\ table' = [table EXCEPT ![t] = x]
  BY DEF RetireArmed, ResetContext, IInv, TypeOK, Contexts, TimerStates
<1>2. TypeOK'
  <2>1. ReleaseId(fifo, t) \in Fifos
    BY <1>a DEF RingInv
  <2>2. retireNext' \in IdBase .. (IdBase + IdCount)
    BY IdAssumption DEF RetireArmed, RetireStep, Timers, Ids
  <2>3. tmo' \in [Timers -> TmoStates] /\ owner' \in [Messages -> {"Pool", "Timer", "Receiver"}]
    BY DEF RetireArmed, DestroyMessage, IInv, TypeOK, TmoStates
  <2> QED BY <2>1, <2>2, <2>3, <1>1 DEF RetireArmed, RetireStep, IInv, TypeOK
<1>3. UNCHANGED failed
  BY <1>a DEF RetireArmed, Check, IInv, TmoInv
<1>4. EventAccounting'
  BY DEF RetireArmed, RetireStep, IInv, EventAccounting, TypeOK
<1>5. MessageOwnership'
  BY TimingAssumption DEF RetireArmed, ResetContext, DestroyMessage, IInv, MessageOwnership, TypeOK
<1>6. TableMatchesRing'
  <2>1. \A u \in Timers : table'[u] = IF u = t THEN x ELSE table[u]
    BY <1>1 DEF IInv, TypeOK
  <2>2. x.State = "Retired" /\ UNCHANGED creating
    BY DEF RetireArmed, RetireStep
  <2>3. \A c \in Cores : creating[c].at = "None" /\ creating'[c].at = "None"
    BY <1>b, <2>2 DEF NoCall
  <2>4. \A u \in Timers :
          /\ u \in InUse <=> table[u].State \in {"Idle", "Armed", "Destroyed"}
          /\ u \in InUse' <=> table'[u].State \in {"Idle", "Armed", "Destroyed"}
    BY <2>3 DEF InUse
  <2>5. InUse \subseteq Timers /\ InUse' \subseteq Timers
    BY DEF InUse
  <2>6. InUse' = InUse \ {t}
    BY <2>1, <2>2, <2>4, <2>5
  <2> QED BY <2>6, <1>a DEF RetireArmed, TableMatchesRing
<1>7. ContextInv'
  BY <1>1 DEF ResetContext, IInv, ContextInv
<1>8. TmoInv'
  BY DEF RetireArmed, RetireStep, IInv, TmoInv, UnderConstruction, TypeOK
<1>9. CreatingInv'
  BY DEF RetireArmed, RetireStep, IInv, CreatingInv
<1>10. RetireInv'
  <2>1. t \in Int /\ IdBase \in Int /\ \A u \in Timers : u \in Int
    BY IdAssumption DEF Timers, Ids
  <2>2. /\ table'[t].State = "Retired"
        /\ \A u \in Timers : u # t => table'[u] = table[u]
    BY <1>1 DEF IInv, TypeOK
  <2> QED BY <2>1, <2>2 DEF RetireArmed, RetireStep, IInv, RetireInv
<1> QED BY <1>2, <1>3, <1>4, <1>5, <1>6, <1>7, <1>8, <1>9, <1>10 DEF IInv

(* A receiver is done with its message. *)
LEMMA ConsumeMessageInv ==
    ASSUME IInv, NEW m \in Messages, ConsumeMessage(m)
    PROVE  IInv' /\ UNCHANGED failed
<1>2. TypeOK'
  BY DEF ConsumeMessage, IInv, TypeOK
<1>3. UNCHANGED failed
  BY DEF ConsumeMessage, IInv
<1>4. EventAccounting'
  BY DEF ConsumeMessage, IInv, EventAccounting
<1>5. MessageOwnership'
  BY DEF ConsumeMessage, IInv, MessageOwnership
<1>6. TableMatchesRing'
  <2>1. InUse' = InUse
    BY DEF ConsumeMessage, InUse
  <2> QED BY <2>1 DEF ConsumeMessage, IInv, TableMatchesRing
<1>7. ContextInv'
  BY DEF ConsumeMessage, IInv, ContextInv
<1>8. TmoInv'
  BY DEF ConsumeMessage, IInv, TmoInv, UnderConstruction
<1>9. CreatingInv'
  BY DEF ConsumeMessage, IInv, CreatingInv
<1>10. RetireInv'
  BY DEF ConsumeMessage, IInv, RetireInv
<1> QED BY <1>2, <1>3, <1>4, <1>5, <1>6, <1>7, <1>8, <1>9, <1>10 DEF IInv

(* The initial state, with all entries free, satisfies the invariant. *)
LEMMA InitInv == Init => IInv
<1> SUFFICES ASSUME Init PROVE IInv
  OBVIOUS
<1>1. ResetContext \in Contexts
  BY DEF ResetContext, Contexts, TimerStates
<1>2. InUse = {}
  <2>1. \A c \in Cores, t \in Timers : creating[c] # [at |-> "Allocated", id |-> t]
    <3>1. \A c \in Cores : creating[c].at = "None"
      BY DEF Init, NoCall
    <3> QED BY <3>1
  <2>2. \A t \in Timers : table[t].State = "Invalid"
    BY DEF Init, ResetContext
  <2> QED BY <2>1, <2>2 DEF InUse
<1>3. TableMatchesRing
  BY <1>2, FifoInitRing DEF TableMatchesRing, Init
<1>4. FifoInit \in Fifos
  BY FifoInitRing DEF RingInv
<1>5. TypeOK
  <2>1. table \in [Timers -> Contexts] /\ creating \in [Cores -> Calls]
    BY <1>1 DEF Init, NoCall, Calls
  <2>2. inFlight \in [Timers -> 0 .. MaxInFlight] /\ retireNext \in IdBase .. (IdBase + IdCount)
    BY IdAssumption, TimingAssumption DEF Init
  <2> QED BY <1>4, <2>1, <2>2 DEF Init, TypeOK, TmoStates
<1>6. EventAccounting /\ MessageOwnership /\ ContextInv /\ TmoInv
  BY TimingAssumption DEF Init, ResetContext, EventAccounting, MessageOwnership,
     ContextInv, TmoInv
<1>7. CreatingInv
  BY DEF Init, CreatingInv, NoCall
<1>8. RetireInv
  BY IdAssumption DEF Init, RetireInv, ResetContext, Timers, Ids
<1> QED BY <1>3, <1>5, <1>6, <1>7, <1>8 DEF IInv

(* Every step but the two in which an assertion fails preserves the         *)
(* invariant and meets no assertion.                                        *)
LEMMA ActionInv ==
    ASSUME IInv, Next,
           \A t \in Timers : ~ ArmTimerAborts(t) /\ ~ DestroyTimerAborts(t)
    PROVE  IInv' /\ UNCHANGED failed
<1>2. ASSUME NEW c \in Cores, Create(c) \/ DisableTimerAllocation(c)
      PROVE  IInv' /\ UNCHANGED failed
  BY <1>2, CreateAllocateInv, CreateReserveInv, CreateTmoInv, CreateTmoFailsInv,
     DisableTimerAllocationInv DEF Create
<1>3. ASSUME NEW t \in Timers, NEW us \in PeriodsUs, NEW m \in Messages, NEW r \in Receivers,
             ArmTimer(t, us, m, r)
      PROVE  IInv' /\ UNCHANGED failed
  BY <1>3, ArmTimerInv
<1>4. ASSUME NEW t \in Timers,
             TmoExpires(t) \/ DisarmArmed(t) \/ DisarmIdle(t) \/ DestroyDeferred(t) \/ DestroyNow(t)
      PROVE  IInv' /\ UNCHANGED failed
  BY <1>4, TmoExpiresInv, DisarmArmedInv, DisarmIdleInv, DestroyDeferredInv, DestroyNowInv
<1>5. ASSUME NEW t \in Timers, HandleTimeoutEvent(t) PROVE IInv' /\ UNCHANGED failed
  BY <1>5, SkipEventInv, CleanTimeoutOneShotInv, CleanTimeoutPeriodicInv, DestroyedSkipInv,
     DestroyedLastInv, RetiredEventInv DEF HandleTimeoutEvent, DestroyedEvent
<1>6. ASSUME NEW t \in Timers, RetireTimer(t) PROVE IInv' /\ UNCHANGED failed
  BY <1>6, RetireUnusedInv, RetireIdleInv, RetireArmedInv DEF RetireTimer
<1>7. ASSUME NEW m \in Messages, ConsumeMessage(m) PROVE IInv' /\ UNCHANGED failed
  BY <1>7, ConsumeMessageInv
<1> QED BY <1>2, <1>3, <1>4, <1>5, <1>6, <1>7 DEF Next

(* A failing assertion stops the call before it has changed anything; the   *)
(* timer is one whose CreateTimer call has not stored the timeout object.   *)
LEMMA AbortStep ==
    ASSUME IInv, NEW t \in Timers, ArmTimerAborts(t) \/ DestroyTimerAborts(t)
    PROVE  /\ IInv'
           /\ UnderConstruction(t)
           /\ failed' \subseteq failed \cup {<<"ArmTimer", t>>, <<"em_tmo_delete", t>>}
<1>1. UNCHANGED <<table, fifo, tmo, inFlight, owner, creating, allow, retireNext, issued>>
  BY DEF ArmTimerAborts, DestroyTimerAborts
<1>2. IInv'
  BY <1>1 DEF IInv, TypeOK, EventAccounting, MessageOwnership, TableMatchesRing,
     InUse, ContextInv, TmoInv, UnderConstruction, CreatingInv, RetireInv
<1>3. CASE ArmTimerAborts(t)
  BY <1>2, <1>3 DEF ArmTimerAborts, Check, IInv, TmoInv
<1>4. CASE DestroyTimerAborts(t)
  <2>1. table[t].State = "Idle"
    BY <1>4 DEF DestroyTimerAborts
  <2>2. table[t].Message = NoMessage /\ table[t].Receiver = NoReceiver
    BY <2>1 DEF IInv, MessageOwnership, ContextInv
  <2>3. ReleaseAssert(fifo)
    BY <2>1, ReleaseRing DEF IInv, TableMatchesRing, InUse
  <2>4. /\ FinalizeChecks(t, table[t]) = Check("em_tmo_delete", t, tmo[t] \notin {"Undef", "Set"})
        /\ tmo[t] \in {"Undef", "Set"}
    BY <1>4, <2>2, <2>3 DEF DestroyTimerAborts, FinalizeChecks, Check
  <2> QED BY <1>2, <1>4, <2>1, <2>4 DEF DestroyTimerAborts, Check, IInv, TmoInv
<1> QED BY <1>3, <1>4

(* Every step of every actor preserves the invariant. *)
LEMMA StepInv == IInv /\ [Next]_vars => IInv'
<1> SUFFICES ASSUME IInv, [Next]_vars PROVE IInv'
  OBVIOUS
<1>1. CASE UNCHANGED vars
  BY <1>1 DEF vars, IInv, TypeOK, EventAccounting, MessageOwnership, TableMatchesRing,
     InUse, ContextInv, TmoInv, UnderConstruction, CreatingInv, RetireInv
<1>2. CASE \E t \in Timers : ArmTimerAborts(t) \/ DestroyTimerAborts(t)
  BY <1>2, AbortStep
<1> QED BY <1>1, <1>2, ActionInv

(* A step that meets an assertion or fatal exception meets the one of       *)
(* ArmTimer or of em_tmo_delete, on a timer under construction.             *)
LEMMA StepFails ==
    ASSUME IInv, [Next]_vars, NEW f \in failed' \ failed
    PROVE  f[1] \in {"ArmTimer", "em_tmo_delete"} /\ UnderConstruction(f[2])
<1>1. CASE UNCHANGED vars
  BY <1>1 DEF vars
<1>2. ASSUME NEW t \in Timers, ArmTimerAborts(t) \/ DestroyTimerAborts(t)
      PROVE  f[1] \in {"ArmTimer", "em_tmo_delete"} /\ UnderConstruction(f[2])
  <2>1. f \in {<<"ArmTimer", t>>, <<"em_tmo_delete", t>>} /\ UnderConstruction(t)
    BY <1>2, AbortStep
  <2> QED BY <2>1
<1> QED BY <1>1, <1>2, ActionInv

(* The inductive invariant holds in every reachable state.                  *)
THEOREM Invariance == Spec => []IInv
BY InitInv, StepInv, PTL DEF Spec

(* Every variable has its type: in particular no SkipEvents counter is ever *)
(* decremented below zero by the daemon.                                    *)
THEOREM TypeCorrect == Spec => []TypeOK
<1>1. IInv => TypeOK
  BY DEF IInv
<1> QED BY <1>1, Invariance, PTL

(* The assertions and fatal exceptions of timing.c, timer_table.c and       *)
(* timing_daemon.c are met by no step but a call with an old identifier     *)
(* whose timer another core is about to create, before em_tmo_create.       *)
THEOREM OnlyUnfinishedTimersAbort == Spec => OnlyUnfinishedTimersFail
<1>1. IInv /\ [Next]_vars =>
        [\A f \in failed' \ failed :
            f[1] \in {"ArmTimer", "em_tmo_delete"} /\ UnderConstruction(f[2])]_vars
  BY StepFails
<1> QED BY <1>1, Invariance, PTL DEF Spec, OnlyUnfinishedTimersFail

(* SkipEvents counts exactly the late events of cancelled armings, so the   *)
(* daemon never takes a late event for that of a new arming or a new timer. *)
THEOREM SkipEventsExact == Spec => []EventAccounting
<1>1. IInv => EventAccounting
  BY DEF IInv
<1> QED BY <1>1, Invariance, PTL

(* A message handed to ArmTimer has exactly one owner at all times: no      *)
(* leak, no double free, no message sent twice.                             *)
THEOREM MessagesOwned == Spec => []MessageOwnership
<1>1. IInv => MessageOwnership
  BY DEF IInv
<1> QED BY <1>1, Invariance, PTL

(* The timer table and the ring of free identifiers always agree.           *)
THEOREM TableAndRingAgree == Spec => []TableMatchesRing
<1>1. IInv => TableMatchesRing
  BY DEF IInv
<1> QED BY <1>1, Invariance, PTL

-----------------------------------------------------------------------------
(***************************************************************************)
(* Timing implements TimerService: the table, the timeout objects and the  *)
(* late events behave, to the applications, like a set of timers that      *)
(* deliver the message of their latest arming and no other.  One lemma per *)
(* action says which step of TimerService it is, or that it is none.       *)
(***************************************************************************)
(* A step that leaves all entries but t alone changes the abstract state at *)
(* t only.                                                                  *)
LEMMA EntryChanges ==
    ASSUME NEW t \in Timers,
           \A u \in Timers : u # t => table'[u] = table[u] /\ tmo'[u] = tmo[u]
    PROVE  /\ Statuses' = [Statuses EXCEPT ![t] = Status(t)']
           /\ Held' = [Held EXCEPT ![t] = table'[t].Message]
           /\ Statuses[t] = Status(t) /\ Held[t] = table[t].Message
<1>1. \A u \in Timers : u # t => Status(u)' = Status(u)
  BY DEF Status
<1>2. Statuses' = [Statuses EXCEPT ![t] = Status(t)']
  BY <1>1 DEF Statuses
<1>3. Held' = [Held EXCEPT ![t] = table'[t].Message]
  BY DEF Held
<1> QED BY <1>2, <1>3 DEF Statuses, Held

(* What the invariant says of one entry. *)
LEMMA Entry ==
    ASSUME IInv, NEW t \in Timers
    PROVE  /\ table[t].State = "Armed" => tmo[t] \in {"Set", "Expired"}
           /\ table[t].State = "Armed" => table[t].Message \in Messages /\ owner[table[t].Message] = "Timer"
           /\ table[t].State # "Armed" => table[t].Message = NoMessage
BY TimingAssumption DEF IInv, TypeOK, Contexts, TmoInv, MessageOwnership

(* When the daemon takes an event of an armed timer that has none to skip,  *)
(* the timeout of the current arming has elapsed.                           *)
LEMMA Elapsed ==
    ASSUME IInv, NEW t \in Timers, TakeEvent(t), table[t].State = "Armed",
           table[t].SkipEvents = 0
    PROVE  tmo[t] = "Expired"
<1>1. inFlight[t] = 0 + (IF tmo[t] = "Expired" THEN 1 ELSE 0)
  BY DEF IInv, EventAccounting
<1>2. inFlight[t] > 0
  BY DEF TakeEvent
<1>3. CASE tmo[t] # "Expired"
  BY <1>1, <1>2, <1>3
<1> QED BY <1>3

(* ArmTimer arms the timer with its message. *)
LEMMA ArmTimerRefines ==
    ASSUME IInv, NEW t \in Timers, NEW us \in PeriodsUs, NEW m \in Messages,
           NEW r \in Receivers, ArmTimer(t, us, m, r)
    PROVE  Service!Arm(t, m)
<1>1. \A u \in Timers : u # t => table'[u] = table[u] /\ tmo'[u] = tmo[u]
  BY DEF ArmTimer, IInv, TypeOK
<1>2. table'[t].State = "Armed" /\ table'[t].Message = m /\ tmo'[t] = "Set"
  BY DEF ArmTimer, IInv, TypeOK, Contexts
<1>3. Status(t) = "Idle" /\ Status(t)' = "Armed"
  BY <1>2, Entry DEF ArmTimer, Status
<1>4. /\ Statuses' = [Statuses EXCEPT ![t] = Status(t)']
      /\ Held' = [Held EXCEPT ![t] = table'[t].Message]
      /\ Statuses[t] = Status(t) /\ Held[t] = table[t].Message
  BY <1>1, EntryChanges
<1>5. table[t].State = "Armed" =>
        table[t].Message \in Messages /\ owner[table[t].Message] = "Timer"
  BY Entry
<1> QED BY <1>2, <1>3, <1>4, <1>5 DEF ArmTimer, Service!Arm

(* DisarmTimer withdraws the message, even if the timeout has elapsed. *)
LEMMA DisarmArmedRefines ==
    ASSUME IInv, NEW t \in Timers, DisarmArmed(t)
    PROVE  Service!Cancel(t, "Idle")
<1>1. \A u \in Timers : u # t => table'[u] = table[u] /\ tmo'[u] = tmo[u]
  BY DEF DisarmArmed, TmoCancel, ChangeStateFromArmedToIdle, IInv, TypeOK
<1>2. table[t].State = "Armed" /\ table'[t].State = "Idle" /\ table'[t].Message = NoMessage
  BY DEF DisarmArmed, TmoCancel, ChangeStateFromArmedToIdle, IInv, TypeOK, Contexts
<1>3. Status(t) \in {"Armed", "Due"} /\ Status(t)' = "Idle"
  BY <1>2, Entry DEF DisarmArmed, TmoCancel, ChangeStateFromArmedToIdle, Status
<1>4. /\ Statuses' = [Statuses EXCEPT ![t] = Status(t)']
      /\ Held' = [Held EXCEPT ![t] = table'[t].Message]
      /\ Statuses[t] = Status(t) /\ Held[t] = table[t].Message
  BY <1>1, EntryChanges
<1>5. table[t].State = "Armed" =>
        table[t].Message \in Messages /\ owner[table[t].Message] = "Timer"
  BY Entry
<1> QED BY <1>2, <1>3, <1>4, <1>5 DEF DisarmArmed, DestroyMessage, Service!Cancel

(* The daemon delivers the message of the current arming. *)
LEMMA CleanTimeoutOneShotRefines ==
    ASSUME IInv, NEW t \in Timers, CleanTimeoutOneShot(t)
    PROVE  Service!Deliver(t)
<1>1. \A u \in Timers : u # t => table'[u] = table[u] /\ tmo'[u] = tmo[u]
  BY DEF CleanTimeoutOneShot, IInv, TypeOK
<1>2. table[t].State = "Armed" /\ table'[t].State = "Idle" /\ table'[t].Message = NoMessage
  BY DEF CleanTimeoutOneShot, IInv, TypeOK, Contexts
<1>3. Status(t) = "Due" /\ Status(t)' = "Idle"
  BY <1>2, Elapsed DEF CleanTimeoutOneShot, Status
<1>4. /\ Statuses' = [Statuses EXCEPT ![t] = Status(t)']
      /\ Held' = [Held EXCEPT ![t] = table'[t].Message]
      /\ Statuses[t] = Status(t) /\ Held[t] = table[t].Message
  BY <1>1, EntryChanges
<1>5. table[t].State = "Armed" =>
        table[t].Message \in Messages /\ owner[table[t].Message] = "Timer"
  BY Entry
<1> QED BY <1>2, <1>3, <1>4, <1>5 DEF CleanTimeoutOneShot, Service!Deliver

(* Retiring an armed timer withdraws its message for good. *)
LEMMA RetireArmedRefines ==
    ASSUME IInv, NEW t \in Timers, RetireArmed(t)
    PROVE  Service!Cancel(t, "Off")
<1>1. \A u \in Timers : u # t => table'[u] = table[u] /\ tmo'[u] = tmo[u]
  BY DEF RetireArmed, RetireStep, ResetContext, IInv, TypeOK
<1>2. table[t].State = "Armed" /\ table'[t].State = "Retired" /\ table'[t].Message = NoMessage
  BY DEF RetireArmed, RetireStep, ResetContext, IInv, TypeOK, Contexts
<1>3. Status(t) \in {"Armed", "Due"} /\ Status(t)' = "Off"
  BY <1>2, Entry DEF RetireArmed, RetireStep, ResetContext, Status
<1>4. /\ Statuses' = [Statuses EXCEPT ![t] = Status(t)']
      /\ Held' = [Held EXCEPT ![t] = table'[t].Message]
      /\ Statuses[t] = Status(t) /\ Held[t] = table[t].Message
  BY <1>1, EntryChanges
<1>5. table[t].State = "Armed" =>
        table[t].Message \in Messages /\ owner[table[t].Message] = "Timer"
  BY Entry
<1> QED BY <1>2, <1>3, <1>4, <1>5 DEF RetireArmed, DestroyMessage, Service!Cancel

(* A step that touches neither a message nor any entry but t. *)
LEMMA StatusStep ==
    ASSUME NEW t \in Timers,
           \A u \in Timers : u # t => table'[u] = table[u] /\ tmo'[u] = tmo[u],
           table'[t].Message = table[t].Message
    PROVE  /\ Statuses' = [Statuses EXCEPT ![t] = Status(t)'] /\ Held' = Held
           /\ Statuses[t] = Status(t)
<1>1. Held' = [Held EXCEPT ![t] = table[t].Message]
  BY EntryChanges
<1>2. Held' = Held
  BY <1>1 DEF Held
<1> QED BY <1>2, EntryChanges

(* A step of Timing that changes neither a status nor the messages held is *)
(* invisible to the timer service.                                         *)
LEMMA QuietStep ==
    ASSUME NEW t \in Timers,
           \A u \in Timers : u # t => table'[u] = table[u] /\ tmo'[u] = tmo[u],
           table'[t].Message = table[t].Message, Status(t)' = Status(t),
           UNCHANGED owner
    PROVE  UNCHANGED Service!vars
<1>1. /\ Statuses' = [Statuses EXCEPT ![t] = Status(t)] /\ Held' = Held
      /\ Statuses[t] = Status(t)
  BY StatusStep
<1>2. Statuses' = Statuses
  BY <1>1 DEF Statuses
<1> QED BY <1>1, <1>2 DEF Service!vars

(* A timer comes into being when its entry is marked. *)
LEMMA CreateReserveRefines ==
    ASSUME IInv, NEW c \in Cores, NEW t \in Timers, t = creating[c].id, CreateReserve(c)
    PROVE  Service!Create(t)
<1>1. \A u \in Timers : u # t => table'[u] = table[u] /\ tmo'[u] = tmo[u]
  BY DEF CreateReserve, IInv, TypeOK, CreatingInv
<1>2. table'[t].Message = table[t].Message /\ UNCHANGED owner
  BY Entry DEF CreateReserve, IInv, TypeOK, Contexts, CreatingInv
<1>3. Status(t) = "Off" /\ Status(t)' = "Idle"
  BY Entry DEF CreateReserve, IInv, TypeOK, Contexts, CreatingInv, TmoInv, Status
<1>4. /\ Statuses' = [Statuses EXCEPT ![t] = "Idle"] /\ Held' = Held
      /\ Statuses[t] = "Off"
  BY <1>1, <1>2, <1>3, StatusStep
<1> QED BY <1>2, <1>4 DEF Service!Create

(* The creation of the timeout object is invisible ... *)
LEMMA CreateTmoRefines ==
    ASSUME IInv, NEW c \in Cores, NEW t \in Timers, t = creating[c].id, CreateTmo(c)
    PROVE  UNCHANGED Service!vars
<1>1. \A u \in Timers : u # t => table'[u] = table[u] /\ tmo'[u] = tmo[u]
  BY DEF CreateTmo, IInv, TypeOK, CreatingInv
<1>2. table'[t].Message = table[t].Message /\ UNCHANGED owner
  BY Entry DEF CreateTmo, IInv, TypeOK, Contexts, CreatingInv
<1>3. Status(t)' = Status(t)
  BY DEF CreateTmo, IInv, TypeOK, Contexts, CreatingInv, Status
<1> QED BY <1>1, <1>2, <1>3, QuietStep

(* ... and its failure takes the timer away again. *)
LEMMA CreateTmoFailsRefines ==
    ASSUME IInv, NEW c \in Cores, NEW t \in Timers, t = creating[c].id, CreateTmoFails(c)
    PROVE  Service!Destroy(t)
<1>1. \A u \in Timers : u # t => table'[u] = table[u] /\ tmo'[u] = tmo[u]
  BY DEF CreateTmoFails, ResetContext, IInv, TypeOK, CreatingInv
<1>2. table'[t].Message = table[t].Message /\ UNCHANGED owner
  BY Entry DEF CreateTmoFails, ResetContext, IInv, TypeOK, Contexts, CreatingInv
<1>3. Status(t) = "Idle" /\ Status(t)' = "Off"
  BY Entry DEF CreateTmoFails, ResetContext, IInv, TypeOK, Contexts, CreatingInv, TmoInv, Status
<1>4. /\ Statuses' = [Statuses EXCEPT ![t] = "Off"] /\ Held' = Held
      /\ Statuses[t] = "Idle"
  BY <1>1, <1>2, <1>3, StatusStep
<1> QED BY <1>2, <1>4 DEF Service!Destroy

(* The timeout elapses. *)
LEMMA TmoExpiresRefines ==
    ASSUME IInv, NEW t \in Timers, TmoExpires(t)
    PROVE  Service!Expire(t)
<1>1. \A u \in Timers : u # t => table'[u] = table[u] /\ tmo'[u] = tmo[u]
  BY DEF TmoExpires, TimerStates, IInv, TypeOK, CreatingInv
<1>2. table'[t].Message = table[t].Message /\ UNCHANGED owner
  BY Entry DEF TmoExpires, TimerStates, IInv, TypeOK, Contexts, CreatingInv
<1>3. Status(t) = "Armed" /\ Status(t)' = "Due"
  BY Entry DEF TmoExpires, TimerStates, IInv, TypeOK, Contexts, CreatingInv, TmoInv, Status
<1>4. /\ Statuses' = [Statuses EXCEPT ![t] = "Due"] /\ Held' = Held
      /\ Statuses[t] = "Armed"
  BY <1>1, <1>2, <1>3, StatusStep
<1> QED BY <1>2, <1>4 DEF Service!Expire

(* Disarming an idle timer changes nothing. *)
LEMMA DisarmIdleRefines ==
    ASSUME IInv, NEW t \in Timers, DisarmIdle(t)
    PROVE  UNCHANGED Service!vars
<1>1. \A u \in Timers : u # t => table'[u] = table[u] /\ tmo'[u] = tmo[u]
  BY DEF DisarmIdle, IInv, TypeOK, CreatingInv
<1>2. table'[t].Message = table[t].Message /\ UNCHANGED owner
  BY Entry DEF DisarmIdle, IInv, TypeOK, Contexts, CreatingInv
<1>3. Status(t)' = Status(t)
  BY DEF DisarmIdle, IInv, TypeOK, Contexts, CreatingInv, Status
<1> QED BY <1>1, <1>2, <1>3, QuietStep

(* A timer is gone for the application as soon as it is marked Destroyed. *)
LEMMA DestroyDeferredRefines ==
    ASSUME IInv, NEW t \in Timers, DestroyDeferred(t)
    PROVE  Service!Destroy(t)
<1>1. \A u \in Timers : u # t => table'[u] = table[u] /\ tmo'[u] = tmo[u]
  BY DEF DestroyDeferred, IInv, TypeOK, CreatingInv
<1>2. table'[t].Message = table[t].Message /\ UNCHANGED owner
  BY Entry DEF DestroyDeferred, IInv, TypeOK, Contexts, CreatingInv
<1>3. Status(t) = "Idle" /\ Status(t)' = "Off"
  BY Entry DEF DestroyDeferred, IInv, TypeOK, Contexts, CreatingInv, TmoInv, Status
<1>4. /\ Statuses' = [Statuses EXCEPT ![t] = "Off"] /\ Held' = Held
      /\ Statuses[t] = "Idle"
  BY <1>1, <1>2, <1>3, StatusStep
<1> QED BY <1>2, <1>4 DEF Service!Destroy

(* DestroyTimer with no event on its way. *)
LEMMA DestroyNowRefines ==
    ASSUME IInv, NEW t \in Timers, DestroyNow(t)
    PROVE  Service!Destroy(t)
<1>1. \A u \in Timers : u # t => table'[u] = table[u] /\ tmo'[u] = tmo[u]
  BY DEF DestroyNow, ResetContext, IInv, TypeOK, CreatingInv
<1>2. table'[t].Message = table[t].Message /\ UNCHANGED owner
  BY Entry DEF DestroyNow, ResetContext, IInv, TypeOK, Contexts, CreatingInv
<1>3. Status(t) = "Idle" /\ Status(t)' = "Off"
  BY Entry DEF DestroyNow, ResetContext, IInv, TypeOK, Contexts, CreatingInv, TmoInv, Status
<1>4. /\ Statuses' = [Statuses EXCEPT ![t] = "Off"] /\ Held' = Held
      /\ Statuses[t] = "Idle"
  BY <1>1, <1>2, <1>3, StatusStep
<1> QED BY <1>2, <1>4 DEF Service!Destroy

(* Late events are invisible ... *)
LEMMA SkipEventRefines ==
    ASSUME IInv, NEW t \in Timers, SkipEvent(t)
    PROVE  UNCHANGED Service!vars
<1>1. \A u \in Timers : u # t => table'[u] = table[u] /\ tmo'[u] = tmo[u]
  BY DEF SkipEvent, IInv, TypeOK, CreatingInv
<1>2. table'[t].Message = table[t].Message /\ UNCHANGED owner
  BY Entry DEF SkipEvent, IInv, TypeOK, Contexts, CreatingInv
<1>3. Status(t)' = Status(t)
  BY DEF SkipEvent, IInv, TypeOK, Contexts, CreatingInv, Status
<1> QED BY <1>1, <1>2, <1>3, QuietStep

(* The daemon delivers a copy and arms the timer again. *)
LEMMA CleanTimeoutPeriodicRefines ==
    ASSUME IInv, NEW t \in Timers, CleanTimeoutPeriodic(t)
    PROVE  Service!DeliverCopy(t)
<1>1. \A u \in Timers : u # t => table'[u] = table[u] /\ tmo'[u] = tmo[u]
  BY DEF CleanTimeoutPeriodic, IInv, TypeOK, CreatingInv
<1>2. table'[t].Message = table[t].Message /\ UNCHANGED owner
  BY Elapsed, Entry DEF CleanTimeoutPeriodic, IInv, TypeOK, Contexts, CreatingInv
<1>3. Status(t) = "Due" /\ Status(t)' = "Armed"
  BY Elapsed, Entry DEF CleanTimeoutPeriodic, IInv, TypeOK, Contexts, CreatingInv, TmoInv, Status
<1>4. /\ Statuses' = [Statuses EXCEPT ![t] = "Armed"] /\ Held' = Held
      /\ Statuses[t] = "Due"
  BY <1>1, <1>2, <1>3, StatusStep
<1> QED BY <1>2, <1>4 DEF Service!DeliverCopy

(* ... those of a destroyed timer too ... *)
LEMMA DestroyedSkipRefines ==
    ASSUME IInv, NEW t \in Timers, DestroyedSkip(t)
    PROVE  UNCHANGED Service!vars
<1>1. \A u \in Timers : u # t => table'[u] = table[u] /\ tmo'[u] = tmo[u]
  BY DEF DestroyedSkip, IInv, TypeOK, CreatingInv
<1>2. table'[t].Message = table[t].Message /\ UNCHANGED owner
  BY Entry DEF DestroyedSkip, IInv, TypeOK, Contexts, CreatingInv
<1>3. Status(t)' = Status(t)
  BY DEF DestroyedSkip, IInv, TypeOK, Contexts, CreatingInv, Status
<1> QED BY <1>1, <1>2, <1>3, QuietStep

(* ... and so is the end of a deferred destruction. *)
LEMMA DestroyedLastRefines ==
    ASSUME IInv, NEW t \in Timers, DestroyedLast(t)
    PROVE  UNCHANGED Service!vars
<1>1. \A u \in Timers : u # t => table'[u] = table[u] /\ tmo'[u] = tmo[u]
  BY DEF DestroyedLast, ResetContext, IInv, TypeOK, CreatingInv
<1>2. table'[t].Message = table[t].Message /\ UNCHANGED owner
  BY Entry DEF DestroyedLast, ResetContext, IInv, TypeOK, Contexts, CreatingInv
<1>3. Status(t)' = Status(t)
  BY DEF DestroyedLast, ResetContext, IInv, TypeOK, Contexts, CreatingInv, Status
<1> QED BY <1>1, <1>2, <1>3, QuietStep

(* Retiring an unused entry is invisible. *)
LEMMA RetireUnusedRefines ==
    ASSUME IInv, NEW t \in Timers, RetireUnused(t)
    PROVE  UNCHANGED Service!vars
<1>1. \A u \in Timers : u # t => table'[u] = table[u] /\ tmo'[u] = tmo[u]
  BY DEF RetireUnused, RetireStep, IInv, TypeOK, CreatingInv
<1>2. table'[t].Message = table[t].Message /\ UNCHANGED owner
  BY Entry DEF RetireUnused, RetireStep, IInv, TypeOK, Contexts, CreatingInv
<1>3. Status(t)' = Status(t)
  BY DEF RetireUnused, RetireStep, IInv, TypeOK, Contexts, CreatingInv, Status
<1> QED BY <1>1, <1>2, <1>3, QuietStep

(* All timers are off at first. *)
LEMMA InitRefines == Init => Service!Init
<1> SUFFICES ASSUME Init PROVE Service!Init
  OBVIOUS
<1>1. Statuses = [t \in Timers |-> "Off"] /\ Held = [t \in Timers |-> NoMessage]
  BY DEF Init, ResetContext, Statuses, Status, Held
<1> QED BY <1>1 DEF Init, Service!Init

(* Retiring a timer that is not running destroys it, if that was not done. *)
LEMMA RetireIdleRefines ==
    ASSUME IInv, NEW t \in Timers, RetireIdle(t)
    PROVE  Service!Destroy(t) \/ UNCHANGED Service!vars
<1>1. \A u \in Timers : u # t => table'[u] = table[u] /\ tmo'[u] = tmo[u]
  BY DEF RetireIdle, IInv, TypeOK
<1>2. table'[t].Message = table[t].Message /\ UNCHANGED owner
  BY Entry DEF RetireIdle, ResetContext, IInv, TypeOK
<1>3. Status(t) \in {"Idle", "Off"} /\ Status(t)' = "Off"
  BY DEF RetireIdle, ResetContext, IInv, TypeOK, Status
<1>4. CASE Status(t) = "Idle"
  <2>1. /\ Statuses' = [Statuses EXCEPT ![t] = "Off"] /\ Held' = Held /\ Statuses[t] = "Idle"
    BY <1>1, <1>2, <1>3, <1>4, StatusStep
  <2> QED BY <2>1, <1>2 DEF Service!Destroy
<1>5. CASE Status(t) = "Off"
  BY <1>1, <1>2, <1>3, <1>5, QuietStep
<1> QED BY <1>3, <1>4, <1>5

(* Steps that touch neither table, timeouts nor messages are invisible. *)
LEMMA SilentRefines ==
    ASSUME UNCHANGED <<table, tmo, owner>>
    PROVE  UNCHANGED Service!vars
BY DEF Statuses, Held, Status, Service!vars

(* The receiver gives the message back. *)
LEMMA ConsumeMessageRefines ==
    ASSUME IInv, NEW m \in Messages, ConsumeMessage(m)
    PROVE  Service!Consume(m)
<1>1. Statuses' = Statuses /\ Held' = Held
  BY DEF ConsumeMessage, Statuses, Held, Status
<1> QED BY <1>1 DEF ConsumeMessage, Service!Consume

(* Every step is a step of TimerService or none. *)
LEMMA StepRefines == IInv /\ [Next]_vars => [Service!Next]_(Service!vars)
<1> SUFFICES ASSUME IInv, [Next]_vars PROVE Service!Next \/ UNCHANGED Service!vars
  OBVIOUS
<1> USE DEF Service!Next
<1>1. CASE UNCHANGED vars
  BY <1>1, SilentRefines DEF vars
<1>2. ASSUME NEW c \in Cores, Create(c) \/ DisableTimerAllocation(c)
      PROVE  Service!Next \/ UNCHANGED Service!vars
  <2>1. CASE CreateAllocate(c) \/ DisableTimerAllocation(c)
    BY <2>1, SilentRefines DEF CreateAllocate, DisableTimerAllocation
  <2>2. CASE CreateReserve(c) \/ CreateTmo(c) \/ CreateTmoFails(c)
    <3>1. creating[c].id \in Timers
      BY <2>2 DEF CreateReserve, CreateTmo, CreateTmoFails, IInv, CreatingInv
    <3> QED BY <2>2, <3>1, CreateReserveRefines, CreateTmoRefines, CreateTmoFailsRefines
  <2> QED BY <1>2, <2>1, <2>2 DEF Create
<1>3. ASSUME NEW t \in Timers, NEW us \in PeriodsUs, NEW m \in Messages, NEW r \in Receivers,
             ArmTimer(t, us, m, r)
      PROVE  Service!Next
  BY <1>3, ArmTimerRefines
<1>4. ASSUME NEW t \in Timers,
             TmoExpires(t) \/ DisarmArmed(t) \/ DisarmIdle(t) \/ DestroyDeferred(t) \/ DestroyNow(t)
      PROVE  Service!Next \/ UNCHANGED Service!vars
  BY <1>4, TmoExpiresRefines, DisarmArmedRefines, DisarmIdleRefines, DestroyDeferredRefines,
     DestroyNowRefines
<1>8. ASSUME NEW t \in Timers, ArmTimerAborts(t) \/ DestroyTimerAborts(t)
      PROVE  UNCHANGED Service!vars
  BY <1>8, SilentRefines DEF ArmTimerAborts, DestroyTimerAborts
<1>5. ASSUME NEW t \in Timers, HandleTimeoutEvent(t)
      PROVE  Service!Next \/ UNCHANGED Service!vars
  <2>1. CASE RetiredEvent(t)
    BY <2>1, SilentRefines DEF RetiredEvent
  <2> QED BY <1>5, <2>1, SkipEventRefines, CleanTimeoutOneShotRefines, CleanTimeoutPeriodicRefines,
          DestroyedSkipRefines, DestroyedLastRefines DEF HandleTimeoutEvent, DestroyedEvent
<1>6. ASSUME NEW t \in Timers, RetireTimer(t) PROVE Service!Next \/ UNCHANGED Service!vars
  BY <1>6, RetireUnusedRefines, RetireIdleRefines, RetireArmedRefines DEF RetireTimer
<1>7. ASSUME NEW m \in Messages, ConsumeMessage(m) PROVE Service!Next
  BY <1>7, ConsumeMessageRefines
<1> QED BY <1>1, <1>2, <1>3, <1>4, <1>5, <1>6, <1>7, <1>8 DEF Next

(* The implementation of the timers by table, timeouts and late events      *)
(* keeps the promise of menabrea/timing.h that TimerService states.         *)
THEOREM TimingRefinement == Spec => ImplementsTimerService
BY InitRefines, StepRefines, Invariance, PTL DEF Spec, Service!Spec, ImplementsTimerService
=============================================================================
