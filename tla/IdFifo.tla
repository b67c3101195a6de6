------------------------------- MODULE IdFifo -------------------------------
(***************************************************************************)
(* The ring of free identifiers that both the worker table                 *)
(* (SDynamicIdFifo, worker_table.c) and the timer table (STimerIdFifo,     *)
(* timer_table.c) keep in shared memory behind a spinlock of its own.      *)
(*                                                                         *)
(* The ring is a record with the fields of the C structure.  An operation  *)
(* is one critical section of the lock, so it is an operator from rings to *)
(* rings; the modules of the two tables hold a ring in a variable.  A slot *)
(* whose identifier has been handed out is poisoned with NoId, which is    *)
(* what the assertions of the code look at.                                *)
(***************************************************************************)
EXTENDS Integers, FiniteSets

CONSTANTS IdCount,  (* DYNAMIC_WORKER_IDS_COUNT, or MAX_TIMER_COUNT    *)
          IdBase,   (* WORKER_ID_DYNAMIC_BASE, or 0 for timers         *)
          NoId      (* WORKER_ID_INVALID, or TIMER_ID_INVALID          *)

(* The identifiers the ring manages and the slots it keeps them in. *)
Ids == IdBase .. (IdBase + IdCount - 1)
Slots == 0 .. (IdCount - 1)

ASSUME IdAssumption ==
    /\ IdCount \in Nat \ {0}
    /\ IdBase \in Nat
    /\ NoId \notin Ids

Fifos == [GetIndex : Slots, PutIndex : Slots, FreeIds : 0 .. IdCount,
          IdPool : [Slots -> Ids \cup {NoId}]]

-----------------------------------------------------------------------------
(* The ring as the table's init function leaves it: every identifier free. *)
FifoInit ==
    [GetIndex |-> 0, PutIndex |-> 0, FreeIds |-> IdCount,
     IdPool |-> [i \in Slots |-> IdBase + i]]

NextSlot(i) == (i + 1) % IdCount

(* What an allocation returns: the oldest free identifier, if any. *)
AllocatedId(f) ==
    IF f.FreeIds > 0 THEN f.IdPool[f.GetIndex] ELSE NoId

(* The ring after an allocation. *)
AllocateId(f) ==
    IF f.FreeIds > 0
    THEN [GetIndex |-> NextSlot(f.GetIndex),
          PutIndex |-> f.PutIndex,
          FreeIds  |-> f.FreeIds - 1,
          IdPool   |-> [f.IdPool EXCEPT ![f.GetIndex] = NoId]]
    ELSE f

(* A slip: the insertion index stays where it is. *)
NoAdvanceReleaseId(f, id) ==
    [f EXCEPT !.FreeIds = @ + 1, !.IdPool[f.PutIndex] = id]

(* The ring after identifier id has been put back. *)
ReleaseId(f, id) ==
    [GetIndex |-> f.GetIndex,
     PutIndex |-> NextSlot(f.PutIndex),
     FreeIds  |-> f.FreeIds + 1,
     IdPool   |-> [f.IdPool EXCEPT ![f.PutIndex] = id]]

(* The assertions the two critical sections make before they change the ring. *)
AllocateAssert(f) == f.FreeIds > 0 => f.IdPool[f.GetIndex] # NoId
ReleaseAssert(f)  == f.IdPool[f.PutIndex] = NoId

-----------------------------------------------------------------------------
(* How far slot i is past slot get, going round the ring; the slots that    *)
(* hold a free identifier are the first FreeIds from the allocation index.  *)
Distance(get, i) == IF i >= get THEN i - get ELSE (i - get) + IdCount
Live(f, i) == Distance(f.GetIndex, i) < f.FreeIds

(* The slot n past slot get; the insertion index is FreeIds past GetIndex. *)
EndSlot(get, n) == IF get + n < IdCount THEN get + n ELSE get + n - IdCount

(* A ring in the state it must be in while the identifiers in H are out:    *)
(* the live slots are the FreeIds ones from GetIndex to PutIndex, only they *)
(* hold identifiers, no identifier twice, and the ring and H share out all  *)
(* of them.                                                                 *)
RingInv(f, H) ==
    /\ f \in Fifos
    /\ f.PutIndex = EndSlot(f.GetIndex, f.FreeIds)
    /\ \A i \in Slots : f.IdPool[i] # NoId <=> Live(f, i)
    /\ \A i, j \in Slots : f.IdPool[i] = f.IdPool[j] /\ Live(f, i) => i = j
    /\ \A i \in Slots : f.IdPool[i] \notin H
    /\ \A id \in Ids : id \in H \/ \E i \in Slots : f.IdPool[i] = id
    /\ H \subseteq Ids
    /\ IsFiniteSet(H)
    /\ Cardinality(H) = IdCount - f.FreeIds

(* The free identifiers in the order in which they will be handed out. *)
FreeSeq(f) ==
    [k \in 1 .. f.FreeIds |-> f.IdPool[EndSlot(f.GetIndex, k - 1)]]
=============================================================================
