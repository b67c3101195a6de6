----------------------------- MODULE IdAllocator ----------------------------
(***************************************************************************)
(* The identifier ring driven by its two operations, each one critical     *)
(* section of the ring's lock, by any number of cores.  The callers are    *)
(* abstracted to what they owe the ring: only an identifier that was       *)
(* handed out is put back, and only once.  (That the worker and the timer  *)
(* tables keep this obligation is checked in their own modules.)           *)
(***************************************************************************)
EXTENDS IdFifo, Sequences

VARIABLES fifo,    (* the ring                                             *)
          held,    (* the identifiers handed out and not yet put back      *)
          failed   (* the AssertTrue conditions found false so far         *)

vars == <<fifo, held, failed>>

Init ==
    /\ fifo = FifoInit
    /\ held = {}
    /\ failed = {}

(* AllocateDynamicLocalId and AllocateTimerId *)
Allocate ==
    /\ fifo.FreeIds > 0
    /\ fifo' = AllocateId(fifo)
    /\ held' = held \cup {AllocatedId(fifo)}
    /\ failed' = failed \cup (IF AllocateAssert(fifo) THEN {} ELSE {"Allocate"})

(* ReleaseDynamicLocalId and ReleaseTimerId *)
Release(id) ==
    /\ id \in held
    /\ fifo' = ReleaseId(fifo, id)
    /\ held' = held \ {id}
    /\ failed' = failed \cup (IF ReleaseAssert(fifo) THEN {} ELSE {"Release"})

Next == Allocate \/ \E id \in Ids : Release(id)

Spec == Init /\ [][Next]_vars

-----------------------------------------------------------------------------
(* The ring's counters and slots keep their ranges, in particular FreeIds   *)
(* never leaves 0 .. IdCount and no index leaves the pool.                  *)
TypeOK ==
    /\ fifo \in Fifos
    /\ held \subseteq Ids
    /\ failed \subseteq {"Allocate", "Release"}

(* No identifier is lost, duplicated, or handed out while somebody holds    *)
(* it, whatever the order in which the cores allocate and release.          *)
RingConsistent == RingInv(fifo, held)

(* The assertions of AllocateDynamicLocalId / ReleaseDynamicLocalId (and of *)
(* their timer twins) never fail: an allocation never meets a poisoned      *)
(* slot, a release never overwrites a free identifier.                      *)
NoAssertFails == failed = {}

(* The ring implements a first-in first-out queue of the free identifiers.  *)
Queue == INSTANCE IdQueue WITH free <- FreeSeq(fifo)
ImplementsIdQueue == Queue!Spec

=============================================================================
