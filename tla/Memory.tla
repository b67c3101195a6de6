------------------------------- MODULE Memory -------------------------------
(***************************************************************************)
(* components/memory/memory.c: reference-counted runtime memory, taken     *)
(* from an EM pool in memory shared by all dispatcher processes, and init  *)
(* memory, shared blocks that only main may allocate, before the fork, and *)
(* that the platform gives back at the end from a list of debts.  The list *)
(* and the permission to allocate are static variables of a process: a     *)
(* child inherits main's values and the two then live apart.               *)
(*                                                                         *)
(* A holder is a place in the application that keeps a pointer (a variable *)
(* of a worker, the payload of a message).  The application is taken to    *)
(* keep the rule of memory.h that every reference is put once: only a      *)
(* holder refers to, hands over or puts its buffer.                        *)
(***************************************************************************)
EXTENDS Integers, Sequences, FiniteSets

CONSTANTS Buffers,    (* buffers of RUNTIME_SHMEM_EVENT_POOL           *)
          Holders,    (* places of the application that keep pointers  *)
          Children,   (* dispatcher processes forked by main           *)
          Main,       (* the main dispatcher                           *)
          Blocks,     (* what env_shared_malloc can satisfy            *)
          None        (* no buffer                                     *)

Processes == Children \cup {Main}

ASSUME MemoryAssumption ==
    /\ IsFiniteSet(Holders)
    /\ None \notin Buffers
    /\ Main \notin Children

VARIABLES
    pool,         (* buffers that are free                                *)
    magic,        (* buffers whose header has the magic number            *)
    references,   (* References in the header of each buffer              *)
    holders,      (* the holders of each buffer                           *)
    freeing,      (* a process between the decrement and em_free          *)
    shared,       (* blocks of env_shared_malloc in use                   *)
    debts,        (* s_initMemoryDebtStack of each process, newest first  *)
    allowed,      (* processes with s_allowInitMemoryAllocations set      *)
    alive,        (* processes there are                                  *)
    phase,        (* how far main has come                                *)
    freedTwice    (* what was freed when it was free                      *)

runtime == <<pool, magic, references, holders, freeing>>
init == <<shared, debts, allowed, alive, phase>>
vars == <<runtime, init, freedTwice>>

Phases == {"GlobalInit", "Forking", "Running", "Releasing", "Done"}

TypeOK ==
    /\ pool \subseteq Buffers
    /\ magic \subseteq Buffers
    /\ references \in [Buffers -> Nat]
    /\ holders \in [Buffers -> SUBSET Holders]
    /\ freeing \in [Processes -> Buffers \cup {None}]
    /\ shared \subseteq Blocks
    /\ debts \in [Processes -> Seq(Blocks)]
    /\ allowed \subseteq Processes
    /\ alive \subseteq Processes
    /\ phase \in Phases
    /\ freedTwice \subseteq Buffers \cup Blocks

Init ==
    /\ pool = Buffers
    /\ magic = {}
    /\ references = [b \in Buffers |-> 0]
    /\ holders = [b \in Buffers |-> {}]
    /\ freeing = [p \in Processes |-> None]
    /\ shared = {}
    /\ debts = [p \in Processes |-> << >>]
    /\ allowed = {Main}
    /\ alive = {Main}
    /\ phase = "GlobalInit"
    /\ freedTwice = {}

(***************************************************************************)
(* Runtime memory                                                          *)
(***************************************************************************)

(* Application code runs on p: in main before the fork and in every        *)
(* process until shutdown, but not inside another memory operation.        *)
RunsApplication(p) ==
    /\ p \in alive
    /\ phase \in {"GlobalInit", "Running"}
    /\ freeing[p] = None

GetRuntimeMemory(p, h, b) ==
    /\ RunsApplication(p)
    /\ b \in pool
    /\ pool' = pool \ {b}
    /\ magic' = magic \cup {b}
    /\ references' = [references EXCEPT ![b] = 1]
    /\ holders' = [holders EXCEPT ![b] = {h}]
    /\ UNCHANGED <<freeing, init, freedTwice>>

(* A slip: the pointer is returned without counting the reference. *)
NoIncRefRuntimeMemory(p, h, b) ==
    /\ RunsApplication(p)
    /\ holders[b] # {} /\ h \notin holders[b]
    /\ b \in magic
    /\ holders' = [holders EXCEPT ![b] = @ \cup {h}]
    /\ UNCHANGED <<pool, magic, references, freeing, init, freedTwice>>

(* The assertion on the magic number is part of the guard: a pointer that  *)
(* a holder keeps passes it.                                               *)
RefRuntimeMemory(p, h, b) ==
    /\ RunsApplication(p)
    /\ holders[b] # {} /\ h \notin holders[b]
    /\ b \in magic
    /\ references' = [references EXCEPT ![b] = @ + 1]
    /\ holders' = [holders EXCEPT ![b] = @ \cup {h}]
    /\ UNCHANGED <<pool, magic, freeing, init, freedTwice>>

(* A slip: the counter before the decrement is compared with zero. *)
OldValuePutRuntimeMemory(p, h, b) ==
    /\ RunsApplication(p)
    /\ h \in holders[b]
    /\ b \in magic
    /\ references' = [references EXCEPT ![b] = @ - 1]
    /\ holders' = [holders EXCEPT ![b] = @ \ {h}]
    /\ freeing' = [freeing EXCEPT ![p] = IF references[b] = 0 THEN b ELSE None]
    /\ UNCHANGED <<pool, magic, init, freedTwice>>

(* env_atomic32_sub_return is one step, em_free another: other processes   *)
(* run in between.                                                         *)
PutRuntimeMemory(p, h, b) ==
    /\ RunsApplication(p)
    /\ h \in holders[b]
    /\ b \in magic
    /\ references' = [references EXCEPT ![b] = @ - 1]
    /\ holders' = [holders EXCEPT ![b] = @ \ {h}]
    /\ freeing' = [freeing EXCEPT ![p] = IF references'[b] = 0 THEN b ELSE None]
    /\ UNCHANGED <<pool, magic, init, freedTwice>>

FreeRuntimeMemory(p) ==
    /\ freeing[p] # None
    /\ pool' = pool \cup {freeing[p]}
    /\ freedTwice' = freedTwice \cup (pool \cap {freeing[p]})
    /\ freeing' = [freeing EXCEPT ![p] = None]
    /\ UNCHANGED <<magic, references, holders, init>>

(* A reference changes hands, for example in a message. *)
HandOver(g, h, b) ==
    /\ g \in holders[b] /\ h \notin holders[b]
    /\ phase \in {"GlobalInit", "Running"}
    /\ holders' = [holders EXCEPT ![b] = (@ \ {g}) \cup {h}]
    /\ UNCHANGED <<pool, magic, references, freeing, init, freedTwice>>

(***************************************************************************)
(* Init memory                                                             *)
(***************************************************************************)

(* A call that is refused, or that env_shared_malloc cannot satisfy,       *)
(* changes nothing.                                                        *)
GetInitMemory(p, x) ==
    /\ RunsApplication(p)
    /\ p \in allowed
    /\ x \notin shared
    /\ shared' = shared \cup {x}
    /\ debts' = [debts EXCEPT ![p] = <<x>> \o @]
    /\ UNCHANGED <<runtime, allowed, alive, phase, freedTwice>>

(* A slip: allocation is not disabled before the fork. *)
NoDisableInitMemoryAllocation ==
    /\ phase = "GlobalInit"
    /\ freeing[Main] = None
    /\ phase' = "Forking"
    /\ UNCHANGED <<runtime, shared, debts, allowed, alive, freedTwice>>

DisableInitMemoryAllocation ==
    /\ phase = "GlobalInit"
    /\ freeing[Main] = None
    /\ allowed' = allowed \ {Main}
    /\ phase' = "Forking"
    /\ UNCHANGED <<runtime, shared, debts, alive, freedTwice>>

(* The child starts with main's static variables. *)
ForkChild(c) ==
    /\ phase = "Forking"
    /\ c \notin alive
    /\ alive' = alive \cup {c}
    /\ debts' = [debts EXCEPT ![c] = debts[Main]]
    /\ allowed' = IF Main \in allowed THEN allowed \cup {c} ELSE allowed \ {c}
    /\ UNCHANGED <<runtime, shared, phase, freedTwice>>

(* The start barrier opens. *)
AllForked ==
    /\ phase = "Forking"
    /\ alive = Processes
    /\ phase' = "Running"
    /\ UNCHANGED <<runtime, shared, debts, allowed, alive, freedTwice>>

(* Main comes to MemoryTeardown behind the barrier at which the children   *)
(* have stopped dispatching.                                               *)
MemoryTeardown ==
    /\ phase = "Running"
    /\ \A p \in Processes : freeing[p] = None
    /\ phase' = "Releasing"
    /\ UNCHANGED <<runtime, shared, debts, allowed, alive, freedTwice>>

(* One turn of the loop of ReleaseInitMemory. *)
ReleaseInitMemory ==
    /\ phase = "Releasing"
    /\ debts[Main] # << >>
    /\ shared' = shared \ {Head(debts[Main])}
    /\ freedTwice' = freedTwice \cup ({Head(debts[Main])} \ shared)
    /\ debts' = [debts EXCEPT ![Main] = Tail(@)]
    /\ UNCHANGED <<runtime, allowed, alive, phase>>

ReleaseInitMemoryEnds ==
    /\ phase = "Releasing"
    /\ debts[Main] = << >>
    /\ phase' = "Done"
    /\ UNCHANGED <<runtime, shared, debts, allowed, alive, freedTwice>>

-----------------------------------------------------------------------------

RuntimeNext ==
    \E p \in Processes :
        \/ \E h \in Holders, b \in Buffers :
              \/ GetRuntimeMemory(p, h, b)
              \/ RefRuntimeMemory(p, h, b)
              \/ PutRuntimeMemory(p, h, b)
        \/ FreeRuntimeMemory(p)

InitNext ==
    \/ \E p \in Processes, x \in Blocks : GetInitMemory(p, x)
    \/ DisableInitMemoryAllocation
    \/ \E c \in Children : ForkChild(c)
    \/ AllForked
    \/ MemoryTeardown
    \/ ReleaseInitMemory
    \/ ReleaseInitMemoryEnds

Next ==
    \/ RuntimeNext
    \/ \E g, h \in Holders, b \in Buffers : HandOver(g, h, b)
    \/ InitNext

(* A process inside PutRuntimeMemory goes on: it shares its core with no   *)
(* other dispatcher.                                                       *)
Spec ==
    /\ Init /\ [][Next]_vars
    /\ \A p \in Processes : WF_vars(FreeRuntimeMemory(p))

-----------------------------------------------------------------------------

BufferExact(b) ==
    /\ b \in pool => holders[b] = {}
    /\ b \notin pool => b \in magic /\ references[b] = Cardinality(holders[b])
    /\ b \notin pool /\ holders[b] = {} => \E p \in Processes : freeing[p] = b
    /\ \A p \in Processes :
          freeing[p] = b =>
              /\ b \notin pool /\ holders[b] = {}
              /\ \A q \in Processes \ {p} : freeing[q] # b

(* The counter of a buffer counts its holders, and a buffer is in exactly  *)
(* one of three situations: free with no holder, held, or about to be      *)
(* freed by the one process whose decrement of memory.c:120 brought the    *)
(* counter to zero.  So nobody loses a buffer it holds, and no two         *)
(* processes free the same one.                                            *)
ReferencesExact == \A b \in Buffers : BufferExact(b)

(* The lists of debts hold every block once; when main is done no block is *)
(* left and none was freed twice, although every child had a copy of the   *)
(* list.                                                                   *)
InitMemoryReleased ==
    /\ freedTwice = {}
    /\ phase = "Done" => shared = {}

(* A buffer whose last reference is put returns to the pool, whichever     *)
(* process puts it.                                                        *)
BuffersReturn ==
    \A b \in Buffers : (holders[b] = {}) ~> (b \in pool)

=============================================================================
