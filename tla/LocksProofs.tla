----------------------------- MODULE LocksProofs ----------------------------
(***************************************************************************)
(* The ring of identifiers, with operations that are one step each, is     *)
(* correct for every number of identifiers and every order of them.  The   *)
(* calls of any number of cores take the spinlocks in an order that cannot *)
(* deadlock, and under these locks the ring of timer identifiers is used   *)
(* as if each operation on it were one step.                               *)
(*                                                                         *)
(* The invariant of the locks follows a call through what is left of it.   *)
(* A grant says what a core has at some moment: the locks it holds, the    *)
(* identifiers that are its own, and whether what it has read of the ring  *)
(* is still true.  Every step needs some grant and leaves another one; a   *)
(* call is accepted by a grant if all its steps get what they need and     *)
(* nothing is left at its end.                                             *)
(***************************************************************************)
EXTENDS Locks, IdFifoProofs, SequenceTheorems

(***************************************************************************)
(* The ring of identifiers, with operations that are one step              *)
(***************************************************************************)
(* The inductive invariant: the ring is consistent with the set of          *)
(* identifiers that are out, and no assertion has failed.                   *)
IInv == RingConsistent /\ NoAssertFails

(* A freshly built ring holds all identifiers and no assertion has failed. *)
LEMMA InitIInv == Init => IInv
BY FifoInitRing DEF Init, IInv, RingConsistent, NoAssertFails

(* Allocation and release, and a failed allocation, preserve the invariant. *)
LEMMA NextIInv == IInv /\ [Next]_vars => IInv'
<1> SUFFICES ASSUME IInv, [Next]_vars PROVE IInv'
  OBVIOUS
<1> USE DEF IInv, RingConsistent, NoAssertFails
<1>1. CASE Allocate
  BY <1>1, AllocateRing DEF Allocate
<1>2. ASSUME NEW id \in Ids, Release(id) PROVE IInv'
  BY <1>2, ReleaseRing DEF Release
<1>3. CASE UNCHANGED vars
  BY <1>3 DEF vars
<1> QED BY <1>1, <1>2, <1>3 DEF Next

(* The invariant holds for ever. *)
LEMMA IInvAlways == Spec => []IInv
BY InitIInv, NextIInv, PTL DEF Spec

(* No identifier is ever lost, duplicated or handed out while it is in use  *)
(* (AllocateDynamicLocalId / ReleaseDynamicLocalId and their timer twins).  *)
THEOREM RingAlwaysConsistent == Spec => []RingConsistent
BY IInvAlways, PTL DEF IInv

(* The assertions of the allocation and of the release never fail. *)
THEOREM AssertionsHold == Spec => []NoAssertFails
BY IInvAlways, PTL DEF IInv

(* Every index and counter of the ring stays in its range. *)
THEOREM TypeCorrect == Spec => []TypeOK
<1>1. IInv => TypeOK
  BY DEF IInv, RingConsistent, NoAssertFails, RingInv, TypeOK
<1> QED BY <1>1, IInvAlways, PTL

-----------------------------------------------------------------------------
(* The ring read from the allocation index is the queue of IdQueue. *)
LEMMA FreeSeqType ==
    ASSUME NEW f, NEW H, RingInv(f, H)
    PROVE  /\ FreeSeq(f) \in Seq(Ids)
           /\ Len(FreeSeq(f)) = f.FreeIds
           /\ \A k \in 1 .. f.FreeIds :
                /\ EndSlot(f.GetIndex, k - 1) \in Slots
                /\ Distance(f.GetIndex, EndSlot(f.GetIndex, k - 1)) = k - 1
<1>1. /\ f.GetIndex \in Slots /\ f.FreeIds \in 0 .. IdCount
      /\ f.IdPool \in [Slots -> Ids \cup {NoId}]
  BY DEF RingInv, Fifos
<1>2. \A k \in 1 .. f.FreeIds :
         /\ EndSlot(f.GetIndex, k - 1) \in Slots
         /\ Distance(f.GetIndex, EndSlot(f.GetIndex, k - 1)) = k - 1
  BY <1>1, IdAssumption DEF EndSlot, Distance, Slots
<1>3. \A k \in 1 .. f.FreeIds : f.IdPool[EndSlot(f.GetIndex, k - 1)] \in Ids
  <2> SUFFICES ASSUME NEW k \in 1 .. f.FreeIds
               PROVE  f.IdPool[EndSlot(f.GetIndex, k - 1)] \in Ids
    OBVIOUS
  <2>1. Live(f, EndSlot(f.GetIndex, k - 1))
    BY <1>1, <1>2 DEF Live
  <2> QED BY <1>1, <1>2, <2>1 DEF RingInv
<1> QED BY <1>1, <1>2, <1>3 DEF FreeSeq

(* The slot k past get is the slot k - 1 past its successor. *)
LEMMA StepPastGet ==
    ASSUME NEW get \in Slots, NEW k \in 1 .. (IdCount - 1)
    PROVE  /\ EndSlot(NextSlot(get), k - 1) = EndSlot(get, k)
           /\ EndSlot(get, k) \in Slots
           /\ EndSlot(get, k) # get
<1>1. NextSlot(get) = IF get + 1 = IdCount THEN 0 ELSE get + 1
  BY NextSlotWraps
<1> QED BY <1>1, IdAssumption DEF EndSlot, Slots

(* An allocation takes the head of the queue ... *)
LEMMA AllocateIsTail ==
    ASSUME NEW f, NEW H, RingInv(f, H), f.FreeIds > 0
    PROVE  /\ FreeSeq(f) # <<>>
           /\ Head(FreeSeq(f)) = AllocatedId(f)
           /\ FreeSeq(AllocateId(f)) = Tail(FreeSeq(f))
<1> DEFINE g == AllocateId(f)
<1>1. /\ f.GetIndex \in Slots /\ f.FreeIds \in 1 .. IdCount
      /\ f.IdPool \in [Slots -> Ids \cup {NoId}]
  BY IdAssumption DEF RingInv, Fifos
<1>2. /\ FreeSeq(f) \in Seq(Ids) /\ Len(FreeSeq(f)) = f.FreeIds
  BY FreeSeqType
<1>3. RingInv(g, H \cup {AllocatedId(f)})
  BY AllocateRing
<1>4. /\ FreeSeq(g) \in Seq(Ids) /\ Len(FreeSeq(g)) = g.FreeIds
  BY <1>3, FreeSeqType
<1>5. /\ g.GetIndex = NextSlot(f.GetIndex) /\ g.FreeIds = f.FreeIds - 1
      /\ g.IdPool = [f.IdPool EXCEPT ![f.GetIndex] = NoId]
  BY <1>1 DEF AllocateId
<1>6. Head(FreeSeq(f)) = AllocatedId(f)
  <2>1. EndSlot(f.GetIndex, 0) = f.GetIndex
    BY <1>1, IdAssumption DEF EndSlot, Slots
  <2> QED BY <1>1, <1>2, <2>1 DEF AllocatedId, FreeSeq
<1>7. ASSUME NEW k \in 1 .. g.FreeIds
      PROVE  FreeSeq(g)[k] = FreeSeq(f)[k + 1]
  <2>1. /\ EndSlot(NextSlot(f.GetIndex), k - 1) = EndSlot(f.GetIndex, k)
        /\ EndSlot(f.GetIndex, k) \in Slots
        /\ EndSlot(f.GetIndex, k) # f.GetIndex
    <3>1. k \in 1 .. (IdCount - 1)
      BY <1>1, <1>5, IdAssumption
    <3> QED BY <1>1, <3>1, StepPastGet
  <2>2. FreeSeq(g)[k] = g.IdPool[EndSlot(f.GetIndex, k)]
    BY <1>5, <2>1 DEF FreeSeq
  <2>3. FreeSeq(f)[k + 1] = f.IdPool[EndSlot(f.GetIndex, k)]
    BY <1>1, <1>5 DEF FreeSeq
  <2> QED BY <1>1, <1>5, <2>1, <2>2, <2>3
<1> QED BY <1>1, <1>2, <1>4, <1>5, <1>6, <1>7, SeqEqual, HeadTailProperties

(* ... and a release appends to it. *)
LEMMA ReleaseIsAppend ==
    ASSUME NEW f, NEW H, RingInv(f, H), NEW id \in H
    PROVE  FreeSeq(ReleaseId(f, id)) = Append(FreeSeq(f), id)
<1> DEFINE g == ReleaseId(f, id)
<1>1. /\ f.GetIndex \in Slots /\ f.FreeIds \in 0 .. IdCount
      /\ f.IdPool \in [Slots -> Ids \cup {NoId}] /\ id \in Ids
  BY DEF RingInv, Fifos
<1>2. /\ FreeSeq(f) \in Seq(Ids) /\ Len(FreeSeq(f)) = f.FreeIds
  BY FreeSeqType
<1>3. RingInv(g, H \ {id}) /\ f.IdPool[f.PutIndex] = NoId
  BY ReleaseRing DEF ReleaseAssert
<1>4. /\ FreeSeq(g) \in Seq(Ids) /\ Len(FreeSeq(g)) = g.FreeIds
  BY <1>3, FreeSeqType
<1>5. /\ g.GetIndex = f.GetIndex /\ g.FreeIds = f.FreeIds + 1
      /\ g.IdPool = [f.IdPool EXCEPT ![f.PutIndex] = id]
  BY DEF ReleaseId
<1>6. ASSUME NEW k \in 1 .. f.FreeIds PROVE FreeSeq(g)[k] = FreeSeq(f)[k]
  <2>1. /\ EndSlot(f.GetIndex, k - 1) \in Slots
        /\ Distance(f.GetIndex, EndSlot(f.GetIndex, k - 1)) = k - 1
    BY FreeSeqType
  <2>2. Live(f, EndSlot(f.GetIndex, k - 1))
    BY <1>1, <2>1 DEF Live
  <2>3. EndSlot(f.GetIndex, k - 1) # f.PutIndex
    BY <1>3, <2>1, <2>2 DEF RingInv
  <2> QED BY <1>1, <1>5, <2>1, <2>3 DEF FreeSeq
<1>7. FreeSeq(g)[f.FreeIds + 1] = id
  <2>1. f.PutIndex = EndSlot(f.GetIndex, f.FreeIds) /\ f.PutIndex \in Slots
    BY DEF RingInv, Fifos
  <2> QED BY <1>1, <1>5, <2>1 DEF FreeSeq
<1> QED BY <1>1, <1>2, <1>4, <1>5, <1>6, <1>7, AppendProperties, SeqEqual

(* The ring implements the first-in first-out queue of free identifiers:    *)
(* an identifier put back is handed out again only after every identifier   *)
(* that was free before it.                                                 *)
THEOREM RingIsQueue == Spec => ImplementsIdQueue
<1>1. Init => Queue!Init
  <2> SUFFICES ASSUME Init PROVE Queue!Init
    OBVIOUS
  <2>1. RingInv(fifo, {})
    BY FifoInitRing DEF Init
  <2>2. /\ FreeSeq(fifo) \in Seq(Ids) /\ Len(FreeSeq(fifo)) = IdCount
    BY <2>1, FreeSeqType DEF Init, FifoInit
  <2>3. \A k \in 1 .. IdCount : FreeSeq(fifo)[k] = IdBase + k - 1
    BY IdAssumption DEF Init, FifoInit, FreeSeq, EndSlot, Slots
  <2>4. \A id \in Ids : \E k \in 1 .. IdCount : FreeSeq(fifo)[k] = id
    <3> SUFFICES ASSUME NEW id \in Ids
                 PROVE  \E k \in 1 .. IdCount : FreeSeq(fifo)[k] = id
      OBVIOUS
    <3>1. id - IdBase + 1 \in 1 .. IdCount
      BY IdAssumption DEF Ids
    <3>2. FreeSeq(fifo)[id - IdBase + 1] = IdBase + (id - IdBase + 1) - 1
      BY <2>3, <3>1
    <3>3. IdBase + (id - IdBase + 1) - 1 = id
      BY IdAssumption DEF Ids
    <3> QED BY <3>1, <3>2, <3>3
  <2>5. DOMAIN FreeSeq(fifo) = 1 .. IdCount
    BY <2>2
  <2>6. \A j, k \in 1 .. IdCount :
           FreeSeq(fifo)[j] = FreeSeq(fifo)[k] => j = k
    BY <2>3, IdAssumption
  <2> QED BY <2>2, <2>4, <2>5, <2>6 DEF Queue!Init, Init
<1>2. IInv /\ [Next]_vars => [Queue!Next]_<<FreeSeq(fifo), held>>
  <2> SUFFICES ASSUME IInv, [Next]_vars
               PROVE  [Queue!Next]_<<FreeSeq(fifo), held>>
    OBVIOUS
  <2>1. CASE Allocate
    <3>1. Queue!Allocate
      BY <2>1, AllocateIsTail DEF Allocate, Queue!Allocate, IInv, RingConsistent
    <3> QED BY <3>1 DEF Queue!Next
  <2>2. ASSUME NEW id \in Ids, Release(id)
        PROVE  [Queue!Next]_<<FreeSeq(fifo), held>>
    <3>1. Queue!Release(id)
      BY <2>2, ReleaseIsAppend DEF Release, Queue!Release, IInv, RingConsistent
    <3> QED BY <3>1 DEF Queue!Next
  <2>3. CASE UNCHANGED vars
    BY <2>3 DEF vars
  <2> QED BY <2>1, <2>2, <2>3 DEF Next
<1> QED BY <1>1, <1>2, IInvAlways, PTL DEF Spec, ImplementsIdQueue, Queue!Spec

-----------------------------------------------------------------------------
(***************************************************************************)
(* The locks                                                               *)
(***************************************************************************)
Grants == [locks : SUBSET Locks, ids : SUBSET Ids, fresh : BOOLEAN]
Grant(locks, ids, fresh) == [locks |-> locks, ids |-> ids, fresh |-> fresh]
Nothing == Grant({}, {}, FALSE)

(* The order in which locks are taken: timer entries, worker entries, rings. *)
Rank(l) == IF l[1] = "timer" THEN 1 ELSE IF l[1] = "worker" THEN 2 ELSE 3

(* Step x needs grant g and leaves grant h. *)
Permits(x, g, h) ==
    \/ /\ x.op = "acquire"
       /\ x.of \in Locks
       /\ \A l \in g.locks : Rank(l) < Rank(x.of)
       /\ h = Grant(g.locks \cup {x.of}, g.ids, g.fresh)
    \/ /\ x.op = "release"
       /\ x.of \in g.locks
       /\ ~ g.fresh
       /\ h = Grant(g.locks \ {x.of}, g.ids, g.fresh)
    \/ /\ x.op = "read"
       /\ TimerRing \in g.locks
       /\ h = Grant(g.locks, g.ids, TRUE)
    \/ /\ x.op = "allocate"
       /\ g = Grant({TimerRing}, {}, TRUE)
       /\ h = Nothing
    \/ /\ x.op = "free"
       /\ g.fresh
       /\ x.of \in g.ids
       /\ h = Grant(g.locks, g.ids \ {x.of}, FALSE)
    \/ /\ x.op = "created"
       /\ x.of \in g.ids
       /\ h = Grant(g.locks, g.ids \ {x.of}, g.fresh)
    \/ /\ x.op = "check"
       /\ x.of \in Ids
       /\ g = Grant({TimerEntry(x.of)}, {}, FALSE)
       /\ h = Grant(g.locks, {x.of}, FALSE)

Steps == [op : {"acquire", "release", "read", "allocate", "free", "created", "check"},
          of : Locks \cup Ids \cup {NoId}]

(* What is left of a call, s, can be carried out by a core with grant g. *)
Accepts(g, s) ==
    \E f \in [1 .. (Len(s) + 1) -> Grants] :
        /\ f[1] = g
        /\ f[Len(s) + 1] = Nothing
        /\ \A i \in 1 .. Len(s) : Permits(s[i], f[i], f[i + 1])

(* A core between two calls. *)
LEMMA AcceptsEnd ==
    /\ << >> \in Seq(Steps) /\ Nothing \in Grants /\ Nothing = Grant({}, {}, FALSE)
    /\ Accepts(Nothing, << >>) /\ Accepts(Grant({}, {}, FALSE), << >>)
<1>1. Nothing \in Grants
  BY DEF Nothing, Grants, Grant
<1>2. Len(<< >>) = 0
  OBVIOUS
<1> DEFINE f == [i \in 1 .. (Len(<< >>) + 1) |-> Nothing]
<1>3. f \in [1 .. (Len(<< >>) + 1) -> Grants] /\ f[1] = Nothing /\ f[Len(<< >>) + 1] = Nothing
  BY <1>1, <1>2
<1>4. \A i \in 1 .. Len(<< >>) : Permits(<< >>[i], f[i], f[i + 1])
  BY <1>2
<1> HIDE DEF f
<1>5. Accepts(Nothing, << >>)
  BY <1>3, <1>4 DEF Accepts
<1>6. Nothing = Grant({}, {}, FALSE)
  BY DEF Nothing
<1>7. << >> \in Seq(Steps)
  OBVIOUS
<1> QED BY <1>1, <1>5, <1>6, <1>7

(* A step in front of what can be carried out. *)
LEMMA AcceptsStep ==
    ASSUME NEW g \in Grants, NEW h \in Grants, NEW x \in Steps, NEW s \in Seq(Steps),
           Permits(x, g, h), Accepts(h, s)
    PROVE  <<x>> \o s \in Seq(Steps) /\ Accepts(g, <<x>> \o s)
<1>1. PICK f \in [1 .. (Len(s) + 1) -> Grants] :
           /\ f[1] = h
           /\ f[Len(s) + 1] = Nothing
           /\ \A i \in 1 .. Len(s) : Permits(s[i], f[i], f[i + 1])
  BY DEF Accepts
<1> DEFINE r == <<x>> \o s
           e == [i \in 1 .. (Len(r) + 1) |-> IF i = 1 THEN g ELSE f[i - 1]]
<1>2. /\ r \in Seq(Steps) /\ Len(s) \in Nat /\ Len(r) = Len(s) + 1
      /\ r[1] = x /\ \A i \in 1 .. Len(s) : r[i + 1] = s[i]
  OBVIOUS
<1>3. e \in [1 .. (Len(r) + 1) -> Grants] /\ e[1] = g /\ e[Len(r) + 1] = Nothing
  BY <1>1, <1>2
<1>4. ASSUME NEW i \in 1 .. Len(r) PROVE Permits(r[i], e[i], e[i + 1])
  <2>1. CASE i = 1
    <3>1. e[1] = g /\ e[2] = h
      BY <1>1, <1>2
    <3> QED BY <2>1, <3>1, <1>2
  <2>2. CASE i # 1
    <3>1. i - 1 \in 1 .. Len(s) /\ e[i] = f[i - 1] /\ e[i + 1] = f[(i - 1) + 1] /\ r[i] = s[i - 1]
      BY <1>2, <2>2
    <3> QED BY <1>1, <3>1
  <2> QED BY <2>1, <2>2
<1> QED BY <1>2, <1>3, <1>4 DEF Accepts

(* The first step of what can be carried out, and the rest. *)
LEMMA AcceptsTail ==
    ASSUME NEW g, NEW s \in Seq(Steps), s # << >>, Accepts(g, s)
    PROVE  /\ Tail(s) \in Seq(Steps) /\ Head(s) \in Steps
           /\ \E h \in Grants : Permits(Head(s), g, h) /\ Accepts(h, Tail(s))
<1>1. PICK f \in [1 .. (Len(s) + 1) -> Grants] :
           /\ f[1] = g
           /\ f[Len(s) + 1] = Nothing
           /\ \A i \in 1 .. Len(s) : Permits(s[i], f[i], f[i + 1])
  BY DEF Accepts
<1> DEFINE r == Tail(s)
           e == [i \in 1 .. (Len(r) + 1) |-> f[i + 1]]
<1>2. /\ r \in Seq(Steps) /\ Head(s) = s[1] /\ Head(s) \in Steps /\ Len(r) \in Nat
      /\ Len(s) = Len(r) + 1 /\ \A i \in 1 .. Len(r) : r[i] = s[i + 1]
  OBVIOUS
<1>3. e \in [1 .. (Len(r) + 1) -> Grants] /\ e[1] = f[2] /\ e[Len(r) + 1] = Nothing
  BY <1>1, <1>2
<1>4. \A i \in 1 .. Len(r) : Permits(r[i], e[i], e[i + 1])
  BY <1>1, <1>2
<1>5. f[2] \in Grants /\ Permits(s[1], f[1], f[2])
  BY <1>1, <1>2
<1>6. Accepts(f[2], r)
  BY <1>3, <1>4 DEF Accepts
<1> QED BY <1>1, <1>2, <1>5, <1>6

(* A core that has nothing left to do has nothing. *)
LEMMA AcceptsEmpty ==
    ASSUME NEW g, Accepts(g, << >>)
    PROVE  g = Nothing
<1>1. Len(<< >>) + 1 = 1
  OBVIOUS
<1> QED BY <1>1 DEF Accepts
-----------------------------------------------------------------------------
(***************************************************************************)
(* Every call is accepted by a core that has nothing                       *)
(***************************************************************************)

(* The locks are different ones, of different ranks. *)
LEMMA LockFacts ==
    /\ TimerRing \in Locks /\ WorkerRing \in Locks /\ TimerRing # WorkerRing
    /\ Rank(TimerRing) = 3 /\ Rank(WorkerRing) = 3
    /\ \A t \in Ids : /\ TimerEntry(t) \in Locks /\ Rank(TimerEntry(t)) = 1
                      /\ TimerEntry(t) # TimerRing
    /\ \A w \in Workers : WorkerEntry(w) \in Locks /\ Rank(WorkerEntry(w)) = 2
    /\ \A l \in Locks : Rank(l) \in 1 .. 3
BY DEF Locks, TimerRing, WorkerRing, TimerEntry, WorkerEntry, Rank

(* The steps of calls and the grants they lead between. *)
LEMMA LockStep ==
    ASSUME NEW L \in SUBSET Locks, NEW l \in Locks \ L, \A m \in L : Rank(m) < Rank(l),
           NEW M, M = L \cup {l}, NEW O \in SUBSET Ids
    PROVE  /\ Acquire(l) \in Steps /\ Unlock(l) \in Steps
           /\ Grant(L, O, FALSE) \in Grants /\ Grant(M, O, FALSE) \in Grants
           /\ Permits(Acquire(l), Grant(L, O, FALSE), Grant(M, O, FALSE))
           /\ Permits(Unlock(l), Grant(M, O, FALSE), Grant(L, O, FALSE))
<1>1. /\ Acquire(l) \in Steps /\ Unlock(l) \in Steps
      /\ Grant(L, O, FALSE) \in Grants /\ Grant(M, O, FALSE) \in Grants
  BY DEF Acquire, Unlock, Steps, Grant, Grants
<1>2. Permits(Acquire(l), Grant(L, O, FALSE), Grant(M, O, FALSE))
  BY DEF Permits, Acquire, Grant
<1>3. M \ {l} = L
  OBVIOUS
<1>4. Permits(Unlock(l), Grant(M, O, FALSE), Grant(L, O, FALSE))
  BY <1>3 DEF Permits, Unlock, Grant
<1> QED BY <1>1, <1>2, <1>4

(* A critical section in front of what can be carried out. *)
LEMMA AcceptsSection ==
    ASSUME NEW L \in SUBSET Locks, NEW l \in Locks \ L, \A m \in L : Rank(m) < Rank(l),
           NEW O \in SUBSET Ids, NEW s \in Seq(Steps), Accepts(Grant(L, O, FALSE), s)
    PROVE  /\ Section(l) \o s \in Seq(Steps)
           /\ Accepts(Grant(L, O, FALSE), Section(l) \o s)
<1>1. /\ <<Unlock(l)>> \o s \in Seq(Steps)
      /\ Accepts(Grant(L \cup {l}, O, FALSE), <<Unlock(l)>> \o s)
  BY LockStep, AcceptsStep
<1>2. /\ <<Acquire(l)>> \o (<<Unlock(l)>> \o s) \in Seq(Steps)
      /\ Accepts(Grant(L, O, FALSE), <<Acquire(l)>> \o (<<Unlock(l)>> \o s))
  BY <1>1, LockStep, AcceptsStep
<1>3. Acquire(l) \in Steps /\ Unlock(l) \in Steps
  BY LockStep
<1>4. Section(l) \o s = <<Acquire(l)>> \o (<<Unlock(l)>> \o s)
  BY <1>3 DEF Section
<1> QED BY <1>2, <1>4

(* A call that does something inside a section. *)
LEMMA AcceptsInside ==
    ASSUME NEW L \in SUBSET Locks, NEW l \in Locks \ L, \A m \in L : Rank(m) < Rank(l),
           NEW M, M = L \cup {l},
           NEW O \in SUBSET Ids, NEW s \in Seq(Steps), Accepts(Grant(M, O, FALSE), s)
    PROVE  /\ <<Acquire(l)>> \o s \in Seq(Steps)
           /\ Accepts(Grant(L, O, FALSE), <<Acquire(l)>> \o s)
BY LockStep, AcceptsStep

(* The end of a section, and of the call. *)
LEMMA AcceptsUnlock ==
    ASSUME NEW l \in Locks
    PROVE  /\ <<Unlock(l)>> \in Seq(Steps)
           /\ Accepts(Grant({l}, {}, FALSE), <<Unlock(l)>>)
<1>1. {l} = {} \cup {l} /\ {} \in SUBSET Locks /\ l \in Locks \ {} /\ {} \in SUBSET Ids
  OBVIOUS
<1>2. /\ Unlock(l) \in Steps
      /\ Grant({}, {}, FALSE) \in Grants /\ Grant({l}, {}, FALSE) \in Grants
      /\ Permits(Unlock(l), Grant({l}, {}, FALSE), Grant({}, {}, FALSE))
  BY <1>1, LockStep
<1>3. Accepts(Grant({l}, {}, FALSE), <<Unlock(l)>> \o << >>)
  BY <1>2, AcceptsStep, AcceptsEnd
<1>4. <<Unlock(l)>> \o << >> = <<Unlock(l)>> /\ <<Unlock(l)>> \in Seq(Steps)
  BY <1>2
<1> QED BY <1>3, <1>4

(* Giving an identifier back, whatever lower lock is held around it. *)
LEMMA AcceptsFree ==
    ASSUME NEW L \in SUBSET Locks, TimerRing \notin L, \A m \in L : Rank(m) < 3,
           NEW t \in Ids, NEW s \in Seq(Steps), Accepts(Grant(L, {}, FALSE), s)
    PROVE  /\ FreeTimerId(t) \o s \in Seq(Steps)
           /\ Accepts(Grant(L, {t}, FALSE), FreeTimerId(t) \o s)
<1> DEFINE R == L \cup {TimerRing}
           s1 == <<Unlock(TimerRing)>> \o s
           s2 == <<RingStep("free", t)>> \o s1
           s3 == <<RingStep("read", t)>> \o s2
           s4 == <<Acquire(TimerRing)>> \o s3
<1>1. /\ RingStep("free", t) \in Steps /\ RingStep("read", t) \in Steps
      /\ \A O \in SUBSET Ids : \A b \in BOOLEAN : Grant(R, O, b) \in Grants
  BY LockFacts DEF RingStep, Steps, Grant, Grants
<1>2. s1 \in Seq(Steps) /\ Accepts(Grant(R, {}, FALSE), s1)
  BY LockStep, LockFacts, AcceptsStep
<1>3. Permits(RingStep("free", t), Grant(R, {t}, TRUE), Grant(R, {}, FALSE))
  <2>1. {t} \ {t} = {}
    OBVIOUS
  <2> QED BY <2>1 DEF Permits, RingStep, Grant
<1>4. s2 \in Seq(Steps) /\ Accepts(Grant(R, {t}, TRUE), s2)
  BY <1>1, <1>2, <1>3, AcceptsStep
<1>5. Permits(RingStep("read", t), Grant(R, {t}, FALSE), Grant(R, {t}, TRUE))
  BY DEF Permits, RingStep, Grant
<1>6. s3 \in Seq(Steps) /\ Accepts(Grant(R, {t}, FALSE), s3)
  BY <1>1, <1>4, <1>5, AcceptsStep
<1>7. s4 \in Seq(Steps) /\ Accepts(Grant(L, {t}, FALSE), s4)
  BY <1>6, AcceptsInside, LockFacts
<1>8. FreeTimerId(t) \o s = s4
  <2>1. Acquire(TimerRing) \in Steps /\ Unlock(TimerRing) \in Steps
    BY LockStep, LockFacts
  <2> QED BY <1>1, <2>1 DEF FreeTimerId
<1> QED BY <1>7, <1>8

(* What CreateTimer does with the identifier it has, or without one. *)
LEMMA AcceptsRests ==
    /\ \A rest \in CreateTimerRests(NoId) :
          rest \in Seq(Steps) /\ Accepts(Grant({TimerRing}, {}, FALSE), rest)
    /\ \A t \in Ids : \A rest \in CreateTimerRests(t) :
          rest \in Seq(Steps) /\ Accepts(Grant({TimerRing}, {t}, FALSE), rest)
<1>1. ASSUME NEW t \in Ids, NEW end \in Seq(Steps), Accepts(Grant({}, {t}, FALSE), end)
      PROVE  /\ <<Unlock(TimerRing)>> \o Section(TimerEntry(t)) \o end \in Seq(Steps)
             /\ Accepts(Grant({TimerRing}, {t}, FALSE),
                        <<Unlock(TimerRing)>> \o Section(TimerEntry(t)) \o end)
  <2> DEFINE s1 == Section(TimerEntry(t)) \o end
             s2 == <<Unlock(TimerRing)>> \o s1
  <2>1. s1 \in Seq(Steps) /\ Accepts(Grant({}, {t}, FALSE), s1)
    BY <1>1, AcceptsSection, LockFacts
  <2>2. /\ Unlock(TimerRing) \in Steps /\ Grant({}, {t}, FALSE) \in Grants
        /\ Grant({TimerRing}, {t}, FALSE) \in Grants
        /\ Permits(Unlock(TimerRing), Grant({TimerRing}, {t}, FALSE), Grant({}, {t}, FALSE))
    <3>1. /\ {TimerRing} = {} \cup {TimerRing} /\ {} \in SUBSET Locks
          /\ TimerRing \in Locks \ {} /\ {t} \in SUBSET Ids
      BY LockFacts
    <3> QED BY <3>1, LockStep
  <2>3. s2 \in Seq(Steps) /\ Accepts(Grant({TimerRing}, {t}, FALSE), s2)
    BY <2>1, <2>2, AcceptsStep
  <2>4. Acquire(TimerEntry(t)) \in Steps /\ Unlock(TimerEntry(t)) \in Steps
    BY LockFacts DEF Acquire, Unlock, Steps
  <2>5. <<Unlock(TimerRing)>> \o Section(TimerEntry(t)) \o end = s2
    BY <1>1, <2>2, <2>4 DEF Section
  <2> QED BY <2>3, <2>5
<1>2. ASSUME NEW t \in Ids
      PROVE  /\ <<RingStep("created", t)>> \in Seq(Steps)
             /\ Accepts(Grant({}, {t}, FALSE), <<RingStep("created", t)>>)
  <2>1. RingStep("created", t) \in Steps /\ Grant({}, {t}, FALSE) \in Grants
    BY DEF RingStep, Steps, Grant, Grants
  <2>2. Permits(RingStep("created", t), Grant({}, {t}, FALSE), Nothing)
    <3>1. {t} \ {t} = {}
      OBVIOUS
    <3> QED BY <3>1 DEF Permits, RingStep, Grant, Nothing
  <2>3. Accepts(Grant({}, {t}, FALSE), <<RingStep("created", t)>> \o << >>)
    BY <2>1, <2>2, AcceptsStep, AcceptsEnd
  <2>4. /\ <<RingStep("created", t)>> \o << >> = <<RingStep("created", t)>>
        /\ <<RingStep("created", t)>> \in Seq(Steps)
    BY <2>1
  <2> QED BY <2>3, <2>4
<1>3. ASSUME NEW t \in Ids
      PROVE  FreeTimerId(t) \in Seq(Steps) /\ Accepts(Grant({}, {t}, FALSE), FreeTimerId(t))
  <2>1. << >> \in Seq(Steps) /\ Accepts(Grant({}, {}, FALSE), << >>)
    BY AcceptsEnd
  <2>2. FreeTimerId(t) \o << >> \in Seq(Steps) /\ Accepts(Grant({}, {t}, FALSE), FreeTimerId(t) \o << >>)
    BY <2>1, AcceptsFree
  <2>3. FreeTimerId(t) \o << >> = FreeTimerId(t)
    BY DEF FreeTimerId
  <2> QED BY <2>2, <2>3
<1>4. ASSUME NEW t \in Ids, NEW rest \in CreateTimerRests(t)
      PROVE  rest \in Seq(Steps) /\ Accepts(Grant({TimerRing}, {t}, FALSE), rest)
  <2>1. t # NoId
    BY IdAssumption
  <2>2. PICK end \in {<<RingStep("created", t)>>, FreeTimerId(t)} :
             rest = <<Unlock(TimerRing)>> \o Section(TimerEntry(t)) \o end
    BY <1>4, <2>1 DEF CreateTimerRests
  <2>3. end \in Seq(Steps) /\ Accepts(Grant({}, {t}, FALSE), end)
    BY <2>2, <1>2, <1>3
  <2> QED BY <1>1, <2>2, <2>3
<1>5. ASSUME NEW rest \in CreateTimerRests(NoId)
      PROVE  rest \in Seq(Steps) /\ Accepts(Grant({TimerRing}, {}, FALSE), rest)
  BY <1>5, AcceptsUnlock, LockFacts DEF CreateTimerRests
<1> QED BY <1>4, <1>5

(* CreateTimer *)
LEMMA AcceptsCreateTimer == CreateTimer \in Seq(Steps) /\ Accepts(Nothing, CreateTimer)
<1> DEFINE R == {TimerRing}
           s1 == <<RingStep("allocate", NoId)>> \o << >>
           s2 == <<RingStep("read", NoId)>> \o s1
           s3 == <<Acquire(TimerRing)>> \o s2
<1>1. /\ RingStep("allocate", NoId) \in Steps /\ RingStep("read", NoId) \in Steps
      /\ Grant(R, {}, FALSE) \in Grants /\ Grant(R, {}, TRUE) \in Grants
  BY LockFacts DEF RingStep, Steps, Grant, Grants
<1>2. Permits(RingStep("allocate", NoId), Grant(R, {}, TRUE), Nothing)
  BY DEF Permits, RingStep, Grant
<1>3. R = {} \cup {TimerRing}
  OBVIOUS
<1>4. s1 \in Seq(Steps) /\ Accepts(Grant(R, {}, TRUE), s1)
  BY <1>1, <1>2, AcceptsStep, AcceptsEnd
<1>5. Permits(RingStep("read", NoId), Grant(R, {}, FALSE), Grant(R, {}, TRUE))
  BY DEF Permits, RingStep, Grant
<1>6. s2 \in Seq(Steps) /\ Accepts(Grant(R, {}, FALSE), s2)
  BY <1>1, <1>4, <1>5, AcceptsStep
<1>7. s3 \in Seq(Steps) /\ Accepts(Grant({}, {}, FALSE), s3)
  BY <1>3, <1>6, AcceptsInside, LockFacts
<1>8. CreateTimer = s3
  BY DEF CreateTimer
<1> QED BY <1>7, <1>8 DEF Nothing

(* DestroyTimer *)
LEMMA AcceptsDestroyTimer ==
    ASSUME NEW t \in Ids
    PROVE  DestroyTimer(t) \in Seq(Steps) /\ Accepts(Nothing, DestroyTimer(t))
<1> DEFINE T == TimerEntry(t)
           s1 == <<Unlock(T)>>
           s2 == FreeTimerId(t) \o s1
           s3 == <<RingStep("check", t)>> \o s2
           s4 == <<Acquire(T)>> \o s3
<1>1. T \in Locks /\ T # TimerRing /\ Rank(T) = 1
  BY LockFacts
<1>2. s1 \in Seq(Steps) /\ Accepts(Grant({T}, {}, FALSE), s1)
  BY <1>1, AcceptsUnlock
<1>3. s2 \in Seq(Steps) /\ Accepts(Grant({T}, {t}, FALSE), s2)
  <2>1. {T} \in SUBSET Locks /\ TimerRing \notin {T} /\ \A m \in {T} : Rank(m) < 3
    BY <1>1
  <2> QED BY <1>2, <2>1, AcceptsFree
<1>4. /\ RingStep("check", t) \in Steps
      /\ Grant({T}, {}, FALSE) \in Grants /\ Grant({T}, {t}, FALSE) \in Grants
  BY <1>1 DEF RingStep, Steps, Grant, Grants
<1>5. Permits(RingStep("check", t), Grant({T}, {}, FALSE), Grant({T}, {t}, FALSE))
  BY DEF Permits, RingStep, Grant
<1>6. s3 \in Seq(Steps) /\ Accepts(Grant({T}, {}, FALSE), s3)
  BY <1>3, <1>4, <1>5, AcceptsStep
<1>7. s4 \in Seq(Steps) /\ Accepts(Grant({}, {}, FALSE), s4)
  <2>1. {T} = {} \cup {T} /\ T \in Locks \ {}
    BY <1>1
  <2> QED BY <1>6, <2>1, AcceptsInside
<1>8. DestroyTimer(t) = s4
  BY DEF DestroyTimer, FreeTimerId
<1> QED BY <1>7, <1>8 DEF Nothing

(* The calls that only lock one entry, or two of them one after the other. *)
LEMMA AcceptsSections ==
    ASSUME NEW l \in Locks, NEW m \in Locks
    PROVE  /\ Section(l) \in Seq(Steps) /\ Accepts(Nothing, Section(l))
           /\ Section(m) \o Section(l) \in Seq(Steps) /\ Accepts(Nothing, Section(m) \o Section(l))
<1>1. << >> \in Seq(Steps) /\ Accepts(Grant({}, {}, FALSE), << >>)
  BY AcceptsEnd
<1>2. Section(l) \o << >> \in Seq(Steps) /\ Accepts(Grant({}, {}, FALSE), Section(l) \o << >>)
  BY <1>1, AcceptsSection
<1>3. Section(l) \o << >> = Section(l)
  BY DEF Section
<1>4. /\ Section(m) \o Section(l) \in Seq(Steps)
      /\ Accepts(Grant({}, {}, FALSE), Section(m) \o Section(l))
  BY <1>2, <1>3, AcceptsSection
<1> QED BY <1>2, <1>3, <1>4 DEF Nothing

(* The calls that lock l and, inside, a lock m of a higher rank. *)
LEMMA AcceptsNested ==
    ASSUME NEW l \in Locks, NEW m \in Locks, Rank(l) < Rank(m)
    PROVE  /\ <<Acquire(l)>> \o Section(m) \o <<Unlock(l)>> \in Seq(Steps)
           /\ Accepts(Nothing, <<Acquire(l)>> \o Section(m) \o <<Unlock(l)>>)
<1> DEFINE s1 == Section(m) \o <<Unlock(l)>>
           s2 == <<Acquire(l)>> \o s1
<1>1. l # m /\ {l} = {} \cup {l} /\ {l} \in SUBSET Locks
  BY LockFacts
<1>2. s1 \in Seq(Steps) /\ Accepts(Grant({l}, {}, FALSE), s1)
  BY <1>1, AcceptsUnlock, AcceptsSection
<1>3. s2 \in Seq(Steps) /\ Accepts(Grant({}, {}, FALSE), s2)
  BY <1>1, <1>2, AcceptsInside
<1>4. <<Acquire(l)>> \o Section(m) \o <<Unlock(l)>> = s2
  BY DEF Section
<1> QED BY <1>3, <1>4 DEF Nothing

(* Every call. *)
LEMMA AcceptsCalls == \A call \in Calls : call \in Seq(Steps) /\ Accepts(Nothing, call)
<1>1. ASSUME NEW t \in Ids PROVE UseTimer(t) \in Seq(Steps) /\ Accepts(Nothing, UseTimer(t))
  BY AcceptsSections, LockFacts DEF UseTimer
<1>2. ASSUME NEW w \in Workers
      PROVE  /\ UseWorker(w) \in Seq(Steps) /\ Accepts(Nothing, UseWorker(w))
             /\ ReserveWorkerContext(w) \in Seq(Steps) /\ Accepts(Nothing, ReserveWorkerContext(w))
  BY AcceptsSections, LockFacts DEF UseWorker, ReserveWorkerContext
<1>3. ASSUME NEW w \in Workers
      PROVE  ReleaseWorkerContext(w) \in Seq(Steps) /\ Accepts(Nothing, ReleaseWorkerContext(w))
  BY AcceptsNested, LockFacts DEF ReleaseWorkerContext
<1>4. ASSUME NEW t \in Ids, NEW w \in Workers
      PROVE  HandleCleanTimeout(t, w) \in Seq(Steps) /\ Accepts(Nothing, HandleCleanTimeout(t, w))
  BY AcceptsNested, LockFacts DEF HandleCleanTimeout, UseWorker
<1>5. ASSUME NEW call \in Calls PROVE call \in Seq(Steps) /\ Accepts(Nothing, call)
  <2>1. \/ call = CreateTimer
        \/ \E t \in Ids : call = UseTimer(t) \/ call = DestroyTimer(t)
        \/ \E w \in Workers : \/ call = UseWorker(w) \/ call = ReserveWorkerContext(w)
                              \/ call = ReleaseWorkerContext(w)
        \/ \E t \in Ids, w \in Workers : call = HandleCleanTimeout(t, w)
    <3>1. CASE call \in UNION {{UseTimer(t), DestroyTimer(t)} : t \in Ids}
      <4>1. PICK S \in {{UseTimer(t), DestroyTimer(t)} : t \in Ids} : call \in S
        BY <3>1
      <4>2. PICK t \in Ids : S = {UseTimer(t), DestroyTimer(t)}
        BY <4>1
      <4> QED BY <4>1, <4>2
    <3>2. CASE call \in UNION {{UseWorker(w), ReserveWorkerContext(w), ReleaseWorkerContext(w)} :
                                 w \in Workers}
      <4>1. PICK S \in {{UseWorker(w), ReserveWorkerContext(w), ReleaseWorkerContext(w)} :
                         w \in Workers} : call \in S
        BY <3>2
      <4>2. PICK w \in Workers : S = {UseWorker(w), ReserveWorkerContext(w), ReleaseWorkerContext(w)}
        BY <4>1
      <4> QED BY <4>1, <4>2
    <3>3. CASE call \in {HandleCleanTimeout(t, w) : t \in Ids, w \in Workers}
      BY <3>3
    <3>4. \/ call = CreateTimer
          \/ call \in UNION {{UseTimer(t), DestroyTimer(t)} : t \in Ids}
          \/ call \in UNION {{UseWorker(w), ReserveWorkerContext(w), ReleaseWorkerContext(w)} :
                             w \in Workers}
          \/ call \in {HandleCleanTimeout(t, w) : t \in Ids, w \in Workers}
      BY <1>5 DEF Calls
    <3> QED BY <3>1, <3>2, <3>3, <3>4
  <2> QED BY <1>1, <1>2, <1>3, <1>4, <2>1, AcceptsCreateTimer, AcceptsDestroyTimer
<1> QED BY <1>5

-----------------------------------------------------------------------------
(***************************************************************************)
(* The invariant                                                           *)
(***************************************************************************)
HeldBy(c) == {l \in Locks : lock[l] = c}

(* The cores have the grants in g: the locks are those they hold, what is   *)
(* left of their calls can be carried out, only the core that has the ring  *)
(* locked may rely on what it read, and an identifier that is neither free  *)
(* nor a timer has one owner.                                               *)
Granted(g) ==
    \A c \in Cores :
        /\ g[c].locks = HeldBy(c)
        /\ Accepts(g[c], todo[c])
        /\ g[c].fresh => TimerRing \in g[c].locks /\ seen[c] = fifo
        /\ g[c].ids \subseteq held \ timers
        /\ \A d \in Cores \ {c} : g[c].ids \cap g[d].ids = {}

LocksType ==
    /\ lock \in [Locks -> Cores \cup {Nobody}]
    /\ todo \in [Cores -> Seq(Steps)]
    /\ seen \in [Cores -> Fifos]
    /\ timers \subseteq held

LocksInv ==
    /\ LocksType
    /\ RingConsistent
    /\ NoAssertFails
    /\ \E g \in [Cores -> Grants] : Granted(g)

(* At the start no core has anything. *)
LEMMA InitLocks == LocksInit => LocksInv
<1> SUFFICES ASSUME LocksInit PROVE LocksInv
  OBVIOUS
<1>1. RingInv(FifoInit, {})
  BY FifoInitRing
<1>2. FifoInit \in Fifos
  BY <1>1 DEF RingInv
<1>3. LocksType /\ RingConsistent /\ NoAssertFails
  BY <1>1, <1>2, AcceptsEnd DEF LocksInit, Init, LocksType, RingConsistent, NoAssertFails
<1> DEFINE g == [c \in Cores |-> Nothing]
<1>4. g \in [Cores -> Grants]
  BY AcceptsEnd
<1>5. ASSUME NEW c \in Cores
      PROVE  /\ g[c].locks = HeldBy(c)
             /\ Accepts(g[c], todo[c])
             /\ ~ g[c].fresh
             /\ g[c].ids = {}
  <2>1. HeldBy(c) = {}
    BY LocksAssumption DEF HeldBy, LocksInit
  <2>2. todo[c] = << >>
    BY DEF LocksInit
  <2>3. Nothing.locks = {} /\ Nothing.ids = {} /\ ~ Nothing.fresh
    BY DEF Nothing, Grant
  <2> QED BY <2>1, <2>2, <2>3, AcceptsEnd
<1> HIDE DEF g
<1>6. Granted(g)
  BY <1>5 DEF Granted
<1> QED BY <1>3, <1>4, <1>6 DEF LocksInv

(* A step of core c after which it has grant h.  It leaves the others what  *)
(* they have; the ring is changed only under its lock.                      *)
Passes(c, g, h) ==
    /\ h.locks = HeldBy(c)'
    /\ \A d \in Cores \ {c} : HeldBy(d)' = HeldBy(d) /\ seen'[d] = seen[d]
    /\ h.fresh => TimerRing \in h.locks /\ seen'[c] = fifo'
    /\ fifo' = fifo \/ TimerRing \in g[c].locks
    /\ h.ids \subseteq held' \ timers'
    /\ \A d \in Cores \ {c} : h.ids \cap g[d].ids = {} /\ g[d].ids \subseteq held' \ timers'

(* The cores still have grants when c goes on with s after such a step. *)
LEMMA GrantedStep ==
    ASSUME NEW c \in Cores, NEW g \in [Cores -> Grants], Granted(g),
           lock \in [Locks -> Cores \cup {Nobody}], todo \in [Cores -> Seq(Steps)],
           NEW h \in Grants, NEW s \in Seq(Steps), Accepts(h, s),
           todo' = [todo EXCEPT ![c] = s], Passes(c, g, h)
    PROVE  \E n \in [Cores -> Grants] : Granted(n)'
<1> DEFINE n == [g EXCEPT ![c] = h]
<1>1. n \in [Cores -> Grants] /\ n[c] = h /\ \A d \in Cores \ {c} : n[d] = g[d]
  OBVIOUS
<1>2. todo'[c] = s /\ \A d \in Cores \ {c} : todo'[d] = todo[d]
  OBVIOUS
<1> HIDE DEF n
<1>3. ASSUME NEW d \in Cores \ {c}, n[d].fresh
      PROVE  TimerRing \in n[d].locks /\ seen'[d] = fifo'
  <2>1. TimerRing \in g[d].locks /\ seen[d] = fifo /\ g[d].locks = HeldBy(d)
    BY <1>1, <1>3 DEF Granted
  <2>2. TimerRing \notin g[c].locks
    BY <2>1 DEF Granted, HeldBy
  <2> QED BY <1>1, <2>1, <2>2 DEF Passes
<1>4. ASSUME NEW d \in Cores
      PROVE  /\ n[d].locks = HeldBy(d)'
             /\ Accepts(n[d], todo'[d])
             /\ n[d].ids \subseteq held' \ timers'
             /\ \A e \in Cores \ {d} : n[d].ids \cap n[e].ids = {}
  <2>1. CASE d = c
    BY <1>1, <1>2, <2>1 DEF Passes
  <2>2. CASE d # c
    <3>1. /\ g[d].locks = HeldBy(d) /\ Accepts(g[d], todo[d])
          /\ \A e \in Cores \ {d} : g[d].ids \cap g[e].ids = {}
      BY DEF Granted
    <3> QED BY <1>1, <1>2, <2>2, <3>1 DEF Passes
  <2> QED BY <2>1, <2>2
<1>5. n[c].fresh => TimerRing \in n[c].locks /\ seen'[c] = fifo'
  BY <1>1 DEF Passes
<1>6. Granted(n)'
  BY <1>3, <1>4, <1>5 DEF Granted
<1> QED BY <1>1, <1>6

(* The first step of the call of a core that is in one. *)
LEMMA NextStep ==
    ASSUME NEW c \in Cores, NEW g \in [Cores -> Grants], Granted(g),
           todo \in [Cores -> Seq(Steps)], NEW op, Doing(c, op)
    PROVE  /\ Head(todo[c]).op = op /\ Head(todo[c]) \in Steps /\ Object(c) = Head(todo[c]).of
           /\ Tail(todo[c]) \in Seq(Steps)
           /\ \E h \in Grants : Permits(Head(todo[c]), g[c], h) /\ Accepts(h, Tail(todo[c]))
<1>1. todo[c] \in Seq(Steps) /\ todo[c] # << >> /\ Accepts(g[c], todo[c])
  BY DEF Doing, Granted
<1> QED BY <1>1, AcceptsTail DEF Doing, Object

(* A lock changes hands: its holder alone is affected. *)
LEMMA LockChanges ==
    ASSUME NEW c \in Cores, NEW l \in Locks, lock \in [Locks -> Cores \cup {Nobody}]
    PROVE  /\ lock[l] = Nobody /\ lock' = [lock EXCEPT ![l] = c] =>
                 /\ lock' \in [Locks -> Cores \cup {Nobody}]
                 /\ HeldBy(c)' = HeldBy(c) \cup {l}
                 /\ \A d \in Cores \ {c} : HeldBy(d)' = HeldBy(d)
           /\ lock[l] = c /\ lock' = [lock EXCEPT ![l] = Nobody] =>
                 /\ lock' \in [Locks -> Cores \cup {Nobody}]
                 /\ HeldBy(c)' = HeldBy(c) \ {l}
                 /\ \A d \in Cores \ {c} : HeldBy(d)' = HeldBy(d)
BY LocksAssumption DEF HeldBy

(* Steps that leave the locks alone. *)
LEMMA LocksStay == UNCHANGED lock => \A d \in Cores : HeldBy(d)' = HeldBy(d)
BY DEF HeldBy

(* Taking a lock. *)
LEMMA AcquireInv ==
    ASSUME LocksInv, NEW c \in Cores, SpinlockAcquire(c)
    PROVE  LocksInv'
<1> USE DEF LocksInv, LocksType
<1>1. PICK g \in [Cores -> Grants] : Granted(g)
  OBVIOUS
<1>2. Doing(c, "acquire")
  BY DEF SpinlockAcquire
<1>3. PICK h \in Grants : Permits(Head(todo[c]), g[c], h) /\ Accepts(h, Tail(todo[c]))
  BY <1>1, <1>2, NextStep
<1>4. /\ Head(todo[c]).op = "acquire" /\ Object(c) = Head(todo[c]).of
      /\ Tail(todo[c]) \in Seq(Steps)
  BY <1>1, <1>2, NextStep
<1>5. Object(c) \in Locks /\ h = Grant(g[c].locks \cup {Object(c)}, g[c].ids, g[c].fresh)
  BY <1>3, <1>4 DEF Permits
<1>6. /\ h.locks = g[c].locks \cup {Object(c)} /\ h.ids = g[c].ids /\ h.fresh = g[c].fresh
  BY <1>5 DEF Grant
<1>7. /\ lock[Object(c)] = Nobody /\ lock' = [lock EXCEPT ![Object(c)] = c]
      /\ todo' = [todo EXCEPT ![c] = Tail(todo[c])]
      /\ UNCHANGED <<fifo, held, failed, seen, timers>>
  BY DEF SpinlockAcquire, Continue, vars
<1>8. /\ lock' \in [Locks -> Cores \cup {Nobody}]
      /\ HeldBy(c)' = HeldBy(c) \cup {Object(c)}
      /\ \A d \in Cores \ {c} : HeldBy(d)' = HeldBy(d)
  BY <1>5, <1>7, LockChanges
<1>9. /\ g[c].locks = HeldBy(c)
      /\ g[c].fresh => TimerRing \in g[c].locks /\ seen[c] = fifo
      /\ \A d \in Cores : g[d].ids \subseteq held \ timers
      /\ \A d \in Cores \ {c} : g[c].ids \cap g[d].ids = {}
  BY <1>1 DEF Granted
<1>10. \E n \in [Cores -> Grants] : Granted(n)'
  <2>1. /\ h.locks = HeldBy(c)' /\ \A d \in Cores \ {c} : HeldBy(d)' = HeldBy(d)
        /\ h.fresh => TimerRing \in h.locks /\ seen'[c] = fifo'
        /\ \A d \in Cores \ {c} : seen'[d] = seen[d]
        /\ fifo' = fifo \/ TimerRing \in g[c].locks
    BY <1>6, <1>7, <1>8, <1>9
  <2>2. /\ h.ids \subseteq held' \ timers'
        /\ \A d \in Cores \ {c} : h.ids \cap g[d].ids = {} /\ g[d].ids \subseteq held' \ timers'
    BY <1>6, <1>7, <1>9
  <2>3. Passes(c, g, h)
    BY <1>1, <1>3, <1>4, <1>7, <2>1, <2>2 DEF Passes
  <2> QED BY <1>1, <1>3, <1>4, <1>7, <2>3, GrantedStep
<1> QED BY <1>4, <1>7, <1>8, <1>10 DEF RingConsistent, NoAssertFails

(* Giving it up: the core was the one that had it. *)
LEMMA UnlockInv ==
    ASSUME LocksInv, NEW c \in Cores, SpinlockRelease(c)
    PROVE  LocksInv'
<1> USE DEF LocksInv, LocksType
<1>1. PICK g \in [Cores -> Grants] : Granted(g)
  OBVIOUS
<1>2. Doing(c, "release")
  BY DEF SpinlockRelease
<1>3. PICK h \in Grants : Permits(Head(todo[c]), g[c], h) /\ Accepts(h, Tail(todo[c]))
  BY <1>1, <1>2, NextStep
<1>4. /\ Head(todo[c]).op = "release" /\ Object(c) = Head(todo[c]).of
      /\ Tail(todo[c]) \in Seq(Steps)
  BY <1>1, <1>2, NextStep
<1>5. /\ Object(c) \in g[c].locks /\ ~ g[c].fresh
      /\ h = Grant(g[c].locks \ {Object(c)}, g[c].ids, g[c].fresh)
  BY <1>3, <1>4 DEF Permits
<1>6. h.locks = g[c].locks \ {Object(c)} /\ h.ids = g[c].ids /\ ~ h.fresh
  BY <1>5 DEF Grant
<1>7. /\ lock' = [lock EXCEPT ![Object(c)] = Nobody]
      /\ todo' = [todo EXCEPT ![c] = Tail(todo[c])]
      /\ UNCHANGED <<fifo, held, failed, seen, timers>>
  BY DEF SpinlockRelease, Continue, vars
<1>8. /\ g[c].locks = HeldBy(c)
      /\ \A d \in Cores : g[d].ids \subseteq held \ timers
      /\ \A d \in Cores \ {c} : g[c].ids \cap g[d].ids = {}
  BY <1>1 DEF Granted
<1>9. Object(c) \in Locks /\ lock[Object(c)] = c
  BY <1>5, <1>8 DEF HeldBy
<1>10. /\ lock' \in [Locks -> Cores \cup {Nobody}]
       /\ HeldBy(c)' = HeldBy(c) \ {Object(c)}
       /\ \A d \in Cores \ {c} : HeldBy(d)' = HeldBy(d)
  BY <1>7, <1>9, LockChanges
<1>11. \E n \in [Cores -> Grants] : Granted(n)'
  <2>1. /\ h.locks = HeldBy(c)' /\ \A d \in Cores \ {c} : HeldBy(d)' = HeldBy(d)
        /\ h.fresh => TimerRing \in h.locks /\ seen'[c] = fifo'
        /\ \A d \in Cores \ {c} : seen'[d] = seen[d]
        /\ fifo' = fifo \/ TimerRing \in g[c].locks
    BY <1>6, <1>7, <1>8, <1>10
  <2>2. /\ h.ids \subseteq held' \ timers'
        /\ \A d \in Cores \ {c} : h.ids \cap g[d].ids = {} /\ g[d].ids \subseteq held' \ timers'
    BY <1>6, <1>7, <1>8
  <2>3. Passes(c, g, h)
    BY <1>1, <1>3, <1>4, <1>7, <2>1, <2>2 DEF Passes
  <2> QED BY <1>1, <1>3, <1>4, <1>7, <2>3, GrantedStep
<1> QED BY <1>4, <1>7, <1>10, <1>11 DEF RingConsistent, NoAssertFails

(* Reading the ring. *)
LEMMA ReadInv ==
    ASSUME LocksInv, NEW c \in Cores, ReadRing(c)
    PROVE  LocksInv'
<1> USE DEF LocksInv, LocksType
<1>1. PICK g \in [Cores -> Grants] : Granted(g)
  OBVIOUS
<1>2. Doing(c, "read")
  BY DEF ReadRing
<1>3. PICK h \in Grants : Permits(Head(todo[c]), g[c], h) /\ Accepts(h, Tail(todo[c]))
  BY <1>1, <1>2, NextStep
<1>4. Head(todo[c]).op = "read" /\ Tail(todo[c]) \in Seq(Steps)
  BY <1>1, <1>2, NextStep
<1>5. TimerRing \in g[c].locks /\ h = Grant(g[c].locks, g[c].ids, TRUE)
  BY <1>3, <1>4 DEF Permits
<1>6. h.locks = g[c].locks /\ h.ids = g[c].ids
  BY <1>5 DEF Grant
<1>7. /\ seen' = [seen EXCEPT ![c] = fifo]
      /\ todo' = [todo EXCEPT ![c] = Tail(todo[c])]
      /\ UNCHANGED <<fifo, held, failed, lock, timers>>
  BY DEF ReadRing, Continue, vars
<1>8. /\ g[c].locks = HeldBy(c)
      /\ \A d \in Cores : g[d].ids \subseteq held \ timers
      /\ \A d \in Cores \ {c} : g[c].ids \cap g[d].ids = {}
  BY <1>1 DEF Granted
<1>9. fifo \in Fifos
  BY DEF RingConsistent, RingInv
<1>10. \A d \in Cores : HeldBy(d)' = HeldBy(d)
  BY <1>7, LocksStay
<1>11. /\ seen' \in [Cores -> Fifos] /\ seen'[c] = fifo'
       /\ \A d \in Cores \ {c} : seen'[d] = seen[d]
  BY <1>7, <1>9
<1>12. \E n \in [Cores -> Grants] : Granted(n)'
  <2>1. /\ h.locks = HeldBy(c)' /\ \A d \in Cores \ {c} : HeldBy(d)' = HeldBy(d)
        /\ h.fresh => TimerRing \in h.locks /\ seen'[c] = fifo'
        /\ \A d \in Cores \ {c} : seen'[d] = seen[d]
        /\ fifo' = fifo \/ TimerRing \in g[c].locks
    BY <1>5, <1>6, <1>7, <1>8, <1>10, <1>11
  <2>2. /\ h.ids \subseteq held' \ timers'
        /\ \A d \in Cores \ {c} : h.ids \cap g[d].ids = {} /\ g[d].ids \subseteq held' \ timers'
    BY <1>6, <1>7, <1>8
  <2>3. Passes(c, g, h)
    BY <1>1, <1>3, <1>4, <1>7, <2>1, <2>2 DEF Passes
  <2> QED BY <1>1, <1>3, <1>4, <1>7, <2>3, GrantedStep
<1> QED BY <1>4, <1>7, <1>11, <1>12 DEF RingConsistent, NoAssertFails

(* A call begins. *)
LEMMA CallInv ==
    ASSUME LocksInv, NEW c \in Cores, NEW call \in Calls, Call(c, call)
    PROVE  LocksInv'
<1> USE DEF LocksInv, LocksType
<1>1. PICK g \in [Cores -> Grants] : Granted(g)
  OBVIOUS
<1>2. /\ todo[c] = << >> /\ todo' = [todo EXCEPT ![c] = call]
      /\ UNCHANGED <<fifo, held, failed, lock, seen, timers>>
  BY DEF Call, vars
<1>3. g[c] = Nothing
  BY <1>1, <1>2, AcceptsEmpty DEF Granted
<1>4. call \in Seq(Steps) /\ Accepts(Nothing, call) /\ Nothing \in Grants
  BY AcceptsCalls, AcceptsEnd
<1>5. Nothing.locks = {} /\ Nothing.ids = {} /\ ~ Nothing.fresh
  BY DEF Nothing, Grant
<1>6. \A d \in Cores : HeldBy(d)' = HeldBy(d)
  BY <1>2, LocksStay
<1>7. g[c].locks = HeldBy(c) /\ \A d \in Cores : g[d].ids \subseteq held \ timers
  BY <1>1 DEF Granted
<1>8. \E n \in [Cores -> Grants] : Granted(n)'
  <2>1. /\ Nothing.locks = HeldBy(c)' /\ \A d \in Cores \ {c} : HeldBy(d)' = HeldBy(d)
        /\ Nothing.fresh => TimerRing \in Nothing.locks /\ seen'[c] = fifo'
        /\ \A d \in Cores \ {c} : seen'[d] = seen[d]
        /\ fifo' = fifo \/ TimerRing \in g[c].locks
    BY <1>2, <1>3, <1>5, <1>6, <1>7
  <2>2. /\ Nothing.ids \subseteq held' \ timers'
        /\ \A d \in Cores \ {c} : Nothing.ids \cap g[d].ids = {} /\ g[d].ids \subseteq held' \ timers'
    BY <1>2, <1>5, <1>7
  <2>3. Passes(c, g, Nothing)
    BY <1>1, <1>2, <1>4, <2>1, <2>2 DEF Passes
  <2> QED BY <1>1, <1>2, <1>4, <2>3, GrantedStep
<1> QED BY <1>2, <1>4, <1>8 DEF RingConsistent, NoAssertFails

(* CreateTimer takes an identifier from the ring it has read, or finds none. *)
LEMMA AllocateInv ==
    ASSUME LocksInv, NEW c \in Cores, AllocateTimerId(c)
    PROVE  LocksInv' /\ (Allocate \/ UNCHANGED vars)
<1> USE DEF LocksInv, LocksType
<1> DEFINE t == AllocatedId(fifo)
<1>1. PICK g \in [Cores -> Grants] : Granted(g)
  OBVIOUS
<1>2. Doing(c, "allocate")
  BY DEF AllocateTimerId
<1>3. PICK h \in Grants : Permits(Head(todo[c]), g[c], h)
  BY <1>1, <1>2, NextStep
<1>4. Head(todo[c]).op = "allocate"
  BY <1>1, <1>2, NextStep
<1>5. g[c] = Grant({TimerRing}, {}, TRUE)
  BY <1>3, <1>4 DEF Permits
<1>6. g[c].locks = {TimerRing} /\ g[c].ids = {} /\ g[c].fresh
  BY <1>5 DEF Grant
<1>7. /\ g[c].locks = HeldBy(c) /\ seen[c] = fifo
      /\ \A d \in Cores : g[d].ids \subseteq held \ timers
  BY <1>1, <1>6 DEF Granted
<1>8. /\ fifo' = AllocateId(fifo)
      /\ held' = held \cup ({t} \ {NoId})
      /\ failed' = failed \cup (IF AllocateAssert(fifo) THEN {} ELSE {"Allocate"})
      /\ \E rest \in CreateTimerRests(t) : todo' = [todo EXCEPT ![c] = rest]
      /\ seen' = [seen EXCEPT ![c] = FifoInit]
      /\ UNCHANGED <<lock, timers>>
  BY <1>7 DEF AllocateTimerId, Forget
<1>9. PICK rest \in CreateTimerRests(t) : todo' = [todo EXCEPT ![c] = rest]
  BY <1>8
<1>10. /\ FifoInit \in Fifos /\ seen' \in [Cores -> Fifos]
       /\ \A d \in Cores \ {c} : seen'[d] = seen[d]
  BY <1>8, FifoInitRing DEF RingInv
<1>11. \A d \in Cores : HeldBy(d)' = HeldBy(d)
  BY <1>8, LocksStay
<1>12. RingInv(fifo, held) /\ fifo.FreeIds \in Nat
  BY IdAssumption DEF RingConsistent, RingInv, Fifos
<1> HIDE DEF t
<1>13. CASE fifo.FreeIds > 0
  <2>1. AllocateAssert(fifo) /\ t \in Ids \ held /\ RingInv(AllocateId(fifo), held \cup {t})
    BY <1>12, <1>13, AllocateRing DEF t
  <2>2. {t} \ {NoId} = {t}
    BY <2>1, IdAssumption
  <2>3. Allocate
    BY <1>8, <1>13, <2>2 DEF Allocate, t
  <2>4. RingConsistent' /\ NoAssertFails'
    BY <1>8, <2>1, <2>2 DEF RingConsistent, NoAssertFails
  <2> DEFINE h2 == Grant({TimerRing}, {t}, FALSE)
  <2>5. h2 \in Grants /\ h2.locks = {TimerRing} /\ h2.ids = {t} /\ ~ h2.fresh
    BY <2>1, LockFacts DEF Grants, Grant
  <2>6. rest \in Seq(Steps) /\ Accepts(h2, rest)
    BY <1>9, <2>1, AcceptsRests
  <2> HIDE DEF h2
  <2>7. /\ h2.locks = HeldBy(c)' /\ \A d \in Cores \ {c} : HeldBy(d)' = HeldBy(d)
        /\ h2.fresh => TimerRing \in h2.locks /\ seen'[c] = fifo'
        /\ TimerRing \in g[c].locks
    BY <1>6, <1>7, <1>11, <2>5
  <2>8. /\ h2.ids \subseteq held' \ timers'
        /\ \A d \in Cores \ {c} : h2.ids \cap g[d].ids = {} /\ g[d].ids \subseteq held' \ timers'
    <3>1. t \notin held /\ t \notin timers
      BY <2>1
    <3>2. h2.ids \subseteq held' \ timers'
      BY <1>8, <2>2, <2>5, <3>1
    <3>3. ASSUME NEW d \in Cores \ {c}
          PROVE  h2.ids \cap g[d].ids = {} /\ g[d].ids \subseteq held' \ timers'
      BY <1>7, <1>8, <2>5, <3>1
    <3> QED BY <3>2, <3>3
  <2>9. \E n \in [Cores -> Grants] : Granted(n)'
    <3>1. Passes(c, g, h2)
      BY <1>1, <1>9, <1>10, <2>5, <2>6, <2>7, <2>8 DEF Passes
    <3> QED BY <1>1, <1>9, <1>10, <2>5, <2>6, <2>7, <2>8, <3>1, GrantedStep
  <2>10. LocksType'
    BY <1>8, <1>9, <1>10, <2>6
  <2> QED BY <2>3, <2>4, <2>9, <2>10
<1>14. CASE ~ (fifo.FreeIds > 0)
  <2>1. AllocateAssert(fifo) /\ t = NoId /\ AllocateId(fifo) = fifo
    BY <1>14 DEF AllocateAssert, AllocatedId, AllocateId, t
  <2>2. {t} \ {NoId} = {}
    BY <2>1
  <2>3. UNCHANGED vars
    BY <1>8, <2>1, <2>2 DEF vars
  <2> DEFINE h2 == Grant({TimerRing}, {}, FALSE)
  <2>4. h2 \in Grants /\ h2.locks = {TimerRing} /\ h2.ids = {} /\ ~ h2.fresh
    BY LockFacts DEF Grants, Grant
  <2>5. rest \in Seq(Steps) /\ Accepts(h2, rest)
    BY <1>9, <2>1, AcceptsRests
  <2> HIDE DEF h2
  <2>6. /\ h2.locks = HeldBy(c)' /\ \A d \in Cores \ {c} : HeldBy(d)' = HeldBy(d)
        /\ h2.fresh => TimerRing \in h2.locks /\ seen'[c] = fifo'
        /\ TimerRing \in g[c].locks
    BY <1>6, <1>7, <1>11, <2>4
  <2>7. /\ h2.ids \subseteq held' \ timers'
        /\ \A d \in Cores \ {c} : h2.ids \cap g[d].ids = {} /\ g[d].ids \subseteq held' \ timers'
    BY <1>7, <1>8, <2>2, <2>4
  <2>8. \E n \in [Cores -> Grants] : Granted(n)'
    <3>1. Passes(c, g, h2)
      BY <1>1, <1>9, <1>10, <2>4, <2>5, <2>6, <2>7 DEF Passes
    <3> QED BY <1>1, <1>9, <1>10, <2>4, <2>5, <2>6, <2>7, <3>1, GrantedStep
  <2>9. LocksType' /\ RingConsistent' /\ NoAssertFails'
    BY <1>8, <1>9, <1>10, <2>3, <2>5 DEF RingConsistent, NoAssertFails, vars
  <2> QED BY <2>3, <2>8, <2>9
<1> QED BY <1>13, <1>14

(* The identifier of a timer goes back to the ring: its owner returns it. *)
LEMMA FreeInv ==
    ASSUME LocksInv, NEW c \in Cores, ReleaseTimerId(c)
    PROVE  LocksInv' /\ \E id \in Ids : Release(id)
<1> USE DEF LocksInv, LocksType
<1> DEFINE t == Object(c)
<1>1. PICK g \in [Cores -> Grants] : Granted(g)
  OBVIOUS
<1>2. Doing(c, "free")
  BY DEF ReleaseTimerId
<1>3. PICK h \in Grants : Permits(Head(todo[c]), g[c], h) /\ Accepts(h, Tail(todo[c]))
  BY <1>1, <1>2, NextStep
<1>4. Head(todo[c]).op = "free" /\ t = Head(todo[c]).of /\ Tail(todo[c]) \in Seq(Steps)
  BY <1>1, <1>2, NextStep
<1>5. g[c].fresh /\ t \in g[c].ids /\ h = Grant(g[c].locks, g[c].ids \ {t}, FALSE)
  BY <1>3, <1>4 DEF Permits
<1>6. h.locks = g[c].locks /\ h.ids = g[c].ids \ {t} /\ ~ h.fresh
  BY <1>5 DEF Grant
<1>7. /\ g[c].locks = HeldBy(c) /\ TimerRing \in g[c].locks /\ seen[c] = fifo
      /\ \A d \in Cores : g[d].ids \subseteq held \ timers
      /\ \A d \in Cores \ {c} : g[c].ids \cap g[d].ids = {}
  BY <1>1, <1>5 DEF Granted
<1>8. /\ fifo' = ReleaseId(fifo, t)
      /\ held' = held \ {t}
      /\ failed' = failed \cup (IF ReleaseAssert(fifo) THEN {} ELSE {"Release"})
      /\ todo' = [todo EXCEPT ![c] = Tail(todo[c])]
      /\ seen' = [seen EXCEPT ![c] = FifoInit]
      /\ UNCHANGED <<lock, timers>>
  BY <1>7 DEF ReleaseTimerId, Forget, Continue
<1> HIDE DEF t
<1>9. t \in held /\ t \notin timers /\ t \in Ids
  BY <1>5, <1>7 DEF RingConsistent, RingInv
<1>10. ReleaseAssert(fifo) /\ RingInv(ReleaseId(fifo, t), held \ {t})
  BY <1>9, ReleaseRing DEF RingConsistent
<1>11. Release(t)
  BY <1>8, <1>9 DEF Release
<1>12. RingConsistent' /\ NoAssertFails'
  BY <1>8, <1>10 DEF RingConsistent, NoAssertFails
<1>13. /\ FifoInit \in Fifos /\ seen' \in [Cores -> Fifos]
       /\ \A d \in Cores \ {c} : seen'[d] = seen[d]
  BY <1>8, FifoInitRing DEF RingInv
<1>14. \A d \in Cores : HeldBy(d)' = HeldBy(d)
  BY <1>8, LocksStay
<1>15. /\ h.locks = HeldBy(c)' /\ \A d \in Cores \ {c} : HeldBy(d)' = HeldBy(d)
       /\ h.fresh => TimerRing \in h.locks /\ seen'[c] = fifo'
       /\ TimerRing \in g[c].locks
  BY <1>6, <1>7, <1>14
<1>16. /\ h.ids \subseteq held' \ timers'
       /\ \A d \in Cores \ {c} : h.ids \cap g[d].ids = {} /\ g[d].ids \subseteq held' \ timers'
  <2>1. \A d \in Cores \ {c} : t \notin g[d].ids
    BY <1>5, <1>7
  <2> QED BY <2>1, <1>6, <1>7, <1>8
<1>17. \E n \in [Cores -> Grants] : Granted(n)'
  <2>1. Passes(c, g, h)
    BY <1>1, <1>3, <1>4, <1>8, <1>13, <1>15, <1>16 DEF Passes
  <2> QED BY <1>1, <1>3, <1>4, <1>8, <1>13, <1>15, <1>16, <2>1, GrantedStep
<1>18. LocksType'
  BY <1>4, <1>8, <1>9, <1>13
<1> QED BY <1>9, <1>11, <1>12, <1>17, <1>18

(* CreateTimer returns: the timer is there for everybody. *)
LEMMA CreatedInv ==
    ASSUME LocksInv, NEW c \in Cores, CreateTimerReturns(c)
    PROVE  LocksInv'
<1> USE DEF LocksInv, LocksType
<1> DEFINE t == Object(c)
<1>1. PICK g \in [Cores -> Grants] : Granted(g)
  OBVIOUS
<1>2. Doing(c, "created")
  BY DEF CreateTimerReturns
<1>3. PICK h \in Grants : Permits(Head(todo[c]), g[c], h) /\ Accepts(h, Tail(todo[c]))
  BY <1>1, <1>2, NextStep
<1>4. Head(todo[c]).op = "created" /\ t = Head(todo[c]).of /\ Tail(todo[c]) \in Seq(Steps)
  BY <1>1, <1>2, NextStep
<1>5. t \in g[c].ids /\ h = Grant(g[c].locks, g[c].ids \ {t}, g[c].fresh)
  BY <1>3, <1>4 DEF Permits
<1>6. h.locks = g[c].locks /\ h.ids = g[c].ids \ {t} /\ h.fresh = g[c].fresh
  BY <1>5 DEF Grant
<1>7. /\ g[c].locks = HeldBy(c)
      /\ g[c].fresh => TimerRing \in g[c].locks /\ seen[c] = fifo
      /\ \A d \in Cores : g[d].ids \subseteq held \ timers
      /\ \A d \in Cores \ {c} : g[c].ids \cap g[d].ids = {}
  BY <1>1 DEF Granted
<1>8. /\ timers' = timers \cup {t}
      /\ todo' = [todo EXCEPT ![c] = Tail(todo[c])]
      /\ UNCHANGED <<fifo, held, failed, lock, seen>>
  BY DEF CreateTimerReturns, Continue, vars
<1> HIDE DEF t
<1>9. \A d \in Cores : HeldBy(d)' = HeldBy(d)
  BY <1>8, LocksStay
<1>10. /\ h.locks = HeldBy(c)' /\ \A d \in Cores \ {c} : HeldBy(d)' = HeldBy(d)
       /\ h.fresh => TimerRing \in h.locks /\ seen'[c] = fifo'
  BY <1>6, <1>7, <1>8, <1>9
<1>11. /\ h.ids \subseteq held' \ timers'
       /\ \A d \in Cores \ {c} : h.ids \cap g[d].ids = {} /\ g[d].ids \subseteq held' \ timers'
  <2>1. \A d \in Cores \ {c} : t \notin g[d].ids
    BY <1>5, <1>7
  <2> QED BY <2>1, <1>6, <1>7, <1>8
<1>12. \E n \in [Cores -> Grants] : Granted(n)'
  <2>1. Passes(c, g, h)
    BY <1>1, <1>3, <1>4, <1>8, <1>10, <1>11 DEF Passes
  <2> QED BY <1>1, <1>3, <1>4, <1>8, <1>10, <1>11, <2>1, GrantedStep
<1>13. LocksType' /\ RingConsistent' /\ NoAssertFails'
  BY <1>4, <1>5, <1>7, <1>8 DEF RingConsistent, NoAssertFails
<1> QED BY <1>12, <1>13

(* A timer to be destroyed becomes the core's own, or is found gone. *)
LEMMA CheckInv ==
    ASSUME LocksInv, NEW c \in Cores, CheckTimer(c)
    PROVE  LocksInv'
<1> USE DEF LocksInv, LocksType
<1> DEFINE t == Object(c)
<1>1. PICK g \in [Cores -> Grants] : Granted(g)
  OBVIOUS
<1>2. Doing(c, "check")
  BY DEF CheckTimer
<1>3. PICK h \in Grants : Permits(Head(todo[c]), g[c], h) /\ Accepts(h, Tail(todo[c]))
  BY <1>1, <1>2, NextStep
<1>4. Head(todo[c]).op = "check" /\ t = Head(todo[c]).of /\ Tail(todo[c]) \in Seq(Steps)
  BY <1>1, <1>2, NextStep
<1>5. /\ t \in Ids /\ g[c] = Grant({TimerEntry(t)}, {}, FALSE)
      /\ h = Grant(g[c].locks, {t}, FALSE)
  BY <1>3, <1>4 DEF Permits
<1>6. /\ h.locks = g[c].locks /\ h.ids = {t} /\ ~ h.fresh
      /\ g[c].locks = {TimerEntry(t)} /\ g[c].ids = {} /\ ~ g[c].fresh
  BY <1>5 DEF Grant
<1>7. /\ g[c].locks = HeldBy(c)
      /\ \A d \in Cores : g[d].ids \subseteq held \ timers
  BY <1>1 DEF Granted
<1>8. /\ IF t \in timers
         THEN timers' = timers \ {t} /\ todo' = [todo EXCEPT ![c] = Tail(todo[c])]
         ELSE timers' = timers /\ todo' = [todo EXCEPT ![c] = <<Unlock(TimerEntry(t))>>]
      /\ UNCHANGED <<fifo, held, failed, lock, seen>>
  BY DEF CheckTimer, Continue, vars
<1> HIDE DEF t
<1>9. \A d \in Cores : HeldBy(d)' = HeldBy(d)
  BY <1>8, LocksStay
<1>10. RingConsistent' /\ NoAssertFails'
  BY <1>8 DEF RingConsistent, NoAssertFails
<1>11. CASE t \in timers
  <2>1. /\ h.locks = HeldBy(c)' /\ \A d \in Cores \ {c} : HeldBy(d)' = HeldBy(d)
        /\ h.fresh => TimerRing \in h.locks /\ seen'[c] = fifo'
    BY <1>6, <1>7, <1>9
  <2>2. /\ h.ids \subseteq held' \ timers'
        /\ \A d \in Cores \ {c} : h.ids \cap g[d].ids = {} /\ g[d].ids \subseteq held' \ timers'
    BY <1>6, <1>7, <1>8, <1>11
  <2>3. todo' = [todo EXCEPT ![c] = Tail(todo[c])]
    BY <1>8, <1>11
  <2>4. \E n \in [Cores -> Grants] : Granted(n)'
    <3>1. Passes(c, g, h)
      BY <1>1, <1>3, <1>4, <1>8, <2>1, <2>2, <2>3 DEF Passes
    <3> QED BY <1>1, <1>3, <1>4, <1>8, <2>1, <2>2, <2>3, <3>1, GrantedStep
  <2>5. LocksType'
    BY <1>4, <1>8, <1>11
  <2> QED BY <1>10, <2>4, <2>5
<1>12. CASE t \notin timers
  <2>1. g[c] \in Grants /\ <<Unlock(TimerEntry(t))>> \in Seq(Steps)
        /\ Accepts(g[c], <<Unlock(TimerEntry(t))>>)
    BY <1>5, AcceptsUnlock, LockFacts
  <2>2. /\ g[c].locks = HeldBy(c)' /\ \A d \in Cores \ {c} : HeldBy(d)' = HeldBy(d)
        /\ g[c].fresh => TimerRing \in g[c].locks /\ seen'[c] = fifo'
    BY <1>6, <1>7, <1>9
  <2>3. /\ g[c].ids \subseteq held' \ timers'
        /\ \A d \in Cores \ {c} : g[c].ids \cap g[d].ids = {} /\ g[d].ids \subseteq held' \ timers'
    BY <1>6, <1>7, <1>8, <1>12
  <2>4. todo' = [todo EXCEPT ![c] = <<Unlock(TimerEntry(t))>>]
    BY <1>8, <1>12
  <2>5. \E n \in [Cores -> Grants] : Granted(n)'
    <3>1. Passes(c, g, g[c])
      BY <1>1, <1>8, <2>1, <2>2, <2>3, <2>4 DEF Passes
    <3> QED BY <1>1, <1>8, <2>1, <2>2, <2>3, <2>4, <3>1, GrantedStep
  <2>6. LocksType'
    BY <1>8, <1>12, <2>1, <2>4
  <2> QED BY <1>10, <2>5, <2>6
<1> QED BY <1>11, <1>12

(* Every step preserves the invariant, and is a step of the ring. *)
LEMMA StepLocks == LocksInv /\ [LocksNext]_lockVars => LocksInv' /\ [Next]_vars
<1> SUFFICES ASSUME LocksInv, [LocksNext]_lockVars PROVE LocksInv' /\ [Next]_vars
  OBVIOUS
<1>1. ASSUME NEW c \in Cores,
             \/ SpinlockAcquire(c) \/ SpinlockRelease(c) \/ ReadRing(c)
             \/ CreateTimerReturns(c) \/ CheckTimer(c)
      PROVE  LocksInv' /\ UNCHANGED vars
  <2>1. LocksInv'
    BY <1>1, AcquireInv, UnlockInv, ReadInv, CreatedInv, CheckInv
  <2>2. UNCHANGED vars
    BY <1>1 DEF SpinlockAcquire, SpinlockRelease, ReadRing, CreateTimerReturns, CheckTimer
  <2> QED BY <2>1, <2>2
<1>2. ASSUME NEW c \in Cores, NEW call \in Calls, Call(c, call) PROVE LocksInv' /\ UNCHANGED vars
  <2>1. UNCHANGED vars
    BY <1>2 DEF Call
  <2> QED BY <1>2, <2>1, CallInv
<1>3. ASSUME NEW c \in Cores, AllocateTimerId(c) PROVE LocksInv' /\ [Next]_vars
  BY <1>3, AllocateInv DEF Next
<1>4. ASSUME NEW c \in Cores, ReleaseTimerId(c) PROVE LocksInv' /\ [Next]_vars
  BY <1>4, FreeInv DEF Next
<1>5. CASE UNCHANGED lockVars
  BY <1>5 DEF lockVars, vars, LocksInv, LocksType, RingConsistent, NoAssertFails, Granted, HeldBy
<1> QED BY <1>1, <1>2, <1>3, <1>4, <1>5 DEF LocksNext

(* The invariant holds for ever. *)
LEMMA LocksInvAlways == LocksSpec => []LocksInv
BY InitLocks, StepLocks, PTL DEF LocksSpec

-----------------------------------------------------------------------------
(* A core that spins wants a lock of a higher rank than any that it holds. *)
LEMMA SpinsUpwards ==
    ASSUME LocksInv, NEW c \in Cores, Spins(c)
    PROVE  /\ Object(c) \in Locks /\ Rank(Object(c)) \in 1 .. 3
           /\ \A l \in Locks : lock[l] = c => Rank(l) < Rank(Object(c))
<1>1. PICK g \in [Cores -> Grants] : Granted(g)
  BY DEF LocksInv
<1>2. Doing(c, "acquire") /\ todo \in [Cores -> Seq(Steps)]
  BY DEF Spins, LocksInv, LocksType
<1>3. PICK h \in Grants : Permits(Head(todo[c]), g[c], h)
  BY <1>1, <1>2, NextStep
<1>4. Head(todo[c]).op = "acquire" /\ Object(c) = Head(todo[c]).of
  BY <1>1, <1>2, NextStep
<1>5. Object(c) \in Locks /\ \A l \in g[c].locks : Rank(l) < Rank(Object(c))
  BY <1>3, <1>4 DEF Permits
<1>6. g[c].locks = HeldBy(c)
  BY <1>1 DEF Granted
<1> QED BY <1>5, <1>6, LockFacts DEF HeldBy

(* The core of a group that spins on a lock of the highest rank is waiting  *)
(* for somebody outside the group; and a core leaves its call empty-handed. *)
LEMMA NoCircularWaitFromInv == LocksInv => NoCircularWait
<1> SUFFICES ASSUME LocksInv PROVE NoCircularWait
  OBVIOUS
<1>1. ASSUME NEW group \in (SUBSET Cores) \ {{}},
             \A c \in group : Spins(c) /\ Holder(c) \in group
      PROVE  FALSE
  <2>1. ASSUME NEW c \in group
        PROVE  \E d \in group : Rank(Object(d)) \in 1 .. 3 /\ Rank(Object(c)) < Rank(Object(d))
    <3>1. Object(c) \in Locks /\ Holder(c) \in group /\ lock[Object(c)] = Holder(c)
      BY <1>1, SpinsUpwards DEF Holder
    <3>2. Spins(Holder(c)) /\ Holder(c) \in Cores
      BY <1>1, <3>1
    <3>3. /\ Rank(Object(Holder(c))) \in 1 .. 3
          /\ Rank(Object(c)) < Rank(Object(Holder(c)))
      BY <3>1, <3>2, SpinsUpwards
    <3> QED BY <3>1, <3>3
  <2>2. \A c \in group : Rank(Object(c)) \in 1 .. 3
    BY <1>1, SpinsUpwards
  <2>3. \A c \in group : Rank(Object(c)) # 3
    BY <2>1, <2>2
  <2>4. \A c \in group : Rank(Object(c)) # 2
    BY <2>1, <2>2, <2>3
  <2>5. \A c \in group : Rank(Object(c)) # 1
    BY <2>1, <2>2, <2>3, <2>4
  <2> QED BY <2>2, <2>3, <2>4, <2>5
<1>2. ASSUME NEW l \in Locks, lock[l] # Nobody PROVE todo[lock[l]] # << >>
  <2>1. PICK g \in [Cores -> Grants] : Granted(g)
    BY DEF LocksInv
  <2>2. lock[l] \in Cores
    BY <1>2 DEF LocksInv, LocksType
  <2>3. l \in g[lock[l]].locks /\ Accepts(g[lock[l]], todo[lock[l]])
    BY <2>1, <2>2 DEF Granted, HeldBy
  <2>4. Nothing.locks = {}
    BY DEF Nothing, Grant
  <2> QED BY <2>3, <2>4, AcceptsEmpty
<1> QED BY <1>1, <1>2 DEF NoCircularWait

(* The spinlocks of the timer entries, the worker entries and the rings     *)
(* never deadlock, for any number of cores, timers and workers, and no call *)
(* returns with one of them locked.                                         *)
THEOREM LocksNeverDeadlock == LocksSpec => []NoCircularWait
BY LocksInvAlways, NoCircularWaitFromInv, PTL

(* Under the locks, the assertions of the ring never fail, although every   *)
(* operation reads the ring in one step and changes it in another.          *)
THEOREM LockedAssertionsHold == LocksSpec => []NoAssertFails
<1>1. LocksInv => NoAssertFails
  BY DEF LocksInv
<1> QED BY <1>1, LocksInvAlways, PTL

(* The calls of all cores implement the ring of module IdAllocator, where   *)
(* an operation is one step: no update is lost, and what is put back was    *)
(* handed out and is put back once.                                         *)
THEOREM LocksImplementIdAllocator == LocksSpec => ImplementsIdAllocator
<1>1. LocksInit => Init
  BY DEF LocksInit
<1>2. LocksSpec => Spec
  BY <1>1, LocksInvAlways, StepLocks, PTL DEF LocksSpec, Spec
<1> QED BY <1>2 DEF ImplementsIdAllocator
=============================================================================
