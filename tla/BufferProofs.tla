---------------------------- MODULE BufferProofs ----------------------------
(***************************************************************************)
(* Proofs about Memory and Network: where the buffers of the pools are.    *)
(*                                                                         *)
(* Memory, for any number of processes, buffers, holders and blocks:       *)
(* ReferencesExact is inductive together with TypeOK, and for init memory  *)
(* main's list of debts names every block in use once, and no child was    *)
(* ever allowed to allocate.                                               *)
(*                                                                         *)
(* Network, for any nodes, cores, sizes of pools and bursts: there is a    *)
(* map from the identity of a message to the one place where the message   *)
(* is; what an application holds, a router has accepted, a device has      *)
(* queued, the network carries to its receiver or a core has polled is at  *)
(* its place, once.  Frames that are copies for others or no messages take *)
(* buffers and have no place.                                              *)
(***************************************************************************)
EXTENDS Memory, Network, FiniteSetTheorems, TLAPS

(***************************************************************************)
(* Memory                                                                  *)
(***************************************************************************)

(* s names the elements of S, each of them once. *)
Lists(s, S) ==
    /\ \A i \in 1..Len(s) : s[i] \in S
    /\ \A x \in S : \E i \in 1..Len(s) : s[i] = x
    /\ \A i, j \in 1..Len(s) : s[i] = s[j] => i = j

InitInv ==
    /\ Lists(debts[Main], shared)
    /\ Main \in alive
    /\ phase = "GlobalInit" => alive = {Main}
    /\ phase # "GlobalInit" => \A p \in alive : p \notin allowed
    /\ phase = "Done" => debts[Main] = << >>
    /\ freedTwice = {}

IInv == TypeOK /\ ReferencesExact /\ InitInv

(* A block pushed onto the list of debts. *)
LEMMA Push ==
    ASSUME NEW B, NEW s \in Seq(B), NEW S, NEW x \in B, Lists(s, S), x \notin S
    PROVE  Lists(<<x>> \o s, S \cup {x})
<1> DEFINE t == <<x>> \o s
<1>1. t \in Seq(B) /\ Len(t) = Len(s) + 1
  OBVIOUS
<1>2. t[1] = x /\ \A i \in 1..Len(s) : t[i + 1] = s[i]
  OBVIOUS
<1>3. \A i \in 1..Len(t) : i = 1 \/ (i - 1 \in 1..Len(s) /\ t[i] = s[i - 1])
  BY <1>1, <1>2
<1> HIDE DEF t
<1>4. \A i \in 1..Len(t) : t[i] \in S \cup {x}
  BY <1>2, <1>3 DEF Lists
<1>5. \A y \in S \cup {x} : \E i \in 1..Len(t) : t[i] = y
  <2>1. 1 \in 1..Len(t) /\ \A i \in 1..Len(s) : i + 1 \in 1..Len(t)
    BY <1>1
  <2> QED BY ZenonT(40), <1>2, <2>1 DEF Lists
<1>6. \A i, j \in 1..Len(t) : t[i] = t[j] => i = j
  <2>1. \A i \in 1..Len(s) : s[i] # x
    BY DEF Lists
  <2> QED BY SMTT(20), <1>2, <1>3, <2>1 DEF Lists
<1>7. Lists(t, S \cup {x})
  BY <1>4, <1>5, <1>6 DEF Lists
<1> QED BY <1>7 DEF t

(* The newest block popped from the list of debts. *)
LEMMA Pop ==
    ASSUME NEW B, NEW s \in Seq(B), NEW S, Lists(s, S), s # << >>
    PROVE  Head(s) \in S /\ Lists(Tail(s), S \ {Head(s)})
<1>1. Tail(s) \in Seq(B) /\ Len(s) \in Nat \ {0} /\ Len(Tail(s)) = Len(s) - 1
  OBVIOUS
<1>2. Head(s) = s[1] /\ \A i \in 1..Len(Tail(s)) : Tail(s)[i] = s[i + 1]
  OBVIOUS
<1>3. \A i \in 1..Len(s) : i = 1 \/ (i - 1 \in 1..Len(Tail(s)) /\ s[i] = Tail(s)[i - 1])
  BY <1>1, <1>2
<1>4. Head(s) \in S
  BY <1>1, <1>2 DEF Lists
<1>5. \A i \in 1..Len(Tail(s)) : Tail(s)[i] \in S \ {Head(s)}
  BY <1>1, <1>2 DEF Lists
<1>6. \A x \in S \ {Head(s)} : \E i \in 1..Len(Tail(s)) : Tail(s)[i] = x
  BY <1>1, <1>2, <1>3 DEF Lists
<1>7. \A i, j \in 1..Len(Tail(s)) : Tail(s)[i] = Tail(s)[j] => i = j
  BY <1>1, <1>2 DEF Lists
<1> QED BY <1>4, <1>5, <1>6, <1>7 DEF Lists

(* Holders are finitely many, so their cardinalities count them. *)
LEMMA Counts ==
    ASSUME NEW S \in SUBSET Holders, NEW h \in Holders
    PROVE  /\ IsFiniteSet(S) /\ Cardinality(S) \in Nat
           /\ Cardinality(S) = 0 <=> S = {}
           /\ h \notin S => Cardinality(S \cup {h}) = Cardinality(S) + 1
           /\ h \in S => Cardinality(S \ {h}) = Cardinality(S) - 1
           /\ Cardinality({h}) = 1
<1>1. IsFiniteSet(S)
  BY MemoryAssumption, FS_Subset
<1>2. Cardinality(S) \in Nat /\ (Cardinality(S) = 0 <=> S = {})
  BY <1>1, FS_CardinalityType, FS_EmptySet
<1>3. h \notin S => Cardinality(S \cup {h}) = Cardinality(S) + 1
  BY <1>1, FS_AddElement
<1>4. h \in S => Cardinality(S \ {h}) = Cardinality(S) - 1
  BY <1>1, FS_RemoveElement
<1>5. Cardinality({h}) = 1
  BY FS_Singleton
<1> QED BY <1>1, <1>2, <1>3, <1>4, <1>5

(* A reference that changes hands. *)
LEMMA Swap ==
    ASSUME NEW S \in SUBSET Holders, NEW g \in S, NEW h \in Holders, h \notin S
    PROVE  Cardinality((S \ {g}) \cup {h}) = Cardinality(S)
<1>1. IsFiniteSet(S) /\ Cardinality(S) \in Nat
  BY Counts
<1>2. IsFiniteSet(S \ {g}) /\ Cardinality(S \ {g}) = Cardinality(S) - 1
  BY <1>1, FS_RemoveElement
<1>3. Cardinality((S \ {g}) \cup {h}) = Cardinality(S \ {g}) + 1
  BY <1>2, FS_AddElement
<1> QED BY <1>1, <1>2, <1>3

(* No buffer is held and no block is owed when main starts. *)
LEMMA InitIInv == Init => IInv
<1> SUFFICES ASSUME Init PROVE IInv
  OBVIOUS
<1>1. TypeOK
  BY DEF Init, TypeOK, Phases, Processes
<1>2. ReferencesExact
  BY MemoryAssumption DEF Init, ReferencesExact, BufferExact
<1>3. InitInv
  BY DEF Init, InitInv, Lists, Processes
<1> QED BY <1>1, <1>2, <1>3 DEF IInv

(* GetRuntimeMemory takes a buffer nobody holds or frees. *)
LEMMA GetKeeps ==
    ASSUME NEW p \in Processes, NEW h \in Holders, NEW b \in Buffers,
           IInv, GetRuntimeMemory(p, h, b)
    PROVE  IInv'
<1> USE DEF GetRuntimeMemory, init
<1>1. TypeOK'
  BY DEF IInv, TypeOK
<1>2. ASSUME NEW d \in Buffers PROVE BufferExact(d)'
  <2>1. Cardinality({h}) = 1 /\ {h} # {}
    BY Counts
  <2>2. CASE d = b
    BY <2>1, <2>2 DEF IInv, TypeOK, ReferencesExact, BufferExact
  <2>3. CASE d # b
    <3>1. /\ holders'[d] = holders[d] /\ references'[d] = references[d]
          /\ d \in pool' <=> d \in pool
          /\ d \in magic' <=> d \in magic
      BY <2>3 DEF IInv, TypeOK
    <3>2. BufferExact(d) /\ freeing' = freeing
      BY DEF IInv, ReferencesExact
    <3> HIDE DEF GetRuntimeMemory
    <3> QED BY <3>1, <3>2 DEF BufferExact
  <2> QED BY <2>2, <2>3
<1>3. InitInv'
  BY DEF IInv, InitInv
<1> QED BY <1>1, <1>2, <1>3 DEF IInv, ReferencesExact

(* RefRuntimeMemory adds one holder and counts it. *)
LEMMA RefKeeps ==
    ASSUME NEW p \in Processes, NEW h \in Holders, NEW b \in Buffers,
           IInv, RefRuntimeMemory(p, h, b)
    PROVE  IInv'
<1> USE DEF RefRuntimeMemory, init
<1>1. TypeOK'
  BY DEF IInv, TypeOK
<1>2. ASSUME NEW d \in Buffers PROVE BufferExact(d)'
  <2>1. CASE d = b
    <3>1. /\ holders[b] \in SUBSET Holders /\ b \notin pool
          /\ references[b] = Cardinality(holders[b])
      BY DEF IInv, TypeOK, ReferencesExact, BufferExact
    <3>2. holders'[b] = holders[b] \cup {h} /\ references'[b] = references[b] + 1
      BY DEF IInv, TypeOK
    <3>3. Cardinality(holders[b] \cup {h}) = Cardinality(holders[b]) + 1
      BY <3>1, Counts
    <3>4. references'[b] = Cardinality(holders'[b])
      BY <3>1, <3>2, <3>3
    <3> QED BY <2>1, <3>1, <3>2, <3>4 DEF IInv, ReferencesExact, BufferExact
  <2>2. CASE d # b
    <3>1. holders'[d] = holders[d] /\ references'[d] = references[d]
      BY <2>2 DEF IInv, TypeOK
    <3>2. BufferExact(d) /\ pool' = pool /\ magic' = magic /\ freeing' = freeing
      BY DEF IInv, ReferencesExact
    <3> HIDE DEF RefRuntimeMemory
    <3> QED BY <3>1, <3>2 DEF BufferExact
  <2> QED BY <2>1, <2>2
<1>3. InitInv'
  BY DEF IInv, InitInv
<1> QED BY <1>1, <1>2, <1>3 DEF IInv, ReferencesExact

(* PutRuntimeMemory removes one holder; the last one becomes the only dropper. *)
LEMMA PutKeeps ==
    ASSUME NEW p \in Processes, NEW h \in Holders, NEW b \in Buffers,
           IInv, PutRuntimeMemory(p, h, b)
    PROVE  IInv'
<1> USE DEF PutRuntimeMemory, RunsApplication, init
<1>1. /\ holders[b] \in SUBSET Holders /\ b \notin pool /\ freeing[p] = None
      /\ references[b] \in Nat /\ references[b] = Cardinality(holders[b])
      /\ \A q \in Processes : freeing[q] # b
  BY DEF IInv, TypeOK, ReferencesExact, BufferExact
<1>2. holders'[b] = holders[b] \ {h} /\ references'[b] = references[b] - 1
  BY DEF IInv, TypeOK
<1>3. /\ Cardinality(holders[b] \ {h}) = Cardinality(holders[b]) - 1
      /\ holders[b] \ {h} \in SUBSET Holders
  BY <1>1, Counts
<1>4. /\ Cardinality(holders[b] \ {h}) \in Nat
      /\ Cardinality(holders[b] \ {h}) = 0 <=> holders[b] \ {h} = {}
  BY <1>3, Counts
<1>5. /\ references'[b] = Cardinality(holders'[b])
      /\ references'[b] \in Nat
      /\ references'[b] = 0 <=> holders'[b] = {}
  BY <1>1, <1>2, <1>3, <1>4
<1>6. TypeOK'
  BY <1>5 DEF IInv, TypeOK
<1>7. ASSUME NEW d \in Buffers PROVE BufferExact(d)'
  <2>1. freeing' = [freeing EXCEPT ![p] = IF holders'[b] = {} THEN b ELSE None]
    BY <1>5
  <2>2. CASE d = b
    BY <1>1, <1>5, <2>1, <2>2, MemoryAssumption
    DEF IInv, TypeOK, ReferencesExact, BufferExact
  <2>3. CASE d # b
    BY <1>1, <2>1, <2>3, MemoryAssumption
    DEF IInv, TypeOK, ReferencesExact, BufferExact
  <2> QED BY <2>2, <2>3
<1>8. InitInv'
  BY DEF IInv, InitInv
<1> QED BY <1>6, <1>7, <1>8 DEF IInv, ReferencesExact

(* em_free gives back a buffer without holders. *)
LEMMA FreeKeeps ==
    ASSUME NEW p \in Processes, IInv, FreeRuntimeMemory(p)
    PROVE  IInv'
<1> USE DEF FreeRuntimeMemory, init
<1>1. freeing[p] \in Buffers /\ freeing[p] \notin pool
  BY DEF IInv, TypeOK, ReferencesExact, BufferExact
<1>2. TypeOK'
  BY <1>1 DEF IInv, TypeOK
<1>3. ASSUME NEW d \in Buffers PROVE BufferExact(d)'
  BY ZenonT(40), <1>1, MemoryAssumption DEF IInv, TypeOK, ReferencesExact, BufferExact
<1>4. InitInv'
  BY <1>1 DEF IInv, InitInv
<1> QED BY <1>2, <1>3, <1>4 DEF IInv, ReferencesExact

(* A reference that changes hands leaves the number of holders alone. *)
LEMMA HandOverKeeps ==
    ASSUME NEW g \in Holders, NEW h \in Holders, NEW b \in Buffers,
           IInv, HandOver(g, h, b)
    PROVE  IInv'
<1> USE DEF HandOver, init
<1>1. TypeOK'
  BY DEF IInv, TypeOK
<1>2. holders[b] \in SUBSET Holders
  BY DEF IInv, TypeOK
<1>3. holders'[b] = (holders[b] \ {g}) \cup {h} /\ holders'[b] # {}
  BY DEF IInv, TypeOK
<1>4. Cardinality(holders'[b]) = Cardinality(holders[b])
  <2>1. Cardinality((holders[b] \ {g}) \cup {h}) = Cardinality(holders[b])
    BY <1>2, Swap
  <2> QED BY <1>3, <2>1
<1>5. ASSUME NEW d \in Buffers PROVE BufferExact(d)'
  <2>1. CASE d = b
    BY <1>3, <1>4, <2>1 DEF IInv, ReferencesExact, BufferExact
  <2>2. CASE d # b
    BY <2>2 DEF IInv, TypeOK, ReferencesExact, BufferExact
  <2> QED BY <2>1, <2>2
<1>6. InitInv'
  BY DEF IInv, InitInv
<1> QED BY <1>1, <1>5, <1>6 DEF IInv, ReferencesExact

(* The operations on init memory do not touch runtime memory. *)
LEMMA InitStepKeeps == IInv /\ InitNext => IInv'
<1> SUFFICES ASSUME IInv, InitNext PROVE IInv'
  OBVIOUS
<1> USE DEF IInv
<1>1. Main \in Processes
  BY DEF Processes
<1>2. ReferencesExact'
  BY ZenonT(40) DEF InitNext, GetInitMemory, DisableInitMemoryAllocation, ForkChild, AllForked,
         MemoryTeardown, ReleaseInitMemory, ReleaseInitMemoryEnds, runtime,
         ReferencesExact, BufferExact
<1>3. ASSUME NEW p \in Processes, NEW x \in Blocks, GetInitMemory(p, x)
      PROVE  TypeOK' /\ InitInv'
  <2>1. p = Main /\ phase = "GlobalInit"
    BY <1>3 DEF GetInitMemory, RunsApplication, InitInv
  <2>2. debts'[Main] = <<x>> \o debts[Main] /\ debts[Main] \in Seq(Blocks)
    BY <1>1, <1>3, <2>1 DEF GetInitMemory, TypeOK
  <2>3. Lists(debts'[Main], shared')
    <3>1. x \notin shared /\ shared' = shared \cup {x} /\ Lists(debts[Main], shared)
      BY <1>3 DEF GetInitMemory, InitInv
    <3>2. Lists(<<x>> \o debts[Main], shared \cup {x})
      BY <2>2, <3>1, Push
    <3> QED BY <2>2, <3>1, <3>2
  <2>4. debts' \in [Processes -> Seq(Blocks)]
    BY <1>3, <2>1, <2>2 DEF GetInitMemory, TypeOK
  <2> QED BY <1>3, <2>1, <2>3, <2>4 DEF GetInitMemory, TypeOK, InitInv, runtime
<1>4. CASE DisableInitMemoryAllocation
  BY <1>1, <1>2, <1>4 DEF DisableInitMemoryAllocation, TypeOK, InitInv, Phases, runtime
<1>5. ASSUME NEW c \in Children, ForkChild(c)
      PROVE  TypeOK' /\ InitInv'
  <2>1. c \in Processes /\ c # Main
    BY MemoryAssumption DEF Processes
  <2>2. debts[Main] \in Seq(Blocks) /\ debts'[Main] = debts[Main]
    BY <1>1, <1>5, <2>1 DEF ForkChild, TypeOK
  <2>3. TypeOK'
    BY <1>1, <1>5, <2>1, <2>2 DEF ForkChild, TypeOK, runtime
  <2>4. \A p \in alive' : p \notin allowed'
    BY <1>1, <1>5, <2>1 DEF ForkChild, TypeOK, InitInv
  <2> QED BY <1>5, <2>2, <2>3, <2>4 DEF ForkChild, InitInv
<1>6. CASE AllForked
  BY <1>2, <1>6 DEF AllForked, TypeOK, InitInv, Phases, runtime
<1>7. CASE MemoryTeardown
  BY <1>2, <1>7 DEF MemoryTeardown, TypeOK, InitInv, Phases, runtime
<1>8. CASE ReleaseInitMemory
  <2>1. debts[Main] \in Seq(Blocks) /\ debts[Main] # << >>
    BY <1>1, <1>8 DEF ReleaseInitMemory, TypeOK
  <2>2. Head(debts[Main]) \in shared /\ Lists(Tail(debts[Main]), shared \ {Head(debts[Main])})
    BY <2>1, Pop DEF InitInv
  <2>3. debts'[Main] = Tail(debts[Main]) /\ Tail(debts[Main]) \in Seq(Blocks)
    BY <1>1, <1>8, <2>1 DEF ReleaseInitMemory, TypeOK
  <2>4. TypeOK'
    BY <1>8, <2>2, <2>3 DEF ReleaseInitMemory, TypeOK, runtime
  <2> QED BY <1>2, <1>8, <2>2, <2>3, <2>4 DEF ReleaseInitMemory, InitInv
<1>9. CASE ReleaseInitMemoryEnds
  BY <1>2, <1>9 DEF ReleaseInitMemoryEnds, TypeOK, InitInv, Phases, runtime
<1> QED BY <1>2, <1>3, <1>4, <1>5, <1>6, <1>7, <1>8, <1>9 DEF InitNext

(* The invariant is inductive: one case per group of operations. *)
LEMMA StepInv == IInv /\ [Next]_vars => IInv'
<1> SUFFICES ASSUME IInv, [Next]_vars PROVE IInv'
  OBVIOUS
<1>1. CASE RuntimeNext
  BY <1>1, GetKeeps, RefKeeps, PutKeeps, FreeKeeps DEF RuntimeNext
<1>2. CASE \E g, h \in Holders, b \in Buffers : HandOver(g, h, b)
  BY <1>2, HandOverKeeps
<1>3. CASE InitNext
  BY <1>3, InitStepKeeps
<1>4. CASE UNCHANGED vars
  BY <1>4 DEF vars, runtime, init, IInv, TypeOK, ReferencesExact, BufferExact, InitInv
<1> QED BY <1>1, <1>2, <1>3, <1>4 DEF Next

(* The invariant holds in every reachable state. *)
LEMMA Invariance == Spec => []IInv
BY InitIInv, StepInv, PTL DEF Spec

(* The reference counters never go below zero, and the state of the        *)
(* memory component keeps its type.                                        *)
THEOREM TypeCorrect == Spec => []TypeOK
<1>1. IInv => TypeOK
  BY DEF IInv
<1> QED BY <1>1, Invariance, PTL

(* References counts the holders of a buffer, and RefRuntimeMemory and     *)
(* PutRuntimeMemory, on any number of processes, give a buffer back once   *)
(* and only after its last holder put it.                                  *)
THEOREM ReferencesCorrect == Spec => []ReferencesExact
<1>1. IInv => ReferencesExact
  BY DEF IInv
<1> QED BY <1>1, Invariance, PTL

(* ReleaseInitMemory frees every block that GetInitMemory handed out, and  *)
(* each of them once.                                                      *)
THEOREM InitMemoryCorrect == Spec => []InitMemoryReleased
<1>1. IInv => InitMemoryReleased
  BY DEF IInv, InitInv, Lists, TypeOK, InitMemoryReleased
<1> QED BY <1>1, Invariance, PTL

(***************************************************************************)
(* Network                                                                 *)
(***************************************************************************)

Relinquishable == [id : Ids, size : PayloadSizes]
Outgoing == {f \in Frames : f.data \in Messages}
Meant(n) == {f \in Frames : f.data.receiver = n}
NoiseFrames == {f \in Frames : f.data = NoMessage}

NetTypes ==
    /\ used \subseteq Ids
    /\ held \in [Nodes -> SUBSET Relinquishable]
    /\ inbox \in [Nodes -> SUBSET Messages]
    /\ freeMsgs \in [Nodes -> Nat]
    /\ freePkts \in [Nodes -> Nat]
    /\ pktout \in [Nodes -> Seq(Outgoing)]
    /\ pktin \in [Nodes -> Seq(Frames)]
    /\ packets \in [Nodes -> [Cores -> Seq(Frames)]]
    /\ \A n \in Nodes, c \in Cores : Len(packets[n][c]) <= MaxRxBurst
    /\ wire \subseteq Nodes \X Frames
    /\ noise \in [Nodes -> SUBSET NoiseFrames]

(* Where the message of each identity is.  The frames F of a sequence that  *)
(* counts have identities that have been used, are at the place v, and are  *)
(* there once.                                                              *)
SeqAt(s, F, U, loc, v) ==
    \A k \in 1 .. Len(s) : s[k] \in F =>
        /\ s[k].data.id \in U
        /\ loc[s[k].data.id] = v
        /\ \A j \in 1 .. Len(s) : s[j] \in F /\ s[j].data.id = s[k].data.id => j = k

HeldAt(loc) ==
    \A n \in Nodes : \A h \in held[n] :
        /\ h.id \in used /\ loc[h.id] = <<"held", n>>
        /\ \A g \in held[n] : g.id = h.id => g = h
InboxAt(loc) ==
    \A n \in Nodes : \A m \in inbox[n] : m.id \in used /\ loc[m.id] = <<"inbox", n>>
OutAt(loc) == \A n \in Nodes : SeqAt(pktout[n], Outgoing, used, loc, <<"out", n>>)
WireAt(loc) ==
    \A n \in Nodes : \A f \in Meant(n) : <<n, f>> \in wire =>
        /\ f.data.id \in used /\ loc[f.data.id] = <<"wire", n>>
        /\ \A g \in Meant(n) : <<n, g>> \in wire /\ g.data.id = f.data.id => g = f
InAt(loc) == \A n \in Nodes : SeqAt(pktin[n], Meant(n), used, loc, <<"in", n>>)
CoreAt(loc) ==
    \A n \in Nodes, c \in Cores : SeqAt(packets[n][c], Meant(n), used, loc, <<"core", n, c>>)

Located(loc) ==
    HeldAt(loc) /\ InboxAt(loc) /\ OutAt(loc) /\ WireAt(loc) /\ InAt(loc) /\ CoreAt(loc)

Finite == \A n \in Nodes : IsFiniteSet(held[n]) /\ IsFiniteSet(inbox[n])
MsgsOK ==
    \A n \in Nodes : freeMsgs[n] + Cardinality(held[n]) + Cardinality(inbox[n]) = MsgBufs
PktsOK ==
    \A n \in Nodes :
        freePkts[n] + Len(pktout[n]) + Len(pktin[n]) + Cardinality(PolledBy(packets[n])) = PktBufs

NetworkInv == NetTypes /\ Finite /\ MsgsOK /\ PktsOK /\ \E loc : Located(loc)
-----------------------------------------------------------------------------
(* Frames that stay where they are, that are added, and that are taken.     *)
LEMMA SeqStays ==
    ASSUME NEW s, NEW F, NEW U, NEW loc, NEW v, SeqAt(s, F, U, loc, v),
           NEW U2, NEW loc2, U \subseteq U2, \A i \in U : loc[i] = v => loc2[i] = v
    PROVE  SeqAt(s, F, U2, loc2, v)
  BY DEF SeqAt

LEMMA SeqAppend ==
    ASSUME NEW T, NEW s \in Seq(T), NEW f \in T, NEW F, NEW U, NEW loc, NEW v,
           SeqAt(s, F, U, loc, v),
           f \in F => /\ f.data.id \in U /\ loc[f.data.id] = v
                      /\ \A k \in 1 .. Len(s) : s[k] \in F => s[k].data.id # f.data.id
    PROVE  SeqAt(Append(s, f), F, U, loc, v)
<1> DEFINE t == Append(s, f)
<1>1. Len(s) \in Nat /\ Len(t) = Len(s) + 1 /\ t[Len(s) + 1] = f
      /\ \A k \in 1 .. Len(s) : t[k] = s[k]
  OBVIOUS
<1>2. \A k \in 1 .. Len(s) + 1 : k \in 1 .. Len(s) \/ k = Len(s) + 1
  BY <1>1
<1> HIDE DEF t
<1>3. ASSUME NEW k \in 1 .. Len(t), t[k] \in F
      PROVE  /\ t[k].data.id \in U /\ loc[t[k].data.id] = v
             /\ \A j \in 1 .. Len(t) : t[j] \in F /\ t[j].data.id = t[k].data.id => j = k
  <2>1. CASE k = Len(s) + 1
    BY <1>1, <1>2, <1>3, <2>1 DEF SeqAt
  <2>2. CASE k \in 1 .. Len(s)
    BY <1>1, <1>2, <1>3, <2>2 DEF SeqAt
  <2> QED BY <1>1, <1>2, <2>1, <2>2
<1>4. SeqAt(t, F, U, loc, v)
  BY <1>3 DEF SeqAt
<1> QED BY <1>4 DEF t

(* A piece of a sequence. *)
LEMMA SeqPiece ==
    ASSUME NEW T, NEW s \in Seq(T), NEW F, NEW U, NEW loc, NEW v, SeqAt(s, F, U, loc, v),
           NEW t \in Seq(T), NEW d \in Nat, \A k \in 1 .. Len(t) : k + d \in 1 .. Len(s) /\ t[k] = s[k + d],
           NEW loc2, NEW v2, \A k \in 1 .. Len(t) : t[k] \in F => loc2[t[k].data.id] = v2
    PROVE  SeqAt(t, F, U, loc2, v2)
<1>1. Len(t) \in Nat /\ Len(s) \in Nat
  OBVIOUS
<1>2. ASSUME NEW k \in 1 .. Len(t), t[k] \in F
      PROVE  /\ t[k].data.id \in U /\ loc2[t[k].data.id] = v2
             /\ \A j \in 1 .. Len(t) : t[j] \in F /\ t[j].data.id = t[k].data.id => j = k
  <2>1. k + d \in 1 .. Len(s) /\ t[k] = s[k + d] /\ s[k + d] \in F
    BY <1>2
  <2>2. /\ t[k].data.id \in U
        /\ \A j \in 1 .. Len(s) : s[j] \in F /\ s[j].data.id = t[k].data.id => j = k + d
    BY <2>1 DEF SeqAt
  <2>3. ASSUME NEW j \in 1 .. Len(t), t[j] \in F, t[j].data.id = t[k].data.id PROVE j = k
    <3>1. j + d \in 1 .. Len(s) /\ s[j + d] = t[j]
      OBVIOUS
    <3>2. j + d = k + d
      BY <2>2, <2>3, <3>1
    <3>3. j \in Int /\ k \in Int
      BY <1>1
    <3> QED BY <3>2, <3>3
  <2> QED BY <1>2, <2>2, <2>3
<1> QED BY <1>2 DEF SeqAt

(* The first frame is taken; the rest have other identities. *)
LEMMA SeqTail ==
    ASSUME NEW T, NEW s \in Seq(T), s # << >>, NEW F, NEW U, NEW loc, NEW v, SeqAt(s, F, U, loc, v),
           NEW loc2, \A i \in U : loc[i] = v /\ (Head(s) \in F => i # Head(s).data.id) => loc2[i] = v
    PROVE  SeqAt(Tail(s), F, U, loc2, v)
<1>1. /\ Tail(s) \in Seq(T) /\ Len(s) \in Nat /\ Len(s) >= 1 /\ Len(Tail(s)) = Len(s) - 1
      /\ Head(s) = s[1] /\ \A k \in 1 .. Len(Tail(s)) : Tail(s)[k] = s[k + 1]
  OBVIOUS
<1>2. PICK t \in Seq(T) : t = Tail(s)
  BY <1>1
<1>3. \A k \in 1 .. Len(t) : k + 1 \in 1 .. Len(s) /\ t[k] = s[k + 1] /\ k + 1 # 1
  BY <1>1, <1>2
<1>4. ASSUME NEW k \in 1 .. Len(t), t[k] \in F PROVE loc2[t[k].data.id] = v
  <2>1. k + 1 \in 1 .. Len(s) /\ t[k] = s[k + 1] /\ k + 1 # 1 /\ 1 \in 1 .. Len(s)
    BY <1>1, <1>3
  <2>2. t[k].data.id \in U /\ loc[t[k].data.id] = v
    BY <1>4, <2>1 DEF SeqAt
  <2>3. Head(s) \in F => t[k].data.id # Head(s).data.id
    BY <1>1, <1>4, <2>1 DEF SeqAt
  <2> QED BY <2>2, <2>3
<1>5. SeqAt(t, F, U, loc2, v)
  <2>1. PICK d \in Nat : d = 1
    OBVIOUS
  <2>2. \A k \in 1 .. Len(t) : k + d \in 1 .. Len(s) /\ t[k] = s[k + d]
    BY <1>3, <2>1
  <2> QED BY <1>4, <2>2, SeqPiece
<1> QED BY <1>2, <1>5

(* The same, if nothing else there moves. *)
LEMMA SeqNone ==
    ASSUME NEW F, NEW U, NEW loc, NEW v
    PROVE  SeqAt(<< >>, F, U, loc, v)
  BY DEF SeqAt

(* What the head is. *)
LEMMA SeqHead ==
    ASSUME NEW T, NEW s \in Seq(T), s # << >>, NEW F, NEW U, NEW loc, NEW v, SeqAt(s, F, U, loc, v),
           Head(s) \in F
    PROVE  Head(s).data.id \in U /\ loc[Head(s).data.id] = v
<1>1. 1 \in 1 .. Len(s) /\ Head(s) = s[1]
  OBVIOUS
<1> QED BY <1>1 DEF SeqAt

(* The messages of a sequence, after a step of it. *)
InSeq(s, m) == \E k \in 1 .. Len(s) : s[k].data = m

LEMMA InAppend ==
    ASSUME NEW T, NEW s \in Seq(T), NEW f \in T, NEW m
    PROVE  InSeq(Append(s, f), m) <=> InSeq(s, m) \/ m = f.data
<1> DEFINE t == Append(s, f)
<1>1. Len(s) \in Nat /\ Len(t) = Len(s) + 1 /\ t[Len(s) + 1] = f
      /\ \A k \in 1 .. Len(s) : t[k] = s[k]
  OBVIOUS
<1>2. \A k : k \in 1 .. Len(s) + 1 <=> k \in 1 .. Len(s) \/ k = Len(s) + 1
  BY <1>1
<1> HIDE DEF t
<1>3. InSeq(t, m) <=> InSeq(s, m) \/ m = f.data
  BY <1>1, <1>2 DEF InSeq
<1> QED BY <1>3 DEF t

LEMMA InTail ==
    ASSUME NEW T, NEW s \in Seq(T), s # << >>, NEW m
    PROVE  InSeq(s, m) <=> InSeq(Tail(s), m) \/ m = Head(s).data
<1>1. /\ Len(s) \in Nat /\ Len(s) >= 1 /\ Len(Tail(s)) = Len(s) - 1
      /\ Head(s) = s[1] /\ \A k \in 1 .. Len(Tail(s)) : Tail(s)[k] = s[k + 1]
  OBVIOUS
<1>2. PICK t : t = Tail(s)
  OBVIOUS
<1>3. /\ \A k \in 1 .. Len(t) : k + 1 \in 1 .. Len(s) /\ t[k] = s[k + 1]
      /\ \A k \in 1 .. Len(s) : k = 1 \/ (k - 1 \in 1 .. Len(t) /\ s[k] = t[k - 1])
      /\ 1 \in 1 .. Len(s)
  <2>1. \A k \in 1 .. Len(s) : k = 1 \/ (k - 1 \in 1 .. Len(t) /\ (k - 1) + 1 = k)
    BY <1>1, <1>2
  <2>2. \A k \in 1 .. Len(s) : k = 1 \/ (k - 1 \in 1 .. Len(t) /\ s[k] = t[k - 1])
    <3>1. \A j \in 1 .. Len(t) : t[j] = s[j + 1]
      BY <1>1, <1>2
    <3>2. ASSUME NEW k \in 1 .. Len(s), k # 1 PROVE k - 1 \in 1 .. Len(t) /\ s[k] = t[k - 1]
      <4>1. k - 1 \in 1 .. Len(t) /\ (k - 1) + 1 = k
        BY <2>1, <3>2
      <4>2. t[k - 1] = s[(k - 1) + 1]
        BY <3>1, <4>1
      <4> QED BY <4>1, <4>2
    <3> QED BY <3>2
  <2>3. \A k \in 1 .. Len(t) : k + 1 \in 1 .. Len(s) /\ t[k] = s[k + 1]
    BY <1>1, <1>2
  <2> QED BY <1>1, <2>2, <2>3
<1>4. InSeq(s, m) <=> InSeq(t, m) \/ m = Head(s).data
  BY <1>1, <1>3 DEF InSeq
<1> QED BY <1>2, <1>4

LEMMA InNone == \A m : ~InSeq(<< >>, m)
  BY DEF InSeq

(* A sequence cut in two. *)
IsCut(T, s, k, a, b) ==
    /\ a \in Seq(T) /\ b \in Seq(T) /\ Len(a) = k /\ Len(b) = Len(s) - k
    /\ \A j \in 1 .. Len(a) : j + 0 \in 1 .. Len(s) /\ a[j] = s[j + 0]
    /\ \A j \in 1 .. Len(b) : j + k \in 1 .. Len(s) /\ b[j] = s[j + k]
    /\ \A m : InSeq(s, m) <=> InSeq(a, m) \/ InSeq(b, m)

LEMMA Cut ==
    \A T : \A s \in Seq(T), k \in Nat :
        k <= Len(s) => IsCut(T, s, k, SubSeq(s, 1, k), SubSeq(s, k + 1, Len(s)))
<1> SUFFICES ASSUME NEW T, NEW s \in Seq(T), NEW k \in Nat, k <= Len(s),
                    NEW a, a = SubSeq(s, 1, k), NEW b, b = SubSeq(s, k + 1, Len(s))
             PROVE  IsCut(T, s, k, a, b)
  OBVIOUS
<1>1. Len(s) \in Nat /\ k \in Nat /\ k <= Len(s)
  OBVIOUS
<1>2. a \in Seq(T) /\ b \in Seq(T) /\ Len(a) = k /\ Len(b) = Len(s) - k
  BY <1>1
<1>3. \A j \in 1 .. k : j + 0 \in 1 .. Len(s) /\ j + 0 = j /\ a[j] = s[j]
  BY <1>1
<1>4. \A j \in 1 .. Len(s) - k : j + k \in 1 .. Len(s) /\ b[j] = s[j + k]
  BY <1>1
<1>5. \A j \in 1 .. Len(s) : j \in 1 .. k \/ (j - k \in 1 .. Len(s) - k /\ (j - k) + k = j)
  BY <1>1
<1>6. ASSUME NEW m PROVE InSeq(s, m) <=> InSeq(a, m) \/ InSeq(b, m)
  <2>1. ASSUME InSeq(s, m) PROVE InSeq(a, m) \/ InSeq(b, m)
    <3>1. PICK j \in 1 .. Len(s) : s[j].data = m
      BY <2>1 DEF InSeq
    <3>2. CASE j \in 1 .. k
      BY <1>2, <1>3, <3>1, <3>2 DEF InSeq
    <3>3. CASE j - k \in 1 .. Len(s) - k /\ (j - k) + k = j
      <4>1. b[j - k] = s[j]
        BY <1>4, <3>3
      <4> QED BY <1>2, <3>1, <3>3, <4>1 DEF InSeq
    <3> QED BY <1>5, <3>2, <3>3
  <2>2. ASSUME InSeq(a, m) \/ InSeq(b, m) PROVE InSeq(s, m)
    <3>1. CASE InSeq(a, m)
      BY <1>2, <1>3, <3>1 DEF InSeq
    <3>2. CASE InSeq(b, m)
      BY <1>2, <1>4, <3>2 DEF InSeq
    <3> QED BY <2>2, <3>1, <3>2
  <2> QED BY <2>1, <2>2
<1> QED BY <1>2, <1>3, <1>4, <1>6 DEF IsCut
-----------------------------------------------------------------------------
(* The packets in the arrays of the cores of a node. *)
Arrays == {a \in [Cores -> Seq(Frames)] : \A c \in Cores : Len(a[c]) <= MaxRxBurst}
OtherPolled(a, c) == {x \in Cores \X (1 .. MaxRxBurst) : x[1] # c /\ x[2] <= Len(a[x[1]])}

LEMMA CellsFinite == IsFiniteSet(Cores \X (1 .. MaxRxBurst))
<1>1. MaxRxBurst \in Int /\ 1 \in Int
  BY NetworkAssumption
<1>2. IsFiniteSet(1 .. MaxRxBurst)
  BY <1>1, FS_Interval
<1>3. IsFiniteSet(Cores)
  BY NetworkAssumption
<1> QED BY <1>2, <1>3, FS_Product

LEMMA PolledFinite ==
    ASSUME NEW a
    PROVE  IsFiniteSet(PolledBy(a)) /\ Cardinality(PolledBy(a)) \in Nat
<1>2. IsFiniteSet(PolledBy(a))
  BY CellsFinite, FS_Subset DEF PolledBy
<1> QED BY <1>2, FS_CardinalityType

LEMMA PolledSplit ==
    ASSUME NEW a \in Arrays, NEW c \in Cores
    PROVE  /\ Cardinality(OtherPolled(a, c)) \in Nat
           /\ Cardinality(PolledBy(a)) = Cardinality(OtherPolled(a, c)) + Len(a[c])
<1> DEFINE n == Len(a[c])
           O == OtherPolled(a, c)
           P == {c} \X (1 .. n)
<1>1. n \in Nat /\ n <= MaxRxBurst /\ MaxRxBurst \in Nat
  BY NetworkAssumption DEF Arrays
<1>2. IsFiniteSet(O) /\ Cardinality(O) \in Nat
  <2>2. IsFiniteSet(O)
    BY CellsFinite, FS_Subset DEF OtherPolled
  <2> QED BY <2>2, FS_CardinalityType
<1>3. IsFiniteSet(P) /\ Cardinality(P) = n
  <2>1. IsFiniteSet({c}) /\ Cardinality({c}) = 1
    BY FS_Singleton
  <2>2. IsFiniteSet(1 .. n) /\ Cardinality(1 .. n) = n
    BY <1>1, FS_Interval
  <2> HIDE DEF n
  <2>3. IsFiniteSet(P) /\ Cardinality(P) = Cardinality({c}) * Cardinality(1 .. n)
    BY <2>1, <2>2, FS_Product
  <2> QED BY <1>1, <2>1, <2>2, <2>3
<1>4. PolledBy(a) = O \cup P
  BY <1>1 DEF PolledBy, OtherPolled
<1>5. O \cap P = {}
  BY DEF OtherPolled
<1> HIDE DEF n, P, O
<1>6. Cardinality(O \cup P) = Cardinality(O) + Cardinality(P) - 0
  BY <1>2, <1>3, <1>5, FS_Union, FS_EmptySet
<1>7. Cardinality(O \cup P) = Cardinality(O) + n
  BY <1>1, <1>2, <1>3, <1>6
<1> QED BY <1>2, <1>4, <1>7 DEF O, n

LEMMA PolledChange ==
    ASSUME NEW a \in Arrays, NEW c \in Cores, NEW q \in Seq(Frames), Len(q) <= MaxRxBurst,
           NEW b, b = [a EXCEPT ![c] = q]
    PROVE  /\ b \in Arrays
           /\ Cardinality(PolledBy(b)) = Cardinality(PolledBy(a)) - Len(a[c]) + Len(q)
<1>1. b \in [Cores -> Seq(Frames)] /\ b[c] = q /\ \A d \in Cores : d # c => b[d] = a[d]
  BY DEF Arrays
<1>2. b \in Arrays
  BY <1>1 DEF Arrays
<1>3. OtherPolled(b, c) = OtherPolled(a, c)
  BY <1>1 DEF OtherPolled
<1>4. Len(a[c]) \in Nat /\ Len(q) \in Nat
  BY DEF Arrays
<1>5. /\ Cardinality(OtherPolled(a, c)) \in Nat
      /\ Cardinality(PolledBy(a)) = Cardinality(OtherPolled(a, c)) + Len(a[c])
  BY PolledSplit
<1>6. Cardinality(PolledBy(b)) = Cardinality(OtherPolled(b, c)) + Len(b[c])
  BY <1>2, PolledSplit
<1>7. PICK o \in Nat : o = Cardinality(OtherPolled(a, c))
  BY <1>5
<1>8. Cardinality(PolledBy(b)) = o + Len(q) /\ Cardinality(PolledBy(a)) = o + Len(a[c])
  BY <1>1, <1>3, <1>5, <1>6, <1>7
<1> QED BY <1>2, <1>4, <1>8

-----------------------------------------------------------------------------
(* The data of frames. *)
LEMMA FrameFacts ==
    /\ NoMessage \notin Messages /\ NoMessage.receiver \notin Nodes
    /\ \A n \in Nodes, f \in Frames : f.data.receiver = n => f.data \in Messages
    /\ \A m \in Messages : m.id \in Ids /\ m.size \in Nat /\ m.receiver \in Receivers
                           /\ m.sender \in Nodes
<1>1. NoMessage.receiver = Alien /\ NoMessage.sender = Alien /\ Alien \notin Nodes
  BY NetworkAssumption DEF NoMessage
<1>2. \A m \in Messages : m.id \in Ids /\ m.size \in Nat /\ m.receiver \in Receivers
                          /\ m.sender \in Nodes
  BY NetworkAssumption DEF Messages
<1>3. NoMessage \notin Messages
  BY <1>1, <1>2
<1>4. \A f \in Frames : f.data \in Messages \/ f.data = NoMessage
  BY DEF Frames
<1> QED BY <1>1, <1>2, <1>3, <1>4

LEMMA PaddedIs ==
    ASSUME NEW f \in Frames
    PROVE  Padded(f) \in Frames /\ Padded(f).data = f.data
<1>1. MinFrame \in Nat /\ f.len \in Nat
  BY DEF MinFrame, Frames
<1> HIDE DEF MinFrame
<1>2. PICK k \in Nat : Padded(f) = [f EXCEPT !.len = k]
  BY <1>1 DEF Padded
<1>3. \A g \in Frames : [g EXCEPT !.len = k] \in Frames /\ [g EXCEPT !.len = k].data = g.data
  BY DEF Frames
<1> QED BY <1>2, <1>3

LEMMA PacketIs ==
    ASSUME NEW n \in Nodes, NEW m \in Messages
    PROVE  CreatePacketFromMessage(n, m) \in Outgoing /\ CreatePacketFromMessage(n, m).data = m
<1>1. PacketSize(m) \in Nat
  BY FrameFacts DEF PacketSize, MESSAGE_HEADER_LEN, LLC_HEADER_LEN, ODPH_ETHHDR_LEN
<1>2. n \in NodeIds /\ m.receiver \in Receivers
  BY FrameFacts, NetworkAssumption
<1> HIDE DEF PacketSize
<1>3. CreatePacketFromMessage(n, m) \in Frames
  BY <1>1, <1>2 DEF CreatePacketFromMessage, Frames
<1>4. CreatePacketFromMessage(n, m).data = m
  BY DEF CreatePacketFromMessage
<1> QED BY <1>3, <1>4 DEF Outgoing

LEMMA SentIs ==
    ASSUME NEW n \in Nodes, NEW h \in Relinquishable, NEW r \in Receivers
    PROVE  /\ Sent(n, h, r) \in Messages /\ Sent(n, h, r).id = h.id
           /\ Sent(n, h, r).receiver = r /\ Sent(n, h, r).sender = n
  BY DEF Sent, Relinquishable, Messages

LEMMA NoiseIs == \A n \in Nodes : OtherTraffic(n) \subseteq NoiseFrames
<1>1. MinFrame \in Nat
  BY DEF MinFrame
<1> HIDE DEF MinFrame, NoMessage
<1> QED BY <1>1, NetworkAssumption DEF OtherTraffic, NoiseFrames, Frames
-----------------------------------------------------------------------------
(* The identities at the places of a kind stay there. *)
Stays(loc, loc2, kind) == \A i \in used : loc[i][1] = kind => loc2[i] = loc[i]

(* Identity i goes to the place v. *)
Placed(loc, i, v) == [j \in Ids |-> IF j = i THEN v ELSE loc[j]]

LEMMA PlacedStays ==
    ASSUME NEW loc, NEW i, NEW v, NEW kind, used \subseteq Ids, i \in used => loc[i][1] # kind
    PROVE  Stays(loc, Placed(loc, i, v), kind)
  BY DEF Stays, Placed

LEMMA HeldStays ==
    ASSUME NEW loc, NEW loc2, HeldAt(loc), used \subseteq used', Stays(loc, loc2, "held"),
           \A n \in Nodes : held'[n] \subseteq held[n]
    PROVE  HeldAt(loc2)'
<1> SUFFICES ASSUME NEW n \in Nodes, NEW h \in held'[n]
             PROVE  /\ h.id \in used' /\ loc2[h.id] = <<"held", n>>
                    /\ \A g \in held'[n] : g.id = h.id => g = h
  BY DEF HeldAt
<1>1. h \in held[n] /\ h.id \in used /\ loc[h.id] = <<"held", n>>
  BY DEF HeldAt
<1>2. loc2[h.id] = <<"held", n>>
  BY <1>1 DEF Stays
<1>3. \A g \in held'[n] : g.id = h.id => g = h
  BY <1>1 DEF HeldAt
<1> QED BY <1>1, <1>2, <1>3

(* One leaves, with its identity. *)
LEMMA HeldLeaves ==
    ASSUME NEW loc, NEW loc2, HeldAt(loc), UNCHANGED used, NEW n \in Nodes, NEW h \in held[n],
           \A j \in used : j # h.id => loc2[j] = loc[j],
           \A d \in Nodes : held'[d] = IF d = n THEN held[n] \ {h} ELSE held[d]
    PROVE  HeldAt(loc2)'
<1> SUFFICES ASSUME NEW d \in Nodes, NEW g \in held'[d]
             PROVE  /\ g.id \in used' /\ loc2[g.id] = <<"held", d>>
                    /\ \A e \in held'[d] : e.id = g.id => e = g
  BY DEF HeldAt
<1>1. g \in held[d] /\ g.id \in used /\ loc[g.id] = <<"held", d>> /\ (d = n => g # h)
  BY DEF HeldAt
<1>2. loc[h.id] = <<"held", n>> /\ \A e \in held[n] : e.id = h.id => e = h
  BY DEF HeldAt
<1>3. g.id # h.id
  BY <1>1, <1>2
<1>4. \A e \in held'[d] : e.id = g.id => e = g
  BY <1>1 DEF HeldAt
<1> QED BY <1>1, <1>3, <1>4

LEMMA InboxStays ==
    ASSUME NEW loc, NEW loc2, InboxAt(loc), used \subseteq used', Stays(loc, loc2, "inbox"),
           \A n \in Nodes : inbox'[n] \subseteq inbox[n]
    PROVE  InboxAt(loc2)'
  BY DEF InboxAt, Stays

LEMMA InboxGains ==
    ASSUME NEW loc, NEW loc2, InboxAt(loc), used \subseteq used', Stays(loc, loc2, "inbox"),
           NEW n \in Nodes, NEW m, m.id \in used, loc2[m.id] = <<"inbox", n>>,
           \A d \in Nodes : inbox'[d] = IF d = n THEN inbox[n] \cup {m} ELSE inbox[d]
    PROVE  InboxAt(loc2)'
<1> SUFFICES ASSUME NEW d \in Nodes, NEW x \in inbox'[d]
             PROVE  x.id \in used' /\ loc2[x.id] = <<"inbox", d>>
  BY DEF InboxAt
<1>1. CASE x \in inbox[d]
  <2>1. x.id \in used /\ loc[x.id] = <<"inbox", d>>
    BY <1>1 DEF InboxAt
  <2> QED BY <2>1 DEF Stays
<1>2. CASE d = n /\ x = m
  BY <1>2
<1> QED BY <1>1, <1>2

LEMMA OutStays ==
    ASSUME NEW loc, NEW loc2, OutAt(loc), used \subseteq used', Stays(loc, loc2, "out"),
           UNCHANGED pktout
    PROVE  OutAt(loc2)'
<1> SUFFICES ASSUME NEW n \in Nodes PROVE SeqAt(pktout[n], Outgoing, used', loc2, <<"out", n>>)
  BY DEF OutAt
<1>1. \A i \in used : loc[i] = <<"out", n>> => loc2[i] = <<"out", n>>
  BY DEF Stays
<1>2. SeqAt(pktout[n], Outgoing, used, loc, <<"out", n>>)
  BY DEF OutAt
<1> QED BY <1>1, <1>2, SeqStays

LEMMA InStays ==
    ASSUME NEW loc, NEW loc2, InAt(loc), used \subseteq used', Stays(loc, loc2, "in"),
           UNCHANGED pktin
    PROVE  InAt(loc2)'
<1> SUFFICES ASSUME NEW n \in Nodes PROVE SeqAt(pktin[n], Meant(n), used', loc2, <<"in", n>>)
  BY DEF InAt
<1>1. \A i \in used : loc[i] = <<"in", n>> => loc2[i] = <<"in", n>>
  BY DEF Stays
<1>2. SeqAt(pktin[n], Meant(n), used, loc, <<"in", n>>)
  BY DEF InAt
<1> QED BY <1>1, <1>2, SeqStays

LEMMA CoreStays ==
    ASSUME NEW loc, NEW loc2, CoreAt(loc), used \subseteq used', Stays(loc, loc2, "core"),
           UNCHANGED packets
    PROVE  CoreAt(loc2)'
<1> SUFFICES ASSUME NEW n \in Nodes, NEW c \in Cores
             PROVE  SeqAt(packets[n][c], Meant(n), used', loc2, <<"core", n, c>>)
  BY DEF CoreAt
<1>1. \A i \in used : loc[i] = <<"core", n, c>> => loc2[i] = <<"core", n, c>>
  BY DEF Stays
<1>2. SeqAt(packets[n][c], Meant(n), used, loc, <<"core", n, c>>)
  BY DEF CoreAt
<1> QED BY <1>1, <1>2, SeqStays

LEMMA WireStays ==
    ASSUME NEW loc, NEW loc2, WireAt(loc), used \subseteq used', Stays(loc, loc2, "wire"),
           \A n \in Nodes : \A f \in Meant(n) : <<n, f>> \in wire' => <<n, f>> \in wire
    PROVE  WireAt(loc2)'
<1> SUFFICES ASSUME NEW n \in Nodes, NEW f \in Meant(n), <<n, f>> \in wire'
             PROVE  /\ f.data.id \in used' /\ loc2[f.data.id] = <<"wire", n>>
                    /\ \A g \in Meant(n) : <<n, g>> \in wire' /\ g.data.id = f.data.id => g = f
  BY DEF WireAt
<1>1. /\ <<n, f>> \in wire /\ f.data.id \in used /\ loc[f.data.id] = <<"wire", n>>
      /\ \A g \in Meant(n) : <<n, g>> \in wire /\ g.data.id = f.data.id => g = f
  BY DEF WireAt
<1>2. loc2[f.data.id] = <<"wire", n>>
  BY <1>1 DEF Stays
<1> QED BY <1>1, <1>2

(* The message of a frame that is lost or that arrives leaves its place. *)
LEMMA WireLeaves ==
    ASSUME NEW loc, NEW loc2, WireAt(loc), UNCHANGED used, NEW n \in Nodes, NEW f \in Meant(n),
           <<n, f>> \in wire, wire' = wire \ {<<n, f>>},
           \A j \in used : j # f.data.id => loc2[j] = loc[j]
    PROVE  WireAt(loc2)'
<1> SUFFICES ASSUME NEW d \in Nodes, NEW g \in Meant(d), <<d, g>> \in wire'
             PROVE  /\ g.data.id \in used' /\ loc2[g.data.id] = <<"wire", d>>
                    /\ \A e \in Meant(d) : <<d, e>> \in wire' /\ e.data.id = g.data.id => e = g
  BY DEF WireAt
<1>1. /\ <<d, g>> \in wire /\ (d = n => g # f)
      /\ g.data.id \in used /\ loc[g.data.id] = <<"wire", d>>
      /\ \A e \in Meant(d) : <<d, e>> \in wire /\ e.data.id = g.data.id => e = g
  BY DEF WireAt
<1>2. loc[f.data.id] = <<"wire", n>>
  BY DEF WireAt
<1>3. g.data.id # f.data.id
  BY <1>1, <1>2
<1> QED BY <1>1, <1>3

(* Only its receiver's frame counts of those the network shows around. *)
LEMMA WireGains ==
    ASSUME NEW loc, NEW loc2, WireAt(loc), used \subseteq used', Stays(loc, loc2, "wire"),
           NEW f \in Frames, f.data.id \in used, loc[f.data.id][1] # "wire",
           \A d \in Nodes : d = f.data.receiver /\ <<d, f>> \in wire'
                               => loc2[f.data.id] = <<"wire", d>>,
           \A d \in Nodes, g \in Frames : <<d, g>> \in wire' => <<d, g>> \in wire \/ g = f
    PROVE  WireAt(loc2)'
<1> SUFFICES ASSUME NEW d \in Nodes, NEW g \in Meant(d), <<d, g>> \in wire'
             PROVE  /\ g.data.id \in used' /\ loc2[g.data.id] = <<"wire", d>>
                    /\ \A e \in Meant(d) : <<d, e>> \in wire' /\ e.data.id = g.data.id => e = g
  BY DEF WireAt
<1>1. \A e \in Meant(d) : e \in Frames /\ e.data.receiver = d
  BY DEF Meant
<1>2. \A e \in Meant(d) : <<d, e>> \in wire =>
         e.data.id \in used /\ loc[e.data.id] = <<"wire", d>> /\ e.data.id # f.data.id
  BY DEF WireAt
<1>3. CASE <<d, g>> \in wire
  <2>1. g.data.id \in used' /\ loc2[g.data.id] = <<"wire", d>>
    BY <1>2, <1>3 DEF Stays
  <2>2. ASSUME NEW e \in Meant(d), <<d, e>> \in wire', e.data.id = g.data.id PROVE e = g
    <3>1. <<d, e>> \in wire
      BY <1>1, <1>2, <1>3, <2>2
    <3> QED BY <1>3, <2>2, <3>1 DEF WireAt
  <2> QED BY <2>1, <2>2
<1>4. CASE g = f
  <2>1. g.data.id \in used' /\ loc2[g.data.id] = <<"wire", d>>
    BY <1>1, <1>4
  <2>2. \A e \in Meant(d) : <<d, e>> \in wire' /\ e.data.id = g.data.id => e = g
    BY <1>1, <1>2, <1>4
  <2> QED BY <2>1, <2>2
<1> QED BY <1>1, <1>3, <1>4
-----------------------------------------------------------------------------
(* The queues of the devices and the arrays of the cores. *)
LEMMA OutGains ==
    ASSUME NetTypes, NEW loc, NEW loc2, OutAt(loc), UNCHANGED used, Stays(loc, loc2, "out"),
           NEW n \in Nodes, NEW f \in Outgoing, f.data.id \in used, loc[f.data.id][1] # "out",
           loc2[f.data.id] = <<"out", n>>,
           \A d \in Nodes : pktout'[d] = IF d = n THEN Append(pktout[n], f) ELSE pktout[d]
    PROVE  OutAt(loc2)'
<1> SUFFICES ASSUME NEW d \in Nodes PROVE SeqAt(pktout'[d], Outgoing, used, loc2, <<"out", d>>)
  BY DEF OutAt
<1>1. SeqAt(pktout[d], Outgoing, used, loc, <<"out", d>>)
  BY DEF OutAt
<1>2. SeqAt(pktout[d], Outgoing, used, loc2, <<"out", d>>)
  <2>1. \A i \in used : loc[i] = <<"out", d>> => loc2[i] = <<"out", d>>
    BY DEF Stays
  <2> QED BY <1>1, <2>1, SeqStays
<1>3. CASE d = n
  <2>1. pktout[n] \in Seq(Outgoing)
    BY DEF NetTypes
  <2>2. \A k \in 1 .. Len(pktout[n]) : pktout[n][k] \in Outgoing => pktout[n][k].data.id # f.data.id
    <3>1. \A k \in 1 .. Len(pktout[n]) : pktout[n][k] \in Outgoing
                                           => loc[pktout[n][k].data.id] = <<"out", n>>
      BY <1>1, <1>3 DEF SeqAt
    <3>2. <<"out", n>>[1] = "out"
      OBVIOUS
    <3> QED BY <3>1, <3>2
  <2>3. SeqAt(Append(pktout[n], f), Outgoing, used, loc2, <<"out", n>>)
    BY <1>2, <1>3, <2>1, <2>2, SeqAppend
  <2> QED BY <1>3, <2>3
<1>4. CASE d # n
  BY <1>2, <1>4
<1> QED BY <1>3, <1>4

LEMMA OutLeaves ==
    ASSUME NetTypes, NEW loc, NEW loc2, OutAt(loc), UNCHANGED used,
           NEW n \in Nodes, pktout[n] # << >>,
           \A j \in used : j # Head(pktout[n]).data.id => loc2[j] = loc[j],
           \A d \in Nodes : pktout'[d] = IF d = n THEN Tail(pktout[n]) ELSE pktout[d]
    PROVE  OutAt(loc2)'
<1> SUFFICES ASSUME NEW d \in Nodes PROVE SeqAt(pktout'[d], Outgoing, used, loc2, <<"out", d>>)
  BY DEF OutAt
<1>1. \A e \in Nodes : SeqAt(pktout[e], Outgoing, used, loc, <<"out", e>>)
  BY DEF OutAt
<1>2. pktout[n] \in Seq(Outgoing) /\ Head(pktout[n]) \in Outgoing
  <2>1. pktout[n] \in Seq(Outgoing)
    BY DEF NetTypes
  <2> QED BY <2>1
<1>3. loc[Head(pktout[n]).data.id] = <<"out", n>>
  <2>1. 1 \in 1 .. Len(pktout[n]) /\ Head(pktout[n]) = pktout[n][1]
    BY <1>2
  <2>2. SeqAt(pktout[n], Outgoing, used, loc, <<"out", n>>)
    BY <1>1
  <2> QED BY <1>2, <2>1, <2>2 DEF SeqAt
<1>4. CASE d = n
  <2>1. \A i \in used : loc[i] = <<"out", n>>
           /\ (Head(pktout[n]) \in Outgoing => i # Head(pktout[n]).data.id) => loc2[i] = <<"out", n>>
    BY <1>2
  <2>2. SeqAt(Tail(pktout[n]), Outgoing, used, loc2, <<"out", n>>)
    BY <1>1, <1>2, <2>1, SeqTail
  <2> QED BY <1>4, <2>2
<1>5. CASE d # n
  <2>1. \A i \in used : loc[i] = <<"out", d>> => loc2[i] = <<"out", d>>
    BY <1>3, <1>5
  <2>2. SeqAt(pktout[d], Outgoing, used, loc2, <<"out", d>>)
    BY <1>1, <2>1, SeqStays
  <2> QED BY <1>5, <2>2
<1> QED BY <1>4, <1>5

LEMMA InGains ==
    ASSUME NetTypes, NEW loc, NEW loc2, InAt(loc), UNCHANGED used, Stays(loc, loc2, "in"),
           NEW n \in Nodes, NEW f \in Frames,
           f \in Meant(n) => /\ f.data.id \in used /\ loc[f.data.id][1] # "in"
                             /\ loc2[f.data.id] = <<"in", n>>,
           \A d \in Nodes : pktin'[d] = IF d = n THEN Append(pktin[n], f) ELSE pktin[d]
    PROVE  InAt(loc2)'
<1> SUFFICES ASSUME NEW d \in Nodes PROVE SeqAt(pktin'[d], Meant(d), used, loc2, <<"in", d>>)
  BY DEF InAt
<1>1. SeqAt(pktin[d], Meant(d), used, loc, <<"in", d>>)
  BY DEF InAt
<1>2. SeqAt(pktin[d], Meant(d), used, loc2, <<"in", d>>)
  <2>1. \A i \in used : loc[i] = <<"in", d>> => loc2[i] = <<"in", d>>
    BY DEF Stays
  <2> QED BY <1>1, <2>1, SeqStays
<1>3. CASE d = n
  <2>1. pktin[n] \in Seq(Frames)
    BY DEF NetTypes
  <2>2. f \in Meant(n) =>
          \A k \in 1 .. Len(pktin[n]) : pktin[n][k] \in Meant(n) => pktin[n][k].data.id # f.data.id
    <3>1. \A k \in 1 .. Len(pktin[n]) : pktin[n][k] \in Meant(n)
                                          => loc[pktin[n][k].data.id] = <<"in", n>>
      BY <1>1, <1>3 DEF SeqAt
    <3>2. <<"in", n>>[1] = "in"
      OBVIOUS
    <3> QED BY <3>1, <3>2
  <2>3. SeqAt(Append(pktin[n], f), Meant(n), used, loc2, <<"in", n>>)
    BY <1>2, <1>3, <2>1, <2>2, SeqAppend
  <2> QED BY <1>3, <2>3
<1>4. CASE d # n
  BY <1>2, <1>4
<1> QED BY <1>3, <1>4

(* The core is done with its first packet. *)
LEMMA CoreLeaves ==
    ASSUME NetTypes, NEW loc, NEW loc2, CoreAt(loc), UNCHANGED used,
           NEW n \in Nodes, NEW c \in Cores, packets[n][c] # << >>,
           \A j \in used :
              (Head(packets[n][c]) \in Meant(n) => j # Head(packets[n][c]).data.id) => loc2[j] = loc[j],
           \A d \in Nodes, e \in Cores :
              packets'[d][e] = IF d = n /\ e = c THEN Tail(packets[n][c]) ELSE packets[d][e]
    PROVE  CoreAt(loc2)'
<1> SUFFICES ASSUME NEW d \in Nodes, NEW e \in Cores
             PROVE  SeqAt(packets'[d][e], Meant(d), used, loc2, <<"core", d, e>>)
  BY DEF CoreAt
<1>1. \A m \in Nodes, b \in Cores : SeqAt(packets[m][b], Meant(m), used, loc, <<"core", m, b>>)
  BY DEF CoreAt
<1>2. packets[n][c] \in Seq(Frames)
  BY DEF NetTypes
<1>3. Head(packets[n][c]) \in Meant(n) => loc[Head(packets[n][c]).data.id] = <<"core", n, c>>
  <2>1. 1 \in 1 .. Len(packets[n][c]) /\ Head(packets[n][c]) = packets[n][c][1]
    BY <1>2
  <2>2. SeqAt(packets[n][c], Meant(n), used, loc, <<"core", n, c>>)
    BY <1>1
  <2> QED BY <2>1, <2>2 DEF SeqAt
<1>4. CASE d = n /\ e = c
  <2>1. \A i \in used : loc[i] = <<"core", n, c>>
           /\ (Head(packets[n][c]) \in Meant(n) => i # Head(packets[n][c]).data.id)
              => loc2[i] = <<"core", n, c>>
    OBVIOUS
  <2>2. SeqAt(Tail(packets[n][c]), Meant(n), used, loc2, <<"core", n, c>>)
    BY <1>1, <1>2, <2>1, SeqTail
  <2> QED BY <1>4, <2>2
<1>5. CASE ~(d = n /\ e = c)
  <2>1. \A i \in used : loc[i] = <<"core", d, e>> => loc2[i] = <<"core", d, e>>
    BY <1>3, <1>5
  <2>2. SeqAt(packets[d][e], Meant(d), used, loc2, <<"core", d, e>>)
    BY <1>1, <2>1, SeqStays
  <2> QED BY <1>5, <2>2
<1> QED BY <1>4, <1>5
-----------------------------------------------------------------------------
(* The messages under way, by place. *)
OutHas(m) == \E n \in Nodes : InSeq(pktout[n], m)
WireHas(m) == \E n \in Nodes : m.receiver = n /\ \E f \in Frames : <<n, f>> \in wire /\ f.data = m
InHas(m) == \E n \in Nodes : m.receiver = n /\ InSeq(pktin[n], m)
CoreHas(m) == \E n \in Nodes, c \in Cores : m.receiver = n /\ InSeq(packets[n][c], m)

UnderWay(m) == OutHas(m) \/ WireHas(m) \/ InHas(m) \/ CoreHas(m)

LEMMA RangeIs == \A s, m : InSeq(s, m) <=> \E f \in Range(s) : f.data = m
  BY DEF InSeq, Range

LEMMA TransitIs == NetTypes => \A m : m \in InTransit <=> UnderWay(m)
<1> SUFFICES ASSUME NetTypes, NEW m PROVE m \in InTransit <=> UnderWay(m)
  OBVIOUS
<1>1. m \in InTransit <=> \E n \in Nodes : \/ InSeq(pktout[n], m)
                                          \/ \E f \in FramesAt(n) : f.data.receiver = n /\ f.data = m
  BY RangeIs DEF InTransit
<1>2. ASSUME NEW n \in Nodes
      PROVE  (\E f \in FramesAt(n) : f.data.receiver = n /\ f.data = m)
                <=> /\ m.receiver = n
                    /\ \/ InSeq(pktin[n], m)
                       \/ \E c \in Cores : InSeq(packets[n][c], m)
                       \/ \E f \in Frames : <<n, f>> \in wire /\ f.data = m
  <2>1. wire \subseteq Nodes \X Frames
    BY DEF NetTypes
  <2> DEFINE W == {f \in {x[2] : x \in wire} : <<n, f>> \in wire}
             P == UNION {Range(packets[n][c]) : c \in Cores}
  <2>2. \A f : f \in W <=> f \in Frames /\ <<n, f>> \in wire
    BY <2>1
  <2>3. \A f : f \in P <=> \E c \in Cores : f \in Range(packets[n][c])
    OBVIOUS
  <2>4. FramesAt(n) = Range(pktin[n]) \cup P \cup W
    BY DEF FramesAt
  <2> HIDE DEF W, P
  <2>5. (\E f \in FramesAt(n) : f.data.receiver = n /\ f.data = m)
           <=> /\ m.receiver = n
               /\ \/ \E f \in Range(pktin[n]) : f.data = m
                  \/ \E f \in P : f.data = m
                  \/ \E f \in W : f.data = m
    BY <2>4
  <2>6. (\E f \in P : f.data = m) <=> \E c \in Cores : InSeq(packets[n][c], m)
    BY <2>3, RangeIs
  <2>7. (\E f \in W : f.data = m) <=> \E f \in Frames : <<n, f>> \in wire /\ f.data = m
    BY <2>2
  <2>8. (\E f \in Range(pktin[n]) : f.data = m) <=> InSeq(pktin[n], m)
    BY RangeIs
  <2> QED BY <2>5, <2>6, <2>7, <2>8
<1>3. UnderWay(m) <=> \E n \in Nodes :
                           \/ InSeq(pktout[n], m)
                           \/ /\ m.receiver = n
                              /\ \/ InSeq(pktin[n], m)
                                 \/ \E c \in Cores : InSeq(packets[n][c], m)
                                 \/ \E f \in Frames : <<n, f>> \in wire /\ f.data = m
  BY DEF UnderWay, OutHas, WireHas, InHas, CoreHas
<1> QED BY <1>1, <1>2, <1>3

(* Where a message that is under way is. *)
LEMMA UnderWayIs ==
    NetTypes => \A loc, m : Located(loc) /\ UnderWay(m) =>
        /\ m \in Messages /\ m.id \in used
        /\ \/ OutHas(m) /\ loc[m.id][1] = "out"
           \/ WireHas(m) /\ loc[m.id][1] = "wire"
           \/ InHas(m) /\ loc[m.id][1] = "in"
           \/ CoreHas(m) /\ loc[m.id][1] = "core"
<1> SUFFICES ASSUME NetTypes, NEW loc, NEW m, Located(loc), UnderWay(m)
             PROVE  /\ m \in Messages /\ m.id \in used
                    /\ \/ OutHas(m) /\ loc[m.id][1] = "out"
                       \/ WireHas(m) /\ loc[m.id][1] = "wire"
                       \/ InHas(m) /\ loc[m.id][1] = "in"
                       \/ CoreHas(m) /\ loc[m.id][1] = "core"
  OBVIOUS
<1>1. CASE OutHas(m)
  <2>1. PICK n \in Nodes : \E k \in 1 .. Len(pktout[n]) : pktout[n][k].data = m
    BY <1>1 DEF OutHas, InSeq
  <2>2. PICK k \in 1 .. Len(pktout[n]) : pktout[n][k].data = m
    BY <2>1
  <2>3. pktout[n][k] \in Outgoing
    <3>1. pktout[n] \in Seq(Outgoing)
      BY DEF NetTypes
    <3> QED BY <2>2, <3>1
  <2>4. m \in Messages /\ m.id \in used /\ loc[m.id] = <<"out", n>>
    BY <2>2, <2>3 DEF Located, OutAt, SeqAt, Outgoing
  <2> QED BY <1>1, <2>4
<1>2. CASE WireHas(m)
  <2>1. PICK n \in Nodes, f \in Frames : m.receiver = n /\ <<n, f>> \in wire /\ f.data = m
    BY <1>2 DEF WireHas
  <2>2. f \in Meant(n) /\ m \in Messages
    BY <2>1, FrameFacts DEF Meant
  <2>3. m.id \in used /\ loc[m.id] = <<"wire", n>>
    BY <2>1, <2>2 DEF Located, WireAt
  <2> QED BY <1>2, <2>2, <2>3
<1>3. CASE InHas(m)
  <2>1. PICK n \in Nodes : m.receiver = n /\ \E k \in 1 .. Len(pktin[n]) : pktin[n][k].data = m
    BY <1>3 DEF InHas, InSeq
  <2>2. PICK k \in 1 .. Len(pktin[n]) : pktin[n][k].data = m
    BY <2>1
  <2>3. pktin[n][k] \in Frames
    <3>1. pktin[n] \in Seq(Frames)
      BY DEF NetTypes
    <3> QED BY <2>2, <3>1
  <2>4. pktin[n][k] \in Meant(n) /\ m \in Messages
    BY <2>1, <2>2, <2>3, FrameFacts DEF Meant
  <2>5. m.id \in used /\ loc[m.id] = <<"in", n>>
    BY <2>2, <2>4 DEF Located, InAt, SeqAt
  <2> QED BY <1>3, <2>4, <2>5
<1>4. CASE CoreHas(m)
  <2>1. PICK n \in Nodes, c \in Cores :
           m.receiver = n /\ \E k \in 1 .. Len(packets[n][c]) : packets[n][c][k].data = m
    BY <1>4 DEF CoreHas, InSeq
  <2>2. PICK k \in 1 .. Len(packets[n][c]) : packets[n][c][k].data = m
    BY <2>1
  <2>3. packets[n][c][k] \in Frames
    <3>1. packets[n][c] \in Seq(Frames)
      BY DEF NetTypes
    <3> QED BY <2>2, <3>1
  <2>4. packets[n][c][k] \in Meant(n) /\ m \in Messages
    BY <2>1, <2>2, <2>3, FrameFacts DEF Meant
  <2>5. m.id \in used /\ loc[m.id] = <<"core", n, c>>
    BY <2>2, <2>4 DEF Located, CoreAt, SeqAt
  <2> QED BY <1>4, <2>4, <2>5
<1> QED BY <1>1, <1>2, <1>3, <1>4 DEF UnderWay

(* A message whose identity is elsewhere is not under way. *)
NoneElsewhere ==
    \A loc, m :
        Located(loc) /\ (m.id \in used => loc[m.id][1] \in {"held", "inbox", "gone"})
            => ~UnderWay(m)

LEMMA NotUnderWay == NetTypes => NoneElsewhere
<1> SUFFICES ASSUME NetTypes, NEW loc, NEW m, Located(loc), UnderWay(m),
                    m.id \in used => loc[m.id][1] \in {"held", "inbox", "gone"}
             PROVE  FALSE
  BY DEF NoneElsewhere
<1>1. m.id \in used /\ loc[m.id][1] \in {"out", "wire", "in", "core"}
  BY UnderWayIs
<1> QED BY <1>1
-----------------------------------------------------------------------------
(* What an action does to the messages under way. *)
SameUnderWay == \A m : UnderWay(m)' <=> UnderWay(m)
JoinsUnderWay(m) == \A x : UnderWay(x)' <=> UnderWay(x) \/ x = m
LeavesUnderWay(m) == UnderWay(m) /\ \A x : UnderWay(x)' <=> UnderWay(x) /\ x # m

LEMMA TransitNext ==
    ASSUME NetTypes, NetTypes'
    PROVE  /\ SameUnderWay => InTransit' = InTransit
           /\ \A m : JoinsUnderWay(m) => InTransit' = InTransit \cup {m}
           /\ \A m : LeavesUnderWay(m) => m \in InTransit /\ InTransit' = InTransit \ {m}
<1>1. \A m : m \in InTransit <=> UnderWay(m)
  BY TransitIs
<1>2. (NetTypes => \A m : m \in InTransit <=> UnderWay(m))'
  BY TransitIs, PTL
<1>3. \A m : m \in InTransit' <=> UnderWay(m)'
  BY <1>2
<1>4. ASSUME SameUnderWay PROVE InTransit' = InTransit
  BY <1>1, <1>3, <1>4 DEF SameUnderWay
<1>5. ASSUME NEW m, JoinsUnderWay(m) PROVE InTransit' = InTransit \cup {m}
  BY <1>1, <1>3, <1>5 DEF JoinsUnderWay
<1>6. ASSUME NEW m, LeavesUnderWay(m) PROVE m \in InTransit /\ InTransit' = InTransit \ {m}
  BY <1>1, <1>3, <1>6 DEF LeavesUnderWay
<1> QED BY <1>4, <1>5, <1>6

LEMMA NotUnderWayNext ==
    ASSUME NetTypes', NEW loc, Located(loc)', NEW m,
           m.id \in used' => loc[m.id][1] \in {"held", "inbox", "gone"}
    PROVE  ~UnderWay(m)'
<1>1. (NetTypes => NoneElsewhere)'
  BY NotUnderWay, PTL
<1>2. NoneElsewhere'
  BY <1>1
<1> QED BY <1>2 DEF NoneElsewhere

LEMMA UnderWayKept ==
    /\ UNCHANGED pktout => \A m : OutHas(m)' <=> OutHas(m)
    /\ UNCHANGED wire => \A m : WireHas(m)' <=> WireHas(m)
    /\ UNCHANGED pktin => \A m : InHas(m)' <=> InHas(m)
    /\ UNCHANGED packets => \A m : CoreHas(m)' <=> CoreHas(m)
<1>1. UNCHANGED pktout => \A m : OutHas(m)' <=> OutHas(m)
  BY DEF OutHas, InSeq
<1>2. UNCHANGED wire => \A m : WireHas(m)' <=> WireHas(m)
  BY DEF WireHas
<1>3. UNCHANGED pktin => \A m : InHas(m)' <=> InHas(m)
  BY DEF InHas, InSeq
<1>4. UNCHANGED packets => \A m : CoreHas(m)' <=> CoreHas(m)
  BY DEF CoreHas, InSeq
<1> QED BY <1>1, <1>2, <1>3, <1>4

LEMMA UnderWaySame ==
    ASSUME UNCHANGED <<pktout, wire, pktin, packets>>
    PROVE  SameUnderWay
<1>1. \A m : (OutHas(m)' <=> OutHas(m)) /\ (WireHas(m)' <=> WireHas(m))
             /\ (InHas(m)' <=> InHas(m)) /\ (CoreHas(m)' <=> CoreHas(m))
  BY UnderWayKept
<1> QED BY <1>1 DEF SameUnderWay, UnderWay
-----------------------------------------------------------------------------
(* Counting *)
LEMMA AddOne ==
    ASSUME NEW S, IsFiniteSet(S), NEW x, x \notin S
    PROVE  IsFiniteSet(S \cup {x}) /\ Cardinality(S \cup {x}) = Cardinality(S) + 1
           /\ Cardinality(S) \in Nat
  BY FS_AddElement, FS_CardinalityType

LEMMA DropOne ==
    ASSUME NEW S, IsFiniteSet(S), NEW x \in S
    PROVE  IsFiniteSet(S \ {x}) /\ Cardinality(S \ {x}) = Cardinality(S) - 1
           /\ Cardinality(S) \in Nat
  BY FS_RemoveElement, FS_CardinalityType

LEMMA MsgsKept ==
    ASSUME Finite, MsgsOK, NEW n \in Nodes,
           \A d \in Nodes : d # n => /\ held'[d] = held[d] /\ inbox'[d] = inbox[d]
                                     /\ freeMsgs'[d] = freeMsgs[d],
           IsFiniteSet(held'[n]), IsFiniteSet(inbox'[n]),
           freeMsgs'[n] + Cardinality(held'[n]) + Cardinality(inbox'[n])
              = freeMsgs[n] + Cardinality(held[n]) + Cardinality(inbox[n])
    PROVE  Finite' /\ MsgsOK'
<1>1. Finite'
  BY DEF Finite
<1>2. MsgsOK'
  BY DEF MsgsOK
<1> QED BY <1>1, <1>2

LEMMA PktsKept ==
    ASSUME PktsOK, NEW n \in Nodes,
           \A d \in Nodes : d # n => /\ freePkts'[d] = freePkts[d] /\ pktout'[d] = pktout[d]
                                     /\ pktin'[d] = pktin[d] /\ packets'[d] = packets[d],
           freePkts'[n] + Len(pktout'[n]) + Len(pktin'[n]) + Cardinality(PolledBy(packets'[n]))
              = freePkts[n] + Len(pktout[n]) + Len(pktin[n]) + Cardinality(PolledBy(packets[n]))
    PROVE  PktsOK'
<1> SUFFICES ASSUME NEW d \in Nodes
             PROVE  freePkts'[d] + Len(pktout'[d]) + Len(pktin'[d])
                       + Cardinality(PolledBy(packets'[d])) = PktBufs
  BY DEF PktsOK
<1>1. freePkts[d] + Len(pktout[d]) + Len(pktin[d]) + Cardinality(PolledBy(packets[d])) = PktBufs
  BY DEF PktsOK
<1>2. CASE d = n
  BY <1>1, <1>2
<1>3. CASE d # n
  BY <1>1, <1>3
<1> QED BY <1>2, <1>3

(* The numbers that PktsOK adds up. *)
LEMMA PktNumbers ==
    ASSUME NetTypes, NEW n \in Nodes
    PROVE  /\ freePkts[n] \in Nat /\ Len(pktout[n]) \in Nat /\ Len(pktin[n]) \in Nat
           /\ Cardinality(PolledBy(packets[n])) \in Nat
           /\ packets[n] \in Arrays
<1>1. freePkts[n] \in Nat /\ pktout[n] \in Seq(Outgoing) /\ pktin[n] \in Seq(Frames)
  BY DEF NetTypes
<1>2. packets[n] \in Arrays
  BY DEF NetTypes, Arrays
<1>3. Cardinality(PolledBy(packets[n])) \in Nat
  BY PolledFinite
<1> QED BY <1>1, <1>2, <1>3

LEMMA MsgNumbers ==
    ASSUME NetTypes, Finite, NEW n \in Nodes
    PROVE  /\ freeMsgs[n] \in Nat
           /\ Cardinality(held[n]) \in Nat /\ Cardinality(inbox[n]) \in Nat
           /\ IsFiniteSet(held[n]) /\ IsFiniteSet(inbox[n])
  BY FS_CardinalityType DEF NetTypes, Finite
-----------------------------------------------------------------------------
(* Applications' messages *)
Owned == {h.id : h \in UNION {held[n] : n \in Nodes}}

LEMMA OwnedIs == \A i : i \in Owned <=> \E n \in Nodes : \E h \in held[n] : h.id = i
  BY DEF Owned

LEMMA OwnedNext == \A i : i \in Owned' <=> \E n \in Nodes : \E h \in held'[n] : h.id = i
  BY DEF Owned

LEMMA RelinquishIs ==
    ASSUME NetTypes, NEW n \in Nodes, NEW h \in held[n], Relinquish(n, h)
    PROVE  /\ held' \in [Nodes -> SUBSET Relinquishable]
           /\ \A d \in Nodes : held'[d] = IF d = n THEN held[n] \ {h} ELSE held[d]
           /\ h \in Relinquishable /\ h.id \in Ids
  BY DEF NetTypes, Relinquish, Relinquishable

(* SendMessage takes a message over exactly once. *)
LEMMA SpentGrows ==
    ASSUME NetTypes, NEW loc, HeldAt(loc), NEW n \in Nodes, NEW h \in held[n],
           Relinquish(n, h), UNCHANGED used
    PROVE  /\ h.id \notin used \ Owned
           /\ used' \ Owned' = (used \ Owned) \cup {h.id}
<1>1. \A d \in Nodes : held'[d] = IF d = n THEN held[n] \ {h} ELSE held[d]
  BY RelinquishIs
<1>2. h.id \in used /\ h.id \in Owned
  BY OwnedIs DEF HeldAt
<1>3. ASSUME NEW d \in Nodes, NEW g \in held'[d] PROVE g \in held[d] /\ g.id # h.id
  <2>1. g \in held[d] /\ (d = n => g # h)
    BY <1>1
  <2>2. loc[g.id] = <<"held", d>> /\ loc[h.id] = <<"held", n>>
    BY <2>1 DEF HeldAt
  <2>3. d = n => g.id # h.id
    BY <2>1 DEF HeldAt
  <2> QED BY <2>1, <2>2, <2>3
<1>4. \A i : i \in Owned' <=> i \in Owned /\ i # h.id
  <2>1. ASSUME NEW i, i \in Owned' PROVE i \in Owned /\ i # h.id
    BY <1>3, <2>1, OwnedIs, OwnedNext
  <2>2. ASSUME NEW i, i \in Owned, i # h.id PROVE i \in Owned'
    <3>1. PICK d \in Nodes : \E g \in held[d] : g.id = i
      BY <2>2, OwnedIs
    <3>2. PICK g \in held[d] : g.id = i
      BY <3>1
    <3>3. g \in held'[d]
      BY <1>1, <2>2, <3>2
    <3> QED BY <3>2, <3>3, OwnedNext
  <2> QED BY <2>1, <2>2
<1> QED BY <1>2, <1>4
-----------------------------------------------------------------------------
(* What each action does: to the invariant, and to MessageTransfer. *)
LEMMA CreateKeeps ==
    ASSUME NetworkInv, NEW n \in Nodes, NEW i \in Ids, NEW size \in PayloadSizes,
           CreateMessage(n, i, size)
    PROVE  NetworkInv' /\ UNCHANGED Transfer!tvars
<1> DEFINE h == [id |-> i, size |-> size]
<1>1. NetTypes /\ Finite /\ MsgsOK /\ PktsOK
  BY DEF NetworkInv
<1>2. PICK loc : Located(loc)
  BY DEF NetworkInv
<1>3. h \in Relinquishable /\ h.id = i
  BY DEF Relinquishable
<1> HIDE DEF h
<1>4. /\ i \notin used /\ used' = used \cup {i}
      /\ held' = [held EXCEPT ![n] = @ \cup {h}]
      /\ freeMsgs' = [freeMsgs EXCEPT ![n] = @ - 1] /\ freeMsgs[n] > 0
      /\ UNCHANGED <<inbox, freePkts, pktout, wire, pktin, packets, noise>>
  BY DEF CreateMessage, h
<1>5. /\ \A d \in Nodes : held'[d] = IF d = n THEN held[n] \cup {h} ELSE held[d]
      /\ held' \in [Nodes -> SUBSET Relinquishable]
  BY <1>1, <1>3, <1>4 DEF NetTypes
<1>6. /\ \A d \in Nodes : freeMsgs'[d] = IF d = n THEN freeMsgs[n] - 1 ELSE freeMsgs[d]
      /\ freeMsgs' \in [Nodes -> Nat]
  BY <1>1, <1>4 DEF NetTypes
<1>7. NetTypes'
  BY <1>1, <1>4, <1>5, <1>6 DEF NetTypes
<1>8. PktsOK'
  BY <1>1, <1>4 DEF PktsOK
<1>9. h \notin held[n]
  BY <1>2, <1>3, <1>4 DEF Located, HeldAt
<1>10. Finite' /\ MsgsOK'
  <2>1. /\ IsFiniteSet(held'[n]) /\ Cardinality(held'[n]) = Cardinality(held[n]) + 1
        /\ Cardinality(held[n]) \in Nat
    BY <1>1, <1>5, <1>9, AddOne DEF Finite
  <2>2. inbox'[n] = inbox[n] /\ freeMsgs'[n] = freeMsgs[n] - 1
    BY <1>4, <1>6
  <2>3. /\ freeMsgs[n] \in Nat /\ Cardinality(inbox[n]) \in Nat /\ IsFiniteSet(inbox[n])
    BY <1>1, MsgNumbers
  <2>4. freeMsgs'[n] + Cardinality(held'[n]) + Cardinality(inbox'[n])
           = freeMsgs[n] + Cardinality(held[n]) + Cardinality(inbox[n])
    BY <2>1, <2>2, <2>3
  <2> QED BY <1>1, <1>4, <1>5, <1>6, <2>1, <2>2, <2>3, <2>4, MsgsKept
<1>11. Located(Placed(loc, i, <<"held", n>>))'
  <2> DEFINE loc2 == Placed(loc, i, <<"held", n>>)
  <2>1. used \subseteq Ids /\ used \subseteq used' /\ i \in used'
    BY <1>1, <1>4 DEF NetTypes
  <2>2. \A kind : Stays(loc, loc2, kind)
    BY <1>4, <2>1, PlacedStays
  <2>3. loc2[i] = <<"held", n>> /\ \A j \in used : loc2[j] = loc[j]
    BY <1>4, <2>1 DEF Placed
  <2> HIDE DEF loc2
  <2>4. HeldAt(loc2)'
    <3> SUFFICES ASSUME NEW d \in Nodes, NEW g \in held'[d]
                 PROVE  /\ g.id \in used' /\ loc2[g.id] = <<"held", d>>
                        /\ \A e \in held'[d] : e.id = g.id => e = g
      BY DEF HeldAt
    <3>1. \A e \in held[d] : /\ e.id \in used /\ loc[e.id] = <<"held", d>> /\ e.id # i
                             /\ \A x \in held[d] : x.id = e.id => x = e
      BY <1>2, <1>4 DEF Located, HeldAt
    <3>2. \A e \in held'[d] : e \in held[d] \/ (d = n /\ e = h)
      BY <1>5
    <3>3. CASE g \in held[d]
      <4>1. \A e \in held'[d] : e.id = g.id => e \in held[d]
        BY <1>3, <3>1, <3>2, <3>3
      <4> QED BY <2>1, <2>3, <3>1, <3>3, <4>1
    <3>4. CASE d = n /\ g = h
      <4>1. \A e \in held'[d] : e.id = g.id => e = h
        BY <1>3, <3>1, <3>2, <3>4
      <4> QED BY <1>3, <2>1, <2>3, <3>4, <4>1
    <3> QED BY <3>2, <3>3, <3>4
  <2>5. InboxAt(loc2)'
    <3>1. \A d \in Nodes : inbox'[d] \subseteq inbox[d]
      BY <1>4
    <3> QED BY <1>2, <2>1, <2>2, <3>1, InboxStays DEF Located
  <2>6. OutAt(loc2)' /\ InAt(loc2)' /\ CoreAt(loc2)'
    BY <1>2, <1>4, <2>1, <2>2, OutStays, InStays, CoreStays DEF Located
  <2>7. WireAt(loc2)'
    <3>1. \A d \in Nodes : \A f \in Meant(d) : <<d, f>> \in wire' => <<d, f>> \in wire
      BY <1>4
    <3> QED BY <1>2, <2>1, <2>2, <3>1, WireStays DEF Located
  <2> QED BY <2>4, <2>5, <2>6, <2>7 DEF Located, loc2
<1>12. UNCHANGED Transfer!tvars
  <2>1. InTransit' = InTransit
    BY <1>1, <1>4, <1>7, UnderWaySame, TransitNext
  <2>2. \A j : j \in Owned' <=> j \in Owned \/ j = i
    <3>1. \A d \in Nodes : \A e : e \in held'[d] <=> e \in held[d] \/ (d = n /\ e = h)
      BY <1>5
    <3> QED BY <1>3, <3>1, OwnedIs, OwnedNext
  <2>3. used' \ Owned' = used \ Owned
    BY <1>4, <2>2
  <2> QED BY <1>4, <2>1, <2>3 DEF Transfer!tvars, Owned
<1> QED BY <1>7, <1>8, <1>10, <1>11, <1>12 DEF NetworkInv

(* A message of an application is destroyed, by itself or by SendMessage. *)
Dropped(n, h) ==
    /\ Relinquish(n, h)
    /\ freeMsgs' = [freeMsgs EXCEPT ![n] = @ + 1]
    /\ UNCHANGED <<used, inbox, freePkts, pktout, wire, pktin, packets, noise>>

LEMMA FreeMore ==
    ASSUME NetTypes, NEW n \in Nodes, freeMsgs' = [freeMsgs EXCEPT ![n] = @ + 1]
    PROVE  /\ freeMsgs' \in [Nodes -> Nat] /\ freeMsgs'[n] = freeMsgs[n] + 1
           /\ \A d \in Nodes : d # n => freeMsgs'[d] = freeMsgs[d]
  BY DEF NetTypes

LEMMA DroppedKeeps ==
    ASSUME NetworkInv, NEW n \in Nodes, NEW h \in held[n], Dropped(n, h)
    PROVE  NetworkInv' /\ Transfer!Discard(h.id) /\ h.id \in Ids
<1>1. NetTypes /\ Finite /\ MsgsOK /\ PktsOK
  BY DEF NetworkInv
<1>2. PICK loc : Located(loc)
  BY DEF NetworkInv
<1>3. /\ Relinquish(n, h)
      /\ UNCHANGED <<used, inbox, freePkts, pktout, wire, pktin, packets, noise>>
  BY DEF Dropped
<1>4. /\ held' \in [Nodes -> SUBSET Relinquishable]
      /\ \A d \in Nodes : held'[d] = IF d = n THEN held[n] \ {h} ELSE held[d]
      /\ h.id \in Ids
  BY <1>1, <1>3, RelinquishIs
<1>5. /\ freeMsgs' \in [Nodes -> Nat] /\ freeMsgs'[n] = freeMsgs[n] + 1
      /\ \A d \in Nodes : d # n => freeMsgs'[d] = freeMsgs[d]
  BY <1>1, FreeMore DEF Dropped
<1>6. NetTypes'
  BY <1>1, <1>3, <1>4, <1>5 DEF NetTypes
<1>7. PktsOK'
  BY <1>1, <1>3 DEF PktsOK
<1>8. Finite' /\ MsgsOK'
  <2>1. /\ IsFiniteSet(held'[n]) /\ Cardinality(held'[n]) = Cardinality(held[n]) - 1
        /\ Cardinality(held[n]) \in Nat
    BY SMTT(30), <1>1, <1>4, DropOne DEF Finite
  <2>2. inbox'[n] = inbox[n]
    BY <1>3
  <2>3. /\ freeMsgs[n] \in Nat /\ Cardinality(inbox[n]) \in Nat /\ IsFiniteSet(inbox[n])
    BY <1>1, MsgNumbers
  <2>4. freeMsgs'[n] + Cardinality(held'[n]) + Cardinality(inbox'[n])
           = freeMsgs[n] + Cardinality(held[n]) + Cardinality(inbox[n])
    BY <1>5, <2>1, <2>2, <2>3
  <2> QED BY <1>1, <1>3, <1>4, <1>5, <2>1, <2>2, <2>3, <2>4, MsgsKept
<1>9. Located(loc)'
  <2>1. used \subseteq used' /\ \A kind : Stays(loc, loc, kind)
    BY <1>3 DEF Stays
  <2>2. HeldAt(loc)'
    <3>1. \A d \in Nodes : held'[d] \subseteq held[d]
      BY <1>4
    <3> QED BY <1>2, <2>1, <3>1, HeldStays DEF Located
  <2>3. InboxAt(loc)'
    <3>1. \A d \in Nodes : inbox'[d] \subseteq inbox[d]
      BY <1>3
    <3> QED BY <1>2, <2>1, <3>1, InboxStays DEF Located
  <2>4. OutAt(loc)' /\ InAt(loc)' /\ CoreAt(loc)'
    BY <1>2, <1>3, <2>1, OutStays, InStays, CoreStays DEF Located
  <2>5. WireAt(loc)'
    <3>1. \A d \in Nodes : \A f \in Meant(d) : <<d, f>> \in wire' => <<d, f>> \in wire
      BY <1>3
    <3> QED BY <1>2, <2>1, <3>1, WireStays DEF Located
  <2> QED BY <2>2, <2>3, <2>4, <2>5 DEF Located
<1>10. Transfer!Discard(h.id)
  <2>1. InTransit' = InTransit
    BY <1>1, <1>3, <1>6, UnderWaySame, TransitNext
  <2>2. h.id \notin used \ Owned /\ used' \ Owned' = (used \ Owned) \cup {h.id}
    BY <1>1, <1>2, <1>3, SpentGrows DEF Located
  <2> QED BY <1>3, <2>1, <2>2 DEF Transfer!Discard, Owned
<1> QED BY <1>4, <1>6, <1>7, <1>8, <1>9, <1>10 DEF NetworkInv
-----------------------------------------------------------------------------
AcceptedAtHome(n, h, m) ==
    /\ Relinquish(n, h)
    /\ inbox' = [inbox EXCEPT ![n] = @ \cup {m}]
    /\ UNCHANGED <<used, freeMsgs, freePkts, pktout, wire, pktin, packets, noise>>

LEMMA AcceptedAtHomeKeeps ==
    ASSUME NetworkInv, NEW n \in Nodes, NEW h \in held[n],
           NEW m \in Messages, m.id = h.id, m.receiver = n, m.sender = n, AcceptedAtHome(n, h, m)
    PROVE  NetworkInv' /\ Transfer!SendAtHome(m)
<1>1. NetTypes /\ Finite /\ MsgsOK /\ PktsOK
  BY DEF NetworkInv
<1>2. PICK loc : Located(loc)
  BY DEF NetworkInv
<1>3. /\ Relinquish(n, h)
      /\ inbox' = [inbox EXCEPT ![n] = @ \cup {m}]
      /\ UNCHANGED <<used, freeMsgs, freePkts, pktout, wire, pktin, packets, noise>>
  BY DEF AcceptedAtHome
<1>4. /\ held' \in [Nodes -> SUBSET Relinquishable]
      /\ \A d \in Nodes : held'[d] = IF d = n THEN held[n] \ {h} ELSE held[d]
      /\ h.id \in Ids
  BY <1>1, <1>3, RelinquishIs
<1>5. /\ inbox' \in [Nodes -> SUBSET Messages]
      /\ \A d \in Nodes : inbox'[d] = IF d = n THEN inbox[n] \cup {m} ELSE inbox[d]
  BY <1>1, <1>3 DEF NetTypes
<1>6. NetTypes'
  BY <1>1, <1>3, <1>4, <1>5 DEF NetTypes
<1>7. PktsOK'
  BY <1>1, <1>3 DEF PktsOK
<1>8. h.id \in used /\ loc[h.id] = <<"held", n>> /\ m \notin inbox[n]
  <2>1. h.id \in used /\ loc[h.id] = <<"held", n>>
    BY <1>2 DEF Located, HeldAt
  <2>2. m \in inbox[n] => loc[m.id] = <<"inbox", n>>
    BY <1>2 DEF Located, InboxAt
  <2> QED BY <2>1, <2>2
<1>9. Finite' /\ MsgsOK'
  <2>1. /\ IsFiniteSet(held'[n]) /\ Cardinality(held'[n]) = Cardinality(held[n]) - 1
        /\ Cardinality(held[n]) \in Nat
    BY SMTT(30), <1>1, <1>4, DropOne DEF Finite
  <2>2. /\ IsFiniteSet(inbox'[n]) /\ Cardinality(inbox'[n]) = Cardinality(inbox[n]) + 1
        /\ Cardinality(inbox[n]) \in Nat
    <3>1. IsFiniteSet(inbox[n]) /\ inbox'[n] = inbox[n] \cup {m}
      BY <1>1, <1>5, MsgNumbers
    <3>2. /\ IsFiniteSet(inbox[n] \cup {m})
          /\ Cardinality(inbox[n] \cup {m}) = Cardinality(inbox[n]) + 1
          /\ Cardinality(inbox[n]) \in Nat
      BY <1>8, <3>1, AddOne
    <3> QED BY <3>1, <3>2
  <2>3. freeMsgs[n] \in Nat /\ \A d \in Nodes : freeMsgs'[d] = freeMsgs[d]
    BY <1>1, <1>3, MsgNumbers
  <2>4. freeMsgs'[n] + Cardinality(held'[n]) + Cardinality(inbox'[n])
           = freeMsgs[n] + Cardinality(held[n]) + Cardinality(inbox[n])
    BY <2>1, <2>2, <2>3
  <2> QED BY <1>1, <1>4, <1>5, <2>1, <2>2, <2>3, <2>4, MsgsKept
<1>10. Located(Placed(loc, h.id, <<"inbox", n>>))'
  <2> DEFINE loc2 == Placed(loc, h.id, <<"inbox", n>>)
  <2>1. used \subseteq Ids /\ used \subseteq used'
    BY <1>1, <1>3 DEF NetTypes
  <2>2. \A kind : kind # "held" => Stays(loc, loc2, kind)
    BY <1>8, <2>1, PlacedStays
  <2>3. loc2[h.id] = <<"inbox", n>> /\ \A j \in used : j # h.id => loc2[j] = loc[j]
    BY <1>4, <2>1 DEF Placed
  <2> HIDE DEF loc2
  <2>4. HeldAt(loc2)'
    BY <1>2, <1>3, <1>4, <2>3, HeldLeaves DEF Located
  <2>5. InboxAt(loc2)'
    <3>1. Stays(loc, loc2, "inbox") /\ m.id \in used /\ loc2[m.id] = <<"inbox", n>>
      BY <1>8, <2>2, <2>3
    <3> QED BY <1>2, <1>5, <2>1, <3>1, InboxGains DEF Located
  <2>6. OutAt(loc2)' /\ InAt(loc2)' /\ CoreAt(loc2)'
    BY <1>2, <1>3, <2>1, <2>2, OutStays, InStays, CoreStays DEF Located
  <2>7. WireAt(loc2)'
    <3>1. \A d \in Nodes : \A f \in Meant(d) : <<d, f>> \in wire' => <<d, f>> \in wire
      BY <1>3
    <3> QED BY <1>2, <2>1, <2>2, <3>1, WireStays DEF Located
  <2> QED BY <2>4, <2>5, <2>6, <2>7 DEF Located, loc2
<1>11. Transfer!SendAtHome(m)
  <2>1. InTransit' = InTransit
    BY <1>1, <1>3, <1>6, UnderWaySame, TransitNext
  <2>2. h.id \notin used \ Owned /\ used' \ Owned' = (used \ Owned) \cup {h.id}
    BY <1>1, <1>2, <1>3, SpentGrows DEF Located
  <2> QED BY <1>3, <2>1, <2>2 DEF Transfer!SendAtHome, Owned
<1> QED BY <1>6, <1>7, <1>9, <1>10, <1>11 DEF NetworkInv

LEMMA AppendType ==
    ASSUME NEW T, NEW s \in Seq(T), NEW f \in T
    PROVE  Append(s, f) \in Seq(T)
  OBVIOUS

LEMMA FreePktsChange ==
    ASSUME NetTypes, NEW n \in Nodes
    PROVE  /\ freePkts[n] > 0 /\ freePkts' = [freePkts EXCEPT ![n] = @ - 1] =>
                /\ freePkts' \in [Nodes -> Nat] /\ freePkts'[n] = freePkts[n] - 1
                /\ \A d \in Nodes : d # n => freePkts'[d] = freePkts[d]
           /\ freePkts' = [freePkts EXCEPT ![n] = @ + 1] =>
                /\ freePkts' \in [Nodes -> Nat] /\ freePkts'[n] = freePkts[n] + 1
                /\ \A d \in Nodes : d # n => freePkts'[d] = freePkts[d]
<1>1. freePkts \in [Nodes -> Nat]
  BY DEF NetTypes
<1>2. ASSUME NEW k \in Nat, freePkts' = [freePkts EXCEPT ![n] = k]
      PROVE  /\ freePkts' \in [Nodes -> Nat] /\ freePkts'[n] = k
             /\ \A d \in Nodes : d # n => freePkts'[d] = freePkts[d]
  BY <1>1, <1>2
<1>3. freePkts[n] + 1 \in Nat /\ (freePkts[n] > 0 => freePkts[n] - 1 \in Nat)
  BY <1>1
<1> QED BY <1>2, <1>3

SentOut(n, h, f) ==
    /\ freePkts[n] > 0
    /\ Relinquish(n, h)
    /\ freePkts' = [freePkts EXCEPT ![n] = @ - 1]
    /\ pktout' = [pktout EXCEPT ![n] = Append(@, f)]
    /\ freeMsgs' = [freeMsgs EXCEPT ![n] = @ + 1]
    /\ UNCHANGED <<used, inbox, wire, pktin, packets, noise>>

LEMMA SentOutKeeps ==
    ASSUME NetworkInv, NEW n \in Nodes, NEW h \in held[n],
           NEW f \in Outgoing, f.data.id = h.id, SentOut(n, h, f)
    PROVE  NetworkInv' /\ Transfer!Send(f.data)
<1>1. NetTypes /\ Finite /\ MsgsOK /\ PktsOK
  BY DEF NetworkInv
<1>2. PICK loc : Located(loc)
  BY DEF NetworkInv
<1>3. /\ freePkts[n] > 0 /\ Relinquish(n, h)
      /\ freePkts' = [freePkts EXCEPT ![n] = @ - 1]
      /\ pktout' = [pktout EXCEPT ![n] = Append(@, f)]
      /\ freeMsgs' = [freeMsgs EXCEPT ![n] = @ + 1]
      /\ UNCHANGED <<used, inbox, wire, pktin, packets, noise>>
  BY DEF SentOut
<1>4. /\ held' \in [Nodes -> SUBSET Relinquishable]
      /\ \A d \in Nodes : held'[d] = IF d = n THEN held[n] \ {h} ELSE held[d]
      /\ h.id \in Ids
  BY <1>1, <1>3, RelinquishIs
<1>5. /\ freeMsgs' \in [Nodes -> Nat] /\ freeMsgs'[n] = freeMsgs[n] + 1
      /\ \A d \in Nodes : d # n => freeMsgs'[d] = freeMsgs[d]
  BY <1>1, <1>3, FreeMore
<1>6. /\ freePkts' \in [Nodes -> Nat] /\ freePkts'[n] = freePkts[n] - 1
      /\ \A d \in Nodes : d # n => freePkts'[d] = freePkts[d]
  BY <1>1, <1>3, FreePktsChange
<1>7. pktout[n] \in Seq(Outgoing)
  BY <1>1 DEF NetTypes
<1>8. /\ pktout' \in [Nodes -> Seq(Outgoing)]
      /\ \A d \in Nodes : pktout'[d] = IF d = n THEN Append(pktout[n], f) ELSE pktout[d]
  <2>1. PICK s \in Seq(Outgoing) : s = Append(pktout[n], f)
    BY <1>7, AppendType
  <2>2. pktout' = [pktout EXCEPT ![n] = s]
    BY <1>3, <2>1
  <2>3. pktout \in [Nodes -> Seq(Outgoing)]
    BY <1>1 DEF NetTypes
  <2> QED BY <2>1, <2>2, <2>3
<1>9. NetTypes'
  BY <1>1, <1>3, <1>4, <1>5, <1>6, <1>8 DEF NetTypes
<1>10. PktsOK'
  <2>1. /\ freePkts[n] \in Nat /\ Len(pktout[n]) \in Nat /\ Len(pktin[n]) \in Nat
        /\ Cardinality(PolledBy(packets[n])) \in Nat
    BY <1>1, PktNumbers
  <2>2. Len(pktout'[n]) = Len(pktout[n]) + 1
    BY <1>7, <1>8
  <2>3. pktin'[n] = pktin[n] /\ packets'[n] = packets[n]
    BY <1>3
  <2>4. freePkts'[n] + Len(pktout'[n]) + Len(pktin'[n]) + Cardinality(PolledBy(packets'[n]))
           = freePkts[n] + Len(pktout[n]) + Len(pktin[n]) + Cardinality(PolledBy(packets[n]))
    <3>1. PICK a \in Nat, b \in Nat, l \in Nat, d \in Nat :
             /\ a = freePkts[n] /\ b = Len(pktout[n]) /\ l = Len(pktin[n])
             /\ d = Cardinality(PolledBy(packets[n]))
      BY <2>1
    <3>2. /\ freePkts'[n] = a - 1 /\ Len(pktout'[n]) = b + 1 /\ Len(pktin'[n]) = l
          /\ Cardinality(PolledBy(packets'[n])) = d
      BY <1>6, <2>2, <2>3, <3>1
    <3>3. (a - 1) + (b + 1) + l + d = a + b + l + d
      OBVIOUS
    <3> QED BY <3>1, <3>2, <3>3
  <2>5. \A d \in Nodes : d # n => /\ freePkts'[d] = freePkts[d] /\ pktout'[d] = pktout[d]
                                  /\ pktin'[d] = pktin[d] /\ packets'[d] = packets[d]
    BY <1>3, <1>6, <1>8
  <2> QED BY <1>1, <2>4, <2>5, PktsKept
<1>11. Finite' /\ MsgsOK'
  <2>1. /\ IsFiniteSet(held'[n]) /\ Cardinality(held'[n]) = Cardinality(held[n]) - 1
        /\ Cardinality(held[n]) \in Nat
    BY SMTT(30), <1>1, <1>4, DropOne DEF Finite
  <2>2. inbox'[n] = inbox[n]
    BY <1>3
  <2>3. /\ freeMsgs[n] \in Nat /\ Cardinality(inbox[n]) \in Nat /\ IsFiniteSet(inbox[n])
    BY <1>1, MsgNumbers
  <2>4. freeMsgs'[n] + Cardinality(held'[n]) + Cardinality(inbox'[n])
           = freeMsgs[n] + Cardinality(held[n]) + Cardinality(inbox[n])
    BY <1>5, <2>1, <2>2, <2>3
  <2> QED BY <1>1, <1>3, <1>4, <1>5, <2>1, <2>2, <2>3, <2>4, MsgsKept
<1>12. h.id \in used /\ loc[h.id] = <<"held", n>>
  BY <1>2 DEF Located, HeldAt
<1>13. Located(Placed(loc, h.id, <<"out", n>>))'
  <2> DEFINE loc2 == Placed(loc, h.id, <<"out", n>>)
  <2>1. used \subseteq Ids /\ used \subseteq used' /\ UNCHANGED used
    BY <1>1, <1>3 DEF NetTypes
  <2>2. \A kind : kind # "held" => Stays(loc, loc2, kind)
    BY <1>12, <2>1, PlacedStays
  <2>3. loc2[h.id] = <<"out", n>> /\ \A j \in used : j # h.id => loc2[j] = loc[j]
    BY <1>4, <2>1 DEF Placed
  <2> HIDE DEF loc2
  <2>4. HeldAt(loc2)'
    BY <1>2, <1>3, <1>4, <2>3, HeldLeaves DEF Located
  <2>5. InboxAt(loc2)'
    <3>1. \A d \in Nodes : inbox'[d] \subseteq inbox[d]
      BY <1>3
    <3> QED BY <1>2, <2>1, <2>2, <3>1, InboxStays DEF Located
  <2>6. OutAt(loc2)'
    <3>1. /\ f.data.id \in used /\ loc[f.data.id][1] # "out"
          /\ loc2[f.data.id] = <<"out", n>> /\ Stays(loc, loc2, "out")
      BY <1>12, <2>2, <2>3
    <3> QED BY <1>1, <1>2, <1>8, <2>1, <3>1, OutGains DEF Located
  <2>7. InAt(loc2)' /\ CoreAt(loc2)'
    BY <1>2, <1>3, <2>1, <2>2, InStays, CoreStays DEF Located
  <2>8. WireAt(loc2)'
    <3>1. \A d \in Nodes : \A g \in Meant(d) : <<d, g>> \in wire' => <<d, g>> \in wire
      BY <1>3
    <3> QED BY <1>2, <2>1, <2>2, <3>1, WireStays DEF Located
  <2> QED BY <2>4, <2>5, <2>6, <2>7, <2>8 DEF Located, loc2
<1>14. JoinsUnderWay(f.data)
  <2>1. \A m : OutHas(m)' <=> OutHas(m) \/ m = f.data
    <3>1. \A m : InSeq(Append(pktout[n], f), m) <=> InSeq(pktout[n], m) \/ m = f.data
      BY <1>7, InAppend
    <3>2. \A m : OutHas(m)' <=> \E d \in Nodes : InSeq(pktout'[d], m)
      BY DEF OutHas, InSeq
    <3> QED BY <1>8, <3>1, <3>2 DEF OutHas
  <2>2. \A m : (WireHas(m)' <=> WireHas(m)) /\ (InHas(m)' <=> InHas(m)) /\ (CoreHas(m)' <=> CoreHas(m))
    BY <1>3, UnderWayKept
  <2> QED BY <2>1, <2>2 DEF JoinsUnderWay, UnderWay
<1>15. Transfer!Send(f.data)
  <2>1. InTransit' = InTransit \cup {f.data}
    BY <1>1, <1>9, <1>14, TransitNext
  <2>2. h.id \notin used \ Owned /\ used' \ Owned' = (used \ Owned) \cup {h.id}
    BY <1>1, <1>2, <1>3, SpentGrows DEF Located
  <2> QED BY <1>3, <2>1, <2>2 DEF Transfer!Send, Owned
<1> QED BY <1>9, <1>10, <1>11, <1>13, <1>15 DEF NetworkInv
-----------------------------------------------------------------------------
(* Frames move, applications' messages do not. *)
LEMMA Settles ==
    ASSUME NetTypes, NetTypes', \E loc : Located(loc), UNCHANGED <<used, held, inbox>>,
           SameUnderWay \/ \E m : LeavesUnderWay(m)
    PROVE  UNCHANGED Transfer!tvars \/ \E m \in Messages : Transfer!Lose(m)
<1>1. used' \ Owned' = used \ Owned
  BY DEF Owned
<1>2. CASE SameUnderWay
  <2>1. InTransit' = InTransit
    BY <1>2, TransitNext
  <2> QED BY <1>1, <2>1 DEF Transfer!tvars, Owned
<1>3. ASSUME NEW m, LeavesUnderWay(m) PROVE m \in Messages /\ Transfer!Lose(m)
  <2>1. m \in InTransit /\ InTransit' = InTransit \ {m}
    BY <1>3, TransitNext
  <2>2. m \in Messages
    BY <1>3, UnderWayIs DEF LeavesUnderWay
  <2> QED BY <1>1, <2>1, <2>2 DEF Transfer!Lose, Owned
<1> QED BY <1>2, <1>3

LEMMA MsgsStay ==
    ASSUME Finite, MsgsOK, UNCHANGED <<held, inbox, freeMsgs>>
    PROVE  Finite' /\ MsgsOK'
  BY DEF Finite, MsgsOK

LEMMA AppsStay ==
    ASSUME NEW loc, NEW loc2, Located(loc), UNCHANGED <<used, held, inbox>>,
           Stays(loc, loc2, "held"), Stays(loc, loc2, "inbox")
    PROVE  HeldAt(loc2)' /\ InboxAt(loc2)'
<1>1. used \subseteq used' /\ \A n \in Nodes : held'[n] \subseteq held[n] /\ inbox'[n] \subseteq inbox[n]
  OBVIOUS
<1> QED BY <1>1, HeldStays, InboxStays DEF Located

LEMMA Balance ==
    \A a, b, c, d \in Nat :
        /\ (a + 1) + (b - 1) + c + d = a + b + c + d
        /\ (a - 1) + b + (c + 1) + d = a + b + c + d
        /\ \A k \in Nat : /\ a + b + (c - k) + (d - 0 + k) = a + b + c + d
                          /\ (a + 1) + b + c + (d - k + (k - 1)) = a + b + c + d
  OBVIOUS

LEMMA TransmitKeeps ==
    ASSUME NetworkInv, NEW n \in Nodes, Transmit(n)
    PROVE  NetworkInv' /\ (UNCHANGED Transfer!tvars \/ \E m \in Messages : Transfer!Lose(m))
<1>a. PICK f : f = Head(pktout[n])
  OBVIOUS
<1>b. PICK g : g = Padded(f)
  OBVIOUS
<1>c. PICK m : m = f.data
  OBVIOUS
<1> DEFINE home == m.receiver \in Nodes \ {n}
           v == IF home THEN <<"wire", m.receiver>> ELSE <<"gone", n>>
<1>1. NetTypes /\ Finite /\ MsgsOK /\ PktsOK
  BY DEF NetworkInv
<1>2. PICK loc : Located(loc)
  BY DEF NetworkInv
<1>3. /\ pktout[n] # << >>
      /\ pktout' = [pktout EXCEPT ![n] = Tail(@)]
      /\ wire' = wire \cup {<<d, g>> : d \in Nodes \ {n}}
      /\ freePkts' = [freePkts EXCEPT ![n] = @ + 1]
      /\ UNCHANGED <<used, held, inbox, freeMsgs, pktin, packets, noise>>
  BY <1>a, <1>b DEF Transmit
<1>4. /\ pktout[n] \in Seq(Outgoing) /\ f \in Outgoing /\ Tail(pktout[n]) \in Seq(Outgoing)
      /\ Len(Tail(pktout[n])) = Len(pktout[n]) - 1
  <2>1. pktout[n] \in Seq(Outgoing)
    BY <1>1 DEF NetTypes
  <2> QED BY <1>a, <1>3, <2>1
<1>5. g \in Frames /\ g.data = m /\ m \in Messages
  BY <1>b, <1>c, <1>4, PaddedIs DEF Outgoing
<1>6. m.id \in used /\ m.id \in Ids /\ loc[m.id] = <<"out", n>>
  <2>1. SeqAt(pktout[n], Outgoing, used, loc, <<"out", n>>)
    BY <1>2 DEF Located, OutAt
  <2>2. 1 \in 1 .. Len(pktout[n]) /\ f = pktout[n][1]
    BY <1>a, <1>3, <1>4
  <2>3. f.data.id \in used /\ loc[f.data.id] = <<"out", n>>
    BY <1>4, <2>1, <2>2 DEF SeqAt
  <2> QED BY <1>1, <1>c, <2>3 DEF NetTypes
<1>7. /\ freePkts' \in [Nodes -> Nat] /\ freePkts'[n] = freePkts[n] + 1
      /\ \A d \in Nodes : d # n => freePkts'[d] = freePkts[d]
  BY <1>1, <1>3, FreePktsChange
<1>8. /\ pktout' \in [Nodes -> Seq(Outgoing)]
      /\ \A d \in Nodes : pktout'[d] = IF d = n THEN Tail(pktout[n]) ELSE pktout[d]
  <2>1. PICK s \in Seq(Outgoing) : s = Tail(pktout[n])
    BY <1>4
  <2>2. pktout' = [pktout EXCEPT ![n] = s]
    BY <1>3, <2>1
  <2>3. pktout \in [Nodes -> Seq(Outgoing)]
    BY <1>1 DEF NetTypes
  <2> QED BY <2>1, <2>2, <2>3
<1>9. NetTypes'
  <2>1. wire' \subseteq Nodes \X Frames
    BY <1>1, <1>3, <1>5 DEF NetTypes
  <2> QED BY <1>1, <1>3, <1>7, <1>8, <2>1 DEF NetTypes
<1>10. PktsOK'
  <2>1. /\ freePkts[n] \in Nat /\ Len(pktout[n]) \in Nat /\ Len(pktin[n]) \in Nat
        /\ Cardinality(PolledBy(packets[n])) \in Nat
    BY <1>1, PktNumbers
  <2>2. Len(pktout'[n]) = Len(pktout[n]) - 1
    BY <1>4, <1>8
  <2>3. pktin'[n] = pktin[n] /\ packets'[n] = packets[n]
    BY <1>3
  <2>4. freePkts'[n] + Len(pktout'[n]) + Len(pktin'[n]) + Cardinality(PolledBy(packets'[n]))
           = freePkts[n] + Len(pktout[n]) + Len(pktin[n]) + Cardinality(PolledBy(packets[n]))
    <3>1. freePkts'[n] = freePkts[n] + 1
      BY <1>7
    <3>2. PICK a \in Nat, b \in Nat, c \in Nat, d \in Nat :
             /\ a = freePkts[n] /\ b = Len(pktout[n]) /\ c = Len(pktin[n])
             /\ d = Cardinality(PolledBy(packets[n]))
      BY <2>1
    <3>3. /\ freePkts'[n] = a + 1 /\ Len(pktout'[n]) = b - 1 /\ Len(pktin'[n]) = c
          /\ Cardinality(PolledBy(packets'[n])) = d
      BY <2>2, <2>3, <3>1, <3>2
    <3>4. (a + 1) + (b - 1) + c + d = a + b + c + d
      BY Balance
    <3>5. freePkts'[n] + Len(pktout'[n]) + Len(pktin'[n]) + Cardinality(PolledBy(packets'[n]))
            = (a + 1) + (b - 1) + c + d
      BY <3>3
    <3>6. freePkts[n] + Len(pktout[n]) + Len(pktin[n]) + Cardinality(PolledBy(packets[n]))
            = a + b + c + d
      BY <3>2
    <3> QED BY <3>4, <3>5, <3>6
  <2>5. \A d \in Nodes : d # n => /\ freePkts'[d] = freePkts[d] /\ pktout'[d] = pktout[d]
                                  /\ pktin'[d] = pktin[d] /\ packets'[d] = packets[d]
    BY <1>3, <1>7, <1>8
  <2> QED BY <1>1, <2>4, <2>5, PktsKept
<1>11. Finite' /\ MsgsOK'
  BY <1>1, <1>3, MsgsStay
<1>12. \A d, e : <<d, e>> \in wire' <=> <<d, e>> \in wire \/ (d \in Nodes \ {n} /\ e = g)
  BY <1>3
<1>d. PICK loc2 : loc2 = Placed(loc, m.id, v)
  OBVIOUS
<1>13. loc2[m.id] = v /\ \A j \in used : j # m.id => loc2[j] = loc[j]
  BY <1>1, <1>d, <1>6 DEF Placed, NetTypes
<1>14. Located(loc2)'
  <2>1. used \subseteq Ids /\ UNCHANGED used /\ used \subseteq used'
    BY <1>1, <1>3 DEF NetTypes
  <2>2. loc[m.id][1] = "out"
    BY <1>6
  <2>3. \A kind : kind # "out" => Stays(loc, loc2, kind)
    BY <1>d, <2>1, <2>2, PlacedStays
  <2> HIDE DEF v
  <2>4. HeldAt(loc2)' /\ InboxAt(loc2)'
    BY <1>2, <1>3, <2>3, AppsStay
  <2>5. OutAt(loc2)'
    BY <1>a, <1>c, <1>1, <1>2, <1>3, <1>8, <1>13, <2>1, OutLeaves DEF Located
  <2>6. InAt(loc2)' /\ CoreAt(loc2)'
    BY <1>2, <1>3, <2>1, <2>3, InStays, CoreStays DEF Located
  <2>7. WireAt(loc2)'
    <3>1. g.data.id \in used /\ loc[g.data.id][1] # "wire" /\ Stays(loc, loc2, "wire")
      BY <1>5, <1>6, <2>2, <2>3
    <3>2. ASSUME NEW d \in Nodes, d = g.data.receiver, <<d, g>> \in wire'
          PROVE  loc2[g.data.id] = <<"wire", d>>
      <4>1. g \in Meant(d)
        BY <1>5, <3>2 DEF Meant
      <4>2. <<d, g>> \notin wire
        BY <1>2, <3>1, <4>1 DEF Located, WireAt
      <4>3. home
        BY <1>5, <1>12, <3>2, <4>2
      <4> QED BY <1>5, <1>13, <3>2, <4>3 DEF v
    <3>3. \A d \in Nodes, e \in Frames : <<d, e>> \in wire' => <<d, e>> \in wire \/ e = g
      BY <1>12
    <3> QED BY <1>2, <1>5, <2>1, <3>1, <3>2, <3>3, WireGains DEF Located
  <2> QED BY <2>4, <2>5, <2>6, <2>7 DEF Located
<1>15. \A x : OutHas(x) <=> OutHas(x)' \/ x = m
  <2>1. \A x : InSeq(pktout[n], x) <=> InSeq(Tail(pktout[n]), x) \/ x = m
    BY <1>a, <1>c, <1>3, <1>4, InTail
  <2>2. \A x : OutHas(x)' <=> \E d \in Nodes : InSeq(pktout'[d], x)
    BY DEF OutHas, InSeq
  <2> QED BY <1>8, <2>1, <2>2 DEF OutHas
<1>16. \A x : WireHas(x)' <=> WireHas(x) \/ (home /\ x = m)
  BY <1>5, <1>12 DEF WireHas
<1>17. \A x : (InHas(x)' <=> InHas(x)) /\ (CoreHas(x)' <=> CoreHas(x))
  BY <1>3, UnderWayKept
<1>18. SameUnderWay \/ LeavesUnderWay(m)
  <2>1. CASE home
    BY <1>15, <1>16, <1>17, <2>1 DEF SameUnderWay, UnderWay
  <2>2. CASE ~home
    <3>1. \A x : UnderWay(x) <=> UnderWay(x)' \/ x = m
      BY <1>15, <1>16, <1>17, <2>2 DEF UnderWay
    <3>2. loc2[m.id][1] = "gone"
      BY <1>13, <2>2
    <3>3. ~UnderWay(m)'
      BY <1>9, <1>14, <3>2, NotUnderWayNext
    <3> QED BY <3>1, <3>3 DEF LeavesUnderWay
  <2> QED BY <2>1, <2>2
<1>19. UNCHANGED Transfer!tvars \/ \E x \in Messages : Transfer!Lose(x)
  BY <1>1, <1>2, <1>3, <1>9, <1>18, Settles
<1> QED BY <1>9, <1>10, <1>11, <1>14, <1>19 DEF NetworkInv
-----------------------------------------------------------------------------
LEMMA NoiseKeeps ==
    ASSUME NetworkInv, NEW n \in Nodes, NEW f \in noise[n], Noise(n, f)
    PROVE  NetworkInv' /\ UNCHANGED Transfer!tvars
<1>1. NetTypes /\ Finite /\ MsgsOK /\ PktsOK
  BY DEF NetworkInv
<1>2. PICK loc : Located(loc)
  BY DEF NetworkInv
<1>3. /\ noise' = [noise EXCEPT ![n] = @ \ {f}]
      /\ wire' = wire \cup {<<n, f>>}
      /\ UNCHANGED <<used, held, inbox, freeMsgs, freePkts, pktout, pktin, packets>>
  BY DEF Noise
<1>4. f \in Frames /\ f.data.receiver \notin Nodes
  <2>1. f \in NoiseFrames
    BY <1>1 DEF NetTypes
  <2> QED BY <2>1, FrameFacts DEF NoiseFrames
<1>5. NetTypes'
  <2>1. noise' \in [Nodes -> SUBSET NoiseFrames]
    BY <1>1, <1>3 DEF NetTypes
  <2>2. wire' \subseteq Nodes \X Frames
    BY <1>1, <1>3, <1>4 DEF NetTypes
  <2> QED BY <1>1, <1>3, <2>1, <2>2 DEF NetTypes
<1>6. PktsOK'
  BY <1>1, <1>3 DEF PktsOK
<1>7. Finite' /\ MsgsOK'
  BY <1>1, <1>3, MsgsStay
<1>8. \A d, e : <<d, e>> \in wire' <=> <<d, e>> \in wire \/ (d = n /\ e = f)
  BY <1>3
<1>9. Located(loc)'
  <2>1. UNCHANGED used /\ used \subseteq used' /\ \A kind : Stays(loc, loc, kind)
    BY <1>3 DEF Stays
  <2>2. HeldAt(loc)' /\ InboxAt(loc)'
    BY <1>2, <1>3, <2>1, AppsStay
  <2>3. OutAt(loc)' /\ InAt(loc)' /\ CoreAt(loc)'
    BY <1>2, <1>3, <2>1, OutStays, InStays, CoreStays DEF Located
  <2>4. WireAt(loc)'
    <3>1. \A d \in Nodes : \A g \in Meant(d) : <<d, g>> \in wire' => <<d, g>> \in wire
      BY <1>4, <1>8 DEF Meant
    <3> QED BY <1>2, <2>1, <3>1, WireStays DEF Located
  <2> QED BY <2>2, <2>3, <2>4 DEF Located
<1>10. SameUnderWay
  <2>1. \A x : WireHas(x)' <=> WireHas(x)
    BY <1>4, <1>8 DEF WireHas
  <2>2. \A x : (OutHas(x)' <=> OutHas(x)) /\ (InHas(x)' <=> InHas(x)) /\ (CoreHas(x)' <=> CoreHas(x))
    BY <1>3, UnderWayKept
  <2> QED BY <2>1, <2>2 DEF SameUnderWay, UnderWay
<1>11. UNCHANGED Transfer!tvars
  <2>1. InTransit' = InTransit
    BY <1>1, <1>5, <1>10, TransitNext
  <2> QED BY <1>3, <2>1 DEF Transfer!tvars
<1> QED BY <1>5, <1>6, <1>7, <1>9, <1>11 DEF NetworkInv

LEMMA LoseFrameKeeps ==
    ASSUME NetworkInv, NEW n \in Nodes, NEW f, LoseFrame(n, f)
    PROVE  NetworkInv' /\ (UNCHANGED Transfer!tvars \/ \E m \in Messages : Transfer!Lose(m))
<1>1. NetTypes /\ Finite /\ MsgsOK /\ PktsOK
  BY DEF NetworkInv
<1>2. PICK loc : Located(loc)
  BY DEF NetworkInv
<1>3. /\ <<n, f>> \in wire
      /\ wire' = wire \ {<<n, f>>}
      /\ UNCHANGED <<used, held, inbox, freeMsgs, freePkts, pktout, pktin, packets, noise>>
  BY DEF LoseFrame
<1>4. f \in Frames
  BY <1>1, <1>3 DEF NetTypes
<1>5. NetTypes'
  <2>1. wire' \subseteq Nodes \X Frames
    BY <1>1, <1>3 DEF NetTypes
  <2> QED BY <1>1, <1>3, <2>1 DEF NetTypes
<1>6. PktsOK'
  BY <1>1, <1>3 DEF PktsOK
<1>7. Finite' /\ MsgsOK'
  BY <1>1, <1>3, MsgsStay
<1>8. \A d, e : <<d, e>> \in wire' <=> <<d, e>> \in wire /\ ~(d = n /\ e = f)
  BY <1>3
<1>9. UNCHANGED used /\ used \subseteq used' /\ used \subseteq Ids
  BY <1>1, <1>3 DEF NetTypes
<1>10. \A x : (OutHas(x)' <=> OutHas(x)) /\ (InHas(x)' <=> InHas(x)) /\ (CoreHas(x)' <=> CoreHas(x))
  BY <1>3, UnderWayKept
<1>11. CASE f \in Meant(n)
  <2>1. PICK loc2 : loc2 = Placed(loc, f.data.id, <<"gone", n>>)
    OBVIOUS
  <2>2. f.data.id \in used /\ loc[f.data.id] = <<"wire", n>>
    BY <1>2, <1>3, <1>11 DEF Located, WireAt
  <2>3. loc2[f.data.id] = <<"gone", n>> /\ \A j \in used : j # f.data.id => loc2[j] = loc[j]
    BY <1>9, <2>1, <2>2 DEF Placed
  <2>4. \A kind : kind # "wire" => Stays(loc, loc2, kind)
    BY <1>9, <2>1, <2>2, PlacedStays
  <2>5. Located(loc2)'
    <3>1. HeldAt(loc2)' /\ InboxAt(loc2)'
      BY <1>2, <1>3, <2>4, AppsStay
    <3>2. OutAt(loc2)' /\ InAt(loc2)' /\ CoreAt(loc2)'
      BY <1>2, <1>3, <1>9, <2>4, OutStays, InStays, CoreStays DEF Located
    <3>3. WireAt(loc2)'
      BY <1>2, <1>3, <1>9, <1>11, <2>3, WireLeaves DEF Located
    <3> QED BY <3>1, <3>2, <3>3 DEF Located
  <2>6. LeavesUnderWay(f.data)
    <3>1. ~UnderWay(f.data)'
      BY <1>5, <2>3, <2>5, NotUnderWayNext
    <3>2. UnderWay(f.data)
      BY <1>3, <1>4, <1>11 DEF UnderWay, WireHas, Meant
    <3>3. \A x : x # f.data => (WireHas(x)' <=> WireHas(x))
      BY <1>8 DEF WireHas
    <3> QED BY <1>10, <3>1, <3>2, <3>3 DEF LeavesUnderWay, UnderWay
  <2>7. UNCHANGED Transfer!tvars \/ \E x \in Messages : Transfer!Lose(x)
    BY <1>1, <1>2, <1>3, <1>5, <2>6, Settles
  <2> QED BY <1>5, <1>6, <1>7, <2>5, <2>7 DEF NetworkInv
<1>12. CASE f \notin Meant(n)
  <2>1. f.data.receiver # n
    BY <1>4, <1>12 DEF Meant
  <2>2. \A kind : Stays(loc, loc, kind)
    BY DEF Stays
  <2>3. Located(loc)'
    <3>1. HeldAt(loc)' /\ InboxAt(loc)'
      BY <1>2, <1>3, <2>2, AppsStay
    <3>2. OutAt(loc)' /\ InAt(loc)' /\ CoreAt(loc)'
      BY <1>2, <1>3, <1>9, <2>2, OutStays, InStays, CoreStays DEF Located
    <3>3. WireAt(loc)'
      <4>1. \A d \in Nodes : \A g \in Meant(d) : <<d, g>> \in wire' => <<d, g>> \in wire
        BY <1>8
      <4> QED BY <1>2, <1>9, <2>2, <4>1, WireStays DEF Located
    <3> QED BY <3>1, <3>2, <3>3 DEF Located
  <2>4. SameUnderWay
    <3>1. \A x : WireHas(x)' <=> WireHas(x)
      BY <1>8, <2>1 DEF WireHas
    <3> QED BY <1>10, <3>1 DEF SameUnderWay, UnderWay
  <2>5. UNCHANGED Transfer!tvars \/ \E x \in Messages : Transfer!Lose(x)
    BY <1>1, <1>2, <1>3, <1>5, <2>4, Settles
  <2> QED BY <1>5, <1>6, <1>7, <2>3, <2>5 DEF NetworkInv
<1> QED BY <1>11, <1>12

LEMMA ArriveKeeps ==
    ASSUME NetworkInv, NEW n \in Nodes, NEW f, Arrive(n, f)
    PROVE  NetworkInv' /\ (UNCHANGED Transfer!tvars \/ \E m \in Messages : Transfer!Lose(m))
<1>1. NetTypes /\ Finite /\ MsgsOK /\ PktsOK
  BY DEF NetworkInv
<1>2. PICK loc : Located(loc)
  BY DEF NetworkInv
<1>3. /\ <<n, f>> \in wire /\ freePkts[n] > 0
      /\ wire' = wire \ {<<n, f>>}
      /\ freePkts' = [freePkts EXCEPT ![n] = @ - 1]
      /\ pktin' = [pktin EXCEPT ![n] = Append(@, f)]
      /\ UNCHANGED <<used, held, inbox, freeMsgs, pktout, packets, noise>>
  BY DEF Arrive
<1>4. f \in Frames /\ pktin[n] \in Seq(Frames)
  BY <1>1, <1>3 DEF NetTypes
<1>5. /\ freePkts' \in [Nodes -> Nat] /\ freePkts'[n] = freePkts[n] - 1
      /\ \A d \in Nodes : d # n => freePkts'[d] = freePkts[d]
  BY <1>1, <1>3, FreePktsChange
<1>6. /\ pktin' \in [Nodes -> Seq(Frames)]
      /\ \A d \in Nodes : pktin'[d] = IF d = n THEN Append(pktin[n], f) ELSE pktin[d]
  <2>1. PICK s \in Seq(Frames) : s = Append(pktin[n], f)
    BY <1>4, AppendType
  <2>2. pktin' = [pktin EXCEPT ![n] = s]
    BY <1>3, <2>1
  <2>3. pktin \in [Nodes -> Seq(Frames)]
    BY <1>1 DEF NetTypes
  <2> QED BY <2>1, <2>2, <2>3
<1>7. NetTypes'
  <2>1. wire' \subseteq Nodes \X Frames
    BY <1>1, <1>3 DEF NetTypes
  <2> QED BY <1>1, <1>3, <1>5, <1>6, <2>1 DEF NetTypes
<1>8. PktsOK'
  <2>1. /\ freePkts[n] \in Nat /\ Len(pktout[n]) \in Nat /\ Len(pktin[n]) \in Nat
        /\ Cardinality(PolledBy(packets[n])) \in Nat
    BY <1>1, PktNumbers
  <2>2. Len(pktin'[n]) = Len(pktin[n]) + 1
    BY <1>4, <1>6
  <2>3. pktout'[n] = pktout[n] /\ packets'[n] = packets[n]
    BY <1>3
  <2>4. freePkts'[n] + Len(pktout'[n]) + Len(pktin'[n]) + Cardinality(PolledBy(packets'[n]))
           = freePkts[n] + Len(pktout[n]) + Len(pktin[n]) + Cardinality(PolledBy(packets[n]))
    <3>1. freePkts'[n] = freePkts[n] - 1
      BY <1>5
    <3>2. PICK a \in Nat, b \in Nat, c \in Nat, d \in Nat :
             /\ a = freePkts[n] /\ b = Len(pktout[n]) /\ c = Len(pktin[n])
             /\ d = Cardinality(PolledBy(packets[n]))
      BY <2>1
    <3>3. /\ freePkts'[n] = a - 1 /\ Len(pktout'[n]) = b /\ Len(pktin'[n]) = c + 1
          /\ Cardinality(PolledBy(packets'[n])) = d
      BY <2>2, <2>3, <3>1, <3>2
    <3>4. (a - 1) + b + (c + 1) + d = a + b + c + d
      BY Balance
    <3>5. freePkts'[n] + Len(pktout'[n]) + Len(pktin'[n]) + Cardinality(PolledBy(packets'[n]))
            = (a - 1) + b + (c + 1) + d
      BY <3>3
    <3>6. freePkts[n] + Len(pktout[n]) + Len(pktin[n]) + Cardinality(PolledBy(packets[n]))
            = a + b + c + d
      BY <3>2
    <3> QED BY <3>4, <3>5, <3>6
  <2>5. \A d \in Nodes : d # n => /\ freePkts'[d] = freePkts[d] /\ pktout'[d] = pktout[d]
                                  /\ pktin'[d] = pktin[d] /\ packets'[d] = packets[d]
    BY <1>3, <1>5, <1>6
  <2> QED BY <1>1, <2>4, <2>5, PktsKept
<1>9. Finite' /\ MsgsOK'
  BY <1>1, <1>3, MsgsStay
<1>10. UNCHANGED used /\ used \subseteq used' /\ used \subseteq Ids
  BY <1>1, <1>3 DEF NetTypes
<1>11. \A d, e : <<d, e>> \in wire' <=> <<d, e>> \in wire /\ ~(d = n /\ e = f)
  BY <1>3
<1>12. \A x : (OutHas(x)' <=> OutHas(x)) /\ (CoreHas(x)' <=> CoreHas(x))
  BY <1>3, UnderWayKept
<1>13. \A x : InHas(x)' <=> InHas(x) \/ (x.receiver = n /\ x = f.data)
  <2>1. \A x : InSeq(Append(pktin[n], f), x) <=> InSeq(pktin[n], x) \/ x = f.data
    BY <1>4, InAppend
  <2>2. \A x : InHas(x)' <=> \E d \in Nodes : x.receiver = d /\ InSeq(pktin'[d], x)
    BY DEF InHas, InSeq
  <2> QED BY <1>6, <2>1, <2>2 DEF InHas
<1>14. \E loc2 : Located(loc2)' /\ SameUnderWay
  <2>1. CASE f \in Meant(n)
    <3>1. PICK loc2 : loc2 = Placed(loc, f.data.id, <<"in", n>>)
      OBVIOUS
    <3>2. f.data.id \in used /\ loc[f.data.id] = <<"wire", n>>
      BY <1>2, <1>3, <2>1 DEF Located, WireAt
    <3>3. loc2[f.data.id] = <<"in", n>> /\ \A j \in used : j # f.data.id => loc2[j] = loc[j]
      BY <1>10, <3>1, <3>2 DEF Placed
    <3>4. \A kind : kind # "wire" => Stays(loc, loc2, kind)
      BY <1>10, <3>1, <3>2, PlacedStays
    <3>5. HeldAt(loc2)' /\ InboxAt(loc2)'
      BY <1>2, <1>3, <3>4, AppsStay
    <3>6. OutAt(loc2)' /\ CoreAt(loc2)'
      BY <1>2, <1>3, <1>10, <3>4, OutStays, CoreStays DEF Located
    <3>7. WireAt(loc2)'
      BY <1>2, <1>3, <1>10, <2>1, <3>3, WireLeaves DEF Located
    <3>8. InAt(loc2)'
      <4>1. loc[f.data.id][1] # "in" /\ Stays(loc, loc2, "in")
        BY <3>2, <3>4
      <4> QED BY <1>1, <1>2, <1>4, <1>6, <1>10, <3>2, <3>3, <4>1, InGains DEF Located
    <3>9. SameUnderWay
      <4>1. f.data.receiver = n
        BY <2>1 DEF Meant
      <4>2. WireHas(f.data) /\ InHas(f.data)'
        BY <1>3, <1>4, <1>13, <4>1 DEF WireHas
      <4>3. \A x : x # f.data => (WireHas(x)' <=> WireHas(x))
        BY <1>11 DEF WireHas
      <4> QED BY <1>12, <1>13, <4>2, <4>3 DEF SameUnderWay, UnderWay
    <3> QED BY <3>5, <3>6, <3>7, <3>8, <3>9 DEF Located
  <2>2. CASE f \notin Meant(n)
    <3>1. f.data.receiver # n
      BY <1>4, <2>2 DEF Meant
    <3>2. \A kind : Stays(loc, loc, kind)
      BY DEF Stays
    <3>3. HeldAt(loc)' /\ InboxAt(loc)'
      BY <1>2, <1>3, <3>2, AppsStay
    <3>4. OutAt(loc)' /\ CoreAt(loc)'
      BY <1>2, <1>3, <1>10, <3>2, OutStays, CoreStays DEF Located
    <3>5. WireAt(loc)'
      <4>1. \A d \in Nodes : \A g \in Meant(d) : <<d, g>> \in wire' => <<d, g>> \in wire
        BY <1>11
      <4> QED BY <1>2, <1>10, <3>2, <4>1, WireStays DEF Located
    <3>6. InAt(loc)'
      BY <1>1, <1>2, <1>4, <1>6, <1>10, <2>2, <3>2, InGains DEF Located
    <3>7. SameUnderWay
      <4>1. \A x : WireHas(x)' <=> WireHas(x)
        BY <1>11, <3>1 DEF WireHas
      <4> QED BY <1>12, <1>13, <3>1, <4>1 DEF SameUnderWay, UnderWay
    <3> QED BY <3>3, <3>4, <3>5, <3>6, <3>7 DEF Located
  <2> QED BY <2>1, <2>2
<1>15. UNCHANGED Transfer!tvars \/ \E x \in Messages : Transfer!Lose(x)
  BY <1>1, <1>2, <1>3, <1>7, <1>14, Settles
<1> QED BY <1>7, <1>8, <1>9, <1>14, <1>15 DEF NetworkInv
-----------------------------------------------------------------------------
LEMMA MinTwo ==
    ASSUME NEW a \in Nat, NEW b \in Nat
    PROVE  Min({a, b}) \in {a, b} /\ Min({a, b}) <= a /\ Min({a, b}) <= b
<1>1. \E x \in {a, b} : \A y \in {a, b} : x <= y
  <2>1. CASE a <= b
    BY <2>1
  <2>2. CASE b <= a
    BY <2>2
  <2> QED BY <2>1, <2>2
<1> QED BY <1>1 DEF Min

(* The burst of core c of node n becomes q. *)
LEMMA PacketsChange ==
    ASSUME NetTypes, NEW n \in Nodes, NEW c \in Cores, NEW q \in Seq(Frames), Len(q) <= MaxRxBurst,
           packets' = [packets EXCEPT ![n][c] = q]
    PROVE  /\ packets' \in [Nodes -> [Cores -> Seq(Frames)]]
           /\ \A d \in Nodes, e \in Cores : Len(packets'[d][e]) <= MaxRxBurst
           /\ \A d \in Nodes : d # n => packets'[d] = packets[d]
           /\ \A d \in Nodes, e \in Cores :
                 packets'[d][e] = IF d = n /\ e = c THEN q ELSE packets[d][e]
           /\ Cardinality(PolledBy(packets'[n]))
                 = Cardinality(PolledBy(packets[n])) - Len(packets[n][c]) + Len(q)
<1>1. /\ packets \in [Nodes -> [Cores -> Seq(Frames)]]
      /\ \A d \in Nodes, e \in Cores : Len(packets[d][e]) <= MaxRxBurst
  BY DEF NetTypes
<1>2. packets[n] \in Arrays
  BY PktNumbers
<1>3. PICK b : b = [packets[n] EXCEPT ![c] = q]
  OBVIOUS
<1>4. packets' = [packets EXCEPT ![n] = b]
  BY <1>3
<1>5. b \in Arrays /\ Cardinality(PolledBy(b))
                         = Cardinality(PolledBy(packets[n])) - Len(packets[n][c]) + Len(q)
  BY <1>2, <1>3, PolledChange
<1>6. b[c] = q /\ \A e \in Cores : e # c => b[e] = packets[n][e]
  BY <1>1, <1>3
<1>7. packets'[n] = b /\ \A d \in Nodes : d # n => packets'[d] = packets[d]
  BY <1>1, <1>4
<1>8. b \in [Cores -> Seq(Frames)] /\ \A e \in Cores : Len(b[e]) <= MaxRxBurst
  BY <1>5 DEF Arrays
<1>9. packets' \in [Nodes -> [Cores -> Seq(Frames)]]
  BY <1>1, <1>4, <1>8
<1>10. \A d \in Nodes, e \in Cores : Len(packets'[d][e]) <= MaxRxBurst
  BY <1>1, <1>7, <1>8
<1>11. \A d \in Nodes, e \in Cores :
          packets'[d][e] = IF d = n /\ e = c THEN q ELSE packets[d][e]
  <2> SUFFICES ASSUME NEW d \in Nodes, NEW e \in Cores
               PROVE  packets'[d][e] = IF d = n /\ e = c THEN q ELSE packets[d][e]
    OBVIOUS
  <2>1. CASE d # n
    BY <1>7, <2>1
  <2>2. CASE d = n
    <3>1. packets'[d][e] = b[e]
      BY <1>7, <2>2
    <3>2. CASE e = c
      BY <1>6, <2>2, <3>1, <3>2
    <3>3. CASE e # c
      BY <1>6, <2>2, <3>1, <3>3
    <3> QED BY <3>2, <3>3
  <2> QED BY <2>1, <2>2
<1> QED BY <1>5, <1>7, <1>9, <1>10, <1>11

LEMMA PollReceiveKeeps ==
    ASSUME NetworkInv, NEW n \in Nodes, NEW c \in Cores, PollReceive(n, c)
    PROVE  NetworkInv' /\ UNCHANGED Transfer!tvars
<1>1. NetTypes /\ Finite /\ MsgsOK /\ PktsOK
  BY DEF NetworkInv
<1>2. PICK loc : Located(loc)
  BY DEF NetworkInv
<1>3. PICK s : s = pktin[n]
  OBVIOUS
<1>4. PICK k : k = Min({MaxRxBurst, Len(s)})
  OBVIOUS
<1>5. PICK q : q = SubSeq(s, 1, k)
  OBVIOUS
<1>6. PICK t : t = SubSeq(s, k + 1, Len(s))
  OBVIOUS
<1>7. /\ packets[n][c] = << >>
      /\ packets' = [packets EXCEPT ![n][c] = q]
      /\ pktin' = [pktin EXCEPT ![n] = t]
      /\ UNCHANGED <<used, held, inbox, freeMsgs, freePkts, pktout, wire, noise>>
  BY <1>3, <1>4, <1>5, <1>6 DEF PollReceive
<1>8. s \in Seq(Frames) /\ Len(s) \in Nat /\ MaxRxBurst \in Nat
  BY <1>1, <1>3, NetworkAssumption DEF NetTypes
<1>9. k \in 0 .. Len(s) /\ k <= MaxRxBurst /\ k \in Nat
  <2>1. k \in {MaxRxBurst, Len(s)} /\ k <= MaxRxBurst /\ k <= Len(s)
    BY <1>4, <1>8, MinTwo
  <2> QED BY <1>8, <2>1
<1>10. /\ q \in Seq(Frames) /\ t \in Seq(Frames) /\ Len(q) = k /\ Len(t) = Len(s) - k
       /\ \A j \in 1 .. Len(q) : j + 0 \in 1 .. Len(s) /\ q[j] = s[j + 0]
       /\ \A j \in 1 .. Len(t) : j + k \in 1 .. Len(s) /\ t[j] = s[j + k]
       /\ \A m : InSeq(s, m) <=> InSeq(q, m) \/ InSeq(t, m)
  <2>1. k \in Nat /\ k <= Len(s) /\ s \in Seq(Frames)
    BY <1>8, <1>9
  <2>2. IsCut(Frames, s, k, q, t)
    BY <1>5, <1>6, <2>1, Cut
  <2> QED BY <2>2 DEF IsCut
<1>11. /\ packets' \in [Nodes -> [Cores -> Seq(Frames)]]
       /\ \A d \in Nodes, e \in Cores : Len(packets'[d][e]) <= MaxRxBurst
       /\ \A d \in Nodes : d # n => packets'[d] = packets[d]
       /\ \A d \in Nodes, e \in Cores :
             packets'[d][e] = IF d = n /\ e = c THEN q ELSE packets[d][e]
       /\ Cardinality(PolledBy(packets'[n]))
             = Cardinality(PolledBy(packets[n])) - Len(packets[n][c]) + Len(q)
  <2>1. q \in Seq(Frames) /\ Len(q) <= MaxRxBurst
    BY <1>9, <1>10
  <2>2. packets' = [packets EXCEPT ![n][c] = q]
    BY <1>7
  <2> QED BY <1>1, <2>1, <2>2, PacketsChange
<1>12. /\ pktin' \in [Nodes -> Seq(Frames)]
       /\ \A d \in Nodes : pktin'[d] = IF d = n THEN t ELSE pktin[d]
  BY <1>1, <1>7, <1>10 DEF NetTypes
<1>13. NetTypes'
  BY <1>1, <1>7, <1>11, <1>12 DEF NetTypes
<1>14. PktsOK'
  <2>1. /\ freePkts[n] \in Nat /\ Len(pktout[n]) \in Nat
        /\ Cardinality(PolledBy(packets[n])) \in Nat
    BY <1>1, PktNumbers
  <2>2. /\ freePkts'[n] = freePkts[n] /\ pktout'[n] = pktout[n] /\ pktin'[n] = t
        /\ Len(packets[n][c]) = 0
    BY <1>7, <1>12
  <2>3. PICK a \in Nat, b \in Nat, l \in Nat, d \in Nat :
           /\ a = freePkts[n] /\ b = Len(pktout[n]) /\ l = Len(s)
           /\ d = Cardinality(PolledBy(packets[n]))
    BY <1>8, <2>1
  <2>4. /\ freePkts'[n] = a /\ Len(pktout'[n]) = b /\ Len(pktin'[n]) = l - k
        /\ Cardinality(PolledBy(packets'[n])) = d - 0 + k
    BY <1>10, <1>11, <2>2, <2>3
  <2>5. a + b + (l - k) + (d - 0 + k) = a + b + l + d
    BY <1>9, Balance
  <2>6. freePkts'[n] + Len(pktout'[n]) + Len(pktin'[n]) + Cardinality(PolledBy(packets'[n]))
           = a + b + (l - k) + (d - 0 + k)
    BY <2>4
  <2>7. freePkts[n] + Len(pktout[n]) + Len(pktin[n]) + Cardinality(PolledBy(packets[n]))
           = a + b + l + d
    BY <1>3, <2>3
  <2>8. \A m \in Nodes : m # n => /\ freePkts'[m] = freePkts[m] /\ pktout'[m] = pktout[m]
                                  /\ pktin'[m] = pktin[m] /\ packets'[m] = packets[m]
    BY <1>7, <1>11, <1>12
  <2> QED BY <1>1, <2>5, <2>6, <2>7, <2>8, PktsKept
<1>15. Finite' /\ MsgsOK'
  BY <1>1, <1>7, MsgsStay
<1>16. UNCHANGED used /\ used \subseteq used' /\ used \subseteq Ids
  BY <1>1, <1>7 DEF NetTypes
<1>17. SeqAt(s, Meant(n), used, loc, <<"in", n>>)
  BY <1>2, <1>3 DEF Located, InAt
<1> DEFINE Taken == {i \in used : \E j \in 1 .. Len(q) : q[j] \in Meant(n) /\ q[j].data.id = i}
<1>18. PICK loc2 : loc2 = [i \in Ids |-> IF i \in Taken THEN <<"core", n, c>> ELSE loc[i]]
  OBVIOUS
<1>19. \A i \in Taken : loc[i] = <<"in", n>> /\ loc2[i] = <<"core", n, c>>
  <2> SUFFICES ASSUME NEW i \in Taken PROVE loc[i] = <<"in", n>> /\ loc2[i] = <<"core", n, c>>
    OBVIOUS
  <2>1. PICK j \in 1 .. Len(q) : q[j] \in Meant(n) /\ q[j].data.id = i
    OBVIOUS
  <2>2. j + 0 \in 1 .. Len(s) /\ s[j + 0] = q[j]
    BY <1>10
  <2>3. loc[i] = <<"in", n>>
    BY <1>17, <2>1, <2>2 DEF SeqAt
  <2> QED BY <1>16, <1>18, <2>3
<1>20. \A i \in used : i \notin Taken => loc2[i] = loc[i]
  BY <1>16, <1>18
<1>21. \A kind : kind # "in" => Stays(loc, loc2, kind)
  <2> SUFFICES ASSUME NEW kind, kind # "in", NEW i \in used, loc[i][1] = kind PROVE loc2[i] = loc[i]
    BY DEF Stays
  <2>1. i \notin Taken
    BY <1>19
  <2> QED BY <1>20, <2>1
<1>22. InAt(loc2)'
  <2> SUFFICES ASSUME NEW d \in Nodes PROVE SeqAt(pktin'[d], Meant(d), used, loc2, <<"in", d>>)
    BY <1>16 DEF InAt
  <2>1. CASE d = n
    <3>1. ASSUME NEW j \in 1 .. Len(t), t[j] \in Meant(n) PROVE loc2[t[j].data.id] = <<"in", n>>
      <4>1. j + k \in 1 .. Len(s) /\ t[j] = s[j + k]
        BY <1>10
      <4>2. /\ t[j].data.id \in used /\ loc[t[j].data.id] = <<"in", n>>
            /\ \A l \in 1 .. Len(s) : s[l] \in Meant(n) /\ s[l].data.id = t[j].data.id => l = j + k
        BY <1>17, <3>1, <4>1 DEF SeqAt
      <4>3. t[j].data.id \notin Taken
        <5> SUFFICES ASSUME NEW l \in 1 .. Len(q), q[l] \in Meant(n), q[l].data.id = t[j].data.id
                     PROVE  FALSE
          OBVIOUS
        <5>1. l + 0 \in 1 .. Len(s) /\ s[l + 0] = q[l]
          BY <1>10
        <5>2. l + 0 = j + k
          BY <4>2, <5>1
        <5>3. l \in Nat /\ j \in Nat /\ l <= k /\ j >= 1
          BY <1>9, <1>10
        <5> QED BY <1>9, <5>2, <5>3
      <4> QED BY <1>20, <4>2, <4>3
    <3>2. SeqAt(t, Meant(n), used, loc2, <<"in", n>>)
      <4>1. s \in Seq(Frames) /\ t \in Seq(Frames) /\ k \in Nat
        BY <1>8, <1>9, <1>10
      <4>2. \A j \in 1 .. Len(t) : j + k \in 1 .. Len(s) /\ t[j] = s[j + k]
        BY <1>10
      <4>3. \A j \in 1 .. Len(t) : t[j] \in Meant(n) => loc2[t[j].data.id] = <<"in", n>>
        BY <3>1
      <4> QED BY ZenonT(40), <1>17, <4>1, <4>2, <4>3, SeqPiece
    <3> QED BY <1>12, <2>1, <3>2
  <2>2. CASE d # n
    <3>1. \A i \in used : loc[i] = <<"in", d>> => loc2[i] = <<"in", d>>
      BY <1>19, <1>20, <2>2
    <3>2. SeqAt(pktin[d], Meant(d), used, loc, <<"in", d>>)
      BY <1>2 DEF Located, InAt
    <3>3. SeqAt(pktin[d], Meant(d), used, loc2, <<"in", d>>)
      BY <3>1, <3>2, SeqStays
    <3> QED BY <1>12, <2>2, <3>3
  <2> QED BY <2>1, <2>2
<1>23. CoreAt(loc2)'
  <2> SUFFICES ASSUME NEW d \in Nodes, NEW e \in Cores
               PROVE  SeqAt(packets'[d][e], Meant(d), used, loc2, <<"core", d, e>>)
    BY <1>16 DEF CoreAt
  <2>1. CASE d = n /\ e = c
    <3>1. ASSUME NEW j \in 1 .. Len(q), q[j] \in Meant(n)
          PROVE  loc2[q[j].data.id] = <<"core", n, c>>
      <4>1. j + 0 \in 1 .. Len(s) /\ s[j + 0] = q[j]
        BY <1>10
      <4>2. q[j].data.id \in used
        BY <1>17, <3>1, <4>1 DEF SeqAt
      <4> QED BY <1>19, <3>1, <4>2
    <3>2. PICK z \in Nat : z = 0
      OBVIOUS
    <3>3. \A j \in 1 .. Len(q) : j + z \in 1 .. Len(s) /\ q[j] = s[j + z]
      BY <1>10, <3>2
    <3>4. SeqAt(q, Meant(n), used, loc2, <<"core", n, c>>)
      <4>1. s \in Seq(Frames) /\ q \in Seq(Frames)
        BY <1>8, <1>10
      <4>2. \A j \in 1 .. Len(q) : q[j] \in Meant(n) => loc2[q[j].data.id] = <<"core", n, c>>
        BY <3>1
      <4> QED BY ZenonT(40), <1>17, <3>3, <4>1, <4>2, SeqPiece
    <3> QED BY <1>11, <2>1, <3>4
  <2>2. CASE ~(d = n /\ e = c)
    <3>1. \A i \in used : loc[i] = <<"core", d, e>> => loc2[i] = <<"core", d, e>>
      BY <1>19, <1>20
    <3>2. SeqAt(packets[d][e], Meant(d), used, loc, <<"core", d, e>>)
      BY <1>2 DEF Located, CoreAt
    <3>3. SeqAt(packets[d][e], Meant(d), used, loc2, <<"core", d, e>>)
      BY <3>1, <3>2, SeqStays
    <3> QED BY <1>11, <2>2, <3>3
  <2> QED BY <2>1, <2>2
<1>24. Located(loc2)'
  <2>1. HeldAt(loc2)' /\ InboxAt(loc2)'
    BY <1>2, <1>7, <1>21, AppsStay
  <2>2. OutAt(loc2)'
    BY <1>2, <1>7, <1>16, <1>21, OutStays DEF Located
  <2>3. WireAt(loc2)'
    <3>1. \A d \in Nodes : \A g \in Meant(d) : <<d, g>> \in wire' => <<d, g>> \in wire
      BY <1>7
    <3> QED BY <1>2, <1>16, <1>21, <3>1, WireStays DEF Located
  <2> QED BY <1>22, <1>23, <2>1, <2>2, <2>3 DEF Located
<1>25. SameUnderWay
  <2>1. \A x : (OutHas(x)' <=> OutHas(x)) /\ (WireHas(x)' <=> WireHas(x))
    BY <1>7, UnderWayKept
  <2>2. \A x : InHas(x)' <=> \E d \in Nodes : x.receiver = d /\ InSeq(pktin'[d], x)
    BY DEF InHas, InSeq
  <2>3. \A x : CoreHas(x)' <=> \E d \in Nodes, e \in Cores : x.receiver = d /\ InSeq(packets'[d][e], x)
    BY DEF CoreHas, InSeq
  <2>4. ASSUME NEW x PROVE InHas(x)' \/ CoreHas(x)' <=> InHas(x) \/ CoreHas(x)
    <3>1. ASSUME NEW d \in Nodes
          PROVE  (InSeq(pktin'[d], x) \/ \E e \in Cores : InSeq(packets'[d][e], x))
                    <=> (InSeq(pktin[d], x) \/ \E e \in Cores : InSeq(packets[d][e], x))
      <4>1. CASE d = n
        <5>1. InSeq(pktin[n], x) <=> InSeq(q, x) \/ InSeq(pktin'[n], x)
          BY <1>3, <1>10, <1>12
        <5>2. ~InSeq(packets[n][c], x)
          BY <1>7, InNone
        <5>3. \A e \in Cores : InSeq(packets'[n][e], x) <=> IF e = c THEN InSeq(q, x)
                                                           ELSE InSeq(packets[n][e], x)
          BY <1>11
        <5> QED BY <4>1, <5>1, <5>2, <5>3
      <4>2. CASE d # n
        BY <1>11, <1>12, <4>2
      <4> QED BY <4>1, <4>2
    <3> QED BY <2>2, <2>3, <3>1 DEF InHas, CoreHas
  <2> QED BY <2>1, <2>4 DEF SameUnderWay, UnderWay
<1>26. UNCHANGED Transfer!tvars
  <2>1. InTransit' = InTransit
    BY <1>1, <1>13, <1>25, TransitNext
  <2> QED BY <1>7, <2>1 DEF Transfer!tvars
<1> QED BY <1>13, <1>14, <1>15, <1>24, <1>26 DEF NetworkInv
-----------------------------------------------------------------------------
(* The core is done with the packet f of its burst. *)
Done(n, c, f) ==
    /\ f \in Frames /\ packets[n][c] # << >>
    /\ freePkts' \in [Nodes -> Nat]
    /\ packets' \in [Nodes -> [Cores -> Seq(Frames)]]
    /\ \A d \in Nodes, e \in Cores : Len(packets'[d][e]) <= MaxRxBurst
    /\ \A d \in Nodes, e \in Cores :
          packets'[d][e] = IF d = n /\ e = c THEN Tail(packets[n][c]) ELSE packets[d][e]
    /\ PktsOK'
    /\ \A x : CoreHas(x) <=> CoreHas(x)' \/ (x.receiver = n /\ x = f.data)
    /\ f \in Meant(n) => \A loc : Located(loc) =>
          f.data.id \in used /\ loc[f.data.id] = <<"core", n, c>>

LEMMA PacketDone ==
    ASSUME NetworkInv, NEW n \in Nodes, NEW c \in Cores, NEW f, f = Head(packets[n][c]),
           FreePacket(n, c), UNCHANGED <<used, held, pktout, wire, pktin, noise>>
    PROVE  Done(n, c, f)
<1>1. NetTypes /\ PktsOK
  BY DEF NetworkInv
<1>2. PICK s : s = packets[n][c]
  OBVIOUS
<1>3. PICK q : q = Tail(s)
  OBVIOUS
<1>4. /\ s # << >>
      /\ packets' = [packets EXCEPT ![n][c] = q]
      /\ freePkts' = [freePkts EXCEPT ![n] = @ + 1]
  BY <1>2, <1>3 DEF FreePacket
<1>5. s \in Seq(Frames) /\ Len(s) \in Nat /\ Len(s) <= MaxRxBurst /\ MaxRxBurst \in Nat
  BY <1>1, <1>2, NetworkAssumption DEF NetTypes
<1>6. /\ q \in Seq(Frames) /\ Len(q) = Len(s) - 1 /\ f \in Frames /\ Len(s) >= 1
      /\ 1 \in 1 .. Len(s) /\ f = s[1]
  BY <1>2, <1>3, <1>4, <1>5
<1>7. Len(q) <= MaxRxBurst
  BY <1>5, <1>6
<1>8. /\ packets' \in [Nodes -> [Cores -> Seq(Frames)]]
      /\ \A d \in Nodes, e \in Cores : Len(packets'[d][e]) <= MaxRxBurst
      /\ \A d \in Nodes : d # n => packets'[d] = packets[d]
      /\ \A d \in Nodes, e \in Cores :
            packets'[d][e] = IF d = n /\ e = c THEN q ELSE packets[d][e]
      /\ Cardinality(PolledBy(packets'[n]))
            = Cardinality(PolledBy(packets[n])) - Len(packets[n][c]) + Len(q)
  BY ZenonT(40), <1>1, <1>4, <1>6, <1>7, PacketsChange
<1>9. /\ freePkts' \in [Nodes -> Nat] /\ freePkts'[n] = freePkts[n] + 1
      /\ \A d \in Nodes : d # n => freePkts'[d] = freePkts[d]
  BY <1>1, <1>4, FreePktsChange
<1>10. PktsOK'
  <2>1. /\ freePkts[n] \in Nat /\ Len(pktout[n]) \in Nat /\ Len(pktin[n]) \in Nat
        /\ Cardinality(PolledBy(packets[n])) \in Nat
    BY <1>1, PktNumbers
  <2>2. pktout'[n] = pktout[n] /\ pktin'[n] = pktin[n] /\ freePkts'[n] = freePkts[n] + 1
    BY <1>9
  <2>3. PICK a \in Nat, b \in Nat, l \in Nat, d \in Nat, k \in Nat :
           /\ a = freePkts[n] /\ b = Len(pktout[n]) /\ l = Len(pktin[n])
           /\ d = Cardinality(PolledBy(packets[n])) /\ k = Len(s)
    BY <1>5, <2>1
  <2>4. /\ freePkts'[n] = a + 1 /\ Len(pktout'[n]) = b /\ Len(pktin'[n]) = l
        /\ Cardinality(PolledBy(packets'[n])) = d - k + (k - 1)
    BY <1>2, <1>6, <1>8, <2>2, <2>3
  <2>5. (a + 1) + b + l + (d - k + (k - 1)) = a + b + l + d
    BY Balance
  <2>6. freePkts'[n] + Len(pktout'[n]) + Len(pktin'[n]) + Cardinality(PolledBy(packets'[n]))
           = (a + 1) + b + l + (d - k + (k - 1))
    BY <2>4
  <2>7. freePkts[n] + Len(pktout[n]) + Len(pktin[n]) + Cardinality(PolledBy(packets[n]))
           = a + b + l + d
    BY <2>3
  <2>8. \A m \in Nodes : m # n => /\ freePkts'[m] = freePkts[m] /\ pktout'[m] = pktout[m]
                                  /\ pktin'[m] = pktin[m] /\ packets'[m] = packets[m]
    BY <1>8, <1>9
  <2> QED BY <1>1, <2>5, <2>6, <2>7, <2>8, PktsKept
<1>11. \A x : CoreHas(x) <=> CoreHas(x)' \/ (x.receiver = n /\ x = f.data)
  <2>1. \A x : InSeq(s, x) <=> InSeq(q, x) \/ x = f.data
    BY <1>2, <1>3, <1>4, <1>5, InTail
  <2>2. \A x : CoreHas(x)' <=> \E d \in Nodes, e \in Cores : x.receiver = d /\ InSeq(packets'[d][e], x)
    BY DEF CoreHas, InSeq
  <2>3. ASSUME NEW x, NEW d \in Nodes, NEW e \in Cores
        PROVE  InSeq(packets[d][e], x) <=> \/ InSeq(packets'[d][e], x)
                                           \/ d = n /\ e = c /\ x = f.data
    <3>1. CASE d = n /\ e = c
      BY <1>2, <1>8, <2>1, <3>1
    <3>2. CASE ~(d = n /\ e = c)
      <4>1. packets'[d][e] = packets[d][e]
        BY <1>8, <3>2
      <4> QED BY <3>2, <4>1
    <3> QED BY <3>1, <3>2
  <2> QED BY <2>2, <2>3 DEF CoreHas
<1>12. ASSUME f \in Meant(n), NEW loc, Located(loc)
       PROVE  f.data.id \in used /\ loc[f.data.id] = <<"core", n, c>>
  <2>1. SeqAt(s, Meant(n), used, loc, <<"core", n, c>>)
    BY <1>2, <1>12 DEF Located, CoreAt
  <2> QED BY <1>6, <1>12, <2>1 DEF SeqAt
<1>13. \A d \in Nodes, e \in Cores :
          packets'[d][e] = IF d = n /\ e = c THEN Tail(packets[n][c]) ELSE packets[d][e]
  BY <1>2, <1>3, <1>8
<1>14. packets[n][c] # << >>
  BY <1>2, <1>4
<1> QED BY <1>6, <1>8, <1>9, <1>10, <1>11, <1>12, <1>13, <1>14 DEF Done

(* The message of the packet, if there is one, is destroyed. *)
LEMMA PollDestroysKeeps ==
    ASSUME NetworkInv, NEW n \in Nodes, NEW c \in Cores, FreePacket(n, c),
           UNCHANGED <<used, held, inbox, freeMsgs, pktout, wire, pktin, noise>>
    PROVE  NetworkInv' /\ (UNCHANGED Transfer!tvars \/ \E m \in Messages : Transfer!Lose(m))
<1>1. NetTypes /\ Finite /\ MsgsOK /\ PktsOK
  BY DEF NetworkInv
<1>2. PICK loc : Located(loc)
  BY DEF NetworkInv
<1>3. PICK f : f = Head(packets[n][c])
  OBVIOUS
<1>4. /\ f \in Frames /\ packets[n][c] # << >>
      /\ freePkts' \in [Nodes -> Nat]
      /\ packets' \in [Nodes -> [Cores -> Seq(Frames)]]
      /\ \A d \in Nodes, e \in Cores : Len(packets'[d][e]) <= MaxRxBurst
      /\ \A d \in Nodes, e \in Cores :
            packets'[d][e] = IF d = n /\ e = c THEN Tail(packets[n][c]) ELSE packets[d][e]
      /\ PktsOK'
      /\ \A x : CoreHas(x) <=> CoreHas(x)' \/ (x.receiver = n /\ x = f.data)
      /\ f \in Meant(n) => \A l : Located(l) =>
            f.data.id \in used /\ l[f.data.id] = <<"core", n, c>>
  <2>1. Done(n, c, f)
    BY <1>3, PacketDone
  <2> QED BY <2>1 DEF Done
<1>5. NetTypes'
  BY <1>1, <1>4 DEF NetTypes
<1>6. Finite' /\ MsgsOK'
  BY <1>1, MsgsStay
<1>7. UNCHANGED used /\ used \subseteq used' /\ used \subseteq Ids
  BY <1>1 DEF NetTypes
<1>8. \A x : (OutHas(x)' <=> OutHas(x)) /\ (InHas(x)' <=> InHas(x)) /\ (WireHas(x)' <=> WireHas(x))
  BY UnderWayKept
<1>9. PICK loc2 : loc2 = IF f \in Meant(n) THEN Placed(loc, f.data.id, <<"gone", n>>) ELSE loc
  OBVIOUS
<1>10. \A kind : kind # "core" => Stays(loc, loc2, kind)
  <2>1. CASE f \in Meant(n)
    <3>1. loc[f.data.id] = <<"core", n, c>>
      BY <1>2, <1>4, <2>1
    <3>2. loc[f.data.id][1] = "core"
      BY <3>1
    <3> QED BY <1>7, <1>9, <2>1, <3>2, PlacedStays
  <2>2. CASE f \notin Meant(n)
    BY <1>9, <2>2 DEF Stays
  <2> QED BY <2>1, <2>2
<1>11. \A j \in used : (f \in Meant(n) => j # f.data.id) => loc2[j] = loc[j]
  BY <1>7, <1>9 DEF Placed
<1>12. Located(loc2)'
  <2>1. HeldAt(loc2)' /\ InboxAt(loc2)'
    BY <1>2, <1>10, AppsStay
  <2>2. OutAt(loc2)' /\ InAt(loc2)'
    BY <1>2, <1>7, <1>10, OutStays, InStays DEF Located
  <2>3. WireAt(loc2)'
    <3>1. \A d \in Nodes : \A g \in Meant(d) : <<d, g>> \in wire' => <<d, g>> \in wire
      OBVIOUS
    <3> QED BY <1>2, <1>7, <1>10, <3>1, WireStays DEF Located
  <2>4. CoreAt(loc2)'
    BY <1>1, <1>2, <1>3, <1>4, <1>7, <1>11, CoreLeaves DEF Located
  <2> QED BY <2>1, <2>2, <2>3, <2>4 DEF Located
<1>13. SameUnderWay \/ LeavesUnderWay(f.data)
  <2>1. CASE f \in Meant(n)
    <3>1. loc2[f.data.id] = <<"gone", n>>
      BY <1>2, <1>4, <1>7, <1>9, <2>1 DEF Placed
    <3>2. loc2[f.data.id][1] \in {"held", "inbox", "gone"}
      BY <3>1
    <3>3. ~UnderWay(f.data)'
      BY <1>5, <1>12, <3>2, NotUnderWayNext
    <3>4. f.data.receiver = n
      BY <2>1 DEF Meant
    <3>5. CoreHas(f.data) /\ \A x : x # f.data => (CoreHas(x)' <=> CoreHas(x))
      BY <1>4, <3>4
    <3> QED BY <1>8, <3>3, <3>5 DEF LeavesUnderWay, UnderWay
  <2>2. CASE f \notin Meant(n)
    <3>1. f.data.receiver # n
      BY <1>4, <2>2 DEF Meant
    <3>2. \A x : CoreHas(x)' <=> CoreHas(x)
      BY <1>4, <3>1
    <3> QED BY <1>8, <3>2 DEF SameUnderWay, UnderWay
  <2> QED BY <2>1, <2>2
<1>14. UNCHANGED Transfer!tvars \/ \E x \in Messages : Transfer!Lose(x)
  BY <1>1, <1>2, <1>5, <1>13, Settles
<1> QED BY <1>4, <1>5, <1>6, <1>12, <1>14 DEF NetworkInv

(* The message of the packet is accepted by the router of its node. *)
LEMMA PollDeliversKeeps ==
    ASSUME NetworkInv, NEW n \in Nodes, NEW c \in Cores, FreePacket(n, c),
           NEW f, f = Head(packets[n][c]), f.data.receiver = n,
           freeMsgs[n] > 0, freeMsgs' = [freeMsgs EXCEPT ![n] = @ - 1],
           inbox' = [inbox EXCEPT ![n] = @ \cup {f.data}],
           UNCHANGED <<used, held, pktout, wire, pktin, noise>>
    PROVE  NetworkInv' /\ f.data \in Messages /\ Transfer!Deliver(f.data)
<1>1. NetTypes /\ Finite /\ MsgsOK /\ PktsOK
  BY DEF NetworkInv
<1>2. PICK loc : Located(loc)
  BY DEF NetworkInv
<1>4. /\ f \in Frames /\ packets[n][c] # << >>
      /\ freePkts' \in [Nodes -> Nat]
      /\ packets' \in [Nodes -> [Cores -> Seq(Frames)]]
      /\ \A d \in Nodes, e \in Cores : Len(packets'[d][e]) <= MaxRxBurst
      /\ \A d \in Nodes, e \in Cores :
            packets'[d][e] = IF d = n /\ e = c THEN Tail(packets[n][c]) ELSE packets[d][e]
      /\ PktsOK'
      /\ \A x : CoreHas(x) <=> CoreHas(x)' \/ (x.receiver = n /\ x = f.data)
      /\ f \in Meant(n) => \A l : Located(l) =>
            f.data.id \in used /\ l[f.data.id] = <<"core", n, c>>
  <2>1. Done(n, c, f)
    BY PacketDone
  <2> QED BY <2>1 DEF Done
<1>5. f \in Meant(n) /\ f.data \in Messages
  BY <1>4, FrameFacts DEF Meant
<1>6. f.data.id \in used /\ loc[f.data.id] = <<"core", n, c>>
  BY <1>2, <1>4, <1>5
<1>7. UNCHANGED used /\ used \subseteq used' /\ used \subseteq Ids
  BY <1>1 DEF NetTypes
<1>8. /\ inbox' \in [Nodes -> SUBSET Messages]
      /\ \A d \in Nodes : inbox'[d] = IF d = n THEN inbox[n] \cup {f.data} ELSE inbox[d]
  BY <1>1, <1>5 DEF NetTypes
<1>9. /\ freeMsgs' \in [Nodes -> Nat] /\ freeMsgs'[n] = freeMsgs[n] - 1
      /\ \A d \in Nodes : d # n => freeMsgs'[d] = freeMsgs[d]
  <2>1. freeMsgs \in [Nodes -> Nat]
    BY <1>1 DEF NetTypes
  <2>2. PICK k \in Nat : k = freeMsgs[n] - 1
    BY <2>1
  <2>3. freeMsgs' = [freeMsgs EXCEPT ![n] = k]
    BY <2>2
  <2> QED BY <2>1, <2>2, <2>3
<1>10. NetTypes'
  BY <1>1, <1>4, <1>8, <1>9 DEF NetTypes
<1>11. f.data \notin inbox[n]
  <2>1. f.data \in inbox[n] => loc[f.data.id] = <<"inbox", n>>
    BY <1>2 DEF Located, InboxAt
  <2>2. <<"inbox", n>>[1] = "inbox" /\ <<"core", n, c>>[1] = "core"
    OBVIOUS
  <2> QED BY <1>6, <2>1, <2>2
<1>12. Finite' /\ MsgsOK'
  <2>1. IsFiniteSet(inbox[n]) /\ inbox'[n] = inbox[n] \cup {f.data}
    BY <1>1, <1>8, MsgNumbers
  <2>2. /\ IsFiniteSet(inbox'[n]) /\ Cardinality(inbox'[n]) = Cardinality(inbox[n]) + 1
        /\ Cardinality(inbox[n]) \in Nat
    <3>1. /\ IsFiniteSet(inbox[n] \cup {f.data})
          /\ Cardinality(inbox[n] \cup {f.data}) = Cardinality(inbox[n]) + 1
          /\ Cardinality(inbox[n]) \in Nat
      BY <1>11, <2>1, AddOne
    <3> QED BY <2>1, <3>1
  <2>3. freeMsgs[n] \in Nat /\ Cardinality(held[n]) \in Nat /\ IsFiniteSet(held[n])
    BY <1>1, MsgNumbers
  <2>4. freeMsgs'[n] + Cardinality(held'[n]) + Cardinality(inbox'[n])
           = freeMsgs[n] + Cardinality(held[n]) + Cardinality(inbox[n])
    BY <1>9, <2>2, <2>3
  <2> QED BY <1>1, <1>8, <1>9, <2>2, <2>3, <2>4, MsgsKept
<1>13. PICK loc2 : loc2 = Placed(loc, f.data.id, <<"inbox", n>>)
  OBVIOUS
<1>14. loc2[f.data.id] = <<"inbox", n>> /\ \A j \in used : j # f.data.id => loc2[j] = loc[j]
  BY <1>6, <1>7, <1>13 DEF Placed
<1>15. \A kind : kind # "core" => Stays(loc, loc2, kind)
  <2>1. loc[f.data.id][1] = "core"
    BY <1>6
  <2> QED BY <1>7, <1>13, <2>1, PlacedStays
<1>16. Located(loc2)'
  <2>1. HeldAt(loc2)'
    <3>1. \A d \in Nodes : held'[d] \subseteq held[d]
      OBVIOUS
    <3> QED BY <1>2, <1>7, <1>15, <3>1, HeldStays DEF Located
  <2>2. InboxAt(loc2)'
    BY <1>2, <1>6, <1>7, <1>8, <1>14, <1>15, InboxGains DEF Located
  <2>3. OutAt(loc2)' /\ InAt(loc2)'
    BY <1>2, <1>7, <1>15, OutStays, InStays DEF Located
  <2>4. WireAt(loc2)'
    <3>1. \A d \in Nodes : \A g \in Meant(d) : <<d, g>> \in wire' => <<d, g>> \in wire
      OBVIOUS
    <3> QED BY <1>2, <1>7, <1>15, <3>1, WireStays DEF Located
  <2>5. CoreAt(loc2)'
    <3>1. \A j \in used :
             (Head(packets[n][c]) \in Meant(n) => j # Head(packets[n][c]).data.id) => loc2[j] = loc[j]
      BY <1>5, <1>14
    <3> QED BY <1>1, <1>2, <1>4, <1>7, <3>1, CoreLeaves DEF Located
  <2> QED BY <2>1, <2>2, <2>3, <2>4, <2>5 DEF Located
<1>17. LeavesUnderWay(f.data)
  <2>1. loc2[f.data.id][1] \in {"held", "inbox", "gone"}
    BY <1>14
  <2>2. ~UnderWay(f.data)'
    BY <1>10, <1>16, <2>1, NotUnderWayNext
  <2>3. \A x : (OutHas(x)' <=> OutHas(x)) /\ (InHas(x)' <=> InHas(x)) /\ (WireHas(x)' <=> WireHas(x))
    BY UnderWayKept
  <2>4. CoreHas(f.data) /\ \A x : x # f.data => (CoreHas(x)' <=> CoreHas(x))
    BY <1>4
  <2> QED BY <2>2, <2>3, <2>4 DEF LeavesUnderWay, UnderWay
<1>18. Transfer!Deliver(f.data)
  <2>1. f.data \in InTransit /\ InTransit' = InTransit \ {f.data}
    BY <1>1, <1>10, <1>17, TransitNext
  <2> QED BY <2>1 DEF Transfer!Deliver
<1> QED BY <1>4, <1>5, <1>10, <1>12, <1>16, <1>18 DEF NetworkInv
-----------------------------------------------------------------------------
LEMMA ConsumeKeeps ==
    ASSUME NetworkInv, NEW n \in Nodes, NEW m \in inbox[n],
           inbox' = [inbox EXCEPT ![n] = @ \ {m}],
           freeMsgs' = [freeMsgs EXCEPT ![n] = @ + 1],
           UNCHANGED <<used, held, freePkts, pktout, wire, pktin, packets, noise>>
    PROVE  NetworkInv' /\ m \in Messages /\ Transfer!Consume(n, m)
<1>1. NetTypes /\ Finite /\ MsgsOK /\ PktsOK
  BY DEF NetworkInv
<1>2. PICK loc : Located(loc)
  BY DEF NetworkInv
<1>3. m \in Messages
  BY <1>1 DEF NetTypes
<1>4. /\ inbox' \in [Nodes -> SUBSET Messages]
      /\ \A d \in Nodes : inbox'[d] = IF d = n THEN inbox[n] \ {m} ELSE inbox[d]
  BY <1>1 DEF NetTypes
<1>5. /\ freeMsgs' \in [Nodes -> Nat] /\ freeMsgs'[n] = freeMsgs[n] + 1
      /\ \A d \in Nodes : d # n => freeMsgs'[d] = freeMsgs[d]
  BY <1>1, FreeMore
<1>6. NetTypes'
  BY <1>1, <1>4, <1>5 DEF NetTypes
<1>7. PktsOK'
  BY <1>1 DEF PktsOK
<1>8. Finite' /\ MsgsOK'
  <2>1. IsFiniteSet(inbox[n]) /\ inbox'[n] = inbox[n] \ {m}
    BY <1>1, <1>4, MsgNumbers
  <2>2. /\ IsFiniteSet(inbox'[n]) /\ Cardinality(inbox'[n]) = Cardinality(inbox[n]) - 1
        /\ Cardinality(inbox[n]) \in Nat
    <3>1. /\ IsFiniteSet(inbox[n] \ {m})
          /\ Cardinality(inbox[n] \ {m}) = Cardinality(inbox[n]) - 1
          /\ Cardinality(inbox[n]) \in Nat
      BY <2>1, DropOne
    <3> QED BY <2>1, <3>1
  <2>3. freeMsgs[n] \in Nat /\ Cardinality(held[n]) \in Nat /\ IsFiniteSet(held[n])
    BY <1>1, MsgNumbers
  <2>4. freeMsgs'[n] + Cardinality(held'[n]) + Cardinality(inbox'[n])
           = freeMsgs[n] + Cardinality(held[n]) + Cardinality(inbox[n])
    BY <1>5, <2>2, <2>3
  <2> QED BY <1>1, <1>4, <1>5, <2>2, <2>3, <2>4, MsgsKept
<1>9. Located(loc)'
  <2>1. used \subseteq used' /\ \A kind : Stays(loc, loc, kind)
    BY DEF Stays
  <2>2. HeldAt(loc)'
    <3>1. \A d \in Nodes : held'[d] \subseteq held[d]
      OBVIOUS
    <3> QED BY <1>2, <2>1, <3>1, HeldStays DEF Located
  <2>3. InboxAt(loc)'
    <3>1. \A d \in Nodes : inbox'[d] \subseteq inbox[d]
      BY <1>4
    <3> QED BY <1>2, <2>1, <3>1, InboxStays DEF Located
  <2>4. OutAt(loc)' /\ InAt(loc)' /\ CoreAt(loc)'
    BY <1>2, <2>1, OutStays, InStays, CoreStays DEF Located
  <2>5. WireAt(loc)'
    <3>1. \A d \in Nodes : \A f \in Meant(d) : <<d, f>> \in wire' => <<d, f>> \in wire
      OBVIOUS
    <3> QED BY <1>2, <2>1, <3>1, WireStays DEF Located
  <2> QED BY <2>2, <2>3, <2>4, <2>5 DEF Located
<1>10. Transfer!Consume(n, m)
  <2>1. InTransit' = InTransit
    BY <1>1, <1>6, UnderWaySame, TransitNext
  <2> QED BY <2>1 DEF Transfer!Consume
<1> QED BY <1>3, <1>6, <1>7, <1>8, <1>9, <1>10 DEF NetworkInv
-----------------------------------------------------------------------------
(* Every step keeps the invariant, and is a step of MessageTransfer. *)
Simulated == Transfer!Next \/ UNCHANGED Transfer!tvars

LEMMA Lost ==
    (UNCHANGED Transfer!tvars \/ \E m \in Messages : Transfer!Lose(m)) => Simulated
  BY DEF Simulated, Transfer!Next

LEMMA SendKeeps ==
    ASSUME NetworkInv, NEW n \in Nodes, NEW h \in held[n], NEW r \in Receivers, SendMessage(n, h, r)
    PROVE  NetworkInv' /\ Simulated
<1>1. h \in Relinquishable
  BY DEF NetworkInv, NetTypes
<1>2. PICK m : m = Sent(n, h, r)
  OBVIOUS
<1>3. m \in Messages /\ m.id = h.id /\ m.receiver = r /\ m.sender = n
  BY <1>1, <1>2, SentIs
<1>4. ASSUME Dropped(n, h) PROVE NetworkInv' /\ Simulated
  BY <1>4, DroppedKeeps DEF Simulated, Transfer!Next
<1>5. CASE SendInvalid(n, h, r) \/ SendNoPacket(n, h, r) \/ SendNotEnqueued(n, h, r)
  <2>1. Dropped(n, h)
    BY <1>5 DEF SendInvalid, SendNoPacket, SendNotEnqueued, Dropped
  <2> QED BY <1>4, <2>1
<1>6. CASE SendLocal(n, h, r)
  <2>1. Dropped(n, h) \/ (AcceptedAtHome(n, h, m) /\ r = n)
    BY <1>2, <1>6 DEF SendLocal, Dropped, AcceptedAtHome
  <2>2. CASE AcceptedAtHome(n, h, m) /\ r = n
    <3>1. NetworkInv' /\ Transfer!SendAtHome(m)
      BY <1>3, <2>2, AcceptedAtHomeKeeps
    <3> QED BY <1>3, <3>1 DEF Simulated, Transfer!Next
  <2> QED BY <1>4, <2>1, <2>2
<1>7. CASE SendOut(n, h, r)
  <2>1. PICK f : f = CreatePacketFromMessage(n, m)
    OBVIOUS
  <2>2. f \in Outgoing /\ f.data = m
    BY <1>3, <2>1, PacketIs
  <2>3. SentOut(n, h, f)
    BY <1>2, <1>7, <2>1 DEF SendOut, SentOut
  <2>4. NetworkInv' /\ Transfer!Send(m)
    BY <1>3, <2>2, <2>3, SentOutKeeps
  <2> QED BY <1>3, <2>4 DEF Simulated, Transfer!Next
<1> QED BY <1>5, <1>6, <1>7 DEF SendMessage

LEMMA DestroyKeeps ==
    ASSUME NetworkInv, NEW n \in Nodes, DestroyMessage(n)
    PROVE  NetworkInv' /\ Simulated
<1>1. CASE \E m \in inbox[n] : inbox' = [inbox EXCEPT ![n] = @ \ {m}] /\ UNCHANGED held
  <2>1. PICK m \in inbox[n] : inbox' = [inbox EXCEPT ![n] = @ \ {m}] /\ UNCHANGED held
    BY <1>1
  <2>2. /\ freeMsgs' = [freeMsgs EXCEPT ![n] = @ + 1]
        /\ UNCHANGED <<used, held, freePkts, pktout, wire, pktin, packets, noise>>
    BY <2>1 DEF DestroyMessage
  <2>3. NetworkInv' /\ m \in Messages /\ Transfer!Consume(n, m)
    BY <2>1, <2>2, ConsumeKeeps
  <2> QED BY <2>3 DEF Simulated, Transfer!Next
<1>2. CASE \E h \in held[n] : Relinquish(n, h) /\ UNCHANGED inbox
  <2>1. PICK h \in held[n] : Relinquish(n, h) /\ UNCHANGED inbox
    BY <1>2
  <2>2. Dropped(n, h)
    BY <2>1 DEF DestroyMessage, Dropped
  <2> QED BY <2>2, DroppedKeeps DEF Simulated, Transfer!Next
<1> QED BY <1>1, <1>2 DEF DestroyMessage

LEMMA PollKeeps ==
    ASSUME NetworkInv, NEW n \in Nodes, NEW c \in Cores, Poll(n, c)
    PROVE  NetworkInv' /\ Simulated
<1>1. CASE PollInvalid(n, c)
  <2>1. FreePacket(n, c) /\ UNCHANGED <<used, held, inbox, freeMsgs, pktout, wire, pktin, noise>>
    BY <1>1 DEF PollInvalid
  <2> QED BY <2>1, PollDestroysKeeps, Lost
<1>2. CASE PollRoute(n, c)
  <2>1. PICK f : f = Head(packets[n][c])
    OBVIOUS
  <2>2. /\ FreePacket(n, c) /\ f.data.receiver = n /\ freeMsgs[n] > 0
        /\ UNCHANGED <<used, held, pktout, wire, pktin, noise>>
        /\ \/ /\ freeMsgs' = [freeMsgs EXCEPT ![n] = @ - 1]
              /\ inbox' = [inbox EXCEPT ![n] = @ \cup {f.data}]
           \/ UNCHANGED <<freeMsgs, inbox>>
    BY <1>2, <2>1 DEF PollRoute, IsMessage, IsValidMessage, CreateMessageFromBuffer
  <2>3. CASE UNCHANGED <<freeMsgs, inbox>>
    BY <2>2, <2>3, PollDestroysKeeps, Lost
  <2>4. CASE /\ freeMsgs' = [freeMsgs EXCEPT ![n] = @ - 1]
             /\ inbox' = [inbox EXCEPT ![n] = @ \cup {f.data}]
    <3>1. NetworkInv' /\ f.data \in Messages /\ Transfer!Deliver(f.data)
      BY <2>1, <2>2, <2>4, PollDeliversKeeps
    <3> QED BY <3>1 DEF Simulated, Transfer!Next
  <2> QED BY <2>2, <2>3, <2>4
<1> QED BY <1>1, <1>2 DEF Poll

LEMMA NetworkStepKeeps == NetworkInv /\ [NetworkNext]_networkVars => NetworkInv' /\ Simulated
<1> SUFFICES ASSUME NetworkInv, [NetworkNext]_networkVars PROVE NetworkInv' /\ Simulated
  OBVIOUS
<1>1. CASE UNCHANGED networkVars
  <2>1. NetworkInv'
    BY <1>1 DEF networkVars, NetworkInv, NetTypes, Finite, MsgsOK, PktsOK, Located, HeldAt, InboxAt,
                OutAt, WireAt, InAt, CoreAt
  <2>2. InTransit' = InTransit
    BY <1>1 DEF networkVars, InTransit, FramesAt
  <2> QED BY <1>1, <2>1, <2>2 DEF networkVars, Simulated, Transfer!tvars
<1>2. ASSUME NEW n \in Nodes, Application(n) PROVE NetworkInv' /\ Simulated
  <2>1. ASSUME NEW i \in Ids, NEW size \in PayloadSizes, CreateMessage(n, i, size)
        PROVE  NetworkInv' /\ Simulated
    BY <2>1, CreateKeeps DEF Simulated
  <2>2. ASSUME NEW h \in held[n], NEW r \in Receivers, SendMessage(n, h, r)
        PROVE  NetworkInv' /\ Simulated
    BY <2>2, SendKeeps
  <2> QED BY <1>2, <2>1, <2>2, DestroyKeeps DEF Application
<1>3. ASSUME NEW n \in Nodes, Transmit(n) PROVE NetworkInv' /\ Simulated
  BY <1>3, TransmitKeeps, Lost
<1>4. ASSUME NEW n \in Nodes, Delivery(n) PROVE NetworkInv' /\ Simulated
  <2>1. PICK f : LoseFrame(n, f) \/ Arrive(n, f)
    BY <1>4 DEF Delivery
  <2> QED BY <2>1, LoseFrameKeeps, ArriveKeeps, Lost
<1>5. ASSUME NEW n \in Nodes, NEW f \in noise[n], Noise(n, f) PROVE NetworkInv' /\ Simulated
  BY <1>5, NoiseKeeps DEF Simulated
<1>6. ASSUME NEW n \in Nodes, NEW c \in Cores, PollReceive(n, c) \/ Poll(n, c)
      PROVE  NetworkInv' /\ Simulated
  BY <1>6, PollReceiveKeeps, PollKeeps DEF Simulated
<1> QED BY <1>1, <1>2, <1>3, <1>4, <1>5, <1>6 DEF NetworkNext

LEMMA NetworkInitially == NetworkInit => NetworkInv /\ Transfer!Init
<1> SUFFICES ASSUME NetworkInit PROVE NetworkInv /\ Transfer!Init
  OBVIOUS
<1>1. /\ used = {} /\ wire = {}
      /\ held = [n \in Nodes |-> {}] /\ inbox = [n \in Nodes |-> {}]
      /\ freeMsgs = [n \in Nodes |-> MsgBufs] /\ freePkts = [n \in Nodes |-> PktBufs]
      /\ pktout = [n \in Nodes |-> << >>] /\ pktin = [n \in Nodes |-> << >>]
      /\ packets = [n \in Nodes |-> [c \in Cores |-> << >>]]
      /\ noise = [n \in Nodes |-> IF n \in Noisy THEN OtherTraffic(n) ELSE {}]
  BY DEF NetworkInit
<1>2. MsgBufs \in Nat /\ PktBufs \in Nat /\ MaxRxBurst \in Nat
  BY NetworkAssumption
<1>3. NetTypes
  <2>1. << >> \in Seq(Outgoing) /\ << >> \in Seq(Frames) /\ Len(<< >>) = 0
    OBVIOUS
  <2>2. noise \in [Nodes -> SUBSET NoiseFrames]
    <3>1. \A n \in Nodes : (IF n \in Noisy THEN OtherTraffic(n) ELSE {}) \subseteq NoiseFrames
      BY NoiseIs
    <3> QED BY <1>1, <3>1
  <2>3. pktout \in [Nodes -> Seq(Outgoing)] /\ pktin \in [Nodes -> Seq(Frames)]
    BY <1>1, <2>1
  <2>4. packets \in [Nodes -> [Cores -> Seq(Frames)]]
    BY <1>1, <2>1
  <2>5. \A n \in Nodes, c \in Cores : Len(packets[n][c]) <= MaxRxBurst
    BY <1>1, <1>2, <2>1
  <2> QED BY <1>1, <1>2, <2>2, <2>3, <2>4, <2>5 DEF NetTypes
<1>4. Finite /\ MsgsOK
  <2>1. IsFiniteSet({}) /\ Cardinality({}) = 0
    BY FS_EmptySet
  <2> QED BY <1>1, <1>2, <2>1 DEF Finite, MsgsOK
<1>5. PktsOK
  <2> SUFFICES ASSUME NEW n \in Nodes
               PROVE  freePkts[n] + Len(pktout[n]) + Len(pktin[n])
                         + Cardinality(PolledBy(packets[n])) = PktBufs
    BY DEF PktsOK
  <2>1. PolledBy(packets[n]) = {}
    <3>1. \A c \in Cores : Len(packets[n][c]) = 0
      BY <1>1
    <3>2. \A k \in 1 .. MaxRxBurst : ~(k <= 0)
      BY <1>2
    <3> QED BY <3>1, <3>2 DEF PolledBy
  <2>2. Cardinality(PolledBy(packets[n])) = 0
    BY <2>1, FS_EmptySet
  <2>3. freePkts[n] = PktBufs /\ Len(pktout[n]) = 0 /\ Len(pktin[n]) = 0
    BY <1>1
  <2> QED BY <1>2, <2>2, <2>3
<1>6. PICK loc : loc = [i \in Ids |-> << >>]
  OBVIOUS
<1>7. Located(loc)
  <2>1. \A n \in Nodes : /\ held[n] = {} /\ inbox[n] = {} /\ pktout[n] = << >> /\ pktin[n] = << >>
                         /\ \A c \in Cores : packets[n][c] = << >>
    BY <1>1
  <2>2. HeldAt(loc) /\ InboxAt(loc) /\ WireAt(loc)
    BY <1>1, <2>1 DEF HeldAt, InboxAt, WireAt
  <2>3. OutAt(loc) /\ InAt(loc) /\ CoreAt(loc)
    BY <2>1, SeqNone DEF OutAt, InAt, CoreAt
  <2> QED BY <2>2, <2>3 DEF Located
<1>8. NetworkInv
  BY <1>3, <1>4, <1>5, <1>7 DEF NetworkInv
<1>9. InTransit = {}
  <2>1. \A m : ~UnderWay(m)
    BY <1>1, InNone DEF UnderWay, OutHas, WireHas, InHas, CoreHas
  <2> QED BY <1>3, <2>1, TransitIs
<1>10. Transfer!Init
  BY <1>1, <1>9 DEF Transfer!Init
<1> QED BY <1>8, <1>10

(* The inductive invariant of messages and frames on all nodes: a message   *)
(* is at the one place its creation, RouteInternodeMessage, the device or   *)
(* NetworkInputPoll has brought it to, and the counts of free messages and  *)
(* packets of a node are what those places leave of its two pools.          *)
THEOREM NetworkInvariant == NetworkSpec => []NetworkInv
<1>1. NetworkInit => NetworkInv
  BY NetworkInitially
<1>2. NetworkInv /\ [NetworkNext]_networkVars => NetworkInv'
  BY NetworkStepKeeps
<1> QED BY <1>1, <1>2, PTL DEF NetworkSpec

(* Every message and packet buffer of a node is free or accounted for:      *)
(* whether SendMessage delivers, drops or hands over, whether               *)
(* CreatePacketFromMessage finds no packet or odp_pktout_send no room, and  *)
(* whatever NetworkInputPoll makes of the frames it has received, no path   *)
(* leaks a buffer or gives it back twice, for any sizes of the pools.       *)
THEOREM NetworkConservesBuffers == NetworkSpec => []BuffersConserved
<1>1. NetworkInv => BuffersConserved
  <2> SUFFICES ASSUME NetworkInv PROVE BuffersConserved
    OBVIOUS
  <2>1. NetTypes /\ Finite /\ MsgsOK /\ PktsOK
    BY DEF NetworkInv
  <2>2. \A T, s : s \in Seq(T) /\ T \subseteq Frames => s \in Seq(Frames)
    OBVIOUS
  <2>3. \A n \in Nodes : freeMsgs[n] \in 0 .. MsgBufs
    <3> SUFFICES ASSUME NEW n \in Nodes PROVE freeMsgs[n] \in 0 .. MsgBufs
      OBVIOUS
    <3>1. freeMsgs[n] \in Nat /\ Cardinality(held[n]) \in Nat /\ Cardinality(inbox[n]) \in Nat
      BY <2>1, MsgNumbers
    <3>2. freeMsgs[n] + Cardinality(held[n]) + Cardinality(inbox[n]) = MsgBufs
      BY <2>1 DEF MsgsOK
    <3> QED BY <3>1, <3>2
  <2>4. \A n \in Nodes : freePkts[n] \in 0 .. PktBufs
    <3> SUFFICES ASSUME NEW n \in Nodes PROVE freePkts[n] \in 0 .. PktBufs
      OBVIOUS
    <3>1. /\ freePkts[n] \in Nat /\ Len(pktout[n]) \in Nat /\ Len(pktin[n]) \in Nat
          /\ Cardinality(PolledBy(packets[n])) \in Nat
      BY <2>1, PktNumbers
    <3>2. freePkts[n] + Len(pktout[n]) + Len(pktin[n]) + Cardinality(PolledBy(packets[n])) = PktBufs
      BY <2>1 DEF PktsOK
    <3> QED BY <3>1, <3>2
  <2>5. \A n \in Nodes : pktout[n] \in Seq(Frames)
    <3>1. Outgoing \subseteq Frames
      BY DEF Outgoing
    <3> QED BY <2>1, <2>2, <3>1 DEF NetTypes
  <2>6. NetworkTypeOK
    BY <2>1, <2>3, <2>4, <2>5 DEF NetTypes, NetworkTypeOK, Relinquishable
  <2> QED BY <2>1, <2>6 DEF BuffersConserved, MsgsOK, PktsOK
<1> QED BY <1>1, NetworkInvariant, PTL

(* Routers, devices and input polls of all nodes, over a network that       *)
(* loses, pads and reorders frames and carries those of others, implement   *)
(* MessageTransfer: a message a router has accepted for another node        *)
(* (RouteInternodeMessage) is delivered there at most once and unchanged    *)
(* (CreateMessageFromPacket), or lost, and nothing else is delivered.       *)
THEOREM NetworkImplementsTransfer == NetworkSpec => ImplementsMessageTransfer
<1>1. NetworkInit => Transfer!Init
  BY NetworkInitially
<1>2. NetworkInv /\ [NetworkNext]_networkVars => [Transfer!Next]_(Transfer!tvars)
  BY NetworkStepKeeps DEF Simulated
<1> QED BY <1>1, <1>2, NetworkInvariant, PTL DEF NetworkSpec, ImplementsMessageTransfer, Transfer!Spec

=============================================================================
