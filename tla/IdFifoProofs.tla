---------------------------- MODULE IdFifoProofs ----------------------------
(***************************************************************************)
(* Facts about the identifier ring, for every number of identifiers: the   *)
(* two operations keep RingInv while an identifier moves between the ring  *)
(* and the set H of identifiers that are out, and they meet the assertions *)
(* of the code.  The proofs of both tables rest on these lemmas.           *)
(***************************************************************************)
EXTENDS IdFifo, FiniteSetTheorems, TLAPS

(* The modulo of the index arithmetic is a wrap at the end of the pool.     *)
LEMMA NextSlotWraps ==
    ASSUME NEW i \in Slots
    PROVE  /\ NextSlot(i) \in Slots
           /\ NextSlot(i) = IF i + 1 = IdCount THEN 0 ELSE i + 1
<1>1. CASE i + 1 = IdCount
  <2>1. (i + 1) % IdCount = 0
    BY <1>1, IdAssumption DEF Slots
  <2> QED BY <1>1, <2>1, IdAssumption DEF NextSlot, Slots
<1>2. CASE i + 1 # IdCount
  <2>1. i + 1 \in 0 .. (IdCount - 1)
    BY <1>2, IdAssumption DEF Slots
  <2>2. (i + 1) % IdCount = i + 1
    BY <2>1, IdAssumption
  <2> QED BY <1>2, <2>1, <2>2, IdAssumption DEF NextSlot, Slots
<1> QED BY <1>1, <1>2

(* Index arithmetic of an allocation: GetIndex moves past slot get. *)
LEMMA AdvanceGet ==
    ASSUME NEW get \in Slots, NEW n \in 1 .. IdCount
    PROVE  /\ \A i \in Slots : Distance(NextSlot(get), i) < n - 1
                               <=> Distance(get, i) < n /\ i # get
           /\ EndSlot(NextSlot(get), n - 1) = EndSlot(get, n)
<1>1. CASE get + 1 = IdCount
  <2>1. NextSlot(get) = 0
    BY <1>1, NextSlotWraps
  <2> QED BY <1>1, <2>1, IdAssumption DEF Distance, EndSlot, Slots
<1>2. CASE get + 1 # IdCount
  <2>1. NextSlot(get) = get + 1
    BY <1>2, NextSlotWraps
  <2> QED BY <1>2, <2>1, IdAssumption DEF Distance, EndSlot, Slots
<1> QED BY <1>1, <1>2

(* Index arithmetic of a release: the slot at PutIndex becomes live. *)
LEMMA AdvancePut ==
    ASSUME NEW get \in Slots, NEW n \in 0 .. (IdCount - 1)
    PROVE  /\ EndSlot(get, n) \in Slots
           /\ \A i \in Slots : Distance(get, i) < n + 1
                               <=> Distance(get, i) < n \/ i = EndSlot(get, n)
           /\ ~ (Distance(get, EndSlot(get, n)) < n)
           /\ EndSlot(get, n + 1) = NextSlot(EndSlot(get, n))
<1>1. EndSlot(get, n) \in Slots
  BY IdAssumption DEF EndSlot, Slots
<1>2. NextSlot(EndSlot(get, n)) =
        IF EndSlot(get, n) + 1 = IdCount THEN 0 ELSE EndSlot(get, n) + 1
  BY <1>1, NextSlotWraps
<1> QED BY <1>1, <1>2, IdAssumption DEF Distance, EndSlot, Slots

(* The ring the tables start with is consistent with nothing being out. *)
LEMMA FifoInitRing == RingInv(FifoInit, {})
<1> DEFINE f == FifoInit
<1>1. f \in Fifos
  BY IdAssumption DEF FifoInit, Fifos, Slots, Ids
<1>2. \A i \in Slots : Live(f, i) /\ f.IdPool[i] = IdBase + i /\ f.IdPool[i] # NoId
  BY IdAssumption DEF FifoInit, Live, Distance, Slots, Ids
<1>3. f.PutIndex = EndSlot(f.GetIndex, f.FreeIds)
  BY IdAssumption DEF FifoInit, EndSlot
<1>4. \A id \in Ids : \E i \in Slots : f.IdPool[i] = id
  <2> SUFFICES ASSUME NEW id \in Ids PROVE \E i \in Slots : f.IdPool[i] = id
    OBVIOUS
  <2>1. id - IdBase \in Slots
    BY IdAssumption DEF Ids, Slots
  <2> QED BY <2>1, <1>2, IdAssumption DEF Ids, Slots
<1>5. IsFiniteSet({}) /\ Cardinality({}) = 0
  BY FS_EmptySet
<1>6. Cardinality({}) = IdCount - f.FreeIds
  BY <1>5, IdAssumption DEF FifoInit
<1>7. \A i, j \in Slots : f.IdPool[i] = f.IdPool[j] => i = j
  BY <1>2, IdAssumption DEF Slots
<1> QED BY <1>1, <1>2, <1>3, <1>4, <1>5, <1>6, <1>7 DEF RingInv

(* An allocation from a consistent ring meets its assertion, returns an     *)
(* identifier that is not out, and leaves a consistent ring.                *)
LEMMA AllocateRing ==
    ASSUME NEW f, NEW H, RingInv(f, H), f.FreeIds > 0
    PROVE  /\ AllocateAssert(f)
           /\ AllocatedId(f) \in Ids \ H
           /\ RingInv(AllocateId(f), H \cup {AllocatedId(f)})
<1> DEFINE g == AllocateId(f)
           id == AllocatedId(f)
<1>1. /\ f \in Fifos /\ f.GetIndex \in Slots /\ f.FreeIds \in 1 .. IdCount
      /\ f.IdPool \in [Slots -> Ids \cup {NoId}] /\ f.PutIndex \in Slots
  BY IdAssumption DEF RingInv, Fifos
<1>2. Live(f, f.GetIndex)
  BY <1>1, IdAssumption DEF Live, Distance, Slots
<1>3. f.IdPool[f.GetIndex] # NoId
  BY <1>1, <1>2 DEF RingInv
<1>4. id = f.IdPool[f.GetIndex] /\ id \in Ids /\ id \notin H
  BY <1>1, <1>3 DEF AllocatedId, RingInv
<1>5. /\ g.GetIndex = NextSlot(f.GetIndex) /\ g.PutIndex = f.PutIndex
      /\ g.FreeIds = f.FreeIds - 1
      /\ g.IdPool = [f.IdPool EXCEPT ![f.GetIndex] = NoId]
      /\ g = [GetIndex |-> g.GetIndex, PutIndex |-> g.PutIndex,
              FreeIds |-> g.FreeIds, IdPool |-> g.IdPool]
  BY <1>1 DEF AllocateId
<1>6. /\ g.GetIndex \in Slots
      /\ g.GetIndex = IF f.GetIndex + 1 = IdCount THEN 0 ELSE f.GetIndex + 1
  BY <1>1, <1>5, NextSlotWraps
<1>7. g \in Fifos
  BY <1>1, <1>5, <1>6, IdAssumption DEF Fifos
<1>8. \A i \in Slots : Live(g, i) <=> (Live(f, i) /\ i # f.GetIndex)
  BY <1>1, <1>5, AdvanceGet DEF Live
<1>9. \A i \in Slots : g.IdPool[i] = IF i = f.GetIndex THEN NoId ELSE f.IdPool[i]
  BY <1>1, <1>5
<1>10. g.PutIndex = EndSlot(g.GetIndex, g.FreeIds)
  BY <1>1, <1>5, AdvanceGet DEF RingInv
<1>11. \A i \in Slots : g.IdPool[i] # NoId <=> Live(g, i)
  BY <1>8, <1>9 DEF RingInv
<1>12. \A i, j \in Slots : g.IdPool[i] = g.IdPool[j] /\ Live(g, i) => i = j
  BY <1>8, <1>9, <1>11 DEF RingInv
<1>13. \A i \in Slots : g.IdPool[i] \notin H \cup {id}
  <2> SUFFICES ASSUME NEW i \in Slots PROVE g.IdPool[i] \notin H \cup {id}
    OBVIOUS
  <2>1. NoId \notin H \cup {id}
    BY <1>4, IdAssumption DEF RingInv
  <2>2. i # f.GetIndex => f.IdPool[i] # id
    BY <1>1, <1>2, <1>4 DEF RingInv
  <2> QED BY <2>1, <2>2, <1>9 DEF RingInv
<1>14. \A x \in Ids : x \in H \cup {id} \/ \E i \in Slots : g.IdPool[i] = x
  BY <1>4, <1>9 DEF RingInv
<1>15. /\ H \cup {id} \subseteq Ids /\ IsFiniteSet(H \cup {id})
       /\ Cardinality(H \cup {id}) = IdCount - g.FreeIds
  <2>1. IsFiniteSet(H) /\ Cardinality(H) = IdCount - f.FreeIds
    BY DEF RingInv
  <2>2. IsFiniteSet(H \cup {id}) /\ Cardinality(H \cup {id}) = Cardinality(H) + 1
    BY <2>1, <1>4, FS_AddElement
  <2> QED BY <2>1, <2>2, <1>1, <1>4, <1>5, IdAssumption DEF RingInv
<1> QED
  BY <1>3, <1>4, <1>7, <1>10, <1>11, <1>12, <1>13, <1>14, <1>15
     DEF RingInv, AllocateAssert

(* Putting back an identifier that is out meets the assertion and leaves a  *)
(* consistent ring.                                                         *)
LEMMA ReleaseRing ==
    ASSUME NEW f, NEW H, RingInv(f, H), NEW id \in H
    PROVE  /\ ReleaseAssert(f)
           /\ RingInv(ReleaseId(f, id), H \ {id})
<1> DEFINE g == ReleaseId(f, id)
<1>1. /\ f \in Fifos /\ f.GetIndex \in Slots /\ f.FreeIds \in 0 .. IdCount
      /\ f.IdPool \in [Slots -> Ids \cup {NoId}] /\ f.PutIndex \in Slots
  BY IdAssumption DEF RingInv, Fifos
<1>2. /\ id \in Ids /\ IsFiniteSet(H) /\ Cardinality(H) = IdCount - f.FreeIds
  BY DEF RingInv
<1>3. /\ IsFiniteSet(H \ {id}) /\ Cardinality(H \ {id}) = Cardinality(H) - 1
      /\ Cardinality(H \ {id}) \in Nat
  BY <1>2, FS_RemoveElement, FS_CardinalityType
<1>4. f.FreeIds < IdCount
  BY <1>1, <1>2, <1>3, IdAssumption
<1>5. f.PutIndex = EndSlot(f.GetIndex, f.FreeIds)
  BY DEF RingInv
<1>6. ~ Live(f, f.PutIndex)
  <2>1. f.FreeIds \in 0 .. (IdCount - 1)
    BY <1>1, <1>4, IdAssumption
  <2> QED BY <1>1, <1>5, <2>1, AdvancePut DEF Live
<1>7. f.IdPool[f.PutIndex] = NoId
  BY <1>1, <1>6 DEF RingInv
<1>8. /\ g.GetIndex = f.GetIndex /\ g.PutIndex = NextSlot(f.PutIndex)
      /\ g.FreeIds = f.FreeIds + 1
      /\ g.IdPool = [f.IdPool EXCEPT ![f.PutIndex] = id]
      /\ g = [GetIndex |-> g.GetIndex, PutIndex |-> g.PutIndex,
              FreeIds |-> g.FreeIds, IdPool |-> g.IdPool]
  BY DEF ReleaseId
<1>9. /\ g.PutIndex \in Slots
      /\ g.PutIndex = IF f.PutIndex + 1 = IdCount THEN 0 ELSE f.PutIndex + 1
  BY <1>1, <1>8, NextSlotWraps
<1>10. g \in Fifos
  BY <1>1, <1>2, <1>4, <1>8, <1>9, IdAssumption DEF Fifos
<1>11. \A i \in Slots : Live(g, i) <=> (Live(f, i) \/ i = f.PutIndex)
  <2>1. f.FreeIds \in 0 .. (IdCount - 1)
    BY <1>1, <1>4, IdAssumption
  <2> QED BY <1>1, <1>5, <1>8, <2>1, AdvancePut DEF Live
<1>12. \A i \in Slots : g.IdPool[i] = IF i = f.PutIndex THEN id ELSE f.IdPool[i]
  BY <1>1, <1>8
<1>13. g.PutIndex = EndSlot(g.GetIndex, g.FreeIds)
  <2>1. f.FreeIds \in 0 .. (IdCount - 1)
    BY <1>1, <1>4, IdAssumption
  <2> QED BY <1>1, <1>5, <1>8, <2>1, AdvancePut
<1>14. id # NoId
  BY <1>2, IdAssumption
<1>15. \A i \in Slots : g.IdPool[i] # NoId <=> Live(g, i)
  BY <1>11, <1>12, <1>14 DEF RingInv
<1>16. \A i \in Slots : f.IdPool[i] \notin H
  BY DEF RingInv
<1>17. \A i, j \in Slots : g.IdPool[i] = g.IdPool[j] /\ Live(g, i) => i = j
  <2> SUFFICES ASSUME NEW i \in Slots, NEW j \in Slots,
                      g.IdPool[i] = g.IdPool[j], Live(g, i)
               PROVE  i = j
    OBVIOUS
  <2>1. CASE i = f.PutIndex \/ j = f.PutIndex
    BY <2>1, <1>12, <1>16
  <2>2. CASE i # f.PutIndex /\ j # f.PutIndex
    BY <2>2, <1>11, <1>12 DEF RingInv
  <2> QED BY <2>1, <2>2
<1>18. \A i \in Slots : g.IdPool[i] \notin H \ {id}
  BY <1>12, <1>16
<1>19. \A x \in Ids : x \in H \ {id} \/ \E i \in Slots : g.IdPool[i] = x
  <2> SUFFICES ASSUME NEW x \in Ids, x \notin H \ {id}
               PROVE  \E i \in Slots : g.IdPool[i] = x
    OBVIOUS
  <2>1. CASE x = id
    BY <2>1, <1>1, <1>12
  <2>2. CASE x # id
    <3>1. PICK i \in Slots : f.IdPool[i] = x
      BY <2>2 DEF RingInv
    <3>2. i # f.PutIndex
      BY <3>1, <1>7, IdAssumption
    <3> QED BY <3>1, <3>2, <1>12
  <2> QED BY <2>1, <2>2
<1>20. /\ H \ {id} \subseteq Ids
       /\ Cardinality(H \ {id}) = IdCount - g.FreeIds
  BY <1>1, <1>2, <1>3, <1>8, IdAssumption DEF RingInv
<1> QED
  BY <1>3, <1>7, <1>10, <1>13, <1>15, <1>17, <1>18, <1>19, <1>20
     DEF RingInv, ReleaseAssert
=============================================================================
