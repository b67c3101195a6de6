--------------------------- MODULE ResourceProofs ---------------------------
(***************************************************************************)
(* Proofs about Mring and Platform: what is taken step by step is given    *)
(* back, wherever the steps end.                                           *)
(*                                                                         *)
(* Mring, for every number of rings, every ring size and every burst: the  *)
(* indices two sides advance without a lock stay exact, what is obtained   *)
(* is given back in time, and a burst spoils unread bytes only when these  *)
(* wrap.                                                                   *)
(*                                                                         *)
(* Platform, for any lists of applications and dependencies: what of the   *)
(* host and of the libraries is taken at each place of a process, which    *)
(* commands the recovery script has by then, and what a loop over the      *)
(* applications has already let go.                                        *)
(***************************************************************************)
EXTENDS Mring, Platform, FiniteSetTheorems, TLAPS

(***************************************************************************)
(* Mring                                                                   *)
(***************************************************************************)

(***************************************************************************)
(* Arithmetic of the indices                                               *)
(***************************************************************************)

(* The mask is a wrap at the end of the ring. *)
LEMMA SizeWraps ==
    ASSUME NEW x \in 0 .. 2 * Size - 1
    PROVE  x % Size = IF x < Size THEN x ELSE x - Size
<1>1. Size \in Nat /\ Size > 0 /\ x \in Int /\ 0 <= x /\ x < 2 * Size
  BY MringAssumption
<1>2. CASE x < Size
  BY <1>1, <1>2
<1>3. CASE x >= Size
  <2>1. x % Size = x - Size
    BY <1>1, <1>3
  <2> QED BY <1>1, <1>3, <2>1
<1> QED BY <1>1, <1>2, <1>3

(* Offsets are numbers below Size. *)
LEMMA OffsetsAre ==
    /\ Size \in Nat /\ Size > 0
    /\ \A a : a \in Offsets <=> a \in Nat /\ a < Size
BY MringAssumption DEF Offsets

(* Unsigned differences under the mask. *)
LEMMA MaskedIs ==
    ASSUME NEW a \in Offsets, NEW b \in Offsets
    PROVE  /\ Masked(a, b) = IF a >= b THEN a - b ELSE (a + Size) - b
           /\ Masked(a, b) \in Offsets
<1>1. a \in Nat /\ b \in Nat /\ a < Size /\ b < Size /\ Size \in Nat
  BY OffsetsAre
<1> DEFINE x == a + Size - b
<1>2. x \in 0 .. 2 * Size - 1
  BY <1>1
<1>3. x % Size = IF x < Size THEN x ELSE x - Size
  BY <1>2, SizeWraps
<1>4. Masked(a, b) = IF a >= b THEN a - b ELSE (a + Size) - b
  BY <1>1, <1>3 DEF Masked
<1> QED BY <1>1, <1>4, OffsetsAre

(* The bytes in the ring and the space that may be filled. *)
LEMMA AvailableIs ==
    ASSUME NEW a \in Offsets, NEW b \in Offsets
    PROVE  AvailableSpace(a, b) = Size - 1 - Masked(b, a)
<1>1. a \in Nat /\ b \in Nat /\ a < Size /\ b < Size /\ Size \in Nat
  BY OffsetsAre
<1> DEFINE x == a + Size - (b + 1)
<1>2. x \in 0 .. 2 * Size - 1
  BY <1>1
<1>3. x % Size = IF x < Size THEN x ELSE x - Size
  BY <1>2, SizeWraps
<1>4. AvailableSpace(a, b) = IF x < Size THEN x ELSE x - Size
  BY <1>3 DEF AvailableSpace, Masked
<1>5. Masked(b, a) = IF b >= a THEN b - a ELSE (b + Size) - a
  BY MaskedIs
<1> QED BY <1>1, <1>4, <1>5

(* An index that moves on by n. *)
LEMMA MovesOn ==
    ASSUME NEW a \in Offsets, NEW n \in Nat, n < Size
    PROVE  /\ (a + n) % Size = IF a + n < Size THEN a + n ELSE a + n - Size
           /\ (a + n) % Size \in Offsets
<1>1. a \in Nat /\ a < Size /\ Size \in Nat
  BY OffsetsAre
<1> DEFINE x == a + n
<1>2. x \in 0 .. 2 * Size - 1
  BY <1>1
<1>3. x % Size = IF x < Size THEN x ELSE x - Size
  <2> HIDE DEF x
  <2> QED BY <1>2, SizeWraps
<1> QED BY <1>1, <1>3, OffsetsAre

(* The write index moves on: there is more in the ring. *)
LEMMA AdvanceWrite ==
    ASSUME NEW a \in Offsets, NEW b \in Offsets, NEW n \in Nat, Masked(a, b) + n < Size
    PROVE  (a + n) % Size \in Offsets /\ Masked((a + n) % Size, b) = Masked(a, b) + n
<1> DEFINE c == (a + n) % Size
<1>1. a \in Nat /\ b \in Nat /\ a < Size /\ b < Size /\ Size \in Nat
  BY OffsetsAre
<1>2. Masked(a, b) = (IF a >= b THEN a - b ELSE (a + Size) - b) /\ Masked(a, b) \in Nat
  BY MaskedIs, OffsetsAre
<1>3. n < Size
  BY <1>1, <1>2
<1>4. c = (IF a + n < Size THEN a + n ELSE a + n - Size) /\ c \in Offsets
  BY <1>3, MovesOn
<1>5. Masked(c, b) = IF c >= b THEN c - b ELSE (c + Size) - b
  BY <1>4, MaskedIs
<1> HIDE DEF c
<1>6. Masked(c, b) = Masked(a, b) + n
  BY <1>1, <1>2, <1>4, <1>5
<1> QED BY <1>4, <1>6 DEF c

(* The read index moves on: there is less. *)
LEMMA AdvanceRead ==
    ASSUME NEW a \in Offsets, NEW b \in Offsets, NEW n \in Nat, n <= Masked(a, b)
    PROVE  (b + n) % Size \in Offsets /\ Masked(a, (b + n) % Size) = Masked(a, b) - n
<1> DEFINE c == (b + n) % Size
<1>1. a \in Nat /\ b \in Nat /\ a < Size /\ b < Size /\ Size \in Nat
  BY OffsetsAre
<1>2. Masked(a, b) = (IF a >= b THEN a - b ELSE (a + Size) - b) /\ Masked(a, b) \in Nat
  BY MaskedIs, OffsetsAre
<1>3. n < Size
  BY <1>1, <1>2
<1>4. c = (IF b + n < Size THEN b + n ELSE b + n - Size) /\ c \in Offsets
  BY <1>3, MovesOn
<1>5. Masked(a, c) = IF a >= c THEN a - c ELSE (a + Size) - c
  BY <1>4, MaskedIs
<1> HIDE DEF c
<1>6. Masked(a, c) = Masked(a, b) - n
  BY <1>1, <1>2, <1>4, <1>5
<1> QED BY <1>4, <1>6 DEF c

-----------------------------------------------------------------------------
(***************************************************************************)
(* The order in which resources are obtained                               *)
(***************************************************************************)
InitSteps == 4 * (NumRings + 1)
Prefix(n) == {InitOrder[i] : i \in 1 .. n}

(* Where the parts of the module and of a ring are in the order. *)
LEMMA OrderOfParts ==
    /\ \A i \in 1 .. 4 : InitOrder[i] = Part(ModuleParts[i])
    /\ \A r \in Rings :
          /\ InitOrder[4 * r + 5] = PartOf(r, "shared_ctrl")
          /\ InitOrder[4 * r + 6] = PartOf(r, "shared_buff")
          /\ InitOrder[4 * r + 7] = PartOf(r, "buff_device")
          /\ InitOrder[4 * r + 8] = PartOf(r, "ctrl_device")
          /\ 4 * r + 5 \in 1 .. InitSteps /\ 4 * r + 6 \in 1 .. InitSteps
          /\ 4 * r + 7 \in 1 .. InitSteps /\ 4 * r + 8 \in 1 .. InitSteps
<1>1. \A i \in 1 .. 4 : i \in 1 .. 4 * (NumRings + 1)
  BY MringAssumption
<1>2. \A i \in 1 .. 4 : InitOrder[i] = Part(ModuleParts[i])
  BY <1>1 DEF InitOrder
<1>3. ASSUME NEW r \in Rings, NEW k \in 0 .. 3
      PROVE  4 * r + 5 + k \in 1 .. InitSteps /\ InitOrder[4 * r + 5 + k] = PartOf(r, RingParts[k + 1])
  <2>1. 4 * r + 5 + k \in 1 .. InitSteps /\ ~ (4 * r + 5 + k <= 4)
    BY MringAssumption DEF Rings, InitSteps
  <2>2. (4 * r + 5 + k) - 5 = 4 * r + k /\ (4 * r + k) \div 4 = r /\ (4 * r + k) % 4 = k
    BY MringAssumption DEF Rings
  <2> QED BY <2>1, <2>2 DEF InitOrder, InitSteps
<1>4. ASSUME NEW r \in Rings
      PROVE  /\ InitOrder[4 * r + 5] = PartOf(r, "shared_ctrl")
             /\ InitOrder[4 * r + 6] = PartOf(r, "shared_buff")
             /\ InitOrder[4 * r + 7] = PartOf(r, "buff_device")
             /\ InitOrder[4 * r + 8] = PartOf(r, "ctrl_device")
  <2>1. /\ 4 * r + 5 + 0 = 4 * r + 5 /\ 4 * r + 5 + 1 = 4 * r + 6
        /\ 4 * r + 5 + 2 = 4 * r + 7 /\ 4 * r + 5 + 3 = 4 * r + 8
    BY MringAssumption DEF Rings
  <2>2. /\ RingParts[0 + 1] = "shared_ctrl" /\ RingParts[1 + 1] = "shared_buff"
        /\ RingParts[2 + 1] = "buff_device" /\ RingParts[3 + 1] = "ctrl_device"
    BY DEF RingParts
  <2> QED BY <1>3, <2>1, <2>2
<1>5. ASSUME NEW r \in Rings
      PROVE  /\ 4 * r + 5 \in 1 .. InitSteps /\ 4 * r + 6 \in 1 .. InitSteps
             /\ 4 * r + 7 \in 1 .. InitSteps /\ 4 * r + 8 \in 1 .. InitSteps
  BY MringAssumption DEF Rings, InitSteps
<1> QED BY <1>2, <1>4, <1>5

(* Every index is that of a part of the module or of a ring. *)
LEMMA PartsOfOrder ==
    ASSUME NEW i \in 1 .. InitSteps
    PROVE  \/ i \in 1 .. 4
           \/ \E r \in Rings : i \in {4 * r + 5, 4 * r + 6, 4 * r + 7, 4 * r + 8}
<1>1. CASE i > 4
  <2> DEFINE r == (i - 5) \div 4
  <2>1. NumRings \in Nat /\ i <= 4 * (NumRings + 1) /\ i \in Nat
    BY MringAssumption DEF InitSteps
  <2>2. r \in Rings
    BY <1>1, <2>1 DEF Rings
  <2>3. i - 5 - 4 * r \in 0 .. 3
    BY <1>1, <2>1
  <2> QED BY <2>1, <2>2, <2>3 DEF Rings
<1> QED BY <1>1

(* Nothing is obtained twice. *)
LEMMA OrderOnce ==
    ASSUME NEW i \in 1 .. InitSteps, NEW j \in 1 .. InitSteps, InitOrder[i] = InitOrder[j]
    PROVE  i = j
<1>1. NumRings \in Nat /\ NumRings \notin Rings /\ \A r \in Rings : r \in Nat
  BY MringAssumption DEF Rings
<1>2. ASSUME NEW k \in 1 .. 4
      PROVE  /\ InitOrder[k].ring = NumRings
             /\ InitOrder[k].name = ModuleParts[k]
  BY OrderOfParts DEF Part
<1>3. ASSUME NEW r \in Rings
      PROVE  /\ InitOrder[4 * r + 5].ring = r /\ InitOrder[4 * r + 5].name = "shared_ctrl"
             /\ InitOrder[4 * r + 6].ring = r /\ InitOrder[4 * r + 6].name = "shared_buff"
             /\ InitOrder[4 * r + 7].ring = r /\ InitOrder[4 * r + 7].name = "buff_device"
             /\ InitOrder[4 * r + 8].ring = r /\ InitOrder[4 * r + 8].name = "ctrl_device"
  <2>1. /\ InitOrder[4 * r + 5] = PartOf(r, "shared_ctrl")
        /\ InitOrder[4 * r + 6] = PartOf(r, "shared_buff")
        /\ InitOrder[4 * r + 7] = PartOf(r, "buff_device")
        /\ InitOrder[4 * r + 8] = PartOf(r, "ctrl_device")
    BY OrderOfParts
  <2>2. \A n : PartOf(r, n).ring = r /\ PartOf(r, n).name = n
    BY DEF PartOf
  <2> QED BY <2>1, <2>2
<1>4. CASE i \in 1 .. 4 /\ j \in 1 .. 4
  <2>1. ModuleParts[i] = ModuleParts[j]
    BY <1>2, <1>4
  <2> QED BY <1>4, <2>1 DEF ModuleParts
<1>5. ASSUME NEW r \in Rings, NEW q \in Rings,
             i \in {4 * r + 5, 4 * r + 6, 4 * r + 7, 4 * r + 8},
             j \in {4 * q + 5, 4 * q + 6, 4 * q + 7, 4 * q + 8}
      PROVE  i = j
  <2>1. InitOrder[i].ring = r
    BY <1>3, <1>5
  <2>2. InitOrder[j].ring = q
    BY <1>3, <1>5
  <2>3. r = q
    BY <2>1, <2>2
  <2>4. InitOrder[i].name = InitOrder[j].name
    OBVIOUS
  <2> QED BY <1>3, <1>5, <2>3, <2>4
<1>6. ASSUME NEW k \in 1 .. 4, NEW r \in Rings,
             NEW l \in {4 * r + 5, 4 * r + 6, 4 * r + 7, 4 * r + 8}
      PROVE  InitOrder[k] # InitOrder[l]
  <2>1. InitOrder[l].ring = r
    BY <1>3, <1>6
  <2> QED BY <1>1, <1>2, <1>6, <2>1
<1> QED BY <1>4, <1>5, <1>6, PartsOfOrder

(* A part of a ring that is there when another one is. *)
LEMMA PartsBefore ==
    ASSUME NEW n \in 0 .. InitSteps, NEW r \in Rings
    PROVE  /\ PartOf(r, "ctrl_device") \in Prefix(n) => PartOf(r, "shared_ctrl") \in Prefix(n)
           /\ PartOf(r, "buff_device") \in Prefix(n) => PartOf(r, "shared_buff") \in Prefix(n)
<1>1. /\ n \in Nat /\ n <= InitSteps /\ InitSteps \in Nat /\ r \in Nat
  BY MringAssumption DEF InitSteps, Rings
<1>2. ASSUME NEW k \in Nat, NEW l \in Nat, 1 <= k, k <= l, l <= InitSteps, InitOrder[l] \in Prefix(n)
      PROVE  InitOrder[k] \in Prefix(n)
  <2>1. PICK m \in 1 .. n : InitOrder[l] = InitOrder[m]
    BY <1>2 DEF Prefix
  <2>2. m = l
    BY <1>1, <1>2, <2>1, OrderOnce
  <2> QED BY <1>1, <1>2, <2>2 DEF Prefix
<1>3. /\ 4 * r + 8 \in 1 .. InitSteps /\ 4 * r + 7 \in 1 .. InitSteps
      /\ 4 * r + 6 \in 1 .. InitSteps /\ 4 * r + 5 \in 1 .. InitSteps
  BY OrderOfParts
<1>4. InitOrder[4 * r + 8] \in Prefix(n) => InitOrder[4 * r + 5] \in Prefix(n)
  BY <1>1, <1>2, <1>3
<1>5. InitOrder[4 * r + 7] \in Prefix(n) => InitOrder[4 * r + 6] \in Prefix(n)
  BY <1>1, <1>2, <1>3
<1> QED BY <1>4, <1>5, OrderOfParts

(* The resources are those in the order, and the error path of mring_init   *)
(* names all of them.                                                       *)
LEMMA AllResources ==
    /\ Resources = Prefix(InitSteps)
    /\ Prefix(0) = {}
    /\ Resources \subseteq InitErrorRelease
    /\ \A r \in Rings : RingRelease(r) \subseteq Resources
    /\ \A x \in Resources : x \in {Part("mrings"), Part("class"), Part("buff_major"), Part("ctrl_major")}
                          \/ \E r \in Rings : x \in RingRelease(r)
<1>1. Resources = Prefix(InitSteps)
  BY DEF Resources, InitOrder, Prefix, InitSteps
<1>2. ASSUME NEW i \in 1 .. InitSteps
      PROVE  \/ InitOrder[i] \in {Part("mrings"), Part("class"), Part("buff_major"), Part("ctrl_major")}
             \/ \E r \in Rings : InitOrder[i] \in RingRelease(r)
  <2>1. CASE i \in 1 .. 4
    <3>1. InitOrder[i] = Part(ModuleParts[i])
      BY <2>1, OrderOfParts
    <3>2. ModuleParts[i] \in {"mrings", "class", "buff_major", "ctrl_major"}
      BY <2>1 DEF ModuleParts
    <3> QED BY <3>1, <3>2
  <2>2. ASSUME NEW r \in Rings, i \in {4 * r + 5, 4 * r + 6, 4 * r + 7, 4 * r + 8}
        PROVE  InitOrder[i] \in RingRelease(r)
    BY <2>2, OrderOfParts DEF RingRelease
  <2> QED BY <2>1, <2>2, PartsOfOrder
<1>3. ASSUME NEW r \in Rings PROVE RingRelease(r) \subseteq Resources
  BY <1>1, OrderOfParts DEF RingRelease, Prefix
<1>4. \A x \in Resources : \/ x \in {Part("mrings"), Part("class"), Part("buff_major"), Part("ctrl_major")}
                          \/ \E r \in Rings : x \in RingRelease(r)
  BY <1>1, <1>2 DEF Prefix
<1>5. Resources \subseteq InitErrorRelease
  BY <1>4 DEF InitErrorRelease
<1>6. Prefix(0) = {}
  BY DEF Prefix
<1> QED BY <1>1, <1>3, <1>4, <1>5, <1>6

(* How many resources are held says which is the next. *)
LEMMA PrefixGrows ==
    ASSUME NEW n \in 0 .. InitSteps, IsFiniteSet(Prefix(n)), Cardinality(Prefix(n)) = n,
           Prefix(n) # Resources
    PROVE  /\ n + 1 \in 1 .. InitSteps
           /\ InitOrder[n + 1] \notin Prefix(n)
           /\ Prefix(n + 1) = Prefix(n) \cup {InitOrder[n + 1]}
           /\ IsFiniteSet(Prefix(n + 1)) /\ Cardinality(Prefix(n + 1)) = n + 1
<1>1. n # InitSteps /\ InitSteps \in Nat /\ n \in Nat /\ n <= InitSteps
  BY AllResources, MringAssumption DEF InitSteps
<1>2. n + 1 \in 1 .. InitSteps
  BY <1>1
<1>3. InitOrder[n + 1] \notin Prefix(n)
  <2>1. ASSUME NEW i \in 1 .. n, InitOrder[i] = InitOrder[n + 1] PROVE FALSE
    <3>1. i \in 1 .. InitSteps /\ i # n + 1
      BY <1>1
    <3> QED BY <1>2, <2>1, <3>1, OrderOnce
  <2> QED BY <2>1 DEF Prefix
<1>4. Prefix(n + 1) = Prefix(n) \cup {InitOrder[n + 1]}
  <2>1. 1 .. n + 1 = (1 .. n) \cup {n + 1}
    BY <1>1
  <2> QED BY <2>1 DEF Prefix
<1>5. IsFiniteSet(Prefix(n + 1)) /\ Cardinality(Prefix(n + 1)) = n + 1
  BY <1>3, <1>4, FS_AddElement
<1> QED BY <1>2, <1>3, <1>4, <1>5

-----------------------------------------------------------------------------
(***************************************************************************)
(* The inductive invariant                                                 *)
(***************************************************************************)

(* What a handle holds, at every step of mring_open and after. *)
Shape(u) ==
    /\ u.pc # "reading" => u.readable = 0
    /\ u.pc = "closed" => u.heap = FALSE /\ u.fds = {} /\ u.maps = {}
    /\ u.pc = "ctrl_open" => u.fds = {} /\ u.maps = {}
    /\ u.pc = "ctrl_map" => u.fds = {"ctrl"} /\ u.maps = {}
    /\ u.pc = "area" => u.fds = {} /\ u.maps = {"ctrl"}
    /\ u.pc = "buff_open" => u.fds = {} /\ u.maps = {"ctrl", "area1", "area2"}
    /\ u.pc = "first" => u.fds = {"buff"} /\ u.maps = {"ctrl", "area1", "area2"}
    /\ u.pc = "second" => u.fds = {"buff"} /\ u.maps = {"ctrl", "first", "area2"}
    /\ u.pc \in {"open", "reading"} => u.fds = {} /\ u.maps = {"ctrl", "first", "second"}

HandlesInv == \A p \in Readers : Shape(user[p])

(* What the module holds, in each of its states. *)
KernInv ==
    /\ module = "unloaded" => kern = {}
    /\ module = "initializing" =>
          \E n \in 0 .. InitSteps :
             kern = Prefix(n) /\ IsFiniteSet(Prefix(n)) /\ Cardinality(Prefix(n)) = n
    /\ module = "live" => kern = Resources /\ \A r \in Rings : producer[r].pc # "off"
    /\ module \in {"unloaded", "initializing"} => \A r \in Rings : producer[r].pc = "off"
    /\ module = "exiting" =>
          \A r \in Rings : producer[r].pc = "off" => kern \cap RingRelease(r) = {}

(* Whoever uses the module without being an orphan finds it there, with     *)
(* the pages it has mapped or is about to map.                              *)
NeedsCtrl(u) == "ctrl" \in u.fds \cup u.maps
NeedsBuff(u) == u.leaked \/ "buff" \in u.fds \/ u.maps \cap {"first", "second"} # {}
UseInv ==
    \A p \in Readers \ orphans :
        /\ Uses(p) => module \in {"initializing", "live"}
        /\ NeedsCtrl(user[p]) => PartOf(p, "shared_ctrl") \in kern
        /\ NeedsBuff(user[p]) => PartOf(p, "shared_buff") \in kern

(* The indices of a ring: while a burst is under way, the reader's index is *)
(* between the value the producer read and the write index.                 *)
RingExact(r) ==
    /\ ctrl[r].write = safeWrite[r]
    /\ owed[r] = Masked(ctrl[r].write, ctrl[r].read)
    /\ producer[r].pc \in {"looked", "filled"} => owed[r] + producer[r].burst < Size
    /\ producer[r].pc = "looked" =>
          Masked(safeWrite[r], producer[r].read)
             = owed[r] + Masked(ctrl[r].read, producer[r].read)
IndexInv ==
    /\ \A r \in Rings : RingExact(r)
    /\ \A p \in Readers \ orphans : user[p].readable <= owed[p]

IInv == TypeOK /\ HandlesInv /\ KernInv /\ UseInv /\ IndexInv

-----------------------------------------------------------------------------
(***************************************************************************)
(* Steps of the library that change nothing but a handle                   *)
(***************************************************************************)
HandleStep(p) ==
    \/ OpenAllocates(p) \/ OpenCtrl(p) \/ MapCtrl(p) \/ ReserveArea(p)
    \/ OpenBuff(p) \/ MapFirst(p) \/ MapSecond(p) \/ OpenFails(p)
    \/ ReadBegin(p) \/ Close(p)

(* A handle as such a step leaves it: it needs nothing new, unless a device *)
(* was there to be opened, and offers no more bytes than there are.         *)
HandleAfter(p, h) ==
    /\ Shape(h)
    /\ NeedsCtrl(h) => NeedsCtrl(user[p]) \/ Visible(p, "ctrl_device")
    /\ NeedsBuff(h) => NeedsBuff(user[p]) \/ Visible(p, "buff_device")
    /\ h.readable = 0 \/ (p \notin orphans /\ h.readable = Masked(ctrl[p].write, ctrl[p].read))

(* What each step of a handle does, from the shape it finds. *)
LEMMA HandleSteps ==
    ASSUME TypeOK, HandlesInv, NEW p \in Readers, HandleStep(p)
    PROVE  \E h \in Handles :
              /\ user' = [user EXCEPT ![p] = h]
              /\ HandleAfter(p, h)
              /\ Unmoved
<1> DEFINE u == user[p]
<1>1. u \in Handles /\ Shape(u) /\ user \in [Readers -> Handles]
  BY DEF TypeOK, HandlesInv
<1>2. /\ u.pc \in {"closed", "open", "reading"} \cup OpenSteps /\ u.heap \in BOOLEAN
      /\ u.fds \in SUBSET {"ctrl", "buff"} /\ u.maps \in SUBSET Mappings
      /\ u.leaked \in BOOLEAN /\ u.readable \in Offsets
  BY <1>1 DEF Handles
<1>3. SUFFICES ASSUME NEW h, h = user'[p]
               PROVE  /\ h \in Handles /\ user' = [user EXCEPT ![p] = h]
                      /\ HandleAfter(p, h) /\ Unmoved
  OBVIOUS
<1>z. 0 \in Offsets /\ p \in Rings
  BY OffsetsAre, MringAssumption
<1>4. CASE OpenAllocates(p)
  <2>1. h = [u EXCEPT !.pc = "ctrl_open", !.heap = TRUE] /\ user' = [user EXCEPT ![p] = h]
    BY <1>1, <1>3, <1>4 DEF OpenAllocates
  <2>2. u.pc = "closed" /\ Unmoved
    BY <1>4 DEF OpenAllocates
  <2>3. h \in Handles /\ HandleAfter(p, h)
    BY <1>1, <1>2, <2>1, <2>2 DEF Handles, Shape, HandleAfter, NeedsCtrl, NeedsBuff, OpenSteps
  <2> QED BY <2>1, <2>2, <2>3
<1>5. CASE OpenCtrl(p)
  <2>1. h = [u EXCEPT !.pc = "ctrl_map", !.fds = @ \cup {"ctrl"}] /\ user' = [user EXCEPT ![p] = h]
    BY <1>1, <1>3, <1>5 DEF OpenCtrl
  <2>2. u.pc = "ctrl_open" /\ Visible(p, "ctrl_device") /\ Unmoved
    BY <1>5 DEF OpenCtrl
  <2>3. u.fds = {} /\ u.maps = {} /\ u.readable = 0
    BY <1>1, <2>2 DEF Shape
  <2>4. h \in Handles /\ HandleAfter(p, h)
    BY <1>1, <1>2, <2>1, <2>2, <2>3 DEF Handles, Shape, HandleAfter, NeedsCtrl, NeedsBuff, OpenSteps
  <2> QED BY <2>1, <2>2, <2>4
<1>6. CASE MapCtrl(p)
  <2>1. /\ h = [u EXCEPT !.pc = "area", !.fds = @ \ {"ctrl"}, !.maps = @ \cup {"ctrl"}]
        /\ user' = [user EXCEPT ![p] = h]
    BY <1>1, <1>3, <1>6 DEF MapCtrl
  <2>2. u.pc = "ctrl_map" /\ Unmoved
    BY <1>6 DEF MapCtrl
  <2>3. u.fds = {"ctrl"} /\ u.maps = {} /\ u.readable = 0
    BY <1>1, <2>2 DEF Shape
  <2>4. h \in Handles /\ HandleAfter(p, h)
    BY <1>1, <1>2, <2>1, <2>2, <2>3
    DEF Handles, Shape, HandleAfter, NeedsCtrl, NeedsBuff, OpenSteps, Mappings
  <2> QED BY <2>1, <2>2, <2>4
<1>7. CASE ReserveArea(p)
  <2>1. /\ h = [u EXCEPT !.pc = "buff_open", !.maps = @ \cup {"area1", "area2"}]
        /\ user' = [user EXCEPT ![p] = h]
    BY <1>1, <1>3, <1>7 DEF ReserveArea
  <2>2. u.pc = "area" /\ Unmoved
    BY <1>7 DEF ReserveArea
  <2>3. u.fds = {} /\ u.maps = {"ctrl"} /\ u.readable = 0
    BY <1>1, <2>2 DEF Shape
  <2>4. h \in Handles /\ HandleAfter(p, h)
    BY <1>1, <1>2, <2>1, <2>2, <2>3
    DEF Handles, Shape, HandleAfter, NeedsCtrl, NeedsBuff, OpenSteps, Mappings
  <2> QED BY <2>1, <2>2, <2>4
<1>8. CASE OpenBuff(p)
  <2>1. h = [u EXCEPT !.pc = "first", !.fds = @ \cup {"buff"}] /\ user' = [user EXCEPT ![p] = h]
    BY <1>1, <1>3, <1>8 DEF OpenBuff
  <2>2. u.pc = "buff_open" /\ Visible(p, "buff_device") /\ Unmoved
    BY <1>8 DEF OpenBuff
  <2>3. u.fds = {} /\ u.maps = {"ctrl", "area1", "area2"} /\ u.readable = 0
    BY <1>1, <2>2 DEF Shape
  <2>4. h \in Handles /\ HandleAfter(p, h)
    BY <1>1, <1>2, <2>1, <2>2, <2>3 DEF Handles, Shape, HandleAfter, NeedsCtrl, NeedsBuff, OpenSteps
  <2> QED BY <2>1, <2>2, <2>4
<1>9. CASE MapFirst(p)
  <2>1. /\ h = [u EXCEPT !.pc = "second", !.maps = (@ \ {"area1"}) \cup {"first"}]
        /\ user' = [user EXCEPT ![p] = h]
    BY <1>1, <1>3, <1>9 DEF MapFirst
  <2>2. u.pc = "first" /\ Unmoved
    BY <1>9 DEF MapFirst
  <2>3. u.fds = {"buff"} /\ u.maps = {"ctrl", "area1", "area2"} /\ u.readable = 0
    BY <1>1, <2>2 DEF Shape
  <2>4. h \in Handles /\ HandleAfter(p, h)
    BY <1>1, <1>2, <2>1, <2>2, <2>3
    DEF Handles, Shape, HandleAfter, NeedsCtrl, NeedsBuff, OpenSteps, Mappings
  <2> QED BY <2>1, <2>2, <2>4
<1>10. CASE MapSecond(p)
  <2>1. /\ h = [u EXCEPT !.pc = "open", !.fds = @ \ {"buff"}, !.maps = (@ \ {"area2"}) \cup {"second"}]
        /\ user' = [user EXCEPT ![p] = h]
    BY <1>1, <1>3, <1>10 DEF MapSecond
  <2>2. u.pc = "second" /\ Unmoved
    BY <1>10 DEF MapSecond
  <2>3. u.fds = {"buff"} /\ u.maps = {"ctrl", "first", "area2"} /\ u.readable = 0
    BY <1>1, <2>2 DEF Shape
  <2>4. h \in Handles /\ HandleAfter(p, h)
    BY <1>1, <1>2, <2>1, <2>2, <2>3
    DEF Handles, Shape, HandleAfter, NeedsCtrl, NeedsBuff, OpenSteps, Mappings
  <2> QED BY <2>1, <2>2, <2>4
<1>11. CASE OpenFails(p)
  <2>1. /\ h = [u EXCEPT !.pc = "closed", !.heap = FALSE, !.fds = {}, !.maps = @ \ OpenErrorUnmaps]
        /\ user' = [user EXCEPT ![p] = h]
    BY <1>1, <1>3, <1>11 DEF OpenFails
  <2>2. u.pc \in OpenSteps /\ Unmoved
    BY <1>11 DEF OpenFails
  <2>3. u.maps \subseteq {"area1", "area2", "first", "ctrl"} /\ u.readable = 0
    BY <1>1, <2>2 DEF Shape, OpenSteps
  <2>4. h.maps = {}
    BY <2>1, <2>3, <1>1 DEF OpenErrorUnmaps, Handles
  <2>5. h \in Handles /\ HandleAfter(p, h)
    BY <1>1, <1>2, <2>1, <2>2, <2>3, <2>4
    DEF Handles, Shape, HandleAfter, NeedsCtrl, NeedsBuff
  <2> QED BY <2>1, <2>2, <2>5
<1>12. CASE ReadBegin(p)
  <2> DEFINE m == Masked(ctrl[p].write, ctrl[p].read)
  <2>1. /\ h = [u EXCEPT !.pc = "reading", !.readable = m]
        /\ user' = [user EXCEPT ![p] = h]
    BY <1>1, <1>3, <1>12 DEF ReadBegin
  <2>2. u.pc = "open" /\ Unmoved /\ p \notin orphans
    BY <1>12 DEF ReadBegin
  <2>3. m \in Offsets
    BY MaskedIs, <1>z DEF TypeOK
  <2> HIDE DEF m
  <2>4. h \in Handles /\ h.readable = m
    BY <1>1, <1>2, <2>1, <2>3 DEF Handles
  <2>5. Shape(h) /\ NeedsCtrl(u) = NeedsCtrl(h) /\ NeedsBuff(u) = NeedsBuff(h)
    BY <1>1, <1>2, <2>1, <2>2 DEF Handles, Shape, NeedsCtrl, NeedsBuff
  <2>6. HandleAfter(p, h)
    BY <2>2, <2>4, <2>5 DEF HandleAfter, m
  <2> QED BY <2>1, <2>2, <2>4, <2>6
<1>13. CASE Close(p)
  <2>1. /\ h = [u EXCEPT !.pc = "closed", !.heap = FALSE, !.leaked = TRUE,
                         !.maps = @ \ {"first", "second", "ctrl"}]
        /\ user' = [user EXCEPT ![p] = h]
    BY <1>1, <1>3, <1>13 DEF Close
  <2>2. u.pc = "open" /\ Unmoved
    BY <1>13 DEF Close
  <2>3. u.fds = {} /\ u.maps = {"ctrl", "first", "second"} /\ u.readable = 0
    BY <1>1, <2>2 DEF Shape
  <2>4. h \in Handles /\ HandleAfter(p, h)
    BY <1>1, <1>2, <2>1, <2>2, <2>3 DEF Handles, Shape, HandleAfter, NeedsCtrl, NeedsBuff
  <2> QED BY <2>1, <2>2, <2>4
<1> QED BY <1>4, <1>5, <1>6, <1>7, <1>8, <1>9, <1>10, <1>11, <1>12, <1>13 DEF HandleStep

(* A reader uses the module when it needs one of its pages. *)
LEMMA UsesIs ==
    ASSUME TypeOK, NEW p \in Readers
    PROVE  Uses(p) <=> NeedsCtrl(user[p]) \/ NeedsBuff(user[p])
<1>1. user[p].fds \subseteq {"ctrl", "buff"}
  BY DEF TypeOK, Handles
<1> QED BY <1>1 DEF Uses, NeedsCtrl, NeedsBuff

-----------------------------------------------------------------------------
(***************************************************************************)
(* It holds at first, and every step keeps it                              *)
(***************************************************************************)
LEMMA Initial == Init => IInv
<1> SUFFICES ASSUME Init PROVE IInv
  OBVIOUS
<1>1. 0 \in Offsets /\ Readers \subseteq Rings
  BY OffsetsAre, MringAssumption
<1>2. Masked(0, 0) = 0
  BY <1>1, MaskedIs, OffsetsAre
<1>3. NoHandle \in Handles /\ NoCallback \in Producers
  BY <1>1 DEF NoHandle, Handles, Mappings, NoCallback, Producers
<1>4. TypeOK
  BY <1>1, <1>3 DEF Init, TypeOK, NewCtrl
<1>5. HandlesInv
  BY DEF Init, HandlesInv, Shape, NoHandle
<1>6. KernInv
  BY DEF Init, KernInv, NoCallback
<1>7. UseInv
  BY DEF Init, UseInv, Uses, NeedsCtrl, NeedsBuff, NoHandle
<1>8. IndexInv
  BY <1>1, <1>2, OffsetsAre DEF Init, IndexInv, RingExact, NewCtrl, NoCallback, NoHandle
<1> QED BY <1>4, <1>5, <1>6, <1>7, <1>8 DEF IInv

(* The next resource of mring_init is one it does not hold. *)
LEMMA NextIsNew ==
    ASSUME IInv, InitStep
    PROVE  /\ NextPart \in Resources /\ NextPart \notin kern
           /\ \E n \in 0 .. InitSteps : kern' = Prefix(n) /\ IsFiniteSet(Prefix(n)) /\ Cardinality(Prefix(n)) = n
<1>1. module = "initializing" /\ kern # Resources /\ kern' = kern \cup {NextPart}
  BY DEF InitStep
<1>2. PICK n \in 0 .. InitSteps : kern = Prefix(n) /\ IsFiniteSet(Prefix(n)) /\ Cardinality(Prefix(n)) = n
  BY <1>1 DEF IInv, KernInv
<1>3. /\ n + 1 \in 1 .. InitSteps
      /\ InitOrder[n + 1] \notin Prefix(n)
      /\ Prefix(n + 1) = Prefix(n) \cup {InitOrder[n + 1]}
      /\ IsFiniteSet(Prefix(n + 1)) /\ Cardinality(Prefix(n + 1)) = n + 1
  BY <1>1, <1>2, PrefixGrows
<1>4. NextPart = InitOrder[n + 1]
  BY <1>2 DEF NextPart
<1>5. NextPart \in Resources
  BY <1>3, <1>4, AllResources DEF Prefix
<1>6. n + 1 \in 0 .. InitSteps
  BY <1>3
<1> QED BY <1>1, <1>2, <1>3, <1>4, <1>5, <1>6

(* A step of mring_init that obtains the control page of a ring makes the   *)
(* ring afresh, and no other step touches one.                              *)
LEMMA InitStepRings ==
    ASSUME IInv, InitStep, NEW r \in Rings
    PROVE  \/ /\ PartOf(r, "shared_ctrl") \notin kern
              /\ ctrl'[r] = NewCtrl /\ safeWrite'[r] = 0 /\ owed'[r] = 0 /\ spoiled'[r] = {}
           \/ /\ ctrl'[r] = ctrl[r] /\ safeWrite'[r] = safeWrite[r]
              /\ owed'[r] = owed[r] /\ spoiled'[r] = spoiled[r]
<1>1. TypeOK
  BY DEF IInv
<1>2. CASE NextPart.name = "shared_ctrl" /\ NextPart.ring = r
  <2>1. /\ ctrl'[r] = NewCtrl /\ safeWrite'[r] = 0 /\ owed'[r] = 0 /\ spoiled'[r] = {}
    BY <1>1, <1>2 DEF InitStep, TypeOK
  <2>2. NextPart \in Resources /\ NextPart \notin kern
    BY NextIsNew
  <2>3. NextPart = PartOf(r, "shared_ctrl")
    <3>1. PICK i \in 1 .. InitSteps : NextPart = InitOrder[i]
      BY <2>2, AllResources DEF Prefix
    <3>2. \/ \E n : NextPart = Part(n)
          \/ \E q, n : NextPart = PartOf(q, n)
      BY <3>1, PartsOfOrder, OrderOfParts
    <3> QED BY <1>2, <3>2 DEF Part, PartOf
  <2> QED BY <2>1, <2>2, <2>3
<1>3. CASE ~(NextPart.name = "shared_ctrl" /\ NextPart.ring = r)
  BY <1>1, <1>3 DEF InitStep, TypeOK
<1> QED BY <1>2, <1>3

LEMMA TypeKernel == IInv /\ Kernel => TypeOK'
<1> SUFFICES ASSUME IInv, Kernel PROVE TypeOK'
  OBVIOUS
<1>1. TypeOK
  BY DEF IInv
<1>2. 0 \in Offsets /\ Size \in Nat /\ NoCallback \in Producers /\ [NoCallback EXCEPT !.pc = "armed"] \in Producers
  BY OffsetsAre DEF NoCallback, Producers
<1>3. CASE LoadModule
  BY <1>1, <1>3 DEF LoadModule, TypeOK, ring
<1>4. CASE InitStep
  <2>1. kern' \subseteq Resources
    BY <1>1, <1>4, NextIsNew DEF InitStep, TypeOK
  <2>2. /\ ctrl' \in [Rings -> [read : Offsets, write : Offsets]]
        /\ safeWrite' \in [Rings -> Offsets] /\ owed' \in [Rings -> Nat]
        /\ spoiled' \in [Rings -> SUBSET Offsets]
    <3>1. CASE NextPart.name = "shared_ctrl"
      <4> DEFINE k == NextPart.ring
      <4>1. /\ ctrl' = [ctrl EXCEPT ![k] = NewCtrl] /\ safeWrite' = [safeWrite EXCEPT ![k] = 0]
            /\ owed' = [owed EXCEPT ![k] = 0] /\ spoiled' = [spoiled EXCEPT ![k] = {}]
        BY <1>4, <3>1 DEF InitStep
      <4>2. NewCtrl \in [read : Offsets, write : Offsets]
        BY <1>2 DEF NewCtrl
      <4> HIDE DEF k
      <4> QED BY <1>1, <1>2, <4>1, <4>2 DEF TypeOK
    <3>2. CASE NextPart.name # "shared_ctrl"
      BY <1>1, <1>4, <3>2 DEF InitStep, TypeOK
    <3> QED BY <3>1, <3>2
  <2> QED BY <1>1, <1>4, <2>1, <2>2 DEF InitStep, TypeOK
<1>5. CASE InitDone
  BY <1>1, <1>2, <1>5 DEF InitDone, TypeOK
<1>6. CASE InitError
  BY <1>1, <1>6 DEF InitError, TypeOK, ring, InUse
<1>7. CASE UnloadModule
  BY <1>1, <1>7 DEF UnloadModule, TypeOK, ring
<1>8. CASE ExitDone
  BY <1>1, <1>8 DEF ExitDone, TypeOK, ring
<1>9. ASSUME NEW r \in Rings, DestroyRing(r) PROVE TypeOK'
  BY <1>1, <1>2, <1>9 DEF DestroyRing, TypeOK
<1>10. ASSUME NEW r \in Rings, CallbackFills(r) PROVE TypeOK'
  <2>1. producer' \in [Rings -> Producers]
    BY <1>1, <1>10 DEF CallbackFills, TypeOK, Producers
  <2>2. Unread(r) \cap Filled(producer[r].read, safeWrite[r]) \subseteq Offsets
    BY <1>2 DEF Filled, Offsets
  <2>3. spoiled' \in [Rings -> SUBSET Offsets]
    BY <1>1, <1>10, <2>2 DEF CallbackFills, TypeOK
  <2> QED BY <1>1, <1>10, <2>1, <2>3 DEF CallbackFills, TypeOK
<1>11. ASSUME NEW r \in Rings, CallbackPublishes(r) PROVE TypeOK'
  <2> DEFINE next == (safeWrite[r] + producer[r].burst) % Size
  <2>1. producer[r].burst \in Nat /\ safeWrite[r] \in Offsets /\ ctrl[r] \in [read : Offsets, write : Offsets]
    BY <1>1 DEF TypeOK, Producers
  <2>2. owed[r] + producer[r].burst < Size /\ owed[r] \in Nat
    BY <1>11, <1>1 DEF CallbackPublishes, IInv, IndexInv, RingExact, TypeOK
  <2>3. next \in Offsets
    BY <1>2, <2>1, <2>2, MovesOn
  <2> HIDE DEF next
  <2>4. /\ safeWrite' = [safeWrite EXCEPT ![r] = next]
        /\ ctrl' = [ctrl EXCEPT ![r].write = next]
        /\ owed' = [owed EXCEPT ![r] = @ + producer[r].burst]
        /\ producer' = [producer EXCEPT ![r] = [NoCallback EXCEPT !.pc = "armed"]]
        /\ UNCHANGED <<module, kern, spoiled, user, orphans>>
    BY <1>11 DEF CallbackPublishes, next
  <2>5. /\ ctrl' \in [Rings -> [read : Offsets, write : Offsets]]
        /\ owed' \in [Rings -> Nat]
    BY <1>1, <2>1, <2>2, <2>3, <2>4 DEF TypeOK
  <2> QED BY <1>1, <1>2, <2>3, <2>4, <2>5 DEF TypeOK
<1>12. ASSUME NEW r \in Rings, NEW burst \in Bursts, CallbackLooks(r, burst) PROVE TypeOK'
  <2>1. burst \in Nat /\ ctrl[r].read \in Offsets
    BY <1>1, MringAssumption DEF TypeOK
  <2>2. [pc |-> "looked", read |-> ctrl[r].read, burst |-> burst] \in Producers
    BY <2>1 DEF Producers
  <2> QED BY <1>1, <1>12, <2>2 DEF CallbackLooks, TypeOK
<1> QED BY <1>3, <1>4, <1>5, <1>6, <1>7, <1>8, <1>9, <1>10, <1>11, <1>12 DEF Kernel

(* What a reader does to the ring when it says what it has read. *)
LEMMA ReadEndRing ==
    ASSUME IInv, NEW p \in Readers, NEW bytes \in Offsets, ReadEnd(p, bytes)
    PROVE  /\ p \in Rings /\ p \notin orphans
           /\ bytes \in Nat /\ bytes <= owed[p]
           /\ (ctrl[p].read + bytes) % Size \in Offsets
           /\ Masked(ctrl[p].write, (ctrl[p].read + bytes) % Size) = owed[p] - bytes
           /\ ctrl'[p].read = (ctrl[p].read + bytes) % Size /\ ctrl'[p].write = ctrl[p].write
           /\ owed'[p] = owed[p] - bytes
           /\ \A q \in Rings \ {p} : ctrl'[q] = ctrl[q] /\ owed'[q] = owed[q]
<1>1. TypeOK /\ p \in Rings /\ bytes \in Nat
  BY MringAssumption, OffsetsAre DEF IInv
<1>2. p \notin orphans /\ bytes <= user[p].readable
  BY DEF ReadEnd
<1>3. user[p].readable <= owed[p] /\ owed[p] = Masked(ctrl[p].write, ctrl[p].read)
  BY <1>1, <1>2 DEF IInv, IndexInv, RingExact
<1>4. user[p].readable \in Nat /\ owed[p] \in Nat
  BY <1>1, OffsetsAre DEF TypeOK, Handles
<1>5. bytes <= owed[p]
  BY <1>1, <1>2, <1>3, <1>4
<1>6. ctrl[p].read \in Offsets /\ ctrl[p].write \in Offsets
  BY <1>1 DEF TypeOK
<1>7. /\ (ctrl[p].read + bytes) % Size \in Offsets
      /\ Masked(ctrl[p].write, (ctrl[p].read + bytes) % Size) = owed[p] - bytes
  <2> DEFINE a == ctrl[p].write
             b == ctrl[p].read
  <2>1. a \in Offsets /\ b \in Offsets /\ bytes <= Masked(a, b) /\ owed[p] = Masked(a, b)
    BY <1>3, <1>5, <1>6
  <2> HIDE DEF a, b
  <2>2. (b + bytes) % Size \in Offsets /\ Masked(a, (b + bytes) % Size) = Masked(a, b) - bytes
    BY <1>1, <2>1, AdvanceRead
  <2> QED BY <2>1, <2>2 DEF a, b
<1>8. /\ ctrl' = [ctrl EXCEPT ![p].read = (ctrl[p].read + bytes) % Size]
      /\ owed' = [owed EXCEPT ![p] = @ - bytes]
  BY DEF ReadEnd
<1>9. /\ ctrl'[p].read = (ctrl[p].read + bytes) % Size /\ ctrl'[p].write = ctrl[p].write
      /\ owed'[p] = owed[p] - bytes
      /\ \A q \in Rings \ {p} : ctrl'[q] = ctrl[q] /\ owed'[q] = owed[q]
  BY <1>1, <1>8 DEF TypeOK
<1> QED BY <1>1, <1>2, <1>5, <1>7, <1>9

LEMMA NextCases ==
    ASSUME [Next]_vars
    PROVE  \/ UNCHANGED vars
           \/ Kernel
           \/ \E p \in Readers : \/ HandleStep(p) \/ ProcessEnds(p)
                               \/ \E bytes \in Offsets : ReadEnd(p, bytes)
BY DEF Next, Library, HandleStep

(* The kernel moves no handle. *)
LEMMA KernelKeepsUsers == Kernel => user' = user
BY DEF Kernel, LoadModule, InitStep, InitDone, InitError, UnloadModule, ExitDone,
       DestroyRing, CallbackFills, CallbackPublishes, CallbackLooks

LEMMA ReadEndUser ==
    ASSUME TypeOK, NEW p \in Readers, NEW bytes \in Offsets, ReadEnd(p, bytes)
    PROVE  /\ user' = [user EXCEPT ![p] = [user[p] EXCEPT !.pc = "open", !.readable = 0]]
           /\ user[p].pc = "reading"
           /\ user \in [Readers -> Handles]
           /\ [user[p] EXCEPT !.pc = "open", !.readable = 0] \in Handles
<1>1. 0 \in Offsets /\ user \in [Readers -> Handles]
  BY OffsetsAre DEF TypeOK
<1>2. user' = [user EXCEPT ![p] = [user[p] EXCEPT !.pc = "open", !.readable = 0]]
  BY <1>1 DEF ReadEnd
<1>3. [user[p] EXCEPT !.pc = "open", !.readable = 0] \in Handles
  BY <1>1 DEF Handles
<1> QED BY <1>1, <1>2, <1>3 DEF ReadEnd

LEMMA TypeNext == IInv /\ [Next]_vars => TypeOK'
<1> SUFFICES ASSUME IInv, [Next]_vars PROVE TypeOK'
  OBVIOUS
<1>1. TypeOK /\ HandlesInv
  BY DEF IInv
<1>2. CASE UNCHANGED vars
  BY <1>1, <1>2 DEF TypeOK, vars, ring
<1>3. ASSUME NEW p \in Readers, HandleStep(p) PROVE TypeOK'
  <2>1. PICK h \in Handles : user' = [user EXCEPT ![p] = h] /\ Unmoved
    BY <1>1, <1>3, HandleSteps
  <2>2. user' \in [Readers -> Handles]
    BY <1>1, <2>1 DEF TypeOK
  <2> QED BY <1>1, <2>1, <2>2 DEF TypeOK, Unmoved, ring
<1>4. ASSUME NEW p \in Readers, ProcessEnds(p) PROVE TypeOK'
  <2>1. NoHandle \in Handles
    BY OffsetsAre DEF NoHandle, Handles
  <2> QED BY <1>1, <1>4, <2>1 DEF ProcessEnds, TypeOK, ring
<1>5. ASSUME NEW p \in Readers, NEW bytes \in Offsets, ReadEnd(p, bytes) PROVE TypeOK'
  <2>1. user' \in [Readers -> Handles]
    BY <1>1, <1>5, ReadEndUser
  <2>2. /\ p \in Rings /\ bytes \in Nat /\ bytes <= owed[p]
        /\ (ctrl[p].read + bytes) % Size \in Offsets
    BY <1>5, ReadEndRing
  <2> DEFINE next == (ctrl[p].read + bytes) % Size
  <2>3. /\ ctrl' = [ctrl EXCEPT ![p].read = next]
        /\ owed' = [owed EXCEPT ![p] = @ - bytes]
        /\ \E taken : spoiled' = [spoiled EXCEPT ![p] = @ \ taken]
        /\ UNCHANGED <<module, kern, safeWrite, producer, orphans>>
    BY <1>5 DEF ReadEnd
  <2> HIDE DEF next
  <2>4. ctrl' \in [Rings -> [read : Offsets, write : Offsets]]
    BY <1>1, <2>2, <2>3 DEF TypeOK, next
  <2>5. owed' \in [Rings -> Nat]
    BY <1>1, <2>2, <2>3 DEF TypeOK
  <2>6. spoiled' \in [Rings -> SUBSET Offsets]
    BY <1>1, <2>2, <2>3 DEF TypeOK
  <2> QED BY <1>1, <2>1, <2>3, <2>4, <2>5, <2>6 DEF TypeOK
<1> QED BY <1>2, <1>3, <1>4, <1>5, NextCases, TypeKernel

LEMMA HandlesNext == IInv /\ [Next]_vars => HandlesInv'
<1> SUFFICES ASSUME IInv, [Next]_vars, NEW q \in Readers PROVE Shape(user'[q])
  BY DEF HandlesInv
<1>1. TypeOK /\ HandlesInv /\ Shape(user[q]) /\ user \in [Readers -> Handles]
  BY DEF IInv, HandlesInv, TypeOK
<1>2. CASE user' = user
  BY <1>1, <1>2
<1>3. ASSUME NEW p \in Readers, HandleStep(p) PROVE Shape(user'[q])
  <2>1. PICK h \in Handles : user' = [user EXCEPT ![p] = h] /\ HandleAfter(p, h)
    BY <1>1, <1>3, HandleSteps
  <2>2. Shape(h)
    BY <2>1 DEF HandleAfter
  <2>3. user'[q] = h \/ user'[q] = user[q]
    BY <1>1, <2>1
  <2> QED BY <1>1, <2>2, <2>3
<1>4. ASSUME NEW p \in Readers, ProcessEnds(p) PROVE Shape(user'[q])
  <2>1. Shape(NoHandle)
    BY DEF Shape, NoHandle
  <2>2. user'[q] = NoHandle \/ user'[q] = user[q]
    BY <1>1, <1>4 DEF ProcessEnds
  <2> QED BY <1>1, <2>1, <2>2
<1>5. ASSUME NEW p \in Readers, NEW bytes \in Offsets, ReadEnd(p, bytes) PROVE Shape(user'[q])
  <2> DEFINE h == [user[p] EXCEPT !.pc = "open", !.readable = 0]
  <2>1. user' = [user EXCEPT ![p] = h] /\ user[p].pc = "reading"
    BY <1>1, <1>5, ReadEndUser
  <2>2. Shape(user[p]) /\ user[p] \in Handles
    BY <1>1 DEF HandlesInv
  <2>3. Shape(h)
    BY <2>1, <2>2 DEF Shape, Handles
  <2> HIDE DEF h
  <2>4. user'[q] = h \/ user'[q] = user[q]
    BY <1>1, <2>1
  <2> QED BY <1>1, <2>3, <2>4
<1> QED BY <1>2, <1>3, <1>4, <1>5, NextCases, KernelKeepsUsers DEF vars

(* Steps of the library keep what the module holds. *)
LEMMA LibraryKeepsKernel ==
    ASSUME TypeOK, HandlesInv, NEW p \in Readers,
           \/ HandleStep(p) \/ ProcessEnds(p) \/ \E bytes \in Offsets : ReadEnd(p, bytes)
    PROVE  UNCHANGED <<module, kern, producer, safeWrite>>
<1>1. CASE HandleStep(p)
  BY <1>1, HandleSteps DEF Unmoved, ring
<1>2. CASE ProcessEnds(p)
  BY <1>2 DEF ProcessEnds, ring
<1>3. ASSUME NEW bytes \in Offsets, ReadEnd(p, bytes)
      PROVE UNCHANGED <<module, kern, producer, safeWrite>>
  BY <1>3 DEF ReadEnd
<1> QED BY <1>1, <1>2, <1>3

LEMMA KernNext == IInv /\ [Next]_vars => KernInv'
<1> SUFFICES ASSUME IInv, [Next]_vars PROVE KernInv'
  OBVIOUS
<1>1. TypeOK /\ HandlesInv /\ KernInv
  BY DEF IInv
<1>2. CASE UNCHANGED <<module, kern, producer>>
  BY <1>1, <1>2 DEF KernInv
<1>3. CASE LoadModule
  <2>1. kern' = Prefix(0) /\ module' = "initializing" /\ producer' = producer
    BY <1>1, <1>3, AllResources DEF LoadModule, KernInv, ring
  <2>2. IsFiniteSet(Prefix(0)) /\ Cardinality(Prefix(0)) = 0 /\ 0 \in 0 .. InitSteps
    BY AllResources, FS_EmptySet, MringAssumption DEF InitSteps
  <2>3. \A r \in Rings : producer[r].pc = "off"
    BY <1>1, <1>3 DEF LoadModule, KernInv
  <2> QED BY <2>1, <2>2, <2>3 DEF KernInv
<1>4. CASE InitStep
  <2>1. \E n \in 0 .. InitSteps : kern' = Prefix(n) /\ IsFiniteSet(Prefix(n)) /\ Cardinality(Prefix(n)) = n
    BY <1>4, NextIsNew
  <2>2. module' = "initializing" /\ producer' = producer /\ module = "initializing"
    BY <1>4 DEF InitStep
  <2> QED BY <1>1, <2>1, <2>2 DEF KernInv
<1>5. CASE InitDone
  <2>1. \A r \in Rings : producer'[r].pc = "armed"
    BY <1>5 DEF InitDone, NoCallback
  <2> QED BY <1>5, <2>1 DEF InitDone, KernInv
<1>6. CASE InitError
  <2>1. kern' = {}
    BY <1>1, <1>6, AllResources DEF InitError, TypeOK
  <2> QED BY <1>1, <1>6, <2>1 DEF InitError, KernInv, ring
<1>7. CASE UnloadModule
  BY <1>1, <1>7 DEF UnloadModule, KernInv, ring
<1>8. CASE ExitDone
  <2>1. \A r \in Rings : producer[r].pc = "off" /\ kern \cap RingRelease(r) = {}
    BY <1>1, <1>8 DEF ExitDone, KernInv
  <2>2. kern \subseteq {Part("mrings"), Part("class"), Part("buff_major"), Part("ctrl_major")}
    BY <1>1, <2>1, AllResources DEF TypeOK
  <2>3. kern' = {}
    BY <1>8, <2>2 DEF ExitDone
  <2> QED BY <1>8, <2>1, <2>3 DEF ExitDone, KernInv, ring
<1>9. ASSUME NEW r \in Rings, DestroyRing(r) PROVE KernInv'
  <2>1. module = "exiting" /\ module' = "exiting" /\ kern' = kern \ RingRelease(r)
    BY <1>9 DEF DestroyRing
  <2>2. ASSUME NEW s \in Rings, producer'[s].pc = "off" PROVE kern' \cap RingRelease(s) = {}
    <3>1. CASE s = r
      BY <2>1, <3>1
    <3>2. CASE s # r
      <4>1. producer'[s] = producer[s]
        BY <1>1, <1>9, <3>2 DEF DestroyRing, TypeOK
      <4>2. kern \cap RingRelease(s) = {}
        BY <1>1, <2>1, <2>2, <4>1 DEF KernInv
      <4> QED BY <2>1, <4>2
    <3> QED BY <3>1, <3>2
  <2> QED BY <2>1, <2>2 DEF KernInv
<1>10. ASSUME NEW r \in Rings,
              \/ CallbackFills(r) \/ CallbackPublishes(r)
              \/ \E burst \in Bursts : CallbackLooks(r, burst)
       PROVE  KernInv'
  <2>1. module' = module /\ kern' = kern /\ producer[r].pc # "off" /\ producer'[r].pc # "off"
    BY <1>1, <1>10 DEF CallbackFills, CallbackPublishes, CallbackLooks, TypeOK, NoCallback, Producers
  <2>2. \A s \in Rings \ {r} : producer'[s] = producer[s]
    BY <1>1, <1>10 DEF CallbackFills, CallbackPublishes, CallbackLooks, TypeOK
  <2>3. \A s \in Rings : producer'[s].pc = "off" <=> producer[s].pc = "off"
    BY <2>1, <2>2
  <2> QED BY <1>1, <2>1, <2>3 DEF KernInv
<1>11. CASE Kernel
  BY <1>3, <1>4, <1>5, <1>6, <1>7, <1>8, <1>9, <1>10, <1>11 DEF Kernel
<1>12. CASE UNCHANGED vars
  BY <1>2, <1>12 DEF vars, ring
<1> QED BY <1>1, <1>2, <1>11, <1>12, NextCases, LibraryKeepsKernel

(* Where a device can be opened, the pages behind it are there. *)
LEMMA VisiblePages ==
    ASSUME KernInv, NEW r \in Rings
    PROVE  /\ Visible(r, "ctrl_device") => PartOf(r, "shared_ctrl") \in kern
           /\ Visible(r, "buff_device") => PartOf(r, "shared_buff") \in kern
<1>1. CASE module = "initializing"
  BY <1>1, PartsBefore DEF KernInv, Visible
<1>2. CASE module = "live"
  <2>1. kern = Prefix(InitSteps) /\ InitSteps \in 0 .. InitSteps
    BY <1>2, AllResources, MringAssumption DEF KernInv, InitSteps
  <2>2. /\ PartOf(r, "ctrl_device") \in Prefix(InitSteps) => PartOf(r, "shared_ctrl") \in Prefix(InitSteps)
        /\ PartOf(r, "buff_device") \in Prefix(InitSteps) => PartOf(r, "shared_buff") \in Prefix(InitSteps)
    BY <2>1, PartsBefore
  <2> QED BY <2>1, <2>2 DEF Visible
<1> QED BY <1>1, <1>2 DEF Visible

(* Need of a page, and use of the module, in the words of UseInv. *)
Served(p) ==
    /\ Uses(p) => module \in {"initializing", "live"}
    /\ NeedsCtrl(user[p]) => PartOf(p, "shared_ctrl") \in kern
    /\ NeedsBuff(user[p]) => PartOf(p, "shared_buff") \in kern

LEMMA UseNext == IInv /\ [Next]_vars => UseInv'
<1> SUFFICES ASSUME IInv, [Next]_vars, NEW q \in Readers, q \notin orphans' PROVE Served(q)'
  BY DEF UseInv, Served
<1>1. TypeOK /\ HandlesInv /\ KernInv /\ UseInv /\ user \in [Readers -> Handles] /\ q \in Rings
  BY MringAssumption DEF IInv, TypeOK
<1>2. q \notin orphans => Served(q)
  BY <1>1 DEF UseInv, Served
<1>t. TypeOK'
  BY TypeNext
<1>3. Uses(q)' <=> NeedsCtrl(user'[q]) \/ NeedsBuff(user'[q])
  <2>1. user'[q].fds \subseteq {"ctrl", "buff"}
    BY <1>t DEF TypeOK, Handles
  <2> QED BY <2>1 DEF Uses, NeedsCtrl, NeedsBuff
<1>4. Uses(q) <=> NeedsCtrl(user[q]) \/ NeedsBuff(user[q])
  BY <1>1, UsesIs
<1>5. CASE UNCHANGED <<module, kern, user, orphans>>
  BY <1>2, <1>5 DEF Served, Uses
<1>6. CASE LoadModule
  BY <1>2, <1>6 DEF LoadModule, Served, Uses
<1>7. CASE InitStep
  BY <1>2, <1>7 DEF InitStep, Served, Uses
<1>8. CASE InitDone
  BY <1>2, <1>8 DEF InitDone, Served, Uses
<1>9. CASE InitError \/ UnloadModule
  <2>1. user' = user /\ ~ Uses(q)
    BY <1>9 DEF InitError, UnloadModule, InUse
  <2> QED BY <1>3, <1>4, <2>1 DEF Served
<1>10. CASE ExitDone \/ \E r \in Rings : DestroyRing(r)
  <2>1. user' = user /\ orphans' = orphans /\ module = "exiting"
    BY <1>10 DEF ExitDone, DestroyRing
  <2>2. ~ Uses(q)
    BY <1>2, <2>1 DEF Served
  <2> QED BY <1>3, <1>4, <2>1, <2>2 DEF Served
<1>11. ASSUME NEW r \in Rings,
              \/ CallbackFills(r) \/ CallbackPublishes(r)
              \/ \E burst \in Bursts : CallbackLooks(r, burst)
       PROVE  UNCHANGED <<module, kern, user, orphans>>
  BY <1>11 DEF CallbackFills, CallbackPublishes, CallbackLooks
<1>12. CASE Kernel
  BY <1>5, <1>6, <1>7, <1>8, <1>9, <1>10, <1>11, <1>12 DEF Kernel
<1>13. ASSUME NEW p \in Readers, HandleStep(p) PROVE Served(q)'
  <2>1. PICK h \in Handles : user' = [user EXCEPT ![p] = h] /\ HandleAfter(p, h) /\ Unmoved
    BY <1>1, <1>13, HandleSteps
  <2>2. module' = module /\ kern' = kern /\ q \notin orphans
    BY <2>1 DEF Unmoved
  <2>3. CASE q # p
    <3>1. user'[q] = user[q]
      BY <1>1, <2>1, <2>3
    <3> QED BY <1>2, <1>3, <1>4, <2>2, <3>1 DEF Served
  <2>4. CASE q = p
    <3>1. user'[q] = h
      BY <1>1, <2>1, <2>4
    <3>2. /\ NeedsCtrl(h) => NeedsCtrl(user[q]) \/ Visible(q, "ctrl_device")
          /\ NeedsBuff(h) => NeedsBuff(user[q]) \/ Visible(q, "buff_device")
      BY <2>1, <2>4 DEF HandleAfter
    <3>3. NeedsCtrl(h) => PartOf(q, "shared_ctrl") \in kern /\ module \in {"initializing", "live"}
      BY <1>1, <1>2, <1>4, <2>2, <3>2, VisiblePages DEF Served, Visible
    <3>4. NeedsBuff(h) => PartOf(q, "shared_buff") \in kern /\ module \in {"initializing", "live"}
      BY <1>1, <1>2, <1>4, <2>2, <3>2, VisiblePages DEF Served, Visible
    <3> QED BY <1>3, <2>2, <3>1, <3>3, <3>4 DEF Served
  <2> QED BY <2>3, <2>4
<1>14. ASSUME NEW p \in Readers, ProcessEnds(p) PROVE Served(q)'
  <2>1. user' = [user EXCEPT ![p] = NoHandle] /\ orphans' = orphans \ {p} /\ module' = module /\ kern' = kern
    BY <1>14 DEF ProcessEnds
  <2>2. ~ NeedsCtrl(NoHandle) /\ ~ NeedsBuff(NoHandle)
    BY DEF NeedsCtrl, NeedsBuff, NoHandle
  <2>3. CASE q = p
    BY <1>1, <1>3, <2>1, <2>2, <2>3 DEF Served
  <2>4. CASE q # p
    BY <1>1, <1>2, <1>3, <1>4, <2>1, <2>4 DEF Served
  <2> QED BY <2>3, <2>4
<1>15. ASSUME NEW p \in Readers, NEW bytes \in Offsets, ReadEnd(p, bytes) PROVE Served(q)'
  <2>1. /\ user' = [user EXCEPT ![p] = [user[p] EXCEPT !.pc = "open", !.readable = 0]]
        /\ orphans' = orphans /\ module' = module /\ kern' = kern
    BY <1>1, <1>15, ReadEndUser DEF ReadEnd
  <2>2. user[q] \in Handles /\ user[p] \in Handles
    BY <1>1
  <2>3. user'[q].fds = user[q].fds /\ user'[q].maps = user[q].maps /\ user'[q].leaked = user[q].leaked
    BY <1>1, <2>1, <2>2 DEF Handles
  <2>4. NeedsCtrl(user'[q]) = NeedsCtrl(user[q]) /\ NeedsBuff(user'[q]) = NeedsBuff(user[q])
    BY <2>3 DEF NeedsCtrl, NeedsBuff
  <2> QED BY <1>2, <1>3, <1>4, <2>1, <2>4 DEF Served
<1> QED BY <1>5, <1>12, <1>13, <1>14, <1>15, NextCases DEF vars, ring

(* The steps of the producer of a ring. *)
LEMMA LooksExact ==
    ASSUME IInv, NEW r \in Rings, NEW burst \in Bursts, CallbackLooks(r, burst)
    PROVE  RingExact(r)'
<1> DEFINE a == ctrl[r].read
           w == safeWrite[r]
<1>1. /\ a \in Offsets /\ w \in Offsets /\ burst \in Nat /\ Size \in Nat
      /\ producer \in [Rings -> Producers]
  BY OffsetsAre, MringAssumption DEF IInv, TypeOK
<1>2. /\ ctrl' = ctrl /\ safeWrite' = safeWrite /\ owed' = owed
      /\ producer'[r] = [pc |-> "looked", read |-> a, burst |-> burst]
      /\ burst <= AvailableSpace(a, w)
  BY <1>1 DEF CallbackLooks
<1>3. ctrl[r].write = w /\ owed[r] = Masked(w, a)
  BY DEF IInv, IndexInv, RingExact
<1> HIDE DEF a, w
<1>4. AvailableSpace(a, w) = Size - 1 - Masked(w, a) /\ Masked(w, a) \in Nat
  BY <1>1, AvailableIs, MaskedIs, OffsetsAre
<1>5. owed[r] + burst < Size
  BY <1>1, <1>2, <1>3, <1>4
<1>6. Masked(a, a) = 0
  BY <1>1, MaskedIs, OffsetsAre
<1>7. Masked(w, a) = owed[r] + Masked(a, a)
  BY <1>3, <1>4, <1>6
<1>8. /\ ctrl'[r].write = w /\ ctrl'[r].read = a /\ safeWrite'[r] = w /\ owed'[r] = owed[r]
  BY <1>2, <1>3 DEF a, w
<1>9. producer'[r].pc = "looked" /\ producer'[r].read = a /\ producer'[r].burst = burst
  BY <1>2
<1> QED BY <1>3, <1>5, <1>7, <1>8, <1>9 DEF RingExact

LEMMA PublishesExact ==
    ASSUME IInv, NEW r \in Rings, CallbackPublishes(r)
    PROVE  RingExact(r)' /\ owed[r] \in Nat /\ owed'[r] \in Nat /\ owed[r] <= owed'[r]
<1> DEFINE a == ctrl[r].read
           w == safeWrite[r]
           b == producer[r].burst
           next == (w + b) % Size
<1>1. /\ a \in Offsets /\ w \in Offsets /\ b \in Nat /\ Size \in Nat /\ owed[r] \in Nat
      /\ producer \in [Rings -> Producers] /\ safeWrite \in [Rings -> Offsets]
      /\ ctrl \in [Rings -> [read : Offsets, write : Offsets]] /\ owed \in [Rings -> Nat]
  BY MringAssumption DEF IInv, TypeOK, Producers
<1>2. /\ producer'[r].pc = "armed" /\ safeWrite'[r] = next
      /\ ctrl'[r].write = next /\ ctrl'[r].read = a
      /\ owed'[r] = owed[r] + b /\ producer[r].pc = "filled"
  BY <1>1 DEF CallbackPublishes, NoCallback
<1>3. ctrl[r].write = w /\ owed[r] = Masked(w, a) /\ owed[r] + b < Size
  BY <1>2 DEF IInv, IndexInv, RingExact
<1> HIDE DEF a, w, b
<1>4. Masked(next, a) = Masked(w, a) + b
  BY <1>1, <1>3, AdvanceWrite
<1> HIDE DEF next
<1>5. RingExact(r)'
  BY <1>2, <1>3, <1>4 DEF RingExact, a
<1> QED BY <1>1, <1>2, <1>5

(* The reader's step. *)
LEMMA ReadEndExact ==
    ASSUME IInv, NEW p \in Readers, NEW bytes \in Offsets, ReadEnd(p, bytes)
    PROVE  RingExact(p)'
<1> DEFINE a == ctrl[p].read
           w == safeWrite[p]
           v == producer[p].read
           next == (a + bytes) % Size
<1>1. /\ p \in Rings /\ bytes \in Nat /\ bytes <= owed[p] /\ next \in Offsets
      /\ Masked(ctrl[p].write, next) = owed[p] - bytes
      /\ ctrl'[p].read = next /\ ctrl'[p].write = ctrl[p].write
      /\ owed'[p] = owed[p] - bytes
  BY ReadEndRing
<1>2. safeWrite' = safeWrite /\ producer' = producer
  BY DEF ReadEnd
<1>3. /\ a \in Offsets /\ w \in Offsets /\ v \in Offsets /\ producer[p].burst \in Nat
      /\ Size \in Nat /\ owed[p] \in Nat
  BY <1>1, MringAssumption DEF IInv, TypeOK, Producers
<1>4. /\ ctrl[p].write = w
      /\ producer[p].pc \in {"looked", "filled"} => owed[p] + producer[p].burst < Size
      /\ producer[p].pc = "looked" => Masked(w, v) = owed[p] + Masked(a, v)
  BY <1>1 DEF IInv, IndexInv, RingExact
<1>5. producer[p].pc = "looked" => Masked(next, v) = Masked(a, v) + bytes
  <2> SUFFICES ASSUME producer[p].pc = "looked" PROVE Masked(next, v) = Masked(a, v) + bytes
    OBVIOUS
  <2> HIDE DEF a, w, v
  <2>1. Masked(w, v) < Size /\ Masked(w, v) \in Nat /\ Masked(a, v) \in Nat
    BY <1>3, MaskedIs, OffsetsAre
  <2>2. Masked(a, v) + bytes < Size
    BY <1>1, <1>3, <1>4, <2>1
  <2>3. a \in Offsets /\ v \in Offsets /\ bytes \in Nat
    BY <1>1, <1>3
  <2>4. Masked((a + bytes) % Size, v) = Masked(a, v) + bytes
    BY <2>2, <2>3, AdvanceWrite, Zenon
  <2> QED BY <2>4
<1>6. Masked(a, v) \in Nat
  BY <1>3, MaskedIs, OffsetsAre
<1> HIDE DEF next
<1>7. producer[p].pc = "looked" => Masked(w, v) = (owed[p] - bytes) + Masked(next, v)
  <2> DEFINE m == Masked(a, v)
  <2> HIDE DEF m, a, w, v
  <2>1. producer[p].pc = "looked" => Masked(w, v) = owed[p] + m /\ Masked(next, v) = m + bytes
    BY <1>4, <1>5 DEF m
  <2> QED BY <1>1, <1>3, <1>6, <2>1 DEF m
<1>8. producer[p].pc \in {"looked", "filled"} => (owed[p] - bytes) + producer[p].burst < Size
  BY <1>1, <1>3, <1>4
<1> QED BY <1>1, <1>2, <1>4, <1>7, <1>8 DEF RingExact

LEMMA IndexNext == IInv /\ [Next]_vars => IndexInv'
<1> SUFFICES ASSUME IInv, [Next]_vars PROVE IndexInv'
  OBVIOUS
<1>1. /\ TypeOK /\ HandlesInv /\ KernInv /\ UseInv /\ IndexInv
      /\ user \in [Readers -> Handles] /\ Readers \subseteq Rings
  BY MringAssumption DEF IInv, TypeOK
<1>2. ASSUME NEW r \in Rings, ctrl'[r] = ctrl[r], safeWrite'[r] = safeWrite[r], owed'[r] = owed[r],
             producer'[r] = producer[r]
      PROVE  RingExact(r)'
  <2>1. RingExact(r)
    BY <1>1 DEF IndexInv
  <2> QED BY <1>2, <2>1 DEF RingExact
<1>3. ASSUME UNCHANGED <<ctrl, safeWrite, owed, producer, user>>, orphans \subseteq orphans'
      PROVE  IndexInv'
  BY <1>1, <1>2, <1>3 DEF IndexInv
<1>4. ASSUME NEW p \in Readers, p \notin orphans PROVE user[p].readable <= owed[p]
  BY <1>1, <1>4 DEF IndexInv
<1>5. CASE InitStep
  <2>1. /\ user' = user /\ orphans' = orphans /\ producer' = producer
        /\ \A r \in Rings : producer[r].pc = "off"
    BY <1>1, <1>5 DEF InitStep, KernInv
  <2>2. Masked(0, 0) = 0 /\ 0 \in Offsets
    BY MaskedIs, OffsetsAre
  <2>3. ASSUME NEW r \in Rings PROVE RingExact(r)'
    <3>1. CASE ctrl'[r] = NewCtrl /\ safeWrite'[r] = 0 /\ owed'[r] = 0
      BY <2>1, <2>2, <3>1 DEF RingExact, NewCtrl
    <3>2. CASE ctrl'[r] = ctrl[r] /\ safeWrite'[r] = safeWrite[r] /\ owed'[r] = owed[r]
      BY <1>2, <2>1, <3>2
    <3> QED BY <1>5, <3>1, <3>2, InitStepRings
  <2>4. ASSUME NEW p \in Readers, p \notin orphans PROVE user[p].readable <= owed'[p]
    <3>1. CASE owed'[p] = owed[p]
      BY <1>4, <2>4, <3>1
    <3>2. CASE owed'[p] = 0 /\ PartOf(p, "shared_ctrl") \notin kern
      <4>1. ~ NeedsCtrl(user[p])
        BY <1>1, <2>4, <3>2 DEF UseInv
      <4>2. Shape(user[p])
        BY <1>1 DEF HandlesInv
      <4>3. user[p].readable = 0
        BY <4>1, <4>2 DEF Shape, NeedsCtrl
      <4> QED BY <3>2, <4>3
    <3> QED BY <1>1, <1>5, <3>1, <3>2, InitStepRings
  <2> QED BY <2>1, <2>3, <2>4 DEF IndexInv
<1>6. CASE InitDone
  <2>1. ASSUME NEW r \in Rings PROVE RingExact(r)'
    <3>1. producer'[r].pc = "armed" /\ ctrl' = ctrl /\ safeWrite' = safeWrite /\ owed' = owed
      BY <1>6 DEF InitDone, NoCallback
    <3>2. RingExact(r)
      BY <1>1 DEF IndexInv
    <3> QED BY <3>1, <3>2 DEF RingExact
  <2>2. user' = user /\ orphans' = orphans /\ owed' = owed
    BY <1>6 DEF InitDone
  <2> QED BY <1>1, <2>1, <2>2 DEF IndexInv
<1>7. ASSUME NEW r \in Rings, DestroyRing(r) \/ CallbackFills(r) PROVE IndexInv'
  <2>1. UNCHANGED <<ctrl, safeWrite, owed, user, orphans>>
    BY <1>7 DEF DestroyRing, CallbackFills
  <2>2. /\ producer \in [Rings -> Producers] /\ RingExact(r)
    BY <1>1 DEF TypeOK, IndexInv
  <2>3. /\ producer'[r].pc # "looked"
        /\ producer'[r].pc = "filled" => producer[r].pc = "looked" /\ producer'[r].burst = producer[r].burst
    BY <1>7, <2>2 DEF DestroyRing, CallbackFills, NoCallback, Producers
  <2>4. RingExact(r)'
    BY <2>1, <2>2, <2>3 DEF RingExact
  <2>5. ASSUME NEW q \in Rings, q # r PROVE RingExact(q)'
    <3>1. producer'[q] = producer[q]
      BY <1>7, <2>2, <2>5 DEF DestroyRing, CallbackFills
    <3> QED BY <1>2, <2>1, <3>1
  <2> QED BY <1>1, <2>1, <2>4, <2>5 DEF IndexInv
<1>8. ASSUME NEW r \in Rings, CallbackPublishes(r) PROVE IndexInv'
  <2>1. RingExact(r)' /\ owed[r] \in Nat /\ owed'[r] \in Nat /\ owed[r] <= owed'[r]
    BY <1>8, PublishesExact
  <2>2. ASSUME NEW q \in Rings, q # r
        PROVE  ctrl'[q] = ctrl[q] /\ safeWrite'[q] = safeWrite[q] /\ owed'[q] = owed[q] /\ producer'[q] = producer[q]
    BY <1>1, <1>8, <2>2 DEF CallbackPublishes, TypeOK
  <2>3. \A q \in Rings : RingExact(q)'
    BY <1>2, <2>1, <2>2
  <2>4. user' = user /\ orphans' = orphans
    BY <1>8 DEF CallbackPublishes
  <2>5. ASSUME NEW p \in Readers, p \notin orphans PROVE user[p].readable <= owed'[p]
    <3>1. user[p].readable \in Nat
      BY <1>1, OffsetsAre DEF Handles
    <3> QED BY <1>1, <1>4, <2>1, <2>2, <2>5, <3>1
  <2> QED BY <2>3, <2>4, <2>5 DEF IndexInv
<1>9. ASSUME NEW r \in Rings, NEW burst \in Bursts, CallbackLooks(r, burst) PROVE IndexInv'
  <2>1. UNCHANGED <<ctrl, safeWrite, owed, user, orphans>>
    BY <1>9 DEF CallbackLooks
  <2>2. \A q \in Rings : q # r => producer'[q] = producer[q]
    BY <1>1, <1>9 DEF CallbackLooks, TypeOK
  <2>3. \A q \in Rings : RingExact(q)'
    BY <1>2, <1>9, <2>1, <2>2, LooksExact
  <2> QED BY <1>1, <2>1, <2>3 DEF IndexInv
<1>10. CASE LoadModule \/ InitError \/ UnloadModule \/ ExitDone
  <2>1. UNCHANGED <<ctrl, safeWrite, owed, producer, user>> /\ orphans \subseteq orphans'
    BY <1>10 DEF LoadModule, InitError, UnloadModule, ExitDone, ring
  <2> QED BY <1>3, <2>1
<1>11. CASE Kernel
  BY <1>5, <1>6, <1>7, <1>8, <1>9, <1>10, <1>11 DEF Kernel
<1>12. ASSUME NEW p \in Readers, HandleStep(p) PROVE IndexInv'
  <2>1. PICK h \in Handles : user' = [user EXCEPT ![p] = h] /\ HandleAfter(p, h) /\ Unmoved
    BY <1>1, <1>12, HandleSteps
  <2>2. UNCHANGED <<ctrl, safeWrite, owed, producer, orphans>>
    BY <2>1 DEF Unmoved, ring
  <2>3. \A r \in Rings : RingExact(r)'
    BY <1>2, <2>2
  <2>4. h.readable <= owed[p]
    <3>1. owed[p] = Masked(ctrl[p].write, ctrl[p].read) /\ owed[p] \in Nat
      BY <1>1 DEF IndexInv, RingExact, TypeOK
    <3>2. h.readable = 0 \/ h.readable = owed[p]
      BY <2>1, <3>1 DEF HandleAfter
    <3> QED BY <3>1, <3>2
  <2>5. ASSUME NEW q \in Readers, q \notin orphans PROVE user'[q].readable <= owed[q]
    BY <1>1, <1>4, <2>1, <2>4, <2>5
  <2> QED BY <2>2, <2>3, <2>5 DEF IndexInv
<1>13. ASSUME NEW p \in Readers, ProcessEnds(p) PROVE IndexInv'
  <2>1. /\ user' = [user EXCEPT ![p] = NoHandle] /\ orphans' = orphans \ {p}
        /\ UNCHANGED <<ctrl, safeWrite, owed, producer>>
    BY <1>13 DEF ProcessEnds, ring
  <2>2. \A r \in Rings : RingExact(r)'
    BY <1>2, <2>1
  <2>3. ASSUME NEW q \in Readers, q \notin orphans' PROVE user'[q].readable <= owed[q]
    <3>1. owed[q] \in Nat /\ NoHandle.readable = 0
      BY <1>1 DEF TypeOK, NoHandle
    <3>2. CASE q = p
      BY <1>1, <2>1, <3>1, <3>2
    <3>3. CASE q # p
      BY <1>1, <1>4, <2>1, <2>3, <3>3
    <3> QED BY <3>2, <3>3
  <2> QED BY <2>1, <2>2, <2>3 DEF IndexInv
<1>14. ASSUME NEW p \in Readers, NEW bytes \in Offsets, ReadEnd(p, bytes) PROVE IndexInv'
  <2>1. /\ user' = [user EXCEPT ![p] = [user[p] EXCEPT !.pc = "open", !.readable = 0]]
        /\ safeWrite' = safeWrite /\ producer' = producer /\ orphans' = orphans
    BY <1>1, <1>14, ReadEndUser DEF ReadEnd
  <2>2. /\ \A q \in Rings \ {p} : ctrl'[q] = ctrl[q] /\ owed'[q] = owed[q]
        /\ bytes \in Nat /\ bytes <= owed[p] /\ owed'[p] = owed[p] - bytes
    BY <1>14, ReadEndRing
  <2>3. \A r \in Rings : RingExact(r)'
    BY <1>2, <1>14, <2>1, <2>2, ReadEndExact
  <2>4. ASSUME NEW q \in Readers, q \notin orphans PROVE user'[q].readable <= owed'[q]
    <3>1. CASE q # p
      <4>1. owed'[q] = owed[q] /\ user'[q] = user[q]
        BY <1>1, <2>1, <2>2, <3>1
      <4> QED BY <1>4, <2>4, <4>1
    <3>2. CASE q = p
      <4>1. user'[q].readable = 0
        BY <1>1, <2>1, <3>2 DEF Handles
      <4>2. owed[p] \in Nat
        BY <1>1 DEF TypeOK
      <4> QED BY <2>2, <3>2, <4>1, <4>2
    <3> QED BY <3>1, <3>2
  <2> QED BY <2>1, <2>3, <2>4 DEF IndexInv
<1>15. CASE UNCHANGED vars
  BY <1>3, <1>15 DEF vars, ring
<1> QED BY <1>11, <1>12, <1>13, <1>14, <1>15, NextCases

LEMMA Inductive == IInv /\ [Next]_vars => IInv'
BY TypeNext, HandlesNext, KernNext, UseNext, IndexNext DEF IInv

LEMMA Invariance == Spec => []IInv
BY Initial, Inductive, PTL DEF Spec

-----------------------------------------------------------------------------
(***************************************************************************)
(* The properties                                                          *)
(***************************************************************************)

(* The indices that kernel and reader advance without a lock differ, for    *)
(* every ring size and every burst, by exactly the bytes that were          *)
(* published and not yet read, a reader is never offered more, and a burst  *)
(* under way never makes a full ring look empty (mring_timer_callback,      *)
(* mring_read_begin, mring_read_end).                                       *)
THEOREM IndicesStayExact == Spec => []IndicesExact
<1>1. IInv => IndicesExact
  BY DEF IInv, IndexInv, RingExact, IndicesExact
<1> QED BY <1>1, Invariance, PTL

(* Whatever step of mring_init or of mring_open fails, whenever a process   *)
(* ends and in whatever order rings are torn down: no mapped page has been  *)
(* freed, a module that is not loaded holds nothing, and a closed handle    *)
(* leaves nothing but its second copy.                                      *)
THEOREM PagesAreReleasedInTime == Spec => []PagesReleasedInTime
<1>1. ASSUME IInv PROVE PagesReleasedInTime
  <2>1. NoDanglingMapping
    BY <1>1 DEF IInv, UseInv, NeedsCtrl, NeedsBuff, NoDanglingMapping
  <2>2. module = "unloaded" => kern = {}
    BY <1>1 DEF IInv, KernInv
  <2>3. ASSUME NEW p \in Readers, user[p].pc = "closed"
        PROVE  [user[p] EXCEPT !.leaked = FALSE] = NoHandle
    <3>1. Shape(user[p]) /\ user[p] \in Handles
      BY <1>1 DEF IInv, HandlesInv, TypeOK
    <3>2. user[p].heap = FALSE /\ user[p].fds = {} /\ user[p].maps = {} /\ user[p].readable = 0
      BY <2>3, <3>1 DEF Shape
    <3> DEFINE c == [user[p] EXCEPT !.leaked = FALSE]
    <3>3. c = [pc |-> c.pc, heap |-> c.heap, fds |-> c.fds, maps |-> c.maps,
               leaked |-> c.leaked, readable |-> c.readable]
      <4>1. c \in Handles
        BY <3>1 DEF Handles
      <4> HIDE DEF c
      <4> QED BY <4>1 DEF Handles
    <3>4. /\ c.pc = user[p].pc /\ c.heap = user[p].heap /\ c.fds = user[p].fds
          /\ c.maps = user[p].maps /\ c.leaked = FALSE /\ c.readable = user[p].readable
      BY <3>1 DEF Handles
    <3> HIDE DEF c
    <3>5. /\ c.pc = "closed" /\ c.heap = FALSE /\ c.fds = {}
          /\ c.maps = {} /\ c.leaked = FALSE /\ c.readable = 0
      BY <2>3, <3>2, <3>4
    <3>6. c = NoHandle
      BY <3>3, <3>5, Zenon DEF NoHandle
    <3> QED BY <3>6 DEF c
  <2> QED BY <2>1, <2>2, <2>3 DEF PagesReleasedInTime
<1> QED BY <1>1, Invariance, PTL

(* What a callback writes while the read index it saw is not ahead of the   *)
(* write index is no unread byte, however far the reader has gone since.    *)
LEMMA FillsFreeBytes ==
    ASSUME IInv, NEW r \in Rings, producer[r].pc = "looked", producer[r].read <= safeWrite[r]
    PROVE  Filled(producer[r].read, safeWrite[r]) \cap Unread(r) = {}
<1> DEFINE a == ctrl[r].read
           w == safeWrite[r]
           v == producer[r].read
           m == Masked(w, a)
<1>1. a \in Offsets /\ w \in Offsets /\ v \in Offsets /\ owed[r] \in Nat
  BY DEF IInv, TypeOK, Producers
<1>2. ctrl[r].write = w /\ owed[r] = m /\ Masked(w, v) = m + Masked(a, v)
  BY DEF IInv, IndexInv, RingExact
<1>3. /\ Size \in Nat /\ a \in Nat /\ w \in Nat /\ v \in Nat
      /\ a < Size /\ w < Size /\ v < Size /\ v <= w
  BY <1>1, OffsetsAre
<1> HIDE DEF a, w, v
<1>4. /\ m = IF w >= a THEN w - a ELSE (w + Size) - a
      /\ Masked(w, v) = w - v
      /\ Masked(a, v) = IF a >= v THEN a - v ELSE (a + Size) - v
  BY <1>1, <1>3, MaskedIs
<1> HIDE DEF m
<1>5. v <= a /\ a <= w /\ m = w - a
  BY <1>2, <1>3, <1>4
<1>6. \A x \in Filled(v, w) : x \in Nat /\ (w <= x \/ x < v)
  BY <1>1, <1>3, OffsetsAre DEF Filled
<1>7. ASSUME NEW i \in 0 .. m - 1 PROVE (a + i) % Size = a + i /\ v <= a + i /\ a + i < w
  <2>1. i \in Nat /\ a + i < w /\ i < Size
    BY <1>3, <1>5
  <2>2. (a + i) % Size = IF a + i < Size THEN a + i ELSE a + i - Size
    BY <1>1, <2>1, MovesOn
  <2> QED BY <1>3, <1>5, <2>1, <2>2
<1>8. Unread(r) = {(a + i) % Size : i \in 0 .. m - 1}
  BY <1>2 DEF Unread, a, m
<1>9. \A x \in Unread(r) : x \in Nat /\ v <= x /\ x < w
  BY <1>3, <1>5, <1>7, <1>8
<1>10. Filled(v, w) \cap Unread(r) = {}
  BY <1>3, <1>6, <1>9
<1> QED BY <1>10 DEF v, w

(* A burst spoils unread bytes only while these wrap around the end of the  *)
(* ring, whatever the reader has done since the producer looked             *)
(* (mring_timer_callback, the two calls of get_random_bytes).               *)
THEOREM SpoilsOnlyTheWrapped == Spec => SpoilsOnlyWrapped
<1> DEFINE Step == \A r \in Rings : ~(spoiled'[r] \subseteq spoiled[r]) => safeWrite[r] < producer[r].read
<1>1. ASSUME IInv, [Next]_vars PROVE [Step]_vars
  <2> SUFFICES ASSUME NEW r \in Rings, ~(spoiled'[r] \subseteq spoiled[r])
               PROVE  safeWrite[r] < producer[r].read
    OBVIOUS
  <2>1. TypeOK /\ HandlesInv /\ spoiled \in [Rings -> SUBSET Offsets]
    BY <1>1 DEF IInv, TypeOK
  <2>2. CASE UNCHANGED spoiled
    BY <2>2
  <2>3. CASE InitStep
    BY <1>1, <2>3, InitStepRings
  <2>4. ASSUME NEW s \in Rings, CallbackFills(s) PROVE safeWrite[r] < producer[r].read
    <3>1. s = r /\ spoiled'[r] = spoiled[r] \cup (Filled(producer[r].read, safeWrite[r]) \cap Unread(r))
      BY <2>1, <2>4 DEF CallbackFills
    <3>2. producer[r].pc = "looked"
      BY <2>4, <3>1 DEF CallbackFills
    <3>3. Filled(producer[r].read, safeWrite[r]) \cap Unread(r) # {}
      BY <3>1
    <3>4. ~ (producer[r].read <= safeWrite[r])
      BY <1>1, <3>2, <3>3, FillsFreeBytes
    <3>5. producer[r].read \in Nat /\ safeWrite[r] \in Nat
      BY <2>1, OffsetsAre DEF TypeOK, Producers
    <3> QED BY <3>4, <3>5
  <2>5. ASSUME NEW p \in Readers, NEW bytes \in Offsets, ReadEnd(p, bytes)
        PROVE  safeWrite[r] < producer[r].read
    <3>1. \E taken : spoiled' = [spoiled EXCEPT ![p] = @ \ taken]
      BY <2>5 DEF ReadEnd
    <3> QED BY <2>1, <3>1
  <2>6. ASSUME NEW p \in Readers, HandleStep(p) \/ ProcessEnds(p) PROVE UNCHANGED spoiled
    BY <2>1, <2>6, HandleSteps DEF Unmoved, ring, ProcessEnds
  <2>7. CASE Kernel
    <3>1. CASE LoadModule \/ InitDone \/ InitError \/ UnloadModule \/ ExitDone
      BY <2>2, <3>1 DEF LoadModule, InitDone, InitError, UnloadModule, ExitDone, ring
    <3>2. ASSUME NEW s \in Rings,
                 DestroyRing(s) \/ CallbackPublishes(s) \/ \E burst \in Bursts : CallbackLooks(s, burst)
          PROVE  UNCHANGED spoiled
      BY <3>2 DEF DestroyRing, CallbackPublishes, CallbackLooks
    <3> QED BY <2>2, <2>3, <2>4, <2>7, <3>1, <3>2 DEF Kernel
  <2>8. CASE UNCHANGED vars
    BY <2>2, <2>8 DEF vars, ring
  <2> QED BY <1>1, <2>2, <2>5, <2>6, <2>7, <2>8, NextCases
<1>2. IInv /\ [Next]_vars => [Step]_vars
  BY <1>1
<1> QED BY <1>2, Invariance, PTL DEF Spec, SpoilsOnlyWrapped

(***************************************************************************)
(* Platform                                                                *)
(***************************************************************************)

Worlds == [mac : {"original", "node"}, up : BOOLEAN, sock : BOOLEAN, shm : BOOLEAN,
           file : {NoMac, "empty", "original", "node"}]

(* The order in which a process registers the commands of its recovery, the *)
(* last one only with the harness; k of them have been registered.          *)
Order == <<"rm shm", "ifconfig down", "hw ether", "ifconfig up", "rm mac", "rm sock">>
Registered(k) == Len(script) = k /\ \A i \in 1 .. k : script[i] = Order[i]

ListOK ==
    /\ list \in Seq([app : Apps, parens : BOOLEAN, deps : Seq(Deps)])
    /\ \A i \in DOMAIN list : /\ list[i].deps # << >> => list[i].parens
                              /\ Len(list[i].deps) <= MaxDeps
    /\ \A i, j \in DOMAIN list : list[i].app = list[j].app => i = j

DepLists == [state : {"null", "held", "freed"}, deps : Seq(Deps)]
Slots == [app : Apps \cup {"none"}, list : DepLists]
LibRecs == [count : 0 .. MaxLibs, twice : BOOLEAN, lib : [1 .. MaxLibs -> Slots]]
LibsOK ==
    /\ libs \in LibRecs
    /\ \A i \in 1 .. MaxLibs : Len(libs.lib[i].list.deps) <= MaxDeps
    /\ refs \in [Apps \cup Deps -> Nat]

(* Before the applications are loaded, and between two processes. *)
FreshInv ==
    pc \in {"Down", "Parse", "OdpRegister", "OdpInit", "EmInit"} =>
        libs = NoLibs /\ refs = NoRefs /\ entry = 1

(* The loop counter is zero outside the four loops over the applications. *)
LoopInv ==
    /\ pc \in Places \cup {"Down"} => entry <= Len(list) + 1
    /\ at # 0 => pc \in {"AppInit", "Bind", "AppExit", "Unload", "Dead"}
    /\ pc = "Bind" => at < libs.count

(* The applications loaded are entries of the list that have been read, and *)
(* no two of them are the same.                                             *)
SlotInv ==
    /\ \A i \in 1 .. libs.count : \E e \in DOMAIN list : e < entry /\ libs.lib[i].app = list[e].app
    /\ \A i, j \in 1 .. libs.count : libs.lib[i].app = libs.lib[j].app => i = j
    /\ \A i \in 1 .. MaxLibs : i > libs.count => libs.lib[i].list.state # "held"

WhyInv == (why # "none" => pc = "Dead") /\ why # "assertion"

(* A list that was freed is either in an unused slot, and was read from an  *)
(* entry before this one, or has been inherited, or its application has     *)
(* been unloaded.                                                           *)
InheritedList == \E i, j \in DOMAIN list : i < j /\ list[i].deps # << >> /\ ~list[j].parens
StaleInv ==
    /\ why = "stale list" \/ libs.twice => InheritedList
    /\ pc \in Places =>
        \A s \in 1 .. MaxLibs : libs.lib[s].list.state = "freed" =>
            \/ s > libs.count /\ \E e \in DOMAIN list : e < entry /\ list[e].deps # << >>
            \/ InheritedList
            \/ pc = "Unload" /\ s <= at
            \/ pc \in {"EmTerm", "OdpTerm", "Declare"}

(* How far the harness has got among the applications. *)
HarnessIn(S) == \E i \in S : libs.lib[i].app = Harness

Recovered(w, g) ==
    /\ w \in Worlds
    /\ w.mac = "original" /\ ~w.sock /\ ~w.shm
    /\ w.file \in {NoMac, "empty", "original"}
    /\ w.up \/ g

(* What has been registered at each place. *)
ScriptInv ==
    /\ pc \in {"Down", "Parse", "OdpRegister", "Exited"} => Registered(0)
    /\ pc \in {"OdpInit", "EmInit", "Load", "Listen", "SaveMac", "WriteMac", "RegisterDown"} =>
          Registered(1)
    /\ pc = "RegisterMac" => Registered(2)
    /\ pc = "RegisterUp" => Registered(3)
    /\ pc = "RegisterRm" => Registered(4)
    /\ pc \in {"IfDown", "SetMac", "IfUp"} => Registered(5)
    /\ pc = "AppInit" /\ HarnessIn(1 .. at) => Registered(6)
    /\ pc = "AppInit" /\ ~HarnessIn(1 .. at) => Registered(5)
    /\ pc = "Bind" => Registered(6)
    /\ pc \in {"Run", "AppExit", "RestoreDown", "RestoreMac", "RestoreUp", "UnlinkMac", "Unload",
               "EmTerm", "OdpTerm", "Declare"} => Registered(5) \/ Registered(6)
    /\ world.sock /\ pc # "Dead" => Registered(6)

(* The interface, the file and the socket at each place. *)
SockInv ==
    /\ world.sock => pc \in {"AppInit", "Run", "AppExit", "Dead"}
    /\ pc = "AppInit" => (world.sock <=> HarnessIn(1 .. at))
    /\ pc = "Bind" => libs.lib[at + 1].app = Harness
    /\ pc = "Run" => (world.sock <=> HarnessIn(1 .. libs.count))
    /\ pc = "AppExit" => (world.sock <=> HarnessIn(at + 1 .. libs.count))

ShmInv == world.shm => pc \notin {"Down", "Parse", "OdpRegister", "OdpInit", "Declare", "Exited"}

Borrowed == {"IfUp", "AppInit", "Bind", "Run", "AppExit", "RestoreDown", "RestoreMac"}
Saved == {"RegisterDown", "RegisterMac", "RegisterUp", "RegisterRm", "IfDown", "SetMac", "RestoreUp",
          "UnlinkMac"} \cup Borrowed
Returned == {"Unload", "EmTerm", "OdpTerm", "Declare", "Exited"}
MacInv ==
    /\ world.mac # "original" => pc \in Borrowed \cup {"Dead"}
    /\ pc \in Saved \cup {"WriteMac"} => saved = "original"
    /\ pc \in Saved => world.file = "original"
    /\ pc \in Returned => world.file = NoMac
    /\ pc # "Dead" => world.file # "node"
    /\ pc \in {"SetMac", "IfUp", "RestoreMac", "RestoreUp"} => ~world.up
    /\ pc \in {"AppInit", "Bind", "Run", "AppExit", "RestoreDown", "UnlinkMac"} \cup Returned => world.up
    /\ pc \in {"Down", "Parse", "OdpRegister", "OdpInit", "EmInit", "Load", "Listen", "SaveMac",
               "WriteMac", "RegisterDown", "RegisterMac", "RegisterUp", "RegisterRm", "IfDown"} =>
          world.up \/ gap

DeadInv ==
    pc = "Dead" =>
        Recovered(Executed(world, script), gap) /\ \E k \in 0 .. 6 : Registered(k)

HostTypes ==
    /\ pc \in Places \cup {"Exited", "Dead", "Down"}
    /\ world \in Worlds
    /\ script \in Seq(Commands)
    /\ saved \in {NoMac, "original", "node"}
    /\ gap \in BOOLEAN

LoadTypes ==
    /\ entry \in Nat \ {0} /\ at \in 0 .. libs.count
    /\ ListOK /\ LibsOK

HostInv == HostTypes /\ ScriptInv /\ SockInv /\ ShmInv /\ MacInv /\ DeadInv

LoadInv ==
    /\ LoadTypes /\ FreshInv /\ LoopInv /\ SlotInv /\ WhyInv /\ StaleInv
    /\ LibrariesExact

PlatformInv == HostInv /\ LoadInv
-----------------------------------------------------------------------------
(* The effect of the recovery script.  Its commands are few, so the         *)
(* recursive function Executed is written out.                              *)
After(g, w, commands, n) == IF n = 0 THEN w ELSE Exec(g[n - 1], commands[n])

LEMMA ExecutedIs ==
    ASSUME NEW w, NEW s \in Seq(Commands), Len(s) <= 6
    PROVE  \E g : /\ \A n \in 0 .. Len(s) : g[n] = After(g, w, s, n)
                  /\ Executed(w, s) = g[Len(s)]
<1>1. Len(s) \in 0 .. 6
  <2>1. Len(s) \in Nat
    OBVIOUS
  <2>2. \A n \in Nat : n <= 6 => n \in 0 .. 6
    OBVIOUS
  <2> QED BY <2>1, <2>2
<1> DEFINE w1 == Exec(w, s[1])
           w2 == Exec(w1, s[2])
           w3 == Exec(w2, s[3])
           w4 == Exec(w3, s[4])
           w5 == Exec(w4, s[5])
           w6 == Exec(w5, s[6])
           h == [n \in 0 .. Len(s) |->
                    IF n = 0 THEN w ELSE IF n = 1 THEN w1 ELSE IF n = 2 THEN w2
                    ELSE IF n = 3 THEN w3 ELSE IF n = 4 THEN w4 ELSE IF n = 5 THEN w5 ELSE w6]
           Good(f) == f = [n \in 0 .. Len(s) |-> After(f, w, s, n)]
           f == CHOOSE f : Good(f)
<1>2. ASSUME NEW n \in 0 .. Len(s) PROVE h[n] = After(h, w, s, n)
  <2> HIDE DEF w1, w2, w3, w4, w5, w6
  <2>1. CASE n = 0
    BY <2>1 DEF After
  <2>2. CASE n = 1
    <3>1. h[0] = w /\ h[1] = w1
      BY <1>1, <2>2
    <3> QED BY <2>2, <3>1 DEF After, w1
  <2>3. CASE n = 2
    <3>1. h[1] = w1 /\ h[2] = w2
      BY <1>1, <2>3
    <3> QED BY <2>3, <3>1 DEF After, w2
  <2>4. CASE n = 3
    <3>1. h[2] = w2 /\ h[3] = w3
      BY <1>1, <2>4
    <3> QED BY <2>4, <3>1 DEF After, w3
  <2>5. CASE n = 4
    <3>1. h[3] = w3 /\ h[4] = w4
      BY <1>1, <2>5
    <3> QED BY <2>5, <3>1 DEF After, w4
  <2>6. CASE n = 5
    <3>1. h[4] = w4 /\ h[5] = w5
      BY <1>1, <2>6
    <3> QED BY <2>6, <3>1 DEF After, w5
  <2>7. CASE n = 6
    <3>1. h[5] = w5 /\ h[6] = w6
      BY <1>1, <2>7
    <3> QED BY <2>7, <3>1 DEF After, w6
  <2> QED BY <1>1, <2>1, <2>2, <2>3, <2>4, <2>5, <2>6, <2>7
<1> HIDE DEF w1, w2, w3, w4, w5, w6
<1>3. Good(h)
  <2>1. h = [n \in 0 .. Len(s) |-> h[n]]
    OBVIOUS
  <2> HIDE DEF h
  <2> QED BY <1>2, <2>1
<1> HIDE DEF h
<1>4. Good(f)
  BY <1>3
<1>5. Executed(w, s) = f[Len(s)]
  BY DEF Executed, After
<1> HIDE DEF f
<1>6. \A n \in 0 .. Len(s) : f[n] = After(f, w, s, n)
  BY <1>4
<1> QED BY <1>5, <1>6

(* What each command changes, and that it changes nothing else. *)
LEMMA ExecRmShm ==
    ASSUME NEW w \in Worlds, NEW x, x = Exec(w, "rm shm")
    PROVE  /\ x \in Worlds /\ ~x.shm
           /\ x.mac = w.mac /\ x.file = w.file /\ x.sock = w.sock /\ x.up = w.up
<1>1. x = [w EXCEPT !.shm = FALSE]
  BY DEF Exec
<1> QED BY <1>1 DEF Worlds

LEMMA ExecDown ==
    ASSUME NEW w \in Worlds, NEW x, x = Exec(w, "ifconfig down")
    PROVE  /\ x \in Worlds /\ ~x.up
           /\ x.mac = w.mac /\ x.file = w.file /\ x.sock = w.sock /\ x.shm = w.shm
<1>1. x = [w EXCEPT !.up = FALSE]
  BY DEF Exec
<1> QED BY <1>1 DEF Worlds

LEMMA ExecHwEther ==
    ASSUME NEW w \in Worlds, NEW x, x = Exec(w, "hw ether")
    PROVE  /\ x \in Worlds /\ x.up = w.up /\ x.file = w.file /\ x.sock = w.sock /\ x.shm = w.shm
           /\ x.mac = w.mac \/ x.mac = w.file
           /\ ~w.up /\ w.file = "original" => x.mac = "original"
<1>1. CASE ~w.up /\ w.file \notin {NoMac, "empty"}
  <2>1. x = [w EXCEPT !.mac = w.file]
    BY <1>1 DEF Exec
  <2> QED BY <1>1, <2>1 DEF Worlds
<1>2. CASE ~(~w.up /\ w.file \notin {NoMac, "empty"})
  <2>1. x = w
    BY <1>2 DEF Exec
  <2> QED BY <1>2, <2>1 DEF NoMac
<1> QED BY <1>1, <1>2

LEMMA ExecUp ==
    ASSUME NEW w \in Worlds, NEW x, x = Exec(w, "ifconfig up")
    PROVE  /\ x \in Worlds /\ x.up
           /\ x.mac = w.mac /\ x.file = w.file /\ x.sock = w.sock /\ x.shm = w.shm
<1>1. x = [w EXCEPT !.up = TRUE]
  BY DEF Exec
<1> QED BY <1>1 DEF Worlds

LEMMA ExecRmMac ==
    ASSUME NEW w \in Worlds, NEW x, x = Exec(w, "rm mac")
    PROVE  /\ x \in Worlds /\ x.file = NoMac
           /\ x.mac = w.mac /\ x.up = w.up /\ x.sock = w.sock /\ x.shm = w.shm
<1>1. x = [w EXCEPT !.file = NoMac]
  BY DEF Exec
<1> QED BY <1>1 DEF Worlds

LEMMA ExecRmSock ==
    ASSUME NEW w \in Worlds, NEW x, x = Exec(w, "rm sock")
    PROVE  /\ x \in Worlds /\ ~x.sock
           /\ x.mac = w.mac /\ x.file = w.file /\ x.up = w.up /\ x.shm = w.shm
<1>1. x = [w EXCEPT !.sock = FALSE]
  BY DEF Exec
<1> QED BY <1>1 DEF Worlds

(* The worlds on the way through the commands of Order. *)
Step1(w) == Exec(w, "rm shm")
Step2(w) == Exec(Step1(w), "ifconfig down")
Step3(w) == Exec(Step2(w), "hw ether")
Step4(w) == Exec(Step3(w), "ifconfig up")
Step5(w) == Exec(Step4(w), "rm mac")
Step6(w) == Exec(Step5(w), "rm sock")

LEMMA ExecutedOrder ==
    ASSUME NEW w, NEW s \in Seq(Commands), NEW k \in 0 .. 6,
           Len(s) = k, \A i \in 1 .. k : s[i] = Order[i]
    PROVE  /\ k = 0 => Executed(w, s) = w
           /\ k = 1 => Executed(w, s) = Step1(w)
           /\ k = 2 => Executed(w, s) = Step2(w)
           /\ k = 3 => Executed(w, s) = Step3(w)
           /\ k = 4 => Executed(w, s) = Step4(w)
           /\ k = 5 => Executed(w, s) = Step5(w)
           /\ k = 6 => Executed(w, s) = Step6(w)
<1>1. PICK f : /\ \A n \in 0 .. Len(s) : f[n] = After(f, w, s, n)
               /\ Executed(w, s) = f[Len(s)]
  BY ExecutedIs
<1>2. f[0] = w /\ Executed(w, s) = f[k]
  <2>1. 0 \in 0 .. Len(s)
    OBVIOUS
  <2> QED BY <1>1, <2>1 DEF After
<1>3. \A n \in 1 .. k : f[n] = Exec(f[n - 1], Order[n])
  BY <1>1 DEF After
<1>4. k >= 1 => f[1] = Step1(w)
  <2> SUFFICES ASSUME k >= 1 PROVE f[1] = Step1(w)
    OBVIOUS
  <2>1. f[1] = Exec(f[0], Order[1]) /\ k >= 0
    BY <1>3
  <2>2. Order[1] = "rm shm"
    BY DEF Order
  <2> QED BY <1>2, <2>1, <2>2 DEF Step1
<1>5. k >= 2 => f[2] = Step2(w)
  <2> SUFFICES ASSUME k >= 2 PROVE f[2] = Step2(w)
    OBVIOUS
  <2>1. f[2] = Exec(f[1], Order[2]) /\ k >= 1
    BY <1>3
  <2>2. Order[2] = "ifconfig down"
    BY DEF Order
  <2> QED BY <1>4, <2>1, <2>2 DEF Step2
<1>6. k >= 3 => f[3] = Step3(w)
  <2> SUFFICES ASSUME k >= 3 PROVE f[3] = Step3(w)
    OBVIOUS
  <2>1. f[3] = Exec(f[2], Order[3]) /\ k >= 2
    BY <1>3
  <2>2. Order[3] = "hw ether"
    BY DEF Order
  <2> QED BY <1>5, <2>1, <2>2 DEF Step3
<1>7. k >= 4 => f[4] = Step4(w)
  <2> SUFFICES ASSUME k >= 4 PROVE f[4] = Step4(w)
    OBVIOUS
  <2>1. f[4] = Exec(f[3], Order[4]) /\ k >= 3
    BY <1>3
  <2>2. Order[4] = "ifconfig up"
    BY DEF Order
  <2> QED BY <1>6, <2>1, <2>2 DEF Step4
<1>8. k >= 5 => f[5] = Step5(w)
  <2> SUFFICES ASSUME k >= 5 PROVE f[5] = Step5(w)
    OBVIOUS
  <2>1. f[5] = Exec(f[4], Order[5]) /\ k >= 4
    BY <1>3
  <2>2. Order[5] = "rm mac"
    BY DEF Order
  <2> QED BY <1>7, <2>1, <2>2 DEF Step5
<1>9. k >= 6 => f[6] = Step6(w)
  <2> SUFFICES ASSUME k >= 6 PROVE f[6] = Step6(w)
    OBVIOUS
  <2>1. f[6] = Exec(f[5], Order[6]) /\ k >= 5
    BY <1>3
  <2>2. Order[6] = "rm sock"
    BY DEF Order
  <2> QED BY <1>8, <2>1, <2>2 DEF Step6
<1> QED BY <1>2, <1>4, <1>5, <1>6, <1>7, <1>8, <1>9

(* Where they lead, if the address is the original one or is in the file. *)
LEMMA StepsFields ==
    ASSUME NEW w \in Worlds
    PROVE  /\ \E x : x = Step1(w) /\ x \in Worlds /\ ~x.shm
                     /\ x.mac = w.mac /\ x.file = w.file /\ x.sock = w.sock /\ x.up = w.up
           /\ \E x : x = Step2(w) /\ x \in Worlds /\ ~x.shm
                     /\ x.mac = w.mac /\ x.file = w.file /\ x.sock = w.sock
           /\ (w.mac = "original" /\ w.file # "node") \/ w.file = "original" =>
                /\ \E x : x = Step3(w) /\ x \in Worlds /\ ~x.shm /\ x.mac = "original"
                          /\ x.file = w.file /\ x.sock = w.sock
                /\ \E x : x = Step4(w) /\ x \in Worlds /\ ~x.shm /\ x.mac = "original" /\ x.up
                          /\ x.file = w.file /\ x.sock = w.sock
                /\ \E x : x = Step5(w) /\ x \in Worlds /\ ~x.shm /\ x.mac = "original" /\ x.up
                          /\ x.file = NoMac /\ x.sock = w.sock
                /\ \E x : x = Step6(w) /\ x \in Worlds /\ ~x.shm /\ x.mac = "original" /\ x.up
                          /\ x.file = NoMac /\ ~x.sock
<1>1. PICK x1 : x1 = Step1(w)
  OBVIOUS
<1>2. PICK x2 : x2 = Step2(w)
  OBVIOUS
<1>3. PICK x3 : x3 = Step3(w)
  OBVIOUS
<1>4. PICK x4 : x4 = Step4(w)
  OBVIOUS
<1>5. PICK x5 : x5 = Step5(w)
  OBVIOUS
<1>6. PICK x6 : x6 = Step6(w)
  OBVIOUS
<1>7. x1 = Exec(w, "rm shm") /\ x2 = Exec(x1, "ifconfig down") /\ x3 = Exec(x2, "hw ether")
  BY <1>1, <1>2, <1>3 DEF Step1, Step2, Step3
<1>8. x4 = Exec(x3, "ifconfig up") /\ x5 = Exec(x4, "rm mac") /\ x6 = Exec(x5, "rm sock")
  BY <1>3, <1>4, <1>5, <1>6 DEF Step4, Step5, Step6
<1>9. /\ x1 \in Worlds /\ ~x1.shm
      /\ x1.mac = w.mac /\ x1.file = w.file /\ x1.sock = w.sock /\ x1.up = w.up
  BY <1>7, ExecRmShm
<1>10. /\ x2 \in Worlds /\ ~x2.up
       /\ x2.mac = x1.mac /\ x2.file = x1.file /\ x2.sock = x1.sock /\ x2.shm = x1.shm
  BY <1>7, <1>9, ExecDown
<1>11. /\ x3 \in Worlds /\ x3.file = x2.file /\ x3.sock = x2.sock /\ x3.shm = x2.shm
       /\ x3.mac = x2.mac \/ x3.mac = x2.file
       /\ ~x2.up /\ x2.file = "original" => x3.mac = "original"
  BY ZenonT(40), <1>7, <1>10, ExecHwEther
<1>12. /\ x4 \in Worlds /\ x4.up
       /\ x4.mac = x3.mac /\ x4.file = x3.file /\ x4.sock = x3.sock /\ x4.shm = x3.shm
  BY <1>8, <1>11, ExecUp
<1>13. /\ x5 \in Worlds /\ x5.file = NoMac
       /\ x5.mac = x4.mac /\ x5.up = x4.up /\ x5.sock = x4.sock /\ x5.shm = x4.shm
  BY <1>8, <1>12, ExecRmMac
<1>14. /\ x6 \in Worlds /\ ~x6.sock
       /\ x6.mac = x5.mac /\ x6.file = x5.file /\ x6.up = x5.up /\ x6.shm = x5.shm
  BY <1>8, <1>13, ExecRmSock
<1>15. x2 \in Worlds /\ ~x2.shm /\ x2.mac = w.mac /\ x2.file = w.file /\ x2.sock = w.sock
  BY <1>9, <1>10
<1>16. x3.mac \in {"original", "node"} /\ x3.mac \in {w.mac, w.file} /\ ~x2.up
  BY <1>10, <1>11, <1>15 DEF Worlds
<1>17. ASSUME (w.mac = "original" /\ w.file # "node") \/ w.file = "original"
       PROVE  x3.mac = "original"
  BY <1>11, <1>15, <1>16, <1>17
<1>18. ~x3.shm /\ x3.file = w.file /\ x3.sock = w.sock
  BY <1>11, <1>15
<1>19. x4.up /\ x4.mac = x3.mac /\ ~x4.shm /\ x4.file = w.file /\ x4.sock = w.sock
  BY <1>12, <1>18
<1>20. x5.up /\ x5.mac = x3.mac /\ ~x5.shm /\ x5.file = NoMac /\ x5.sock = w.sock
  BY <1>13, <1>19
<1>21. x6.up /\ x6.mac = x3.mac /\ ~x6.shm /\ x6.file = NoMac /\ ~x6.sock
  BY <1>14, <1>20
<1> QED BY <1>1, <1>2, <1>3, <1>4, <1>5, <1>6, <1>9, <1>11, <1>12, <1>13, <1>14, <1>15, <1>16,
           <1>17, <1>18, <1>19, <1>20, <1>21

(* So the script recovers the host, whatever part of it is registered. *)
LEMMA Recovers ==
    ASSUME NEW w \in Worlds, NEW s \in Seq(Commands), NEW k \in 0 .. 6,
           Len(s) = k, \A i \in 1 .. k : s[i] = Order[i],
           w.mac = "original" \/ (w.file = "original" /\ k >= 3),
           k = 0 => ~w.shm,
           w.sock => k = 6,
           w.file # "node",
           NEW g \in BOOLEAN,
           w.up \/ g \/ k >= 4,
           k \in {2, 3} => g
    PROVE  Recovered(Executed(w, s), g)
<1>1. w.file \in {NoMac, "empty", "original"}
  BY DEF Worlds
<1>2. (w.mac = "original" /\ w.file # "node") \/ w.file = "original"
  OBVIOUS
<1>3. CASE k = 0
  <2>1. Executed(w, s) = w
    BY <1>3, ExecutedOrder
  <2> QED BY <1>1, <1>3, <2>1 DEF Recovered
<1>4. CASE k = 1
  <2>1. Executed(w, s) = Step1(w)
    BY <1>4, ExecutedOrder
  <2> QED BY <1>1, <1>4, <2>1, StepsFields DEF Recovered
<1>5. CASE k = 2
  <2>1. Executed(w, s) = Step2(w)
    BY <1>5, ExecutedOrder
  <2> QED BY <1>1, <1>5, <2>1, StepsFields DEF Recovered
<1>6. CASE k = 3
  <2>1. Executed(w, s) = Step3(w)
    BY <1>6, ExecutedOrder
  <2> QED BY <1>1, <1>2, <1>6, <2>1, StepsFields DEF Recovered
<1>7. CASE k = 4
  <2>1. Executed(w, s) = Step4(w)
    BY <1>7, ExecutedOrder
  <2> QED BY <1>1, <1>2, <1>7, <2>1, StepsFields DEF Recovered
<1>8. CASE k = 5
  <2>1. Executed(w, s) = Step5(w)
    BY <1>8, ExecutedOrder
  <2> QED BY <1>1, <1>2, <1>8, <2>1, StepsFields DEF Recovered
<1>9. CASE k = 6
  <2>1. Executed(w, s) = Step6(w)
    BY <1>9, ExecutedOrder
  <2> QED BY <1>1, <1>2, <1>9, <2>1, StepsFields DEF Recovered
<1> QED BY <1>3, <1>4, <1>5, <1>6, <1>7, <1>8, <1>9
LEMMA OrderIs ==
    /\ Order[1] = "rm shm" /\ Order[2] = "ifconfig down" /\ Order[3] = "hw ether"
    /\ Order[4] = "ifconfig up" /\ Order[5] = "rm mac" /\ Order[6] = "rm sock"
<1>1. Order[1] = "rm shm"
  BY DEF Order
<1>2. Order[2] = "ifconfig down"
  BY DEF Order
<1>3. Order[3] = "hw ether"
  BY DEF Order
<1>4. Order[4] = "ifconfig up"
  BY DEF Order
<1>5. Order[5] = "rm mac"
  BY DEF Order
<1>6. Order[6] = "rm sock"
  BY DEF Order
<1> QED BY <1>1, <1>2, <1>3, <1>4, <1>5, <1>6

(* The next command is registered. *)
LEMMA Appends ==
    ASSUME script \in Seq(Commands), NEW k \in 1 .. 6, Registered(k - 1),
           script' = Append(script, Order[k])
    PROVE  script' \in Seq(Commands) /\ Registered(k)'
<1>1. Order[k] \in Commands
  <2>1. k = 1 \/ k = 2 \/ k = 3 \/ k = 4 \/ k = 5 \/ k = 6
    OBVIOUS
  <2> QED BY <2>1, OrderIs DEF Commands
<1>2. Len(script) = k - 1 /\ Len(script') = k /\ script' \in Seq(Commands)
  BY <1>1 DEF Registered
<1>3. \A i \in 1 .. k : script'[i] = Order[i]
  <2>1. ASSUME NEW i \in 1 .. k PROVE script'[i] = Order[i]
    <3>1. CASE i = k
      BY <1>1, <1>2, <3>1
    <3>2. CASE i # k
      BY <1>1, <1>2, <3>2 DEF Registered
    <3> QED BY <3>1, <3>2
  <2> QED BY <2>1
<1> QED BY <1>2, <1>3 DEF Registered

(* At each place the script recovers the host. *)
LEMMA EndsRecovered ==
    ASSUME HostInv, pc \in Places \cup {"Exited"}, NEW g \in BOOLEAN,
           g <=> gap \/ pc \in {"RegisterMac", "RegisterUp"}
    PROVE  Recovered(Executed(world, script), g) /\ \E k \in 0 .. 6 : Registered(k)
<1>1. HostTypes /\ ScriptInv /\ SockInv /\ ShmInv /\ MacInv
  BY DEF HostInv
<1>2. PICK k \in 0 .. 6 :
        /\ Registered(k)
        /\ k = 0 => pc \in {"Parse", "OdpRegister", "Exited"}
        /\ k \in {2, 3} => pc \in {"RegisterMac", "RegisterUp"}
        /\ k < 3 => pc \notin Borrowed
        /\ k < 4 => pc \notin {"RegisterRm", "IfDown", "SetMac", "IfUp"} /\ pc \notin Borrowed
                    /\ pc \notin {"RestoreMac", "RestoreUp"}
        /\ world.sock => k = 6
  BY <1>1 DEF HostTypes, ScriptInv, SockInv, Places, Borrowed
<1>3. k = 0 => ~world.shm
  BY <1>1, <1>2 DEF ShmInv
<1>4. world.mac = "original" \/ (world.file = "original" /\ k >= 3)
  BY <1>1, <1>2 DEF MacInv, HostTypes, Places, Borrowed, Saved
<1>5. world.file # "node"
  BY <1>1 DEF MacInv, Places
<1>6. k \in {2, 3} => g
  BY <1>2
<1>7. world.up \/ g \/ k >= 4
  BY <1>1, <1>2 DEF MacInv, Places, Borrowed, Saved, Returned
<1>8. Len(script) = k /\ \A i \in 1 .. k : script[i] = Order[i]
  BY <1>2 DEF Registered
<1>9. Recovered(Executed(world, script), g)
  BY <1>1, <1>2, <1>3, <1>4, <1>5, <1>6, <1>7, <1>8, Recovers DEF HostTypes
<1> QED BY <1>2, <1>9

LEMMA HostEnds ==
    ASSUME HostInv, pc \in Places, pc' = "Dead", UNCHANGED <<world, script, saved>>,
           gap' = (gap \/ pc \in {"RegisterMac", "RegisterUp"})
    PROVE  HostInv'
<1>1. HostTypes'
  BY DEF HostInv, HostTypes
<1>2. ScriptInv' /\ SockInv' /\ ShmInv'
  BY DEF ScriptInv, SockInv, ShmInv
<1>3. MacInv'
  BY DEF MacInv, Borrowed, Saved, Returned
<1>4. Recovered(Executed(world, script), gap') /\ \E k \in 0 .. 6 : Registered(k)
  BY <1>1, EndsRecovered DEF HostTypes
<1>5. DeadInv'
  BY <1>4 DEF DeadInv, Registered
<1> QED BY <1>1, <1>2, <1>3, <1>5 DEF HostInv

(* Steps that only move on, outside the loops in which the harness takes part. *)
LEMMA HostMoves ==
    ASSUME HostInv, UNCHANGED <<world, script, saved, gap>>,
           \/ pc = "Parse" /\ pc' = "OdpRegister"
           \/ pc = "EmInit" /\ pc' = "Load"
           \/ pc = "Load" /\ pc' = "Load"
           \/ pc = "Load" /\ pc' = "Listen"
           \/ pc = "Listen" /\ pc' = "SaveMac"
           \/ pc = "Unload" /\ pc' = "Unload"
           \/ pc = "Unload" /\ pc' = "EmTerm"
           \/ pc = "EmTerm" /\ pc' = "OdpTerm"
           \/ pc = "Down" /\ pc' = "Parse"
    PROVE  HostInv'
<1>1. HostTypes /\ ScriptInv /\ SockInv /\ ShmInv /\ MacInv
  BY DEF HostInv
<1>2. HostTypes'
  BY <1>1 DEF HostTypes, Places
<1>3. ScriptInv'
  BY <1>1 DEF ScriptInv, Registered
<1>4. SockInv'
  BY <1>1 DEF SockInv
<1>5. ShmInv'
  BY <1>1 DEF ShmInv
<1>6. MacInv'
  BY <1>1 DEF MacInv, Borrowed, Saved, Returned
<1>7. DeadInv'
  BY DEF DeadInv
<1> QED BY <1>2, <1>3, <1>4, <1>5, <1>6, <1>7 DEF HostInv
(* The registration of the removal of ODP's memory, and of the recovery of  *)
(* the interface.                                                           *)
LEMMA HostRegisters ==
    ASSUME HostInv, UNCHANGED <<world, saved, gap>>,
           NEW k \in 1 .. 5, script' = Append(script, Order[k]),
           \/ k = 1 /\ pc = "OdpRegister" /\ pc' = "OdpInit"
           \/ k = 2 /\ pc = "RegisterDown" /\ pc' = "RegisterMac"
           \/ k = 3 /\ pc = "RegisterMac" /\ pc' = "RegisterUp"
           \/ k = 4 /\ pc = "RegisterUp" /\ pc' = "RegisterRm"
           \/ k = 5 /\ pc = "RegisterRm" /\ pc' = "IfDown"
    PROVE  HostInv'
<1>1. HostTypes /\ ScriptInv /\ SockInv /\ ShmInv /\ MacInv
  BY DEF HostInv
<1>2. Registered(k - 1)
  BY <1>1 DEF ScriptInv
<1>3. script' \in Seq(Commands) /\ Registered(k)'
  BY <1>1, <1>2, Appends DEF HostTypes
<1>4. HostTypes'
  BY <1>1, <1>3 DEF HostTypes, Places
<1>5. SockInv'
  BY <1>1 DEF SockInv
<1>6. ScriptInv'
  <2>1. ~world.sock
    BY <1>1 DEF SockInv
  <2>2. CASE k = 1
    BY <1>3, <2>1, <2>2 DEF ScriptInv
  <2>3. CASE k = 2
    BY <1>3, <2>1, <2>3 DEF ScriptInv
  <2>4. CASE k = 3
    BY <1>3, <2>1, <2>4 DEF ScriptInv
  <2>5. CASE k = 4
    BY <1>3, <2>1, <2>5 DEF ScriptInv
  <2>6. CASE k = 5
    BY <1>3, <2>1, <2>6 DEF ScriptInv
  <2> QED BY <2>2, <2>3, <2>4, <2>5, <2>6
<1>7. ShmInv'
  BY <1>1 DEF ShmInv
<1>8. MacInv'
  BY <1>1 DEF MacInv, Borrowed, Saved, Returned
<1>9. DeadInv'
  BY DEF DeadInv
<1> QED BY <1>4, <1>5, <1>6, <1>7, <1>8, <1>9 DEF HostInv

LEMMA HostRegisterRecovery ==
    ASSUME HostInv, RegisterShmRemoval \/ RegisterRecovery
    PROVE  HostInv'
<1>1. CASE RegisterShmRemoval
  <2>1. script' = Append(script, Order[1]) /\ pc = "OdpRegister" /\ pc' = "OdpInit"
        /\ UNCHANGED <<world, saved, gap>>
    BY <1>1, OrderIs DEF RegisterShmRemoval, Registers, Go, OnDisgracefulShutdown, process, history
  <2> QED BY <2>1, HostRegisters
<1>2. CASE Registers("RegisterDown", "RegisterMac", "ifconfig down")
  <2>1. script' = Append(script, Order[2]) /\ pc = "RegisterDown" /\ pc' = "RegisterMac"
        /\ UNCHANGED <<world, saved, gap>>
    BY <1>2, OrderIs DEF Registers, Go, OnDisgracefulShutdown, process, history
  <2> QED BY <2>1, HostRegisters
<1>3. CASE Registers("RegisterMac", "RegisterUp", "hw ether")
  <2>1. script' = Append(script, Order[3]) /\ pc = "RegisterMac" /\ pc' = "RegisterUp"
        /\ UNCHANGED <<world, saved, gap>>
    BY <1>3, OrderIs DEF Registers, Go, OnDisgracefulShutdown, process, history
  <2> QED BY <2>1, HostRegisters
<1>4. CASE Registers("RegisterUp", "RegisterRm", "ifconfig up")
  <2>1. script' = Append(script, Order[4]) /\ pc = "RegisterUp" /\ pc' = "RegisterRm"
        /\ UNCHANGED <<world, saved, gap>>
    BY <1>4, OrderIs DEF Registers, Go, OnDisgracefulShutdown, process, history
  <2> QED BY <2>1, HostRegisters
<1>5. CASE Registers("RegisterRm", "IfDown", "rm mac")
  <2>1. script' = Append(script, Order[5]) /\ pc = "RegisterRm" /\ pc' = "IfDown"
        /\ UNCHANGED <<world, saved, gap>>
    BY <1>5, OrderIs DEF Registers, Go, OnDisgracefulShutdown, process, history
  <2> QED BY <2>1, HostRegisters
<1> QED BY <1>1, <1>2, <1>3, <1>4, <1>5 DEF RegisterRecovery

(* Steps that change the interface, the file or ODP's memory: what is known *)
(* of the next world, and the places it happens at.                         *)
LEMMA HostChanges ==
    ASSUME HostInv, UNCHANGED <<script, gap>>, world' \in Worlds, world'.sock = world.sock,
           saved' \in {NoMac, "original", "node"}, pc' # "Dead",
           \/ /\ pc = "OdpInit" /\ pc' = "EmInit"
              /\ world'.mac = world.mac /\ world'.up = world.up /\ world'.file = world.file
           \/ /\ pc = "SaveMac" /\ pc' = "WriteMac" /\ saved' = world.mac
              /\ world'.file = "empty"
              /\ world'.mac = world.mac /\ world'.up = world.up /\ world'.shm = world.shm
           \/ /\ pc = "WriteMac" /\ pc' = "RegisterDown" /\ saved' = saved
              /\ world'.file = saved
              /\ world'.mac = world.mac /\ world'.up = world.up /\ world'.shm = world.shm
           \/ /\ pc = "IfDown" /\ pc' = "SetMac" /\ saved' = saved
              /\ ~world'.up
              /\ world'.mac = world.mac /\ world'.file = world.file /\ world'.shm = world.shm
           \/ /\ pc = "SetMac" /\ pc' = "IfUp" /\ saved' = saved
              /\ world'.up = world.up /\ world'.file = world.file /\ world'.shm = world.shm
           \/ /\ pc = "RestoreDown" /\ pc' = "RestoreMac" /\ saved' = saved
              /\ ~world'.up
              /\ world'.mac = world.mac /\ world'.file = world.file /\ world'.shm = world.shm
           \/ /\ pc = "RestoreMac" /\ pc' = "RestoreUp" /\ saved' = saved
              /\ world'.mac = saved
              /\ world'.up = world.up /\ world'.file = world.file /\ world'.shm = world.shm
           \/ /\ pc = "RestoreUp" /\ pc' = "UnlinkMac" /\ saved' = saved
              /\ world'.up
              /\ world'.mac = world.mac /\ world'.file = world.file /\ world'.shm = world.shm
           \/ /\ pc = "UnlinkMac" /\ pc' = "Unload" /\ saved' = saved
              /\ world'.file = NoMac
              /\ world'.mac = world.mac /\ world'.up = world.up /\ world'.shm = world.shm
           \/ /\ pc = "OdpTerm" /\ pc' = "Declare" /\ saved' = saved
              /\ ~world'.shm
              /\ world'.mac = world.mac /\ world'.up = world.up /\ world'.file = world.file
    PROVE  HostInv'
<1>1. HostTypes /\ ScriptInv /\ SockInv /\ ShmInv /\ MacInv
  BY DEF HostInv
<1>2. HostTypes'
  BY <1>1 DEF HostTypes, Places
<1>3. ~world.sock
  BY <1>1 DEF SockInv
<1>4. ScriptInv'
  BY <1>1, <1>3 DEF ScriptInv, Registered
<1>5. SockInv'
  BY <1>3 DEF SockInv
<1>6. ShmInv'
  BY <1>1 DEF ShmInv
<1>7. MacInv'
  BY <1>1 DEF MacInv, Borrowed, Saved, Returned, NoMac
<1>8. DeadInv'
  BY DEF DeadInv
<1> QED BY <1>2, <1>4, <1>5, <1>6, <1>7, <1>8 DEF HostInv
(* Steps at which the assertion about the interface holds. *)
LEMMA Changed ==
    ASSUME NEW from, NEW to, NEW ok, NEW new, Changes(from, to, ok, new), ok = TRUE
    PROVE  pc = from /\ pc' = to /\ world' = new /\ UNCHANGED <<script, process, history>>
  BY DEF Changes, Asserts, history

LEMMA HostWorld ==
    ASSUME HostInv,
           OdpInit \/ GetMacAddress \/ SaveMacInFile \/ RestoreMac \/ UnlinkMac \/ TearDownOpenDataPlane
    PROVE  HostInv'
<1>1. HostTypes /\ MacInv /\ world \in Worlds
  BY DEF HostInv, HostTypes
<1>2. CASE OdpInit
  <2>1. /\ pc = "OdpInit" /\ pc' = "EmInit" /\ world' = [world EXCEPT !.shm = TRUE]
        /\ UNCHANGED <<script, saved, gap>>
    BY <1>2, Changed DEF OdpInit, process, history
  <2>2. /\ world' \in Worlds /\ world'.sock = world.sock
        /\ world'.mac = world.mac /\ world'.up = world.up /\ world'.file = world.file
    BY <1>1, <2>1 DEF Worlds
  <2> QED BY <1>1, <2>1, <2>2, HostChanges DEF HostTypes
<1>3. CASE GetMacAddress
  <2>1. /\ pc = "SaveMac" /\ pc' = "WriteMac" /\ world' = [world EXCEPT !.file = "empty"]
        /\ saved' = world.mac /\ UNCHANGED <<script, gap>>
    BY <1>3 DEF GetMacAddress, Go, history
  <2>2. /\ world' \in Worlds /\ world'.sock = world.sock /\ world'.file = "empty"
        /\ world'.mac = world.mac /\ world'.up = world.up /\ world'.shm = world.shm
        /\ world.mac \in {"original", "node"}
    BY <1>1, <2>1 DEF Worlds
  <2> QED BY <1>1, <2>1, <2>2, HostChanges DEF HostTypes
<1>4. CASE SaveMacInFile
  <2>1. /\ pc = "WriteMac" /\ pc' = "RegisterDown" /\ world' = [world EXCEPT !.file = saved]
        /\ UNCHANGED <<script, saved, gap>>
    BY <1>4, Changed DEF SaveMacInFile, process, history
  <2>2. saved = "original"
    BY <1>1, <2>1 DEF MacInv
  <2>3. /\ world' \in Worlds /\ world'.sock = world.sock /\ world'.file = saved
        /\ world'.mac = world.mac /\ world'.up = world.up /\ world'.shm = world.shm
    BY <1>1, <2>1, <2>2 DEF Worlds
  <2> QED BY <1>1, <2>1, <2>3, HostChanges DEF HostTypes
<1>5. CASE Changes("RestoreDown", "RestoreMac", TRUE, [world EXCEPT !.up = FALSE])
  <2>1. /\ pc = "RestoreDown" /\ pc' = "RestoreMac" /\ world' = [world EXCEPT !.up = FALSE]
        /\ UNCHANGED <<script, saved, gap>>
    BY <1>5, Changed DEF process, history
  <2>2. /\ world' \in Worlds /\ world'.sock = world.sock /\ ~world'.up
        /\ world'.mac = world.mac /\ world'.file = world.file /\ world'.shm = world.shm
    BY <1>1, <2>1 DEF Worlds
  <2> QED BY <1>1, <2>1, <2>2, HostChanges DEF HostTypes
<1>6. CASE Changes("RestoreMac", "RestoreUp", ~world.up, [world EXCEPT !.mac = saved])
  <2>1. pc = "RestoreMac" /\ ~world.up /\ saved = "original"
    BY <1>1, <1>6 DEF Changes, Asserts, MacInv, Saved, Borrowed
  <2>2. /\ pc' = "RestoreUp" /\ world' = [world EXCEPT !.mac = saved]
        /\ UNCHANGED <<script, saved, gap>>
    BY <1>6, <2>1 DEF Changes, Asserts, process
  <2>3. /\ world' \in Worlds /\ world'.sock = world.sock /\ world'.mac = saved
        /\ world'.up = world.up /\ world'.file = world.file /\ world'.shm = world.shm
    BY <1>1, <2>1, <2>2 DEF Worlds
  <2> QED BY <1>1, <2>1, <2>2, <2>3, HostChanges DEF HostTypes
<1>7. CASE Changes("RestoreUp", "UnlinkMac", TRUE, [world EXCEPT !.up = TRUE])
  <2>1. /\ pc = "RestoreUp" /\ pc' = "UnlinkMac" /\ world' = [world EXCEPT !.up = TRUE]
        /\ UNCHANGED <<script, saved, gap>>
    BY <1>7, Changed DEF process, history
  <2>2. /\ world' \in Worlds /\ world'.sock = world.sock /\ world'.up
        /\ world'.mac = world.mac /\ world'.file = world.file /\ world'.shm = world.shm
    BY <1>1, <2>1 DEF Worlds
  <2> QED BY <1>1, <2>1, <2>2, HostChanges DEF HostTypes
<1>8. CASE UnlinkMac
  <2>1. pc = "UnlinkMac" /\ world.file # NoMac
    BY <1>1, <1>8 DEF UnlinkMac, Changes, Asserts, MacInv, Saved, NoMac
  <2>2. /\ pc' = "Unload" /\ world' = [world EXCEPT !.file = NoMac]
        /\ UNCHANGED <<script, saved, gap>>
    BY <1>8, <2>1 DEF UnlinkMac, Changes, Asserts, process
  <2>3. /\ world' \in Worlds /\ world'.sock = world.sock /\ world'.file = NoMac
        /\ world'.mac = world.mac /\ world'.up = world.up /\ world'.shm = world.shm
    BY <1>1, <2>2 DEF Worlds
  <2> QED BY <1>1, <2>1, <2>2, <2>3, HostChanges DEF HostTypes
<1>9. CASE TearDownOpenDataPlane
  <2>1. /\ pc = "OdpTerm" /\ pc' = "Declare" /\ world' = [world EXCEPT !.shm = FALSE]
        /\ UNCHANGED <<script, saved, gap>>
    BY <1>9, Changed DEF TearDownOpenDataPlane, process, history
  <2>2. /\ world' \in Worlds /\ world'.sock = world.sock /\ ~world'.shm
        /\ world'.mac = world.mac /\ world'.up = world.up /\ world'.file = world.file
    BY <1>1, <2>1 DEF Worlds
  <2> QED BY <1>1, <2>1, <2>2, HostChanges DEF HostTypes
<1> QED BY <1>2, <1>3, <1>4, <1>5, <1>6, <1>7, <1>8, <1>9 DEF RestoreMac

(* The loops over the applications, one step further. *)
LEMMA HarnessSteps ==
    ASSUME LoadTypes, SlotInv
    PROVE  /\ ~HarnessIn(1 .. 0) /\ ~HarnessIn(libs.count + 1 .. libs.count)
           /\ at < libs.count =>
                /\ HarnessIn(1 .. at + 1) <=> HarnessIn(1 .. at) \/ App.app = Harness
                /\ HarnessIn(at + 1 .. libs.count) <=>
                      HarnessIn(at + 2 .. libs.count) \/ App.app = Harness
                /\ App.app = Harness => ~HarnessIn(1 .. at) /\ ~HarnessIn(at + 2 .. libs.count)
<1>1. at \in Nat /\ libs.count \in Nat /\ at <= libs.count
  BY DEF LoadTypes, LibsOK, LibRecs
<1>2. ~HarnessIn(1 .. 0) /\ ~HarnessIn(libs.count + 1 .. libs.count)
  BY <1>1 DEF HarnessIn
<1>3. ASSUME at < libs.count
      PROVE  HarnessIn(1 .. at + 1) <=> HarnessIn(1 .. at) \/ App.app = Harness
  <2>1. \A i : i \in 1 .. at + 1 <=> i \in 1 .. at \/ i = at + 1
    BY <1>1
  <2> QED BY <2>1 DEF HarnessIn, App
<1>4. ASSUME at < libs.count
      PROVE  HarnessIn(at + 1 .. libs.count) <=> HarnessIn(at + 2 .. libs.count) \/ App.app = Harness
  <2>1. \A i : i \in at + 1 .. libs.count <=> i \in at + 2 .. libs.count \/ i = at + 1
    BY <1>1, <1>4
  <2> QED BY <2>1 DEF HarnessIn, App
<1>5. ASSUME at < libs.count, App.app = Harness
      PROVE  ~HarnessIn(1 .. at) /\ ~HarnessIn(at + 2 .. libs.count)
  <2>1. \A i \in 1 .. libs.count : libs.lib[i].app = Harness => i = at + 1
    BY <1>1, <1>5 DEF SlotInv, App
  <2> QED BY <1>1, <2>1 DEF HarnessIn
<1> QED BY <1>2, <1>3, <1>4, <1>5
(* SetMacAddress; the assertion about the interface that is down holds. *)
LEMMA HostSetMac ==
    ASSUME PlatformInv, SetMacAddress
    PROVE  HostInv'
<1>1. HostInv /\ HostTypes /\ ScriptInv /\ SockInv /\ ShmInv /\ MacInv /\ world \in Worlds
      /\ LoadTypes /\ SlotInv /\ LoopInv
  BY DEF PlatformInv, HostInv, HostTypes, LoadInv
<1>2. CASE Changes("IfDown", "SetMac", TRUE, [world EXCEPT !.up = FALSE])
  <2>1. /\ pc = "IfDown" /\ pc' = "SetMac" /\ world' = [world EXCEPT !.up = FALSE]
        /\ UNCHANGED <<script, saved, gap>>
    BY <1>2, Changed DEF process, history
  <2>2. /\ world' \in Worlds /\ world'.sock = world.sock /\ ~world'.up
        /\ world'.mac = world.mac /\ world'.file = world.file /\ world'.shm = world.shm
    BY <1>1, <2>1 DEF Worlds
  <2> QED BY <1>1, <2>1, <2>2, HostChanges DEF HostTypes
<1>3. CASE Changes("SetMac", "IfUp", ~world.up, [world EXCEPT !.mac = "node"])
  <2>1. pc = "SetMac" /\ ~world.up
    BY <1>1, <1>3 DEF Changes, Asserts, MacInv
  <2>2. /\ pc' = "IfUp" /\ world' = [world EXCEPT !.mac = "node"]
        /\ UNCHANGED <<script, saved, gap>>
    BY <1>3, <2>1 DEF Changes, Asserts, process
  <2>3. /\ world' \in Worlds /\ world'.sock = world.sock
        /\ world'.up = world.up /\ world'.file = world.file /\ world'.shm = world.shm
    BY <1>1, <2>2 DEF Worlds
  <2> QED BY <1>1, <2>1, <2>2, <2>3, HostChanges DEF HostTypes
<1>4. CASE Changes("IfUp", "AppInit", TRUE, [world EXCEPT !.up = TRUE])
  <2>1. /\ pc = "IfUp" /\ pc' = "AppInit" /\ world' = [world EXCEPT !.up = TRUE]
        /\ UNCHANGED <<script, saved, gap, at, libs>>
    BY <1>4, Changed DEF process, history
  <2>2. /\ world' \in Worlds /\ world'.sock = world.sock /\ world'.up
        /\ world'.mac = world.mac /\ world'.file = world.file /\ world'.shm = world.shm
    BY <1>1, <2>1 DEF Worlds
  <2>3. at = 0 /\ ~HarnessIn(1 .. at) /\ ~world.sock
    BY <1>1, <2>1, HarnessSteps DEF LoopInv, SockInv
  <2>4. ~HarnessIn(1 .. at)'
    BY <2>1, <2>3 DEF HarnessIn
  <2>5. HostTypes'
    BY <1>1, <2>1, <2>2 DEF HostTypes, Places
  <2>6. Registered(5)'
    BY <1>1, <2>1 DEF ScriptInv, Registered
  <2>7. ScriptInv'
    BY <2>1, <2>2, <2>3, <2>4, <2>6 DEF ScriptInv
  <2>8. SockInv'
    BY <2>1, <2>2, <2>3, <2>4 DEF SockInv
  <2>9. ShmInv' /\ DeadInv'
    BY <2>1 DEF ShmInv, DeadInv
  <2>10. MacInv'
    BY <1>1, <2>1, <2>2 DEF MacInv, Borrowed, Saved, Returned
  <2> QED BY <2>5, <2>7, <2>8, <2>9, <2>10 DEF HostInv
<1> QED BY <1>2, <1>3, <1>4 DEF SetMacAddress

(* A step of the initialization of the applications. *)
LEMMA HostGlobalInit ==
    ASSUME PlatformInv, GlobalInit
    PROVE  HostInv'
<1>1. HostInv /\ HostTypes /\ ScriptInv /\ SockInv /\ ShmInv /\ MacInv /\ world \in Worlds
      /\ LoadTypes /\ SlotInv /\ LoopInv
  BY DEF PlatformInv, HostInv, HostTypes, LoadInv
<1>2. /\ pc = "AppInit" /\ at < libs.count
      /\ UNCHANGED <<world, saved, libs, gap>>
  BY DEF GlobalInit, Each, Go, history
<1>3. at \in Nat /\ libs.count \in Nat
  BY <1>1 DEF LoadTypes, LibsOK, LibRecs
<1>4. ShmInv'
  BY <1>1, <1>2 DEF ShmInv, GlobalInit, Each, Go
<1>5. MacInv'
  BY <1>1, <1>2 DEF MacInv, Borrowed, Saved, Returned, GlobalInit, Each, Go
<1>6. CASE App.app = Harness
  <2>1. pc' = "Bind" /\ script' = Append(script, "rm sock") /\ at' = at
    BY <1>6 DEF GlobalInit, Each, Go, OnDisgracefulShutdown
  <2>2. ~HarnessIn(1 .. at) /\ ~world.sock
    BY <1>1, <1>2, <1>6, HarnessSteps DEF SockInv
  <2>3. Registered(5)
    BY <1>1, <1>2, <2>2 DEF ScriptInv
  <2>4. Registered(6 - 1)
    BY <2>3
  <2>5. script' \in Seq(Commands) /\ Registered(6)'
    <3>1. script' = Append(script, Order[6])
      BY <2>1, OrderIs
    <3>2. script \in Seq(Commands) /\ 6 \in 1 .. 6
      BY <1>1 DEF HostTypes
    <3> QED BY <2>4, <3>1, <3>2, Appends
  <2>6. HostTypes'
    BY <1>1, <1>2, <2>1, <2>5 DEF HostTypes, Places
  <2>7. ScriptInv'
    BY <1>2, <2>1, <2>2, <2>5 DEF ScriptInv
  <2>8. SockInv'
    BY <1>2, <1>6, <2>1, <2>2 DEF SockInv, App
  <2>9. DeadInv'
    BY <2>1 DEF DeadInv
  <2> QED BY <1>4, <1>5, <2>6, <2>7, <2>8, <2>9 DEF HostInv
<1>7. CASE App.app # Harness
  <2>1. pc' = "AppInit" /\ at' = at + 1 /\ script' = script
    BY <1>7 DEF GlobalInit, Each, Go
  <2>2. HarnessIn(1 .. at)' <=> HarnessIn(1 .. at)
    <3>1. HarnessIn(1 .. at + 1) <=> HarnessIn(1 .. at)
      BY <1>1, <1>2, <1>7, HarnessSteps
    <3> QED BY <1>2, <2>1, <3>1 DEF HarnessIn
  <2>3. HostTypes'
    BY <1>1, <1>2, <2>1 DEF HostTypes
  <2>4. ScriptInv'
    BY <1>1, <1>2, <2>1, <2>2 DEF ScriptInv, Registered
  <2>5. SockInv'
    BY <1>1, <1>2, <2>1, <2>2 DEF SockInv
  <2>6. DeadInv'
    BY <2>1 DEF DeadInv
  <2> QED BY <1>4, <1>5, <2>3, <2>4, <2>5, <2>6 DEF HostInv
<1> QED BY <1>6, <1>7

(* bind: there is no socket yet, so the assertion holds. *)
LEMMA HostBind ==
    ASSUME PlatformInv, Bind
    PROVE  HostInv' /\ pc' = "AppInit"
<1>1. HostInv /\ HostTypes /\ ScriptInv /\ SockInv /\ ShmInv /\ MacInv /\ world \in Worlds
      /\ LoadTypes /\ SlotInv /\ LoopInv
  BY DEF PlatformInv, HostInv, HostTypes, LoadInv
<1>2. pc = "Bind" /\ ~world.sock
  BY <1>1 DEF Bind, Asserts, SockInv
<1>3. /\ pc' = "AppInit" /\ at' = at + 1 /\ world' = [world EXCEPT !.sock = TRUE]
      /\ UNCHANGED <<script, saved, libs, gap>>
  BY <1>2 DEF Bind, Asserts
<1>4. /\ world' \in Worlds /\ world'.sock
      /\ world'.mac = world.mac /\ world'.up = world.up /\ world'.file = world.file
  BY <1>1, <1>3 DEF Worlds
<1>5. HarnessIn(1 .. at)'
  <2>1. at < libs.count /\ App.app = Harness
    BY <1>1, <1>2 DEF LoopInv, SockInv, App
  <2>2. HarnessIn(1 .. at + 1)
    BY <1>1, <2>1, HarnessSteps
  <2> QED BY <1>3, <2>2 DEF HarnessIn
<1>6. HostTypes'
  BY <1>1, <1>3, <1>4 DEF HostTypes, Places
<1>7. ScriptInv'
  BY <1>1, <1>2, <1>3, <1>5 DEF ScriptInv, Registered
<1>8. SockInv'
  BY <1>3, <1>4, <1>5 DEF SockInv
<1>9. ShmInv' /\ DeadInv'
  BY <1>3 DEF ShmInv, DeadInv
<1>10. MacInv'
  BY <1>1, <1>2, <1>3, <1>4 DEF MacInv, Borrowed, Saved, Returned
<1> QED BY <1>3, <1>6, <1>7, <1>8, <1>9, <1>10 DEF HostInv

(* Between the loops. *)
LEMMA HostLoops ==
    ASSUME PlatformInv, GlobalInitsDone \/ LeaveLoop \/ GlobalExitsDone
    PROVE  HostInv'
<1>1. HostInv /\ HostTypes /\ ScriptInv /\ SockInv /\ ShmInv /\ MacInv
      /\ LoadTypes /\ SlotInv /\ LoopInv
  BY DEF PlatformInv, HostInv, LoadInv
<1>2. UNCHANGED <<world, script, saved, libs, gap>>
  BY DEF GlobalInitsDone, LeaveLoop, GlobalExitsDone, Past, Go, process, history
<1>3. HarnessIn(1 .. libs.count)' <=> HarnessIn(1 .. libs.count)
  BY <1>2 DEF HarnessIn
<1>4. at \in Nat /\ libs.count \in Nat
  BY <1>1 DEF LoadTypes, LibsOK, LibRecs
<1>5. CASE GlobalInitsDone
  <2>1. pc = "AppInit" /\ pc' = "Run" /\ at = libs.count
    BY <1>5 DEF GlobalInitsDone, Past, Go
  <2>2. world.sock <=> HarnessIn(1 .. libs.count)
    BY <1>1, <2>1 DEF SockInv
  <2>3. HostTypes'
    BY <1>1, <1>2, <2>1 DEF HostTypes, Places
  <2>4. ScriptInv'
    BY <1>1, <1>2, <2>1 DEF ScriptInv, Registered
  <2>5. SockInv'
    BY <1>2, <1>3, <2>1, <2>2 DEF SockInv
  <2>6. ShmInv' /\ DeadInv'
    BY <2>1 DEF ShmInv, DeadInv
  <2>7. MacInv'
    BY <1>1, <1>2, <2>1 DEF MacInv, Borrowed, Saved, Returned
  <2> QED BY <2>3, <2>4, <2>5, <2>6, <2>7 DEF HostInv
<1>6. CASE LeaveLoop
  <2>1. pc = "Run" /\ pc' = "AppExit" /\ at' = at
    BY <1>6 DEF LeaveLoop, Go, process
  <2>2. at = 0
    BY <1>1, <2>1 DEF LoopInv
  <2>3. HarnessIn(at + 1 .. libs.count)' <=> HarnessIn(1 .. libs.count)
    BY <1>2, <2>1, <2>2 DEF HarnessIn
  <2>4. HostTypes'
    BY <1>1, <1>2, <2>1 DEF HostTypes, Places
  <2>5. ScriptInv'
    BY <1>1, <1>2, <2>1 DEF ScriptInv, Registered
  <2>6. SockInv'
    BY <1>1, <1>2, <2>1, <2>3 DEF SockInv
  <2>7. ShmInv' /\ DeadInv'
    BY <2>1 DEF ShmInv, DeadInv
  <2>8. MacInv'
    BY <1>1, <1>2, <2>1 DEF MacInv, Borrowed, Saved, Returned
  <2> QED BY <2>4, <2>5, <2>6, <2>7, <2>8 DEF HostInv
<1>7. CASE GlobalExitsDone
  <2>1. pc = "AppExit" /\ pc' = "RestoreDown" /\ at = libs.count
    BY <1>7 DEF GlobalExitsDone, Past, Go
  <2>2. ~world.sock
    BY <1>1, <2>1, HarnessSteps DEF SockInv
  <2>3. HostTypes'
    BY <1>1, <1>2, <2>1 DEF HostTypes, Places
  <2>4. ScriptInv'
    BY <1>1, <1>2, <2>1 DEF ScriptInv, Registered
  <2>5. SockInv'
    BY <1>2, <2>1, <2>2 DEF SockInv
  <2>6. ShmInv' /\ DeadInv'
    BY <2>1 DEF ShmInv, DeadInv
  <2>7. MacInv'
    BY <1>1, <1>2, <2>1 DEF MacInv, Borrowed, Saved, Returned
  <2> QED BY <2>3, <2>4, <2>5, <2>6, <2>7 DEF HostInv
<1> QED BY <1>5, <1>6, <1>7

(* The harness removes its socket, which is there. *)
LEMMA HostGlobalExit ==
    ASSUME PlatformInv, GlobalExit
    PROVE  HostInv' /\ pc' = "AppExit"
<1>1. HostInv /\ HostTypes /\ ScriptInv /\ SockInv /\ ShmInv /\ MacInv /\ world \in Worlds
      /\ LoadTypes /\ SlotInv /\ LoopInv
  BY DEF PlatformInv, HostInv, HostTypes, LoadInv
<1>2. pc = "AppExit" /\ at < libs.count /\ at \in Nat /\ libs.count \in Nat
  BY <1>1 DEF GlobalExit, Asserts, LoadTypes, LibsOK, LibRecs
<1>3. world.sock <=> HarnessIn(at + 2 .. libs.count) \/ App.app = Harness
  BY <1>1, <1>2, HarnessSteps DEF SockInv
<1>4. /\ pc' = "AppExit" /\ at' = at + 1
      /\ UNCHANGED <<script, saved, libs, gap>>
      /\ world' = IF App.app = Harness THEN [world EXCEPT !.sock = FALSE] ELSE world
  BY <1>2, <1>3 DEF GlobalExit, Asserts
<1>5. /\ world' \in Worlds /\ world'.sock = (IF App.app = Harness THEN FALSE ELSE world.sock)
      /\ world'.mac = world.mac /\ world'.up = world.up /\ world'.file = world.file
      /\ world'.shm = world.shm
  <2>1. CASE App.app = Harness
    BY <1>1, <1>4, <2>1 DEF Worlds
  <2>2. CASE App.app # Harness
    BY <1>1, <1>4, <2>2
  <2> QED BY <2>1, <2>2
<1>6. world'.sock <=> HarnessIn(at + 2 .. libs.count)
  BY <1>1, <1>2, <1>3, <1>5, HarnessSteps
<1>7. HarnessIn(at + 1 .. libs.count)' <=> HarnessIn(at + 2 .. libs.count)
  <2>1. at' + 1 = at + 2
    BY <1>2, <1>4
  <2> QED BY <1>4, <2>1 DEF HarnessIn
<1>8. HostTypes'
  BY <1>1, <1>4, <1>5 DEF HostTypes, Places
<1>9. world'.sock => world.sock
  BY <1>5
<1>10. ScriptInv'
  BY <1>1, <1>2, <1>4, <1>9 DEF ScriptInv, Registered
<1>11. SockInv'
  BY <1>4, <1>6, <1>7 DEF SockInv
<1>12. ShmInv' /\ DeadInv'
  BY <1>4 DEF ShmInv, DeadInv
<1>13. MacInv'
  BY <1>1, <1>2, <1>4, <1>5 DEF MacInv, Borrowed, Saved, Returned
<1> QED BY <1>4, <1>8, <1>10, <1>11, <1>12, <1>13 DEF HostInv
(* The script is not empty at the end, and its removal leaves nothing. *)
LEMMA HostDeclares ==
    ASSUME HostInv, DeclareShutdownGraceful
    PROVE  HostInv' /\ pc' = "Exited"
<1>1. HostTypes /\ ScriptInv /\ SockInv /\ ShmInv /\ MacInv
  BY DEF HostInv
<1>2. pc = "Declare" /\ script # << >>
  <2>1. Len(script) # 0 /\ pc = "Declare"
    BY <1>1 DEF DeclareShutdownGraceful, Asserts, ScriptInv, Registered
  <2> QED BY <2>1
<1>3. pc' = "Exited" /\ script' = << >> /\ UNCHANGED <<world, saved, gap>>
  BY <1>2 DEF DeclareShutdownGraceful, Asserts, process
<1>4. Registered(0)' /\ script' \in Seq(Commands)
  BY <1>3 DEF Registered
<1>5. HostTypes'
  BY <1>1, <1>3, <1>4 DEF HostTypes
<1>6. ~world.sock /\ ~world.shm
  BY <1>1, <1>2 DEF SockInv, ShmInv
<1>7. ScriptInv' /\ SockInv' /\ ShmInv' /\ DeadInv'
  BY <1>3, <1>4, <1>6 DEF ScriptInv, SockInv, ShmInv, DeadInv
<1>8. MacInv'
  BY <1>1, <1>2, <1>3 DEF MacInv, Borrowed, Saved, Returned
<1> QED BY <1>3, <1>5, <1>7, <1>8 DEF HostInv

(* The cleanup, after exit(0) or after a death. *)
LEMMA HostCleanup ==
    ASSUME HostInv, Cleanup
    PROVE  HostInv'
<1>1. HostTypes /\ ScriptInv /\ SockInv /\ ShmInv /\ MacInv /\ DeadInv
  BY DEF HostInv
<1>2. pc \in {"Exited", "Dead"} /\ gap \in BOOLEAN
  BY <1>1 DEF Cleanup, HostTypes
<1>3. Recovered(Executed(world, script), gap)
  <2>1. CASE pc = "Dead"
    BY <1>1, <2>1 DEF DeadInv
  <2>2. CASE pc = "Exited"
    BY <1>2, <2>2, EndsRecovered
  <2> QED BY <1>2, <2>1, <2>2
<1>4. /\ pc' = "Down" /\ world' = Executed(world, script) /\ script' = << >> /\ saved' = NoMac
      /\ gap' = gap
  BY DEF Cleanup
<1>5. Recovered(world', gap')
  BY <1>3, <1>4
<1>6. /\ world' \in Worlds /\ world'.mac = "original" /\ ~world'.sock /\ ~world'.shm
      /\ world'.file \in {NoMac, "empty", "original"}
      /\ world'.up \/ gap'
  BY <1>5 DEF Recovered
<1>7. Registered(0)' /\ script' \in Seq(Commands)
  BY <1>4 DEF Registered
<1>8. HostTypes'
  BY <1>2, <1>4, <1>6, <1>7 DEF HostTypes
<1>9. ScriptInv' /\ SockInv' /\ ShmInv' /\ DeadInv'
  BY <1>4, <1>6, <1>7 DEF ScriptInv, SockInv, ShmInv, DeadInv
<1>10. MacInv'
  BY <1>4, <1>6 DEF MacInv, Borrowed, Saved, Returned, NoMac
<1> QED BY <1>8, <1>9, <1>10 DEF HostInv

(* The steps that leave the host alone. *)
LEMMA HostAlone ==
    ASSUME HostInv,
           \/ ParseCommandLine \/ EmInit
           \/ DependencyMissing \/ LibraryMissing \/ ApplicationLoaded \/ AllLoaded
           \/ ListenForSignals \/ UnloadApplication \/ AllUnloaded
           \/ TearDownEventMachine \/ Start
    PROVE  HostInv'
<1>1. CASE ParseCommandLine
  BY <1>1, HostMoves DEF ParseCommandLine, Go, history
<1>2. CASE EmInit
  BY <1>2, HostMoves DEF EmInit, Go, history
<1>3. CASE DependencyMissing \/ LibraryMissing \/ ApplicationLoaded
  BY <1>3, HostMoves DEF DependencyMissing, LibraryMissing, ApplicationLoaded, Loads, Go, history
<1>4. CASE AllLoaded
  BY <1>4, HostMoves DEF AllLoaded, Go, process, history
<1>5. CASE ListenForSignals
  BY <1>5, HostMoves DEF ListenForSignals, Go, history
<1>6. CASE UnloadApplication
  BY <1>6, HostMoves DEF UnloadApplication, Each, Go, history
<1>7. CASE AllUnloaded
  BY <1>7, HostMoves DEF AllUnloaded, Past, Go, history
<1>8. CASE TearDownEventMachine
  <2>1. /\ pc = "EmTerm" /\ pc' = "OdpTerm" /\ world' = world
        /\ UNCHANGED <<script, saved, gap>>
    BY <1>8, Changed DEF TearDownEventMachine, process, history
  <2> QED BY <2>1, HostMoves
<1>9. CASE Start
  BY <1>9, HostMoves DEF Start, process
<1> QED BY <1>1, <1>2, <1>3, <1>4, <1>5, <1>6, <1>7, <1>8, <1>9

(* Every way in which a process dies. *)
LEMMA HostDies ==
    ASSUME HostInv, pc \in Places, NEW how, Ends(how)
    PROVE  HostInv'
  BY HostEnds DEF Ends, process

LEMMA HostSignals ==
    ASSUME HostInv, StaleListKills \/ Sigint \/ Sigchld \/ Dies
    PROVE  HostInv'
<1>1. CASE StaleListKills
  <2>1. pc \in Places /\ Ends("stale list")
    BY <1>1 DEF StaleListKills, Places
  <2> QED BY <2>1, HostDies
<1>2. CASE Sigint
  <2>1. CASE pc' = pc /\ UNCHANGED <<world, script, saved, libs, at, gap>>
    BY <2>1 DEF HostInv, HostTypes, ScriptInv, Registered, SockInv, HarnessIn, ShmInv, MacInv, DeadInv
  <2>2. CASE Alive /\ Ends("signal")
    BY <2>2, HostDies DEF Alive
  <2> QED BY <1>2, <2>1, <2>2 DEF Sigint, history
<1>3. CASE Sigchld
  <2>1. pc \in Places /\ Ends("child")
    BY <1>3 DEF Sigchld, Places
  <2> QED BY <2>1, HostDies
<1>4. CASE Dies
  BY <1>4, HostDies DEF Dies, Alive
<1> QED BY <1>1, <1>2, <1>3, <1>4

LEMMA HostStutters ==
    ASSUME HostInv, UNCHANGED platformVars
    PROVE  HostInv'
<1>1. UNCHANGED <<pc, world, script, saved, libs, at, gap>>
  BY DEF platformVars, process, history
<1> QED BY <1>1
      DEF HostInv, HostTypes, ScriptInv, Registered, SockInv, HarnessIn, ShmInv, MacInv, DeadInv

LEMMA HostInitially ==
    ASSUME PlatformInit
    PROVE  HostInv
<1>1. /\ pc = "Parse" /\ script = << >> /\ saved = NoMac /\ gap = FALSE
      /\ world = [mac |-> "original", up |-> TRUE, file |-> NoMac, sock |-> FALSE, shm |-> FALSE]
  BY DEF PlatformInit
<1>2. HostTypes
  <2>1. world \in Worlds
    BY <1>1 DEF Worlds
  <2>2. script \in Seq(Commands)
    BY <1>1
  <2> QED BY <1>1, <2>1, <2>2 DEF HostTypes, Places
<1>3. Registered(0)
  BY <1>1 DEF Registered
<1>4. ScriptInv /\ SockInv /\ ShmInv /\ DeadInv
  BY <1>1, <1>3 DEF ScriptInv, SockInv, ShmInv, DeadInv
<1>5. MacInv
  BY <1>1 DEF MacInv, Borrowed, Saved, Returned, NoMac
<1> QED BY <1>2, <1>4, <1>5 DEF HostInv

LEMMA HostStep ==
    ASSUME PlatformInv, [PlatformNext]_platformVars
    PROVE  HostInv'
<1>1. HostInv
  BY DEF PlatformInv
<1> QED BY <1>1, HostAlone, HostSignals, HostStutters, HostRegisterRecovery, HostWorld, HostSetMac,
           HostGlobalInit, HostBind, HostLoops, HostGlobalExit, HostDeclares, HostCleanup
        DEF PlatformNext
-----------------------------------------------------------------------------
(* What dlopen and dlclose do to the counts of the linker, and what a slot  *)
(* of the table contributes to them.                                        *)
SlotRefs(slot, l) ==
    {k \in 0 .. MaxDeps :
        IF k = 0 THEN slot.app = l
        ELSE slot.list.state = "held" /\ k \in DOMAIN slot.list.deps /\ slot.list.deps[k] = l}
RefsOf(lib, S, l) == {x \in S \X (0 .. MaxDeps) : x[2] \in SlotRefs(lib[x[1]], l)}
Own(slot, l) ==
    (IF slot.app = l THEN 1 ELSE 0)
      + (IF slot.list.state = "held" THEN Times(l, slot.list.deps) ELSE 0)

LEMMA TimesNat ==
    ASSUME NEW T, NEW ls \in Seq(T), NEW l
    PROVE  /\ IsFiniteSet({k \in DOMAIN ls : ls[k] = l})
           /\ Times(l, ls) \in Nat
<1>1. Len(ls) \in Nat /\ DOMAIN ls = 1 .. Len(ls)
  OBVIOUS
<1>2. IsFiniteSet(1 .. Len(ls))
  BY <1>1, FS_Interval
<1>3. IsFiniteSet({k \in DOMAIN ls : ls[k] = l})
  BY <1>1, <1>2, FS_Subset
<1> QED BY <1>3, FS_CardinalityType DEF Times

LEMMA TimesOne ==
    ASSUME NEW a, NEW l
    PROVE  Times(l, <<a>>) = IF a = l THEN 1 ELSE 0
<1>1. CASE a = l
  <2>1. {k \in DOMAIN <<a>> : <<a>>[k] = l} = {1}
    BY <1>1
  <2> QED BY <1>1, <2>1, FS_Singleton DEF Times
<1>2. CASE a # l
  <2>1. {k \in DOMAIN <<a>> : <<a>>[k] = l} = {}
    BY <1>2
  <2> QED BY <1>2, <2>1, FS_EmptySet DEF Times
<1> QED BY <1>1, <1>2

Tallied == [Apps \cup Deps -> Nat]

LEMMA OpenedIs ==
    ASSUME NEW r \in Tallied, NEW T, NEW ls \in Seq(T)
    PROVE  /\ Opened(r, ls) \in Tallied
           /\ \A l \in Apps \cup Deps : Opened(r, ls)[l] = r[l] + Times(l, ls)
<1>1. \A l : Times(l, ls) \in Nat
  BY TimesNat
<1> HIDE DEF Times
<1> QED BY <1>1 DEF Opened, Tallied

LEMMA ClosedIs ==
    ASSUME NEW r \in Tallied, NEW T, NEW ls \in Seq(T)
    PROVE  /\ Closed(r, ls) \in Tallied
           /\ \A l \in Apps \cup Deps :
                 r[l] >= Times(l, ls) => Closed(r, ls)[l] = r[l] - Times(l, ls)
<1>1. \A l : Times(l, ls) \in Nat
  BY TimesNat
<1> HIDE DEF Times
<1>2. DOMAIN r = Apps \cup Deps /\ \A l \in Apps \cup Deps : r[l] \in Nat
  BY DEF Tallied
<1>3. \A l \in Apps \cup Deps :
        Closed(r, ls)[l] = IF r[l] > Times(l, ls) THEN r[l] - Times(l, ls) ELSE 0
  BY <1>2 DEF Closed
<1>4. \A l \in Apps \cup Deps : Closed(r, ls)[l] \in Nat
  BY <1>1, <1>2, <1>3
<1>5. Closed(r, ls) \in Tallied
  BY <1>2, <1>4 DEF Closed, Tallied
<1> QED BY <1>1, <1>2, <1>3, <1>5

LEMMA OpenedClosed ==
    ASSUME NEW r \in Tallied, NEW T, NEW ls \in Seq(T)
    PROVE  Closed(Opened(r, ls), ls) = r
<1>1. \A l : Times(l, ls) \in Nat
  BY TimesNat
<1>2. /\ Opened(r, ls) \in Tallied
      /\ \A l \in Apps \cup Deps : Opened(r, ls)[l] = r[l] + Times(l, ls)
  BY OpenedIs
<1>3. PICK o \in Tallied : o = Opened(r, ls)
  BY <1>2
<1>4. \A l \in Apps \cup Deps : r[l] \in Nat
  BY DEF Tallied
<1> HIDE DEF Times
<1>5. /\ Closed(o, ls) \in Tallied
      /\ \A l \in Apps \cup Deps : o[l] >= Times(l, ls) => Closed(o, ls)[l] = o[l] - Times(l, ls)
  BY ClosedIs
<1>6. \A l \in Apps \cup Deps : Closed(o, ls)[l] = r[l]
  BY <1>1, <1>2, <1>3, <1>4, <1>5
<1>7. Closed(o, ls) = r
  BY <1>5, <1>6 DEF Tallied
<1> QED BY <1>3, <1>7

LEMMA SlotCount ==
    ASSUME NEW slot \in Slots, Len(slot.list.deps) <= MaxDeps, NEW l
    PROVE  /\ IsFiniteSet(SlotRefs(slot, l))
           /\ Cardinality(SlotRefs(slot, l)) = Own(slot, l)
           /\ Own(slot, l) \in Nat
<1>1. slot.list.deps \in Seq(Deps) /\ MaxDeps \in Nat
  BY PlatformAssumption DEF Slots, DepLists
<1> DEFINE ds == slot.list.deps
           D == {k \in DOMAIN ds : ds[k] = l}
           H == IF slot.list.state = "held" THEN D ELSE {}
           A == IF slot.app = l THEN {0} ELSE {}
<1>2. IsFiniteSet(D) /\ Times(l, ds) \in Nat /\ Times(l, ds) = Cardinality(D)
  BY <1>1, TimesNat DEF Times
<1>3. DOMAIN ds = 1 .. Len(ds) /\ Len(ds) \in Nat
  BY <1>1
<1>4. SlotRefs(slot, l) = A \cup H
  BY <1>1, <1>3 DEF SlotRefs
<1>5. 0 \notin H
  BY <1>3
<1>6. IsFiniteSet(H)
      /\ Cardinality(H) = (IF slot.list.state = "held" THEN Times(l, ds) ELSE 0)
      /\ Cardinality(H) \in Nat
  <2> HIDE DEF D
  <2> QED BY <1>2, FS_EmptySet
<1>7. IsFiniteSet(A \cup H)
      /\ Cardinality(A \cup H) = (IF slot.app = l THEN 1 ELSE 0) + Cardinality(H)
  <2> HIDE DEF H
  <2>1. CASE slot.app = l
    <3>1. A \cup H = H \cup {0}
      BY <2>1
    <3> HIDE DEF A
    <3>2. /\ IsFiniteSet(H \cup {0})
          /\ Cardinality(H \cup {0}) = IF 0 \in H THEN Cardinality(H) ELSE Cardinality(H) + 1
      BY <1>6, FS_AddElement
    <3>3. IsFiniteSet(A \cup H) /\ Cardinality(A \cup H) = Cardinality(H) + 1
      BY <1>5, <3>1, <3>2
    <3> QED BY <1>6, <2>1, <3>3
  <2>2. CASE slot.app # l
    <3>1. A \cup H = H
      BY <2>2
    <3> QED BY <1>6, <2>2, <3>1
  <2> QED BY <2>1, <2>2
<1> HIDE DEF D, H, A
<1>8. Cardinality(A \cup H) \in Nat
  BY <1>7, FS_CardinalityType
<1>9. Cardinality(A \cup H) = Own(slot, l)
  BY <1>6, <1>7 DEF Own
<1> QED BY <1>4, <1>7, <1>8, <1>9

LEMMA RefsFinite ==
    ASSUME NEW lib, NEW S, IsFiniteSet(S), NEW l
    PROVE  IsFiniteSet(RefsOf(lib, S, l)) /\ Cardinality(RefsOf(lib, S, l)) \in Nat
<1>1. IsFiniteSet(0 .. MaxDeps)
  <2>1. 0 \in Int /\ MaxDeps \in Int
    BY PlatformAssumption
  <2> QED BY <2>1, FS_Interval
<1>2. IsFiniteSet(S \X (0 .. MaxDeps))
  BY <1>1, FS_Product
<1>3. IsFiniteSet(RefsOf(lib, S, l))
  BY <1>2, FS_Subset DEF RefsOf
<1> QED BY <1>3, FS_CardinalityType

LEMMA RefsNone == \A lib, l : RefsOf(lib, {}, l) = {}
  BY DEF RefsOf

LEMMA RefsSame ==
    ASSUME NEW lib, NEW new, NEW S, \A i \in S : new[i] = lib[i], NEW l
    PROVE  RefsOf(new, S, l) = RefsOf(lib, S, l)
  BY DEF RefsOf

(* One slot more. *)
LEMMA RefsAdd ==
    ASSUME NEW lib, NEW S, IsFiniteSet(S), NEW s, s \notin S, NEW l,
           lib[s] \in Slots, Len(lib[s].list.deps) <= MaxDeps
    PROVE  Cardinality(RefsOf(lib, S \cup {s}, l)) = Cardinality(RefsOf(lib, S, l)) + Own(lib[s], l)
<1> DEFINE P == SlotRefs(lib[s], l)
           Q == {x \in {s} \X (0 .. MaxDeps) : x[2] \in P}
           R == RefsOf(lib, S, l)
<1>1. IsFiniteSet(P) /\ Cardinality(P) = Own(lib[s], l) /\ Own(lib[s], l) \in Nat
  BY SlotCount
<1>2. P \subseteq 0 .. MaxDeps
  BY DEF SlotRefs
<1>3. ExistsBijection(P, Q)
  <2> HIDE DEF P
  <2> DEFINE f == [k \in P |-> <<s, k>>]
  <2>1. f \in [P -> Q]
    BY <1>2
  <2>2. \A a, b \in P : f[a] = f[b] => a = b
    OBVIOUS
  <2>3. \A q \in Q : \E k \in P : f[k] = q
    <3>1. ASSUME NEW q \in Q PROVE q[2] \in P /\ f[q[2]] = q
      OBVIOUS
    <3> QED BY <3>1
  <2> HIDE DEF f, Q
  <2>4. f \in Bijection(P, Q)
    BY <2>1, <2>2, <2>3 DEF Bijection, Injection, Surjection, IsInjective
  <2> QED BY <2>4 DEF ExistsBijection
<1>4. IsFiniteSet(Q) /\ Cardinality(Q) = Own(lib[s], l)
  BY <1>1, <1>3, FS_Bijection
<1>5. IsFiniteSet(R) /\ Cardinality(R) \in Nat
  BY RefsFinite
<1>6. RefsOf(lib, S \cup {s}, l) = R \cup Q
  BY DEF RefsOf
<1>7. R \cap Q = {}
  BY DEF RefsOf
<1> HIDE DEF Q, R
<1>8. Cardinality(R \cup Q) = Cardinality(R) + Cardinality(Q) - 0
  BY <1>4, <1>5, <1>7, FS_Union, FS_EmptySet
<1>9. Cardinality(R \cup Q) = Cardinality(R) + Own(lib[s], l)
  BY <1>1, <1>4, <1>5, <1>8
<1> QED BY <1>6, <1>9 DEF R

LEMMA RefsOneMore ==
    \A lib, S, s, l :
        /\ IsFiniteSet(S) /\ s \notin S
        /\ lib[s] \in Slots /\ Len(lib[s].list.deps) <= MaxDeps
        => Cardinality(RefsOf(lib, S \cup {s}, l))
             = Cardinality(RefsOf(lib, S, l)) + Own(lib[s], l)
  BY RefsAdd
-----------------------------------------------------------------------------
(* The table of libraries after a change of one slot's list of dependencies, *)
(* or of one slot.                                                           *)
LEMMA FreedIs ==
    ASSUME NEW d \in DepLists
    PROVE  /\ Freed(d) \in DepLists /\ Freed(d).state # "held" /\ Freed(d).deps = d.deps
           /\ Freed(d).state = "freed" => d.state # "null"
<1>1. CASE d.state = "held"
  <2>1. Freed(d) = [d EXCEPT !.state = "freed"]
    BY <1>1 DEF Freed
  <2> QED BY <1>1, <2>1 DEF DepLists
<1>2. CASE d.state # "held"
  BY <1>2 DEF Freed, DepLists
<1> QED BY <1>1, <1>2

WithList(L, s, d, b) == [L EXCEPT !.lib[s].list = d, !.twice = b]

LEMMA ListSet ==
    ASSUME NEW L \in LibRecs, NEW s \in 1 .. MaxLibs, NEW d \in DepLists, NEW b \in BOOLEAN,
           NEW x, x = WithList(L, s, d, b)
    PROVE  /\ x \in LibRecs /\ x.count = L.count /\ x.twice = b
           /\ x.lib[s].app = L.lib[s].app /\ x.lib[s].list = d
           /\ \A i \in 1 .. MaxLibs : i # s => x.lib[i] = L.lib[i]
<1>1. L.lib[s] \in Slots
  BY DEF LibRecs
<1>2. PICK y \in Slots : y = [L.lib[s] EXCEPT !.list = d] /\ y.app = L.lib[s].app /\ y.list = d
  <2>1. ASSUME NEW z \in Slots PROVE \E y \in Slots : /\ y = [z EXCEPT !.list = d]
                                                     /\ y.app = z.app /\ y.list = d
    <3> DEFINE y == [z EXCEPT !.list = d]
    <3>1. y \in Slots /\ y.app = z.app /\ y.list = d
      BY DEF Slots
    <3> QED BY <3>1
  <2> QED BY <1>1, <2>1
<1>3. x = [L EXCEPT !.lib = [L.lib EXCEPT ![s] = y], !.twice = b]
  BY <1>2 DEF WithList
<1>4. PICK g \in [1 .. MaxLibs -> Slots] : g = [L.lib EXCEPT ![s] = y]
  BY <1>2 DEF LibRecs
<1>5. x = [L EXCEPT !.lib = g, !.twice = b]
  BY <1>3, <1>4
<1>6. x \in LibRecs /\ x.count = L.count /\ x.lib = g /\ x.twice = b
  BY <1>5 DEF LibRecs
<1>7. g[s] = y /\ \A i \in 1 .. MaxLibs : i # s => g[i] = L.lib[i]
  BY <1>4 DEF LibRecs
<1> QED BY <1>2, <1>6, <1>7

WithSlot(L, s, y) == [L EXCEPT !.lib[s] = y, !.count = s]

LEMMA SlotSet ==
    ASSUME NEW L \in LibRecs, NEW s \in 1 .. MaxLibs, NEW y \in Slots,
           NEW x, x = WithSlot(L, s, y)
    PROVE  /\ x \in LibRecs /\ x.count = s /\ x.twice = L.twice /\ x.lib[s] = y
           /\ \A i \in 1 .. MaxLibs : i # s => x.lib[i] = L.lib[i]
<1>1. PICK g \in [1 .. MaxLibs -> Slots] : g = [L.lib EXCEPT ![s] = y]
  BY DEF LibRecs
<1>2. x = [L EXCEPT !.lib = g, !.count = s]
  BY <1>1 DEF WithSlot
<1>3. s \in 0 .. MaxLibs
  BY PlatformAssumption
<1>4. x \in LibRecs /\ x.count = s /\ x.lib = g /\ x.twice = L.twice
  BY <1>2, <1>3 DEF LibRecs
<1>5. g[s] = y /\ \A i \in 1 .. MaxLibs : i # s => g[i] = L.lib[i]
  BY <1>1 DEF LibRecs
<1> QED BY <1>4, <1>5

LEMMA ReferencesAre == \A l : References(l) = RefsOf(libs.lib, UsedSlots, l)
  BY DEF References, RefsOf, Refers, SlotRefs

(* What LibrariesExact says, at the places where it says it. *)
Exact(lib, S, r) ==
    \A l \in Apps \cup Deps : r[l] = Cardinality(RefsOf(lib, S, l))
LastPlaces == {"EmTerm", "OdpTerm", "Declare"}

LEMMA ExactIs ==
    LibrariesExact <=>
        /\ Alive /\ ~libs.twice /\ pc \notin LastPlaces => Exact(libs.lib, UsedSlots, refs)
        /\ Alive /\ ~libs.twice /\ pc \in LastPlaces => \A l \in Apps \cup Deps : refs[l] = 0
<1> HIDE DEF References, RefsOf, UsedSlots, Alive
<1> QED BY ReferencesAre DEF LibrariesExact, Exact, LastPlaces

LEMMA ExactNext ==
    LibrariesExact' <=>
        /\ Alive' /\ ~libs'.twice /\ pc' \notin LastPlaces => Exact(libs'.lib, UsedSlots', refs')
        /\ Alive' /\ ~libs'.twice /\ pc' \in LastPlaces => \A l \in Apps \cup Deps : refs'[l] = 0
<1>1. \A l : References(l)' = RefsOf(libs'.lib, UsedSlots', l)
  BY DEF References, RefsOf, Refers, SlotRefs
<1> HIDE DEF References, RefsOf, UsedSlots, Alive
<1> QED BY <1>1 DEF LibrariesExact, Exact, LastPlaces

LEMMA NoLibsOK == LibRecs # {} /\ NoLibs \in LibRecs /\ NoRefs \in Tallied
                  /\ NoLibs.count = 0 /\ NoLibs.twice = FALSE
                  /\ \A i \in 1 .. MaxLibs : NoLibs.lib[i].app = "none"
                                             /\ NoLibs.lib[i].list.state = "null"
                                             /\ NoLibs.lib[i].list.deps = << >>
<1>1. << >> \in Seq(Deps)
  OBVIOUS
<1>2. NullList \in DepLists /\ NullList.state = "null" /\ NullList.deps = << >>
  BY <1>1 DEF NullList, DepLists
<1>3. NoLib \in Slots /\ NoLib.app = "none" /\ NoLib.list = NullList
  BY <1>2 DEF NoLib, Slots
<1>4. PICK g \in [1 .. MaxLibs -> Slots] : g = [i \in 1 .. MaxLibs |-> NoLib]
  BY <1>3
<1>5. NoLibs = [count |-> 0, twice |-> FALSE, lib |-> g]
  BY <1>4 DEF NoLibs
<1>6. 0 \in 0 .. MaxLibs
  BY PlatformAssumption
<1>7. NoLibs \in LibRecs /\ NoLibs.count = 0 /\ NoLibs.twice = FALSE /\ NoLibs.lib = g
  BY <1>5, <1>6 DEF LibRecs
<1>8. NoRefs \in Tallied
  BY DEF NoRefs, Tallied
<1> QED BY <1>2, <1>3, <1>4, <1>7, <1>8
-----------------------------------------------------------------------------
LEMMA FromZero == \A c : 0 + 1 .. c = 1 .. c
  OBVIOUS

(* The steps that leave the list, the table of libraries and the linker     *)
(* alone; those that do it in the loop that unloads are apart.              *)
LEMMA LoadFrame ==
    ASSUME LoadInv, UNCHANGED <<list, entry, libs, refs>>, pc \in Places,
           \/ pc' \in {"Dead", "Exited"}
           \/ pc' \in Places /\ pc # "Unload" /\ (pc \in LastPlaces <=> pc' \in LastPlaces),
           pc' \in {"Down", "Parse", "OdpRegister", "OdpInit", "EmInit"} =>
              pc \in {"Down", "Parse", "OdpRegister", "OdpInit", "EmInit"},
           at' \in 0 .. libs.count,
           at' # 0 => pc' \in {"AppInit", "Bind", "AppExit", "Dead"},
           pc' = "Bind" => at' < libs.count,
           why' # "none" => pc' = "Dead", why' # "assertion",
           why' = "stale list" => InheritedList
    PROVE  LoadInv'
<1>1. LoadTypes /\ FreshInv /\ LoopInv /\ SlotInv /\ WhyInv /\ StaleInv /\ LibrariesExact
  BY DEF LoadInv
<1>2. LoadTypes'
  BY <1>1 DEF LoadTypes, ListOK, LibsOK
<1>3. FreshInv' /\ WhyInv'
  BY <1>1 DEF FreshInv, WhyInv
<1>4. LoopInv'
  BY <1>1 DEF LoopInv, Places
<1>5. SlotInv'
  BY <1>1 DEF SlotInv
<1>6. InheritedList' <=> InheritedList
  BY DEF InheritedList
<1>7. StaleInv'
  <2>1. why' = "stale list" \/ libs'.twice => InheritedList'
    BY <1>1, <1>6 DEF StaleInv
  <2>2. ASSUME pc' \in Places, NEW s \in 1 .. MaxLibs, libs'.lib[s].list.state = "freed"
        PROVE  \/ s > libs'.count /\ \E e \in DOMAIN list' : e < entry' /\ list'[e].deps # << >>
               \/ InheritedList'
               \/ pc' = "Unload" /\ s <= at'
               \/ pc' \in {"EmTerm", "OdpTerm", "Declare"}
    <3>1. pc # "Unload" /\ (pc \in LastPlaces <=> pc' \in LastPlaces)
      BY <2>2 DEF Places
    <3>2. libs.lib[s].list.state = "freed"
      BY <2>2
    <3>3. \/ s > libs.count /\ \E e \in DOMAIN list : e < entry /\ list[e].deps # << >>
          \/ InheritedList
          \/ pc \in LastPlaces
      BY <1>1, <3>1, <3>2 DEF StaleInv, LastPlaces
    <3> QED BY <1>6, <3>1, <3>3 DEF LastPlaces
  <2> QED BY <2>1, <2>2 DEF StaleInv
<1>8. LibrariesExact'
  <2>1. CASE pc' \in {"Dead", "Exited"}
    BY <2>1 DEF LibrariesExact, Alive, Places
  <2>2. CASE pc' \in Places
    <3>1. pc # "Unload" /\ (pc \in LastPlaces <=> pc' \in LastPlaces) /\ Alive
      BY <2>2 DEF Places, Alive
    <3>2. UsedSlots = 1 .. libs.count
      BY <3>1 DEF UsedSlots
    <3>3. UsedSlots' = 1 .. libs.count
      <4>1. CASE pc' = "Unload"
        <5>1. at' = 0
          BY <4>1
        <5>2. UsedSlots' = at' + 1 .. libs.count
          BY <4>1 DEF UsedSlots
        <5> QED BY <5>1, <5>2, FromZero
      <4>2. CASE pc' # "Unload"
        BY <4>2 DEF UsedSlots
      <4> QED BY <4>1, <4>2
    <3>4. /\ ~libs.twice /\ pc \notin LastPlaces => Exact(libs.lib, 1 .. libs.count, refs)
          /\ ~libs.twice /\ pc \in LastPlaces => \A l \in Apps \cup Deps : refs[l] = 0
      BY <1>1, <3>1, <3>2, ExactIs
    <3> QED BY <3>1, <3>3, <3>4, ExactNext
  <2> QED BY <2>1, <2>2
<1> QED BY <1>1, <1>2, <1>3, <1>4, <1>5, <1>7, <1>8 DEF LoadInv

(* A step that changes nothing of it. *)
LEMMA LoadSame ==
    ASSUME LoadInv, UNCHANGED <<list, entry, libs, refs, pc, at, why>>
    PROVE  LoadInv'
<1>1. LoadTypes /\ FreshInv /\ LoopInv /\ SlotInv /\ WhyInv /\ StaleInv /\ LibrariesExact
  BY DEF LoadInv
<1>2. LoadTypes'
  BY <1>1 DEF LoadTypes, ListOK, LibsOK
<1>3. FreshInv' /\ WhyInv' /\ LoopInv' /\ SlotInv'
  BY <1>1 DEF FreshInv, WhyInv, LoopInv, SlotInv
<1>4. StaleInv'
  BY <1>1 DEF StaleInv, InheritedList
<1>5. LibrariesExact'
  BY <1>1 DEF LibrariesExact, Alive, References, UsedSlots, Refers
<1> QED BY <1>2, <1>3, <1>4, <1>5 DEF LoadInv

(* No assertion about the host fails. *)
LEMMA Asserted ==
    ASSUME PlatformInv,
           \/ SetMacAddress \/ Bind \/ GlobalExit \/ RestoreMac \/ UnlinkMac \/ DeclareShutdownGraceful
    PROVE  why' = why /\ pc' # "Dead"
<1>1. HostInv /\ MacInv /\ SockInv /\ ScriptInv /\ LoadTypes /\ SlotInv /\ HostTypes
  BY DEF PlatformInv, HostInv, LoadInv
<1>2. CASE SetMacAddress
  BY <1>1, <1>2 DEF SetMacAddress, Changes, Asserts, MacInv
<1>3. CASE Bind
  BY <1>1, <1>3 DEF Bind, Asserts, SockInv
<1>4. CASE GlobalExit
  <2>1. at < libs.count /\ pc = "AppExit"
    BY <1>4 DEF GlobalExit, Asserts
  <2>2. App.app = Harness => world.sock
    BY <1>1, <2>1, HarnessSteps DEF SockInv
  <2> QED BY <1>4, <2>2 DEF GlobalExit, Asserts
<1>5. CASE RestoreMac
  BY <1>1, <1>5 DEF RestoreMac, Changes, Asserts, MacInv
<1>6. CASE UnlinkMac
  BY <1>1, <1>6 DEF UnlinkMac, Changes, Asserts, MacInv, Saved, NoMac
<1>7. CASE DeclareShutdownGraceful
  <2>1. Len(script) # 0
    BY <1>1, <1>7 DEF DeclareShutdownGraceful, Asserts, ScriptInv, Registered
  <2>2. script # << >>
    BY <2>1
  <2> QED BY <1>7, <2>2 DEF DeclareShutdownGraceful, Asserts
<1> QED BY <1>2, <1>3, <1>4, <1>5, <1>6, <1>7
(* The steps that move on, and leave the loop counter alone or at zero. *)
LEMMA LoadMoves ==
    ASSUME LoadInv, UNCHANGED <<list, entry, libs, refs, at, why>>, at = 0,
           \/ pc = "Parse" /\ pc' = "OdpRegister"
           \/ pc = "OdpRegister" /\ pc' = "OdpInit"
           \/ pc = "OdpInit" /\ pc' = "EmInit"
           \/ pc = "Load" /\ pc' = "Listen"
           \/ pc \in {"Listen", "SaveMac", "WriteMac", "RegisterDown", "RegisterMac", "RegisterUp",
                      "RegisterRm", "IfDown", "SetMac", "IfUp"}
              /\ pc' \in {"SaveMac", "WriteMac", "RegisterDown", "RegisterMac", "RegisterUp",
                          "RegisterRm", "IfDown", "SetMac", "IfUp", "AppInit"}
           \/ pc = "Run" /\ pc' = "AppExit"
           \/ pc \in {"RestoreDown", "RestoreMac", "RestoreUp", "UnlinkMac"}
              /\ pc' \in {"RestoreMac", "RestoreUp", "UnlinkMac", "Unload"}
           \/ pc \in {"EmTerm", "OdpTerm"} /\ pc' \in {"OdpTerm", "Declare"}
           \/ pc = "Declare" /\ pc' = "Exited"
    PROVE  LoadInv'
<1>1. pc \in Places /\ why = "none" /\ at' \in 0 .. libs.count
  BY DEF LoadInv, WhyInv, LoadTypes, Places
<1>2. pc' = "Exited" \/ (pc' \in Places /\ pc # "Unload" /\ (pc \in LastPlaces <=> pc' \in LastPlaces))
  BY DEF Places, LastPlaces
<1>3. pc' \in {"Down", "Parse", "OdpRegister", "OdpInit", "EmInit"} =>
         pc \in {"Down", "Parse", "OdpRegister", "OdpInit", "EmInit"}
  OBVIOUS
<1>4. pc' # "Bind" /\ at' = 0 /\ why' = "none"
  BY <1>1
<1> QED BY <1>1, <1>2, <1>3, <1>4, LoadFrame

LEMMA LoadMovesOn ==
    ASSUME PlatformInv,
           \/ ParseCommandLine \/ RegisterShmRemoval \/ OdpInit \/ AllLoaded
           \/ ListenForSignals \/ GetMacAddress \/ SaveMacInFile \/ RegisterRecovery
           \/ SetMacAddress \/ LeaveLoop \/ RestoreMac \/ UnlinkMac
           \/ TearDownEventMachine \/ TearDownOpenDataPlane \/ DeclareShutdownGraceful
    PROVE  LoadInv'
<1>1. LoadInv /\ LoopInv
  BY DEF PlatformInv, LoadInv
<1>2. UNCHANGED <<list, entry, libs, refs, at>>
  BY DEF ParseCommandLine, RegisterShmRemoval, OdpInit, AllLoaded, ListenForSignals, GetMacAddress,
         SaveMacInFile, RegisterRecovery, SetMacAddress, LeaveLoop, RestoreMac, UnlinkMac,
         TearDownEventMachine, TearDownOpenDataPlane, DeclareShutdownGraceful,
         Changes, Registers, process
<1>3. CASE ParseCommandLine \/ AllLoaded \/ ListenForSignals \/ GetMacAddress \/ LeaveLoop
  <2>1. /\ why' = why
        /\ \/ pc = "Parse" /\ pc' = "OdpRegister"
           \/ pc = "Load" /\ pc' = "Listen"
           \/ pc = "Listen" /\ pc' = "SaveMac"
           \/ pc = "SaveMac" /\ pc' = "WriteMac"
           \/ pc = "Run" /\ pc' = "AppExit"
    BY <1>3 DEF ParseCommandLine, AllLoaded, ListenForSignals, GetMacAddress, LeaveLoop, Go, history
  <2>2. at = 0
    BY <1>1, <2>1 DEF LoopInv
  <2> QED BY <1>1, <1>2, <2>1, <2>2, LoadMoves
<1>4. CASE RegisterShmRemoval \/ RegisterRecovery
  <2>1. /\ why' = why
        /\ \/ pc = "OdpRegister" /\ pc' = "OdpInit"
           \/ pc \in {"RegisterDown", "RegisterMac", "RegisterUp", "RegisterRm"}
              /\ pc' \in {"RegisterMac", "RegisterUp", "RegisterRm", "IfDown"}
    BY <1>4 DEF RegisterShmRemoval, RegisterRecovery, Registers, Go, history
  <2>2. at = 0
    BY <1>1, <2>1 DEF LoopInv
  <2> QED BY <1>1, <1>2, <2>1, <2>2, LoadMoves
<1>5. CASE OdpInit \/ SaveMacInFile \/ TearDownEventMachine \/ TearDownOpenDataPlane
  <2>1. /\ why' = why
        /\ \/ pc = "OdpInit" /\ pc' = "EmInit"
           \/ pc = "WriteMac" /\ pc' = "RegisterDown"
           \/ pc \in {"EmTerm", "OdpTerm"} /\ pc' \in {"OdpTerm", "Declare"}
    BY <1>5 DEF OdpInit, SaveMacInFile, TearDownEventMachine, TearDownOpenDataPlane, Changes, Asserts
  <2>2. at = 0
    BY <1>1, <2>1 DEF LoopInv
  <2> QED BY <1>1, <1>2, <2>1, <2>2, LoadMoves
<1>6. CASE SetMacAddress \/ RestoreMac \/ UnlinkMac \/ DeclareShutdownGraceful
  <2>1. why' = why /\ pc' # "Dead"
    BY <1>6, Asserted
  <2>2. \/ pc \in {"IfDown", "SetMac", "IfUp"} /\ pc' \in {"SetMac", "IfUp", "AppInit"}
        \/ pc \in {"RestoreDown", "RestoreMac", "RestoreUp", "UnlinkMac"}
           /\ pc' \in {"RestoreMac", "RestoreUp", "UnlinkMac", "Unload"}
        \/ pc = "Declare" /\ pc' = "Exited"
    BY <1>6, <2>1 DEF SetMacAddress, RestoreMac, UnlinkMac, DeclareShutdownGraceful, Changes, Asserts
  <2>3. at = 0
    BY <1>1, <2>2 DEF LoopInv
  <2> QED BY <1>1, <1>2, <2>1, <2>2, <2>3, LoadMoves
<1> QED BY <1>3, <1>4, <1>5, <1>6

(* The loops over the applications that do not change the table. *)
LEMMA LoadLoops ==
    ASSUME PlatformInv, GlobalInit \/ Bind \/ GlobalInitsDone \/ GlobalExit \/ GlobalExitsDone
    PROVE  LoadInv'
<1>1. LoadInv /\ LoopInv /\ WhyInv /\ at \in 0 .. libs.count /\ libs.count \in Nat
  BY DEF PlatformInv, LoadInv, LoadTypes, LibsOK, LibRecs
<1>2. UNCHANGED <<list, entry, libs, refs>>
  BY DEF GlobalInit, Bind, GlobalInitsDone, GlobalExit, GlobalExitsDone, Past
<1>3. CASE GlobalInit
  <2>1. /\ pc = "AppInit" /\ pc' \in {"AppInit", "Bind"} /\ at < libs.count /\ why' = why
        /\ at' = at \/ at' = at + 1
        /\ pc' = "Bind" => at' = at
    BY <1>3 DEF GlobalInit, Each, Go, history
  <2>2. at' \in 0 .. libs.count /\ (pc' = "Bind" => at' < libs.count)
    BY <1>1, <2>1
  <2>3. why' = "none"
    BY <1>1, <2>1 DEF WhyInv
  <2> QED BY <1>1, <1>2, <2>1, <2>2, <2>3, LoadFrame DEF Places, LastPlaces
<1>4. CASE Bind
  <2>1. pc = "Bind" /\ pc' = "AppInit" /\ why' = why /\ at' = at + 1
    BY <1>4, Asserted DEF Bind, Asserts
  <2>2. at' \in 0 .. libs.count
    BY <1>1, <2>1 DEF LoopInv
  <2>3. why' = "none"
    BY <1>1, <2>1 DEF WhyInv
  <2> QED BY <1>1, <1>2, <2>1, <2>2, <2>3, LoadFrame DEF Places, LastPlaces
<1>5. CASE GlobalExit
  <2>1. pc = "AppExit" /\ pc' = "AppExit" /\ why' = why /\ at' = at + 1 /\ at < libs.count
    BY <1>5, Asserted DEF GlobalExit, Asserts
  <2>2. at' \in 0 .. libs.count
    BY <1>1, <2>1
  <2>3. why' = "none"
    BY <1>1, <2>1 DEF WhyInv
  <2> QED BY <1>1, <1>2, <2>1, <2>2, <2>3, LoadFrame DEF Places, LastPlaces
<1>6. CASE GlobalInitsDone \/ GlobalExitsDone
  <2>1. /\ \/ pc = "AppInit" /\ pc' = "Run"
           \/ pc = "AppExit" /\ pc' = "RestoreDown"
        /\ at' = 0 /\ why' = why
    BY <1>6 DEF GlobalInitsDone, GlobalExitsDone, Past, Go, history
  <2>2. at' \in 0 .. libs.count
    BY <1>1, <2>1
  <2>3. why' = "none"
    BY <1>1, <2>1 DEF WhyInv
  <2> QED BY <1>1, <1>2, <2>1, <2>2, <2>3, LoadFrame DEF Places, LastPlaces
<1> QED BY <1>3, <1>4, <1>5, <1>6

LEMMA LoadNumbers ==
    ASSUME LoadTypes
    PROVE  /\ MaxLibs \in Nat /\ libs.count \in Nat /\ libs.count <= MaxLibs
           /\ at \in Nat /\ at <= libs.count
           /\ entry \in Nat /\ entry >= 1
<1>1. MaxLibs \in Nat
  BY PlatformAssumption
<1>2. libs.count \in 0 .. MaxLibs /\ at \in 0 .. libs.count /\ entry \in Nat \ {0}
  BY DEF LoadTypes, LibsOK, LibRecs
<1> QED BY <1>1, <1>2

(* A list is released again only with the lists of applications that        *)
(* DiesOnlyOfStaleList names.                                               *)
LEMMA StaleAtLoad ==
    ASSUME LoadInv, pc = "Load", entry <= Len(list), libs.count < MaxLibs, ~Entry.parens,
           libs.lib[Slot].list.state = "freed"
    PROVE  InheritedList
<1>1. StaleInv /\ LoadTypes /\ Slot \in 1 .. MaxLibs /\ Slot > libs.count
  BY LoadNumbers DEF LoadInv, Slot
<1>2. (\E e \in DOMAIN list : e < entry /\ list[e].deps # << >>) \/ InheritedList
  BY <1>1 DEF StaleInv, Places
<1>3. entry \in DOMAIN list
  <2>1. DOMAIN list = 1 .. Len(list) /\ entry \in Nat \ {0} /\ Len(list) \in Nat
    BY <1>1 DEF LoadTypes, ListOK
  <2> QED BY <2>1
<1> QED BY <1>2, <1>3 DEF InheritedList, Entry

LEMMA StaleAtUnload ==
    ASSUME LoadInv, pc = "Unload", at < libs.count, App.list.state = "freed"
    PROVE  InheritedList
<1>1. StaleInv /\ at + 1 \in 1 .. MaxLibs /\ ~(at + 1 > libs.count) /\ ~(at + 1 <= at)
  BY LoadNumbers DEF LoadInv
<1> QED BY <1>1 DEF StaleInv, Places, App

LEMMA LoadEnds ==
    ASSUME LoadInv, pc \in Places, NEW how, Ends(how), how # "assertion",
           how = "stale list" => InheritedList
    PROVE  LoadInv'
<1>1. UNCHANGED <<list, entry, libs, refs, at>> /\ pc' = "Dead" /\ why' = how
  BY DEF Ends, process
<1>2. at' \in 0 .. libs.count
  BY <1>1 DEF LoadInv, LoadTypes
<1> QED BY <1>1, <1>2, LoadFrame DEF Places

LEMMA LoadSignals ==
    ASSUME LoadInv, StaleListKills \/ Sigint \/ Sigchld \/ Dies
    PROVE  LoadInv'
<1>1. CASE StaleListKills
  <2>1. pc \in Places /\ Ends("stale list")
    BY <1>1 DEF StaleListKills, Places
  <2>2. InheritedList
    BY <1>1, StaleAtLoad, StaleAtUnload DEF StaleListKills
  <2> QED BY <2>1, <2>2, LoadEnds
<1>2. CASE Sigint
  <2>1. CASE UNCHANGED <<list, entry, libs, refs, pc, at, why>>
    BY <2>1, LoadSame
  <2>2. CASE Alive /\ Ends("signal")
    BY <2>2, LoadEnds DEF Alive
  <2> QED BY <1>2, <2>1, <2>2 DEF Sigint, history
<1>3. CASE Sigchld
  <2>1. pc \in Places /\ Ends("child")
    BY <1>3 DEF Sigchld, Places
  <2> QED BY <2>1, LoadEnds
<1>4. CASE Dies
  BY <1>4, LoadEnds DEF Dies, Alive
<1> QED BY <1>1, <1>2, <1>3, <1>4
-----------------------------------------------------------------------------
(* The list of applications is read. *)
LEMMA SequencesOf ==
    ASSUME NEW T, NEW n \in Nat, NEW s \in SeqOf(T, n)
    PROVE  s \in Seq(T) /\ Len(s) <= n
<1>1. PICK m \in 0 .. n : s \in [1 .. m -> T]
  BY DEF SeqOf
<1>2. m \in Nat /\ m <= n
  OBVIOUS
<1>3. s \in Seq(T) /\ Len(s) = m
  BY <1>1, <1>2
<1> QED BY <1>2, <1>3

LEMMA ReadListOK ==
    ASSUME NEW l \in AppLists
    PROVE  /\ l \in Seq([app : Apps, parens : BOOLEAN, deps : Seq(Deps)])
           /\ \A i \in DOMAIN l : /\ l[i].deps # << >> => l[i].parens
                                  /\ Len(l[i].deps) <= MaxDeps
           /\ \A i, j \in DOMAIN l : l[i].app = l[j].app => i = j
<1> DEFINE E == {e \in Entries : e.parens \/ e.deps = << >>}
           Apped == [app : Apps, parens : BOOLEAN, deps : Seq(Deps)]
<1>1. MaxEntries \in Nat /\ MaxDeps \in Nat
  BY PlatformAssumption
<1>2. l \in SeqOf(E, MaxEntries) /\ IsInjective([i \in 1 .. Len(l) |-> l[i].app])
  BY DEF AppLists
<1>3. l \in Seq(E)
  <2> HIDE DEF E
  <2> QED BY <1>1, <1>2, SequencesOf
<1>4. Len(l) \in Nat /\ DOMAIN l = 1 .. Len(l) /\ \A i \in 1 .. Len(l) : l[i] \in E
  <2> HIDE DEF E
  <2> QED BY <1>3
<1>5. ASSUME NEW e \in E
      PROVE  e \in Apped /\ Len(e.deps) <= MaxDeps /\ (e.deps # << >> => e.parens)
  <2>1. e.app \in Apps /\ e.parens \in BOOLEAN /\ e.deps \in SeqOf(Deps, MaxDeps)
        /\ e = [app |-> e.app, parens |-> e.parens, deps |-> e.deps]
    BY DEF Entries
  <2>2. e.deps \in Seq(Deps) /\ Len(e.deps) <= MaxDeps
    BY <1>1, <2>1, SequencesOf
  <2>3. e \in Apped
    BY <2>1, <2>2
  <2> QED BY <2>2, <2>3
<1>6. l \in Seq(Apped)
  <2>1. E \subseteq Apped
    BY <1>5
  <2> HIDE DEF E, Apped
  <2>2. \A i \in 1 .. Len(l) : l[i] \in Apped
    BY <1>4, <2>1
  <2>3. l \in [1 .. Len(l) -> Apped]
    BY <1>3, <1>4, <2>2
  <2> QED BY <1>4, <2>3
<1>7. \A i, j \in DOMAIN l : l[i].app = l[j].app => i = j
  <2>1. \A f : IsInjective(f) <=> \A a, b \in DOMAIN f : f[a] = f[b] => a = b
    BY DEF IsInjective
  <2>2. \A a, b \in 1 .. Len(l) : l[a].app = l[b].app => a = b
    BY <1>2, <2>1
  <2> QED BY <1>4, <2>2
<1> QED BY <1>4, <1>5, <1>6, <1>7

(* The states in which no library is loaded yet. *)
Fresh ==
    /\ libs = NoLibs /\ refs = NoRefs /\ entry = 1 /\ at = 0 /\ ListOK /\ why = "none"
    /\ pc \in {"Down", "Parse", "OdpRegister", "OdpInit", "EmInit", "Load"}

LEMMA LoadFresh == Fresh => LoadInv
<1> SUFFICES ASSUME Fresh PROVE LoadInv
  OBVIOUS
<1> USE DEF Fresh
<1>1. /\ libs \in LibRecs /\ refs \in Tallied /\ libs.count = 0 /\ libs.twice = FALSE
      /\ \A i \in 1 .. MaxLibs : libs.lib[i].list.state = "null" /\ libs.lib[i].list.deps = << >>
  BY NoLibsOK
<1>2. LibsOK
  <2>1. \A i \in 1 .. MaxLibs : Len(libs.lib[i].list.deps) <= MaxDeps
    <3>1. Len(<< >>) = 0 /\ MaxDeps \in Nat
      BY PlatformAssumption
    <3> QED BY <1>1, <3>1
  <2> QED BY <1>1, <2>1 DEF LibsOK, Tallied
<1>3. LoadTypes
  BY <1>1, <1>2 DEF LoadTypes
<1>4. FreshInv /\ WhyInv
  BY DEF FreshInv, WhyInv
<1>5. LoopInv
  <2>1. Len(list) \in Nat
    BY DEF ListOK
  <2> QED BY <2>1 DEF LoopInv
<1>6. SlotInv
  BY <1>1 DEF SlotInv
<1>7. StaleInv
  BY <1>1 DEF StaleInv
<1>8. LibrariesExact
  <2>1. UsedSlots = {}
    BY <1>1 DEF UsedSlots
  <2>2. \A l \in Apps \cup Deps : refs[l] = 0
    BY DEF NoRefs
  <2>3. Exact(libs.lib, UsedSlots, refs)
    BY <2>1, <2>2, RefsNone, FS_EmptySet DEF Exact
  <2> QED BY <2>2, <2>3, ExactIs
<1> QED BY <1>3, <1>4, <1>5, <1>6, <1>7, <1>8 DEF LoadInv
LEMMA LoadFreshNext == Fresh' => LoadInv'
  BY LoadFresh, PTL

LEMMA LoadBegins ==
    ASSUME LoadInv, EmInit \/ Start \/ Cleanup
    PROVE  LoadInv'
<1>1. FreshInv /\ LoopInv /\ WhyInv /\ LoadTypes /\ ListOK
  BY DEF LoadInv, LoadTypes
<1>2. CASE EmInit
  <2>1. pc = "EmInit" /\ pc' = "Load" /\ list' \in AppLists /\ UNCHANGED <<libs, refs, entry, at, why>>
    BY <1>2 DEF EmInit, Go, history
  <2>2. libs = NoLibs /\ refs = NoRefs /\ entry = 1 /\ at = 0 /\ why = "none"
    BY <1>1, <2>1 DEF FreshInv, LoopInv, WhyInv
  <2>3. ListOK'
    BY <2>1, ReadListOK DEF ListOK
  <2> QED BY <2>1, <2>2, <2>3, LoadFreshNext DEF Fresh
<1>3. CASE Start
  <2>1. pc = "Down" /\ pc' = "Parse" /\ UNCHANGED <<list, libs, refs, entry, at, why>>
    BY <1>3 DEF Start, process
  <2>2. libs = NoLibs /\ refs = NoRefs /\ entry = 1 /\ at = 0 /\ why = "none"
    BY <1>1, <2>1 DEF FreshInv, LoopInv, WhyInv
  <2>3. ListOK'
    BY <1>1, <2>1 DEF ListOK
  <2> QED BY <2>1, <2>2, <2>3, LoadFreshNext DEF Fresh
<1>4. CASE Cleanup
  <2>1. /\ pc' = "Down" /\ list' = << >> /\ libs' = NoLibs /\ refs' = NoRefs /\ entry' = 1 /\ at' = 0
        /\ why' = "none"
    BY <1>4 DEF Cleanup
  <2>2. ListOK'
    BY <2>1 DEF ListOK
  <2> QED BY <2>1, <2>2, LoadFreshNext DEF Fresh
<1> QED BY <1>2, <1>3, <1>4

LEMMA LoadInitially ==
    ASSUME PlatformInit
    PROVE  LoadInv
<1>1. /\ pc = "Parse" /\ list = << >> /\ libs = NoLibs /\ refs = NoRefs /\ entry = 1 /\ at = 0
      /\ why = "none"
  BY DEF PlatformInit
<1>2. ListOK
  BY <1>1 DEF ListOK
<1> QED BY <1>1, <1>2, LoadFresh DEF Fresh
-----------------------------------------------------------------------------
(* Loading: what every such step does to the rest. *)
LEMMA LoadsIs ==
    ASSUME LoadInv, Loads
    PROVE  /\ pc = "Load" /\ pc' = "Load" /\ at = 0 /\ at' = 0 /\ why = "none" /\ why' = "none"
           /\ list' = list /\ entry' = entry + 1 /\ entry \in DOMAIN list /\ entry \in Nat
           /\ Slot \in 1 .. MaxLibs /\ Slot > libs.count /\ Slot \notin 1 .. libs.count
           /\ libs.lib[Slot].list \in DepLists /\ libs.lib[Slot].list.state # "held"
           /\ Len(libs.lib[Slot].list.deps) <= MaxDeps
           /\ Entry.app \in Apps /\ Entry.parens \in BOOLEAN
           /\ Entry.deps \in Seq(Deps) /\ Len(Entry.deps) <= MaxDeps
<1>1. LoadTypes /\ LoopInv /\ WhyInv /\ SlotInv /\ LibsOK /\ ListOK
  BY DEF LoadInv, LoadTypes
<1>2. pc = "Load" /\ pc' = "Load" /\ why' = why /\ list' = list /\ at' = at /\ entry' = entry + 1
      /\ entry <= Len(list) /\ libs.count < MaxLibs
  BY DEF Loads, Go, history
<1>3. at = 0 /\ why = "none"
  BY <1>1, <1>2 DEF LoopInv, WhyInv
<1>4. Slot \in 1 .. MaxLibs /\ Slot > libs.count /\ Slot \notin 1 .. libs.count /\ entry \in Nat
      /\ entry >= 1
  BY <1>1, <1>2, LoadNumbers DEF Slot
<1>5. entry \in DOMAIN list
  <2>1. DOMAIN list = 1 .. Len(list) /\ Len(list) \in Nat
    BY <1>1 DEF ListOK
  <2> QED BY <1>2, <1>4, <2>1
<1>6. /\ libs.lib[Slot].list \in DepLists /\ libs.lib[Slot].list.state # "held"
      /\ Len(libs.lib[Slot].list.deps) <= MaxDeps
  <2>1. libs.lib[Slot] \in Slots
    BY <1>1, <1>4 DEF LibsOK, LibRecs
  <2> QED BY <1>1, <1>4, <2>1 DEF LibsOK, SlotInv, Slots
<1>7. /\ Entry \in [app : Apps, parens : BOOLEAN, deps : Seq(Deps)]
      /\ Len(Entry.deps) <= MaxDeps
  <2>1. \A T : \A s \in Seq(T) : \A i \in DOMAIN s : s[i] \in T
    OBVIOUS
  <2>2. list[entry] \in [app : Apps, parens : BOOLEAN, deps : Seq(Deps)]
    BY <1>1, <1>5, <2>1 DEF ListOK
  <2> QED BY <1>1, <1>5, <2>2 DEF ListOK, Entry
<1> QED BY <1>2, <1>3, <1>4, <1>5, <1>6, <1>7

(* A load that fails. *)
LEMMA LoadFails ==
    ASSUME LoadInv, Loads, NEW d \in DepLists, Len(d.deps) <= MaxDeps, d.state # "held",
           NEW b \in BOOLEAN, libs' = WithList(libs, Slot, d, b),
           refs' \in Tallied,
           b => InheritedList,
           ~b => ~libs.twice /\ refs' = refs,
           d.state = "freed" =>
               InheritedList \/ \E e \in DOMAIN list : e < entry + 1 /\ list[e].deps # << >>
    PROVE  LoadInv'
<1>1. LoadTypes /\ LoopInv /\ WhyInv /\ SlotInv /\ LibsOK /\ ListOK /\ StaleInv /\ LibrariesExact
  BY DEF LoadInv, LoadTypes
<1>2. /\ pc = "Load" /\ pc' = "Load" /\ at = 0 /\ at' = 0 /\ why = "none" /\ why' = "none"
      /\ list' = list /\ entry' = entry + 1 /\ entry \in DOMAIN list /\ entry \in Nat
      /\ Slot \in 1 .. MaxLibs /\ Slot > libs.count /\ Slot \notin 1 .. libs.count
  BY LoadsIs
<1>3. libs \in LibRecs
  BY <1>1 DEF LibsOK
<1>4. /\ libs' \in LibRecs /\ libs'.count = libs.count /\ libs'.twice = b
      /\ libs'.lib[Slot].app = libs.lib[Slot].app /\ libs'.lib[Slot].list = d
      /\ \A i \in 1 .. MaxLibs : i # Slot => libs'.lib[i] = libs.lib[i]
  BY <1>2, <1>3, ListSet
<1>5. libs.count \in Nat /\ libs.count <= MaxLibs /\ MaxLibs \in Nat
  BY <1>1, LoadNumbers
<1>6. \A i \in 1 .. libs.count : i \in 1 .. MaxLibs /\ i # Slot
  BY <1>2, <1>5
<1>7. LoadTypes'
  <2>1. LibsOK'
    <3>1. \A i \in 1 .. MaxLibs : Len(libs'.lib[i].list.deps) <= MaxDeps
      BY <1>1, <1>4 DEF LibsOK
    <3> QED BY <1>4, <3>1 DEF LibsOK, Tallied
  <2>2. ListOK'
    BY <1>1, <1>2 DEF ListOK
  <2> QED BY <1>1, <1>2, <1>4, <1>5, <2>1, <2>2 DEF LoadTypes
<1>8. FreshInv' /\ WhyInv'
  BY <1>2 DEF FreshInv, WhyInv
<1>9. LoopInv'
  <2>1. DOMAIN list = 1 .. Len(list) /\ Len(list) \in Nat
    BY <1>1 DEF ListOK
  <2>2. entry' <= Len(list') + 1
    BY <1>2, <2>1
  <2> QED BY <1>2, <2>2 DEF LoopInv
<1>10. SlotInv'
  <2>1. \A i \in 1 .. libs.count : libs'.lib[i] = libs.lib[i]
    BY <1>4, <1>6
  <2>2. \A i \in 1 .. libs.count : \E e \in DOMAIN list : e < entry + 1 /\ libs.lib[i].app = list[e].app
    <3>1. \A e \in DOMAIN list : e < entry => e < entry + 1
      BY <1>1, <1>2 DEF ListOK
    <3> QED BY <1>1, <3>1 DEF SlotInv
  <2>3. \A i, j \in 1 .. libs.count : libs.lib[i].app = libs.lib[j].app => i = j
    BY <1>1 DEF SlotInv
  <2>4. ASSUME NEW i \in 1 .. MaxLibs, i > libs.count PROVE libs'.lib[i].list.state # "held"
    BY <1>1, <1>4, <2>4 DEF SlotInv
  <2> QED BY <1>2, <1>4, <2>1, <2>2, <2>3, <2>4 DEF SlotInv
<1>11. InheritedList' <=> InheritedList
  BY <1>2 DEF InheritedList
<1>12. StaleInv'
  <2>1. ASSUME NEW s \in 1 .. MaxLibs, libs'.lib[s].list.state = "freed"
        PROVE  \/ s > libs.count /\ \E e \in DOMAIN list : e < entry + 1 /\ list[e].deps # << >>
               \/ InheritedList
    <3>1. CASE s = Slot
      BY <1>2, <1>4, <2>1, <3>1
    <3>2. CASE s # Slot
      <4>1. libs.lib[s].list.state = "freed"
        BY <1>4, <2>1, <3>2
      <4>2. \/ s > libs.count /\ \E e \in DOMAIN list : e < entry /\ list[e].deps # << >>
            \/ InheritedList
        BY <1>1, <1>2, <4>1 DEF StaleInv, Places
      <4>3. \A e \in DOMAIN list : e < entry => e < entry + 1
        BY <1>1, <1>2 DEF ListOK
      <4> QED BY <4>2, <4>3
    <3> QED BY <3>1, <3>2
  <2> QED BY <1>2, <1>4, <1>11, <2>1 DEF StaleInv
<1>13. LibrariesExact'
  <2>1. UsedSlots = 1 .. libs.count /\ UsedSlots' = 1 .. libs.count
    BY <1>2, <1>4 DEF UsedSlots
  <2>2. Alive /\ Alive' /\ pc \notin LastPlaces /\ pc' \notin LastPlaces
    BY <1>2 DEF Alive, Places, LastPlaces
  <2>3. ASSUME ~b PROVE Exact(libs'.lib, UsedSlots', refs')
    <3>1. Exact(libs.lib, 1 .. libs.count, refs) /\ refs' = refs
      BY <1>1, <2>1, <2>2, <2>3, ExactIs
    <3>2. \A l : RefsOf(libs'.lib, 1 .. libs.count, l) = RefsOf(libs.lib, 1 .. libs.count, l)
      <4>1. \A i \in 1 .. libs.count : libs'.lib[i] = libs.lib[i]
        BY <1>4, <1>6
      <4>2. ASSUME NEW l
            PROVE  RefsOf(libs'.lib, 1 .. libs.count, l) = RefsOf(libs.lib, 1 .. libs.count, l)
        <5>1. \A new, lib, S : (\A i \in S : new[i] = lib[i]) => RefsOf(new, S, l) = RefsOf(lib, S, l)
          BY RefsSame
        <5> QED BY <4>1, <5>1
      <4> QED BY <4>2
    <3> QED BY <2>1, <3>1, <3>2 DEF Exact
  <2> QED BY <1>4, <2>2, <2>3, ExactNext
<1> QED BY <1>7, <1>8, <1>9, <1>10, <1>12, <1>13 DEF LoadInv

LEMMA LoadDependencyMissing ==
    ASSUME LoadInv, DependencyMissing
    PROVE  LoadInv'
<1>1. Loads /\ libs' = [libs EXCEPT !.lib[Slot].list = NullList]
  BY DEF DependencyMissing
<1>2. /\ libs \in LibRecs /\ libs.twice \in BOOLEAN /\ refs \in Tallied
      /\ libs.twice => InheritedList
  BY DEF LoadInv, LoadTypes, LibsOK, LibRecs, StaleInv, Tallied
<1>3. libs' = WithList(libs, Slot, NullList, libs.twice)
  BY <1>1, <1>2 DEF LibRecs, WithList
<1>4. NullList \in DepLists /\ NullList.state = "null" /\ Len(NullList.deps) <= MaxDeps
  <2>1. << >> \in Seq(Deps) /\ Len(<< >>) = 0 /\ MaxDeps \in Nat
    BY PlatformAssumption
  <2> QED BY <2>1 DEF NullList, DepLists
<1>5. refs' = refs
  <2>1. PICK n \in 0 .. Len(Entry.deps) :
           refs' \in UnloadDependencies([state |-> "held", deps |-> SubSeq(Entry.deps, 1, n)],
                                        Opened(refs, SubSeq(Entry.deps, 1, n)))
    BY DEF DependencyMissing
  <2>2. SubSeq(Entry.deps, 1, n) \in Seq(Deps)
    <3>1. Entry.deps \in Seq(Deps)
      BY <1>1, LoadsIs
    <3> QED BY <2>1, <3>1
  <2>3. PICK loaded \in Seq(Deps) :
           refs' \in UnloadDependencies([state |-> "held", deps |-> loaded], Opened(refs, loaded))
    BY <2>1, <2>2
  <2>4. refs' = Closed(Opened(refs, loaded), loaded)
    BY <2>3 DEF UnloadDependencies
  <2> QED BY <1>2, <2>4, OpenedClosed
<1> QED BY <1>1, <1>2, <1>3, <1>4, <1>5, LoadFails

(* The dependencies of a library that does not load are closed again. *)
LEMMA LoadLibraryMissing ==
    ASSUME LoadInv, LibraryMissing
    PROVE  LoadInv'
<1>1. /\ Loads /\ (Entry.parens => Entry.deps # << >>)
      /\ refs' \in UnloadDependencies(SlotList, WithDeps)
      /\ libs' = [libs EXCEPT !.lib[Slot].list = Freed(SlotList),
                              !.twice = @ \/ SlotList.state = "freed"]
  BY DEF LibraryMissing
<1> DEFINE b == libs.twice \/ SlotList.state = "freed"
<1>2. /\ libs \in LibRecs /\ libs.twice \in BOOLEAN /\ refs \in Tallied
      /\ libs.twice => InheritedList
  BY DEF LoadInv, LoadTypes, LibsOK, LibRecs, StaleInv, Tallied
<1>3. /\ pc = "Load" /\ entry \in DOMAIN list /\ entry \in Nat
      /\ libs.lib[Slot].list \in DepLists /\ libs.lib[Slot].list.state # "held"
      /\ Len(libs.lib[Slot].list.deps) <= MaxDeps
      /\ Entry.parens \in BOOLEAN /\ Entry.deps \in Seq(Deps) /\ Len(Entry.deps) <= MaxDeps
  BY <1>1, LoadsIs
<1>4. /\ SlotList \in DepLists /\ Len(SlotList.deps) <= MaxDeps
      /\ (SlotList.state = "held" <=> Entry.parens)
      /\ Entry.parens => SlotList.deps = Entry.deps
      /\ ~Entry.parens => SlotList = libs.lib[Slot].list
  BY <1>3 DEF SlotList, DepLists
<1>5. libs' = WithList(libs, Slot, Freed(SlotList), b)
  BY <1>1 DEF WithList
<1>6. /\ Freed(SlotList) \in DepLists /\ Freed(SlotList).state # "held"
      /\ Len(Freed(SlotList).deps) <= MaxDeps
  BY <1>4, FreedIs
<1>7. refs' \in Tallied /\ (~b => refs' = refs)
  <2>1. CASE Entry.parens
    <3>1. refs' = Closed(Opened(refs, Entry.deps), Entry.deps)
      BY <1>1, <1>4, <2>1 DEF UnloadDependencies, WithDeps
    <3> QED BY <1>2, <1>3, <3>1, OpenedClosed
  <2>2. CASE ~Entry.parens
    <3>1. WithDeps = refs /\ SlotList.state \in {"null", "freed"}
      BY <1>4, <2>2 DEF WithDeps, DepLists
    <3>2. refs' = refs \/ (SlotList.state = "freed" /\ refs' = Closed(refs, SlotList.deps))
      BY <1>1, <3>1 DEF UnloadDependencies
    <3>3. SlotList.deps \in Seq(Deps)
      BY <1>4 DEF DepLists
    <3> QED BY <1>2, <3>2, <3>3, ClosedIs
  <2> QED BY <1>3, <2>1, <2>2
<1>8. SlotList.state = "freed" => InheritedList
  <2>1. ASSUME SlotList.state = "freed" PROVE InheritedList
    <3>1. ~Entry.parens /\ libs.lib[Slot].list.state = "freed"
      BY <1>4, <2>1
    <3>2. entry <= Len(list) /\ libs.count < MaxLibs
      BY <1>1 DEF Loads
    <3> QED BY <1>3, <3>1, <3>2, StaleAtLoad
  <2> QED BY <2>1
<1>9. Freed(SlotList).state = "freed" =>
          InheritedList \/ \E e \in DOMAIN list : e < entry + 1 /\ list[e].deps # << >>
  <2>1. CASE Entry.parens
    <3>1. Entry.deps # << >> /\ entry < entry + 1
      BY <1>1, <1>3, <2>1
    <3> QED BY <1>3, <3>1 DEF Entry
  <2>2. CASE ~Entry.parens
    BY <1>4, <1>8, <2>2 DEF Freed
  <2> QED BY <2>1, <2>2
<1>10. b \in BOOLEAN /\ (b => InheritedList) /\ (~b => ~libs.twice)
  BY <1>2, <1>8
<1> HIDE DEF b
<1> QED BY <1>1, <1>5, <1>6, <1>7, <1>9, <1>10, LoadFails
(* A library that is loaded: its slot holds what the linker has counted. *)
LEMMA LoadApplicationLoaded ==
    ASSUME LoadInv, ApplicationLoaded
    PROVE  LoadInv'
<1> DEFINE y == [app |-> Entry.app, list |-> SlotList]
<1>1. /\ Loads /\ (Entry.parens => Entry.deps # << >>)
      /\ refs' = Opened(WithDeps, <<Entry.app>>)
      /\ libs' = WithSlot(libs, Slot, y)
  BY DEF ApplicationLoaded, WithSlot
<1>2. LoadTypes /\ LoopInv /\ WhyInv /\ SlotInv /\ LibsOK /\ ListOK /\ StaleInv /\ LibrariesExact
      /\ libs \in LibRecs /\ refs \in Tallied
  BY DEF LoadInv, LoadTypes, LibsOK, Tallied
<1>3. /\ pc = "Load" /\ pc' = "Load" /\ at = 0 /\ at' = 0 /\ why = "none" /\ why' = "none"
      /\ list' = list /\ entry' = entry + 1 /\ entry \in DOMAIN list /\ entry \in Nat
      /\ Slot \in 1 .. MaxLibs /\ Slot > libs.count /\ Slot \notin 1 .. libs.count
  BY <1>1, LoadsIs
<1>4. /\ libs.lib[Slot].list \in DepLists /\ libs.lib[Slot].list.state # "held"
      /\ Len(libs.lib[Slot].list.deps) <= MaxDeps
      /\ Entry.app \in Apps /\ Entry.parens \in BOOLEAN
      /\ Entry.deps \in Seq(Deps) /\ Len(Entry.deps) <= MaxDeps
  BY <1>1, LoadsIs
<1>5. /\ SlotList \in DepLists /\ Len(SlotList.deps) <= MaxDeps
      /\ (SlotList.state = "held" <=> Entry.parens)
      /\ Entry.parens => SlotList.deps = Entry.deps
      /\ ~Entry.parens => SlotList = libs.lib[Slot].list
  BY <1>4 DEF SlotList, DepLists
<1>6. y \in Slots /\ y.app = Entry.app /\ y.list = SlotList
  BY <1>4, <1>5 DEF Slots
<1> HIDE DEF y
<1>7. /\ libs' \in LibRecs /\ libs'.count = Slot /\ libs'.twice = libs.twice /\ libs'.lib[Slot] = y
      /\ \A i \in 1 .. MaxLibs : i # Slot => libs'.lib[i] = libs.lib[i]
  BY <1>1, <1>2, <1>3, <1>6, SlotSet
<1>8. libs.count \in Nat /\ libs.count <= MaxLibs /\ MaxLibs \in Nat /\ Slot = libs.count + 1
  BY <1>2, LoadNumbers DEF Slot
<1>9. /\ \A i \in 1 .. libs.count : i \in 1 .. MaxLibs /\ i # Slot /\ libs'.lib[i] = libs.lib[i]
      /\ 1 .. Slot = (1 .. libs.count) \cup {Slot}
  BY <1>3, <1>7, <1>8
<1>10. LoadTypes'
  <2>1. LibsOK'
    <3>1. \A i \in 1 .. MaxLibs : Len(libs'.lib[i].list.deps) <= MaxDeps
      BY <1>2, <1>5, <1>6, <1>7 DEF LibsOK
    <3>2. WithDeps \in Tallied
      BY <1>2, <1>4, OpenedIs DEF WithDeps
    <3>3. <<Entry.app>> \in Seq(Apps)
      BY <1>4
    <3>4. refs' \in Tallied
      BY <1>1, <3>2, <3>3, OpenedIs
    <3> QED BY <1>7, <3>1, <3>4 DEF LibsOK, Tallied
  <2>2. ListOK'
    BY <1>2, <1>3 DEF ListOK
  <2> QED BY <1>3, <1>7, <1>8, <2>1, <2>2 DEF LoadTypes
<1>11. FreshInv' /\ WhyInv'
  BY <1>3 DEF FreshInv, WhyInv
<1>12. LoopInv'
  <2>1. DOMAIN list = 1 .. Len(list) /\ Len(list) \in Nat
    BY <1>2 DEF ListOK
  <2>2. entry' <= Len(list') + 1
    BY <1>3, <2>1
  <2> QED BY <1>3, <2>2 DEF LoopInv
<1>13. \A e \in DOMAIN list : (e < entry => e < entry + 1 /\ e # entry) /\ entry < entry + 1
  BY <1>2, <1>3 DEF ListOK
<1>14. SlotInv'
  <2>1. ASSUME NEW i \in 1 .. Slot
        PROVE  \E e \in DOMAIN list : e < entry + 1 /\ libs'.lib[i].app = list[e].app
    <3>1. CASE i = Slot
      BY <1>3, <1>6, <1>7, <1>13, <3>1 DEF Entry
    <3>2. CASE i \in 1 .. libs.count
      BY <1>2, <1>9, <1>13, <3>2 DEF SlotInv
    <3> QED BY <1>9, <3>1, <3>2
  <2>2. ASSUME NEW i \in 1 .. libs.count PROVE libs'.lib[i].app # libs'.lib[Slot].app
    <3>1. PICK e \in DOMAIN list : e < entry /\ libs'.lib[i].app = list[e].app
      BY <1>2, <1>9 DEF SlotInv
    <3>2. libs'.lib[Slot].app = list[entry].app
      BY <1>6, <1>7 DEF Entry
    <3> QED BY <1>2, <1>3, <1>13, <3>1, <3>2 DEF ListOK
  <2>3. ASSUME NEW i \in 1 .. libs.count, NEW j \in 1 .. libs.count,
               libs'.lib[i].app = libs'.lib[j].app
        PROVE  i = j
    BY <1>2, <1>9, <2>3 DEF SlotInv
  <2>4. \A i, j \in 1 .. Slot : libs'.lib[i].app = libs'.lib[j].app => i = j
    BY <1>9, <2>2, <2>3
  <2>5. ASSUME NEW i \in 1 .. MaxLibs, i > Slot PROVE libs'.lib[i].list.state # "held"
    <3>1. i > libs.count /\ i # Slot
      BY <1>3, <1>8, <2>5
    <3> QED BY <1>2, <1>7, <3>1 DEF SlotInv
  <2> QED BY <1>3, <1>7, <2>1, <2>4, <2>5 DEF SlotInv
<1>15. InheritedList' <=> InheritedList
  BY <1>3 DEF InheritedList
<1>16. StaleInv'
  <2>1. ASSUME NEW s \in 1 .. MaxLibs, libs'.lib[s].list.state = "freed"
        PROVE  \/ s > Slot /\ \E e \in DOMAIN list : e < entry + 1 /\ list[e].deps # << >>
               \/ InheritedList
    <3>1. CASE s = Slot
      <4>1. SlotList.state = "freed"
        BY <1>6, <1>7, <2>1, <3>1
      <4>2. ~Entry.parens /\ libs.lib[Slot].list.state = "freed"
        BY <1>4, <1>5, <4>1
      <4>3. entry <= Len(list) /\ libs.count < MaxLibs
        BY <1>1 DEF Loads
      <4> QED BY <1>3, <4>2, <4>3, StaleAtLoad
    <3>2. CASE s # Slot
      <4>1. libs.lib[s].list.state = "freed"
        BY <1>7, <2>1, <3>2
      <4>2. \/ s > libs.count /\ \E e \in DOMAIN list : e < entry /\ list[e].deps # << >>
            \/ InheritedList
        BY <1>2, <1>3, <4>1 DEF StaleInv, Places
      <4>3. s > libs.count => s > Slot
        BY <1>8, <3>2
      <4> QED BY <1>13, <4>2, <4>3
    <3> QED BY <3>1, <3>2
  <2> QED BY <1>2, <1>3, <1>7, <1>15, <2>1 DEF StaleInv
<1>17. LibrariesExact'
  <2>1. UsedSlots = 1 .. libs.count /\ UsedSlots' = 1 .. Slot
    BY <1>3, <1>7 DEF UsedSlots
  <2>2. Alive /\ Alive' /\ pc \notin LastPlaces /\ pc' \notin LastPlaces
    BY <1>3 DEF Alive, Places, LastPlaces
  <2>3. ASSUME ~libs.twice PROVE Exact(libs'.lib, 1 .. Slot, refs')
    <3>1. Exact(libs.lib, 1 .. libs.count, refs)
      BY <1>2, <2>1, <2>2, <2>3, ExactIs
    <3>2. ASSUME NEW l \in Apps \cup Deps
          PROVE  refs'[l] = Cardinality(RefsOf(libs'.lib, 1 .. Slot, l))
      <4>1. RefsOf(libs'.lib, 1 .. libs.count, l) = RefsOf(libs.lib, 1 .. libs.count, l)
        <5>1. \A new, lib, S : (\A i \in S : new[i] = lib[i]) => RefsOf(new, S, l) = RefsOf(lib, S, l)
          BY RefsSame
        <5> QED BY <1>9, <5>1
      <4>2. Cardinality(RefsOf(libs'.lib, (1 .. libs.count) \cup {Slot}, l))
              = Cardinality(RefsOf(libs'.lib, 1 .. libs.count, l)) + Own(y, l)
        <5>1. IsFiniteSet(1 .. libs.count)
          BY <1>8, FS_Interval
        <5>2. libs'.lib[Slot] \in Slots /\ Len(libs'.lib[Slot].list.deps) <= MaxDeps
          BY <1>5, <1>6, <1>7
        <5> DEFINE S == 1 .. libs.count
        <5>3. IsFiniteSet(S) /\ Slot \notin S
          BY <1>3, <5>1
        <5> HIDE DEF S
        <5>4. Cardinality(RefsOf(libs'.lib, S \cup {Slot}, l))
                = Cardinality(RefsOf(libs'.lib, S, l)) + Own(libs'.lib[Slot], l)
          BY <5>2, <5>3, RefsOneMore
        <5> QED BY <1>7, <5>4 DEF S
      <4>3. Cardinality(RefsOf(libs'.lib, 1 .. Slot, l)) = refs[l] + Own(y, l)
        BY <1>9, <3>1, <4>1, <4>2 DEF Exact
      <4>4. Own(y, l) = (IF Entry.app = l THEN 1 ELSE 0)
                          + (IF Entry.parens THEN Times(l, Entry.deps) ELSE 0)
        BY <1>5, <1>6 DEF Own
      <4>5. Times(l, Entry.deps) \in Nat /\ refs[l] \in Nat
        BY <1>2, <1>4, TimesNat DEF Tallied
      <4>6. WithDeps \in Tallied
            /\ WithDeps[l] = refs[l] + (IF Entry.parens THEN Times(l, Entry.deps) ELSE 0)
        <5>1. CASE Entry.parens
          BY <1>2, <1>4, <5>1, OpenedIs DEF WithDeps
        <5>2. CASE ~Entry.parens
          BY <1>2, <4>5, <5>2 DEF WithDeps
        <5> QED BY <1>4, <5>1, <5>2
      <4>7. refs'[l] = WithDeps[l] + Times(l, <<Entry.app>>)
        <5>1. <<Entry.app>> \in Seq(Apps)
          BY <1>4
        <5> QED BY <1>1, <4>6, <5>1, OpenedIs
      <4>8. Times(l, <<Entry.app>>) = IF Entry.app = l THEN 1 ELSE 0
        BY TimesOne
      <4> QED BY <4>3, <4>4, <4>5, <4>6, <4>7, <4>8
    <3> QED BY <3>2 DEF Exact
  <2> QED BY <1>7, <2>1, <2>2, <2>3, ExactNext
<1> QED BY <1>10, <1>11, <1>12, <1>14, <1>16, <1>17 DEF LoadInv
(* Unloading: the slot's own application and its dependencies are closed. *)
LEMMA LoadUnload ==
    ASSUME LoadInv, UnloadApplication
    PROVE  LoadInv'
<1> DEFINE b == libs.twice \/ App.list.state = "freed"
<1>1. /\ pc = "Unload" /\ pc' = "Unload" /\ why' = why /\ at < libs.count /\ at' = at + 1
      /\ list' = list /\ entry' = entry
  BY DEF UnloadApplication, Each, Go, history
<1>2. PICK r \in UnloadDependencies(App.list, refs) : refs' = Closed(r, <<App.app>>)
  BY DEF UnloadApplication
<1>3. libs' = WithList(libs, at + 1, Freed(App.list), b)
  BY DEF UnloadApplication, WithList, App
<1>4. LoadTypes /\ LoopInv /\ WhyInv /\ SlotInv /\ LibsOK /\ ListOK /\ StaleInv /\ LibrariesExact
      /\ libs \in LibRecs /\ refs \in Tallied /\ libs.twice \in BOOLEAN
  BY DEF LoadInv, LoadTypes, LibsOK, Tallied, LibRecs
<1>5. /\ libs.count \in Nat /\ libs.count <= MaxLibs /\ MaxLibs \in Nat /\ at \in Nat
      /\ at + 1 \in 1 .. MaxLibs /\ at + 1 \in 1 .. libs.count
  BY <1>1, <1>4, LoadNumbers
<1>6. App \in Slots /\ App.list \in DepLists /\ Len(App.list.deps) <= MaxDeps
      /\ App.app \in Apps \cup {"none"} /\ App.list.deps \in Seq(Deps)
  <2>1. App \in Slots
    BY <1>4, <1>5 DEF LibRecs, App
  <2>2. Len(App.list.deps) <= MaxDeps
    BY <1>4, <1>5 DEF LibsOK, App
  <2> QED BY <2>1, <2>2 DEF Slots, DepLists
<1>7. App.app \in Apps
  <2>1. PICK e \in DOMAIN list : App.app = list[e].app
    BY <1>4, <1>5 DEF SlotInv, App
  <2>2. \A T : \A s \in Seq(T) : \A i \in DOMAIN s : s[i] \in T
    OBVIOUS
  <2>3. list[e] \in [app : Apps, parens : BOOLEAN, deps : Seq(Deps)]
    BY <1>4, <2>2 DEF ListOK
  <2> QED BY <2>1, <2>3
<1>8. b \in BOOLEAN /\ (b => InheritedList) /\ (~b => ~libs.twice /\ App.list.state # "freed")
  <2>1. App.list.state = "freed" => InheritedList
    BY <1>1, StaleAtUnload
  <2> QED BY <1>4, <2>1 DEF StaleInv
<1> HIDE DEF b
<1>9. /\ Freed(App.list) \in DepLists /\ Freed(App.list).state # "held"
      /\ Len(Freed(App.list).deps) <= MaxDeps
  BY <1>6, FreedIs
<1>10. /\ libs' \in LibRecs /\ libs'.count = libs.count /\ libs'.twice = b
       /\ libs'.lib[at + 1].app = libs.lib[at + 1].app /\ libs'.lib[at + 1].list = Freed(App.list)
       /\ \A i \in 1 .. MaxLibs : i # at + 1 => libs'.lib[i] = libs.lib[i]
  <2>1. PICK L \in LibRecs, s \in 1 .. MaxLibs, d \in DepLists, c \in BOOLEAN :
           L = libs /\ s = at + 1 /\ d = Freed(App.list) /\ c = b
    BY <1>4, <1>5, <1>8, <1>9
  <2>2. PICK x : x = libs'
    OBVIOUS
  <2>3. x = WithList(L, s, d, c)
    BY <1>3, <2>1, <2>2
  <2>4. /\ x \in LibRecs /\ x.count = L.count /\ x.twice = c
        /\ x.lib[s].app = L.lib[s].app /\ x.lib[s].list = d
        /\ \A i \in 1 .. MaxLibs : i # s => x.lib[i] = L.lib[i]
    BY <2>3, ListSet
  <2> QED BY <2>1, <2>2, <2>4
<1>11. r \in Tallied
  <2>1. r = refs \/ r = Closed(refs, App.list.deps)
    <3>1. App.list.state \in {"null", "held", "freed"}
      BY <1>6 DEF DepLists
    <3> QED BY <1>2, <3>1 DEF UnloadDependencies
  <2>2. Closed(refs, App.list.deps) \in Tallied
    BY <1>4, <1>6, ClosedIs
  <2> QED BY <1>4, <2>1, <2>2
<1>12. <<App.app>> \in Seq(Apps)
  BY <1>7
<1>13. LoadTypes'
  <2>1. LibsOK'
    <3>1. \A i \in 1 .. MaxLibs : Len(libs'.lib[i].list.deps) <= MaxDeps
      BY <1>4, <1>9, <1>10 DEF LibsOK
    <3>2. refs' \in Tallied
      BY <1>2, <1>11, <1>12, ClosedIs
    <3> QED BY <1>10, <3>1, <3>2 DEF LibsOK, Tallied
  <2>2. ListOK'
    BY <1>1, <1>4 DEF ListOK
  <2>3. at' \in 0 .. libs.count
    BY <1>1, <1>5
  <2> QED BY <1>1, <1>4, <1>10, <2>1, <2>2, <2>3 DEF LoadTypes
<1>14. FreshInv' /\ WhyInv' /\ LoopInv'
  BY <1>1, <1>4 DEF FreshInv, WhyInv, LoopInv, Places
<1>15. SlotInv'
  <2>1. \A i \in 1 .. MaxLibs : libs'.lib[i].app = libs.lib[i].app
    BY <1>10
  <2>2. \A i \in 1 .. libs.count : libs'.lib[i].app = libs.lib[i].app
    BY <1>5, <2>1
  <2>3. ASSUME NEW i \in 1 .. MaxLibs, i > libs.count PROVE libs'.lib[i].list.state # "held"
    BY <1>4, <1>9, <1>10, <2>3 DEF SlotInv
  <2> QED BY <1>1, <1>4, <1>10, <2>2, <2>3 DEF SlotInv
<1>16. InheritedList' <=> InheritedList
  BY <1>1 DEF InheritedList
<1>17. StaleInv'
  <2>1. ASSUME NEW s \in 1 .. MaxLibs, libs'.lib[s].list.state = "freed"
        PROVE  \/ s > libs.count /\ \E e \in DOMAIN list : e < entry /\ list[e].deps # << >>
               \/ InheritedList
               \/ s <= at + 1
    <3>1. CASE s = at + 1
      BY <1>5, <3>1
    <3>2. CASE s # at + 1
      <4>1. libs.lib[s].list.state = "freed"
        BY <1>10, <2>1, <3>2
      <4>2. s <= at => s <= at + 1
        BY <1>5
      <4> QED BY <1>1, <1>4, <4>1, <4>2 DEF StaleInv, Places
    <3> QED BY <3>1, <3>2
  <2>2. why' = "none" /\ "none" # "stale list"
    BY <1>1, <1>4 DEF WhyInv
  <2> QED BY <1>1, <1>8, <1>10, <1>16, <2>1, <2>2 DEF StaleInv
<1>18. LibrariesExact'
  <2> DEFINE S == at + 2 .. libs.count
  <2>1. UsedSlots = S \cup {at + 1} /\ UsedSlots' = S
    <3>1. UsedSlots = at + 1 .. libs.count
      BY <1>1 DEF UsedSlots
    <3>2. UsedSlots' = at' + 1 .. libs.count
      BY <1>1, <1>10 DEF UsedSlots
    <3>3. at' + 1 = at + 2
      BY <1>1, <1>5
    <3>4. at + 1 .. libs.count = S \cup {at + 1}
      BY <1>1, <1>5
    <3> QED BY <3>1, <3>2, <3>3, <3>4
  <2>2. IsFiniteSet(S) /\ at + 1 \notin S /\ \A i \in S : i \in 1 .. MaxLibs /\ i # at + 1
    <3>1. at + 2 \in Int /\ libs.count \in Int
      BY <1>5
    <3>2. IsFiniteSet(S)
      BY <3>1, FS_Interval
    <3>3. at + 1 \notin S /\ \A i \in S : i \in 1 .. MaxLibs /\ i # at + 1
      BY <1>5
    <3> QED BY <3>2, <3>3
  <2> HIDE DEF S
  <2>3. Alive /\ Alive' /\ pc \notin LastPlaces /\ pc' \notin LastPlaces
    BY <1>1 DEF Alive, Places, LastPlaces
  <2>4. ASSUME ~b PROVE Exact(libs'.lib, S, refs')
    <3>1. Exact(libs.lib, S \cup {at + 1}, refs) /\ App.list.state # "freed"
      BY <1>4, <1>8, <2>1, <2>3, <2>4, ExactIs
    <3>2. ASSUME NEW l \in Apps \cup Deps
          PROVE  refs'[l] = Cardinality(RefsOf(libs'.lib, S, l))
      <4> DEFINE n == Cardinality(RefsOf(libs.lib, S, l))
                 t == Times(l, App.list.deps)
                 o == IF App.app = l THEN 1 ELSE 0
      <4>1. RefsOf(libs'.lib, S, l) = RefsOf(libs.lib, S, l)
        <5>1. \A new, lib, T : (\A i \in T : new[i] = lib[i]) => RefsOf(new, T, l) = RefsOf(lib, T, l)
          BY RefsSame
        <5> QED BY <1>10, <2>2, <5>1
      <4>2. n \in Nat /\ t \in Nat /\ o \in Nat
        BY <1>6, <2>2, RefsFinite, TimesNat
      <4>3. refs[l] = n + Own(App, l)
        <5>1. libs.lib[at + 1] \in Slots /\ Len(libs.lib[at + 1].list.deps) <= MaxDeps
          BY <1>6 DEF App
        <5>2. Cardinality(RefsOf(libs.lib, S \cup {at + 1}, l)) = n + Own(libs.lib[at + 1], l)
          BY <2>2, <5>1, RefsOneMore
        <5> QED BY <3>1, <5>2 DEF Exact, App
      <4>4. Own(App, l) = o + (IF App.list.state = "held" THEN t ELSE 0)
        BY DEF Own
      <4> HIDE DEF n, t, o
      <4>5. r[l] = n + o
        <5>1. CASE App.list.state = "held"
          <6>1. r = Closed(refs, App.list.deps)
            BY <1>2, <5>1 DEF UnloadDependencies
          <6>2. refs[l] = n + o + t /\ refs[l] >= t
            BY <4>2, <4>3, <4>4, <5>1
          <6>3. refs[l] >= Times(l, App.list.deps)
                  => Closed(refs, App.list.deps)[l] = refs[l] - Times(l, App.list.deps)
            BY <1>4, <1>6, ClosedIs
          <6>4. r[l] = refs[l] - t
            BY <6>1, <6>2, <6>3 DEF t
          <6> QED BY <4>2, <6>2, <6>4
        <5>2. CASE App.list.state = "null"
          <6>1. r = refs
            BY <1>2, <5>2 DEF UnloadDependencies
          <6> QED BY <4>2, <4>3, <4>4, <5>2, <6>1
        <5>3. App.list.state \in {"null", "held", "freed"}
          BY <1>6 DEF DepLists
        <5> QED BY <3>1, <5>1, <5>2, <5>3
      <4>6. Times(l, <<App.app>>) = o
        BY TimesOne DEF o
      <4>7. refs'[l] = r[l] - o
        <5>1. r[l] >= Times(l, <<App.app>>)
                => Closed(r, <<App.app>>)[l] = r[l] - Times(l, <<App.app>>)
          BY <1>11, <1>12, ClosedIs
        <5>2. r[l] >= o
          BY <4>2, <4>5
        <5> QED BY <1>2, <4>6, <5>1, <5>2
      <4>8. refs'[l] = n
        BY <4>2, <4>5, <4>7
      <4> QED BY <4>1, <4>8 DEF n
    <3> QED BY <3>2 DEF Exact
  <2> QED BY <1>10, <2>1, <2>3, <2>4, ExactNext
<1> QED BY <1>13, <1>14, <1>15, <1>17, <1>18 DEF LoadInv

(* All are unloaded: nothing is left. *)
LEMMA LoadAllUnloaded ==
    ASSUME LoadInv, AllUnloaded
    PROVE  LoadInv'
<1>1. LoadTypes /\ LoopInv /\ WhyInv /\ SlotInv /\ LibsOK /\ ListOK /\ StaleInv /\ LibrariesExact
  BY DEF LoadInv, LoadTypes
<1>2. /\ pc = "Unload" /\ pc' = "EmTerm" /\ at = libs.count /\ at' = 0
      /\ UNCHANGED <<list, entry, libs, refs, why>>
  BY DEF AllUnloaded, Past, Go, history
<1>3. LoadTypes'
  <2>1. at' \in 0 .. libs.count
    BY <1>1, <1>2, LoadNumbers
  <2> QED BY <1>1, <1>2, <2>1 DEF LoadTypes, ListOK, LibsOK
<1>4. FreshInv' /\ WhyInv' /\ LoopInv' /\ SlotInv'
  BY <1>1, <1>2 DEF FreshInv, WhyInv, LoopInv, SlotInv, Places
<1>5. StaleInv'
  BY <1>1, <1>2 DEF StaleInv, InheritedList
<1>6. LibrariesExact'
  <2>1. UsedSlots = {}
    <3>1. UsedSlots = at + 1 .. libs.count
      BY <1>2 DEF UsedSlots
    <3> QED BY <1>1, <1>2, <3>1, LoadNumbers
  <2>2. Alive /\ Alive' /\ pc \notin LastPlaces /\ pc' \in LastPlaces
    BY <1>2 DEF Alive, Places, LastPlaces
  <2>3. ~libs.twice => \A l \in Apps \cup Deps : refs[l] = 0
    BY <1>1, <2>1, <2>2, ExactIs, RefsNone, FS_EmptySet DEF Exact
  <2> QED BY <1>2, <2>2, <2>3, ExactNext
<1> QED BY <1>3, <1>4, <1>5, <1>6 DEF LoadInv

LEMMA LoadStep ==
    ASSUME PlatformInv, [PlatformNext]_platformVars
    PROVE  LoadInv'
<1>1. LoadInv
  BY DEF PlatformInv
<1>2. CASE UNCHANGED platformVars
  BY <1>1, <1>2, LoadSame DEF platformVars, process, history
<1> QED BY <1>1, <1>2, LoadMovesOn, LoadLoops, LoadSignals, LoadBegins, LoadDependencyMissing,
           LoadLibraryMissing, LoadApplicationLoaded, LoadUnload, LoadAllUnloaded
        DEF PlatformNext
-----------------------------------------------------------------------------
(* The invariant, and what it says of the host.                             *)
LEMMA PlatformStep ==
    ASSUME PlatformInv, [PlatformNext]_platformVars
    PROVE  PlatformInv'
  BY HostStep, LoadStep DEF PlatformInv

(* The script never holds a command twice, or one that is not a recovery.   *)
LEMMA ScriptInjective ==
    ASSUME HostInv
    PROVE  IsInjective(script) /\ Range(script) \subseteq Commands
<1>1. HostTypes /\ ScriptInv /\ DeadInv /\ script \in Seq(Commands)
  BY DEF HostInv, HostTypes
<1>2. \E k \in 0 .. 6 : Registered(k)
  <2>1. CASE pc = "Dead"
    BY <1>1, <2>1 DEF DeadInv
  <2>2. CASE pc = "Down"
    BY <1>1, <2>2 DEF ScriptInv
  <2>3. CASE pc \in Places \cup {"Exited"}
    BY <2>3, <1>1, EndsRecovered DEF HostTypes
  <2> QED BY <1>1, <2>1, <2>2, <2>3 DEF HostTypes
<1>3. PICK k \in 0 .. 6 : Registered(k)
  BY <1>2
<1>4. DOMAIN script = 1 .. k /\ \A i \in 1 .. k : i \in 1 .. 6 /\ script[i] = Order[i]
  BY <1>1, <1>3 DEF Registered
<1>5. \A i, j \in 1 .. 6 : Order[i] = Order[j] => i = j
  <2>1. \A i \in 1 .. 6 : i = 1 \/ i = 2 \/ i = 3 \/ i = 4 \/ i = 5 \/ i = 6
    OBVIOUS
  <2> QED BY <2>1, OrderIs
<1>6. IsInjective(script)
  BY <1>4, <1>5 DEF IsInjective
<1>7. \A i \in DOMAIN script : script[i] \in Commands
  BY <1>1
<1>8. Range(script) \subseteq Commands
  BY <1>7 DEF Range
<1> QED BY <1>6, <1>8

LEMMA InvRecovered ==
    ASSUME PlatformInv
    PROVE  CrashRecovered
<1>1. /\ HostInv /\ HostTypes /\ ScriptInv /\ SockInv /\ ShmInv /\ MacInv
      /\ LoadTypes /\ LibsOK /\ world \in Worlds
  BY DEF PlatformInv, HostInv, HostTypes, LoadInv, LoadTypes
<1>2. PlatformTypeOK
  <2>1. IsInjective(script) /\ Range(script) \subseteq Commands
    BY <1>1, ScriptInjective
  <2>2. refs \in [Apps \cup Deps -> Nat] /\ libs.count \in 0 .. MaxLibs /\ at \in 0 .. libs.count
    BY <1>1 DEF LoadTypes, LibsOK, LibRecs
  <2> QED BY <1>1, <2>1, <2>2 DEF PlatformTypeOK, HostTypes, Worlds
<1>3. ASSUME pc = "Down"
      PROVE  /\ world.mac = "original" /\ ~world.sock /\ ~world.shm
             /\ world.file # "node"
             /\ world.up \/ gap
  BY <1>1, <1>3 DEF SockInv, ShmInv, MacInv, Borrowed
<1>4. ASSUME pc = "Exited"
      PROVE  /\ script = << >>
             /\ world = [mac |-> "original", up |-> TRUE, file |-> NoMac, sock |-> FALSE,
                         shm |-> FALSE]
  <2>1. Len(script) = 0
    BY <1>1, <1>4 DEF ScriptInv, Registered
  <2>2. script = << >>
    BY <1>1, <2>1 DEF HostTypes
  <2>3. world.mac = "original" /\ world.up /\ world.file = NoMac /\ ~world.sock /\ ~world.shm
    BY <1>1, <1>4 DEF SockInv, ShmInv, MacInv, Borrowed, Returned
  <2>4. world = [mac |-> world.mac, up |-> world.up, file |-> world.file, sock |-> world.sock,
                 shm |-> world.shm]
    BY <1>1 DEF Worlds
  <2>5. world.up = TRUE /\ world.sock = FALSE /\ world.shm = FALSE
    BY <1>1, <2>3 DEF Worlds
  <2> QED BY <2>2, <2>3, <2>4, <2>5
<1> QED BY <1>2, <1>3, <1>4 DEF CrashRecovered

(* The inductive invariant of the process and its host: what the recovery   *)
(* script holds at each place, in which order, what the host is then like,  *)
(* and that the script would recover it from there.                         *)
THEOREM PlatformInvariant == PlatformSpec => []PlatformInv
<1>1. PlatformInit => PlatformInv
  BY HostInitially, LoadInitially DEF PlatformInv
<1>2. PlatformInv /\ [PlatformNext]_platformVars => PlatformInv'
  BY PlatformStep
<1> QED BY <1>1, <1>2, PTL DEF PlatformSpec

(* Whenever the process ends, at any place of its start-up or teardown, the *)
(* cleanup gives the host back its interface with its own address, and      *)
(* leaves no socket, no shared memory and no file with another address      *)
(* (exception/recovery.c, menabrea_cleanup.sh); after exit(0) there is      *)
(* nothing left to do.                                                      *)
THEOREM HostRecovered == PlatformSpec => []CrashRecovered
<1>1. PlatformInv => CrashRecovered
  BY InvRecovered
<1> QED BY <1>1, PlatformInvariant, PTL

(* No assertion about the host ever fails, and only a list of applications  *)
(* that inherits the dependencies of another one can kill the platform      *)
(* (startup/load_applications.c).                                           *)
THEOREM OnlyStaleListsKill == PlatformSpec => []DiesOnlyOfStaleList
<1>1. PlatformInv => DiesOnlyOfStaleList
  BY DEF PlatformInv, LoadInv, WhyInv, StaleInv, InheritedList, DiesOnlyOfStaleList
<1> QED BY <1>1, PlatformInvariant, PTL

(* The counts of the dynamic linker are those of the applications that are  *)
(* loaded, for every list of applications with shared dependencies and      *)
(* every failure to load one (startup/load_applications.c).                 *)
THEOREM LibrariesCounted == PlatformSpec => []LibrariesExact
<1>1. PlatformInv => LibrariesExact
  BY DEF PlatformInv, LoadInv
<1> QED BY <1>1, PlatformInvariant, PTL

=============================================================================
