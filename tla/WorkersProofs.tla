---------------------------- MODULE WorkersProofs ---------------------------
(***************************************************************************)
(* What holds of the life of workers for every number of cores, workers,   *)
(* execution objects and messages, every buffer length and every nesting   *)
(* of deployments: no assertion of the code fails, a context outlives all  *)
(* who use it, every ID, EO and message has exactly one owner, only a      *)
(* deployment that is rolled back loses messages, and the table with the   *)
(* event machine implements the mailboxes of WorkerService.                *)
(*                                                                         *)
(* The inductive invariant says, for each frame on each stack, in which    *)
(* state it finds the table entry and the execution object it works on     *)
(* (FrameOK); that no two frames are responsible for the same worker or    *)
(* EO (Apart); which states of entry and EO go together (EntryOK, EoOK);   *)
(* and that the ring holds the IDs that are not in use.  There is one      *)
(* lemma per action; most go through StepMove, which says what a core that *)
(* replaces the frames on top of its stack has to show.                    *)
(*                                                                         *)
(* Of messages and of the states of workers a step can only change what    *)
(* one of a dozen effects says (Effect).  From these follow the invariants *)
(* about messages (QuietInv, MailInv), the one way in which a message is   *)
(* lost, and the refinement.                                               *)
(***************************************************************************)
EXTENDS Workers, IdFifoProofs, SequenceTheorems, WellFoundedInduction, TLAPS

(***************************************************************************)
(* The inductive invariant                                                 *)
(***************************************************************************)
EoRecords ==
    [State : EoStates, Context : Workers \cup {NoId}, Name : Names \cup {NoName},
     Pending : SUBSET Cores, Queue : Seq(Messages)]

TypeInv ==
    /\ table \in [Workers -> Contexts]
    /\ eo \in [Eos -> EoRecords]
    /\ notifs \subseteq Workers
    /\ stack \in [Cores -> Seq(Frames)]
    /\ live \subseteq Messages
    /\ allow \subseteq Cores

(* The entry of worker w and the EO it names go together. *)
FitsEntry(state) ==
    CASE state = "Deploying" -> {"Start", "Created", "LocalStart", "Running"}
      [] state = "Active" -> {"Running"}
      [] state = "Terminating" -> {"LocalStop", "Stop"}
      [] OTHER -> {}
EntryOK(w) ==
    LET ctx == table[w]
    IN  /\ ctx.State = "Inactive" => ctx.Eo = NoEo
        /\ ctx.State # "Inactive" => ctx.WorkerId = w
        /\ ctx.State \in {"Active", "Terminating"} => ctx.Eo # NoEo
        /\ ctx.Eo # NoEo => /\ eo[ctx.Eo].Context = w
                            /\ eo[ctx.Eo].State \in FitsEntry(ctx.State)

(* Each EO that exists has an entry or is about to be deleted. *)
Doomed(e) == \E c \in Cores : At(c, "DeleteEo") /\ Top(c).eo = e
EoOK(e) ==
    /\ eo[e].State # "Undef" => eo[e].Context \in Workers
    /\ eo[e].State \in {"Start", "LocalStart", "Running", "LocalStop"} => table[eo[e].Context].Eo = e
    /\ eo[e].State \in {"Created", "Stop"} => table[eo[e].Context].Eo = e \/ Doomed(e)

NotifOK(w) ==
    /\ table[w].State = "Deploying"
    /\ table[w].Eo # NoEo
    /\ eo[table[w].Eo].State = "Running"

(* What a frame f on core c relies on. *)
Has(f, state) == f.eo \in Eos /\ table[f.w].Eo = f.eo /\ table[f.w].State = state
Awaits(c, e, state) == eo[e].State = state /\ c \in eo[e].Pending
Hosts(c, w) == c \in table[w].CoreMask
FrameOK(c, f) ==
    /\ f.at = "Allocated" => f.w \in Ids /\ f.eo = NoEo /\ table[f.w].State = "Inactive"
    /\ f.at = "Reserved" => f.eo = NoEo /\ table[f.w].Eo = NoEo /\ table[f.w].State = "Deploying"
    /\ f.at = "Start" => Has(f, "Deploying") /\ eo[f.eo].State = "Start"
    /\ f.at = "Starting" => /\ Has(f, "Deploying")
                            /\ eo[f.eo].State = "Start" \/ Awaits(c, f.eo, "LocalStart")
    /\ f.at = "Started" => Has(f, "Deploying") /\ Awaits(c, f.eo, "LocalStart")
    /\ f.at = "RollBack" => Has(f, "Deploying") /\ eo[f.eo].State = "Created"
    /\ f.at = "LocalStart" => Has(f, "Deploying") /\ Awaits(c, f.eo, "LocalStart") /\ Hosts(c, f.w)
    /\ f.at = "Receive" => /\ \/ Has(f, "Active") /\ eo[f.eo].State = "Running"
                              \/ Has(f, "Terminating") /\ Awaits(c, f.eo, "LocalStop")
                           /\ Hosts(c, f.w)
    /\ f.at = "LocalStop" => Has(f, "Terminating") /\ Awaits(c, f.eo, "LocalStop") /\ Hosts(c, f.w)
    /\ f.at = "Stop" => Has(f, "Terminating") /\ eo[f.eo].State = "Stop"
    /\ f.at = "DeleteEo" => /\ f.eo \in Eos
                            /\ eo[f.eo].State \in {"Created", "Stop"}
                            /\ \A w \in Workers : table[w].Eo # f.eo

(* Two frames that are responsible for the same worker or EO. *)
Clash(f, g) ==
    \/ f.at \in DeploySteps /\ g.at \in DeploySteps /\ f.w = g.w
    \/ f.at \in {"Start", "Stop", "DeleteEo"} /\ g.at = f.at /\ f.eo = g.eo

(* How frames follow each other: only em_eo_start and callbacks have calls  *)
(* above them, and only the start function is called from DeployWorker.     *)
Shape(s) ==
    /\ Len(s) <= MaxDepth
    /\ \A i \in 1 .. Len(s) :
          /\ s[i].at = "DeleteEo" => i = 1
          /\ s[i].at \in {"Allocated", "Reserved"} => i = 1 /\ Len(s) < MaxDepth
          /\ s[i].at \in {"LocalStart", "Receive", "LocalStop", "Stop"} => i = Len(s)
          /\ s[i].at = "Start" => /\ i < Len(s)
                                  /\ s[i + 1].at = "Starting"
                                  /\ s[i + 1].w = s[i].w
                                  /\ s[i + 1].eo = s[i].eo

Apart ==
    \A c, d \in Cores : \A i \in 1 .. Len(stack[c]), j \in 1 .. Len(stack[d]) :
        Clash(stack[c][i], stack[d][j]) => c = d /\ i = j
FramesInv ==
    /\ \A c \in Cores : Shape(stack[c])
    /\ \A c \in Cores : \A i \in 1 .. Len(stack[c]) : FrameOK(c, stack[c][i])
    /\ Apart

TableInv ==
    /\ \A w \in Workers : EntryOK(w)
    /\ \A e \in Eos : EoOK(e)
    /\ \A w \in notifs : NotifOK(w)

(* Before a worker is up nothing is in the queue of its EO, and when it is  *)
(* up nothing is in its buffer.                                             *)
QuietEntry(w) ==
    LET ctx == table[w]
    IN  /\ ctx.State # "Deploying" => ctx.MessageBuffer = << >>
        /\ ctx.State = "Inactive" => ~ ctx.TerminationRequested
        /\ ctx.State = "Deploying" /\ ctx.Eo # NoEo => eo[ctx.Eo].Queue = << >>
QuietEo(e) == eo[e].State \in {"Undef", "Created", "Start", "LocalStart"} => eo[e].Queue = << >>
QuietInv == (\A w \in Workers : QuietEntry(w)) /\ (\A e \in Eos : QuietEo(e))

(* Each message is in one buffer or queue, once, and has not been freed.    *)
Once(s) == \A i, j \in 1 .. Len(s) : s[i] = s[j] => i = j
Box(w) == table[w].MessageBuffer
Queue(e) == IF e \in Eos THEN eo[e].Queue ELSE << >>
Holds(s) == Once(s) /\ In(s) \subseteq live
MailInv ==
    /\ \A w \in Workers : Holds(Box(w))
    /\ \A e \in Eos : Holds(Queue(e))
    /\ \A w, x \in Workers : w # x => In(Box(w)) \cap In(Box(x)) = {}
    /\ \A d, e \in Eos : d # e => In(Queue(d)) \cap In(Queue(e)) = {}
    /\ \A w \in Workers, e \in Eos : In(Box(w)) \cap In(Queue(e)) = {}

SInv == TypeInv /\ TableInv /\ FramesInv /\ RingInv(fifo, DynamicInUse) /\ failed = {}

-----------------------------------------------------------------------------
(***************************************************************************)
(* Steps, by what they touch                                               *)
(***************************************************************************)
KeepsEntry(x) ==
    /\ table'[x].State = table[x].State /\ table'[x].WorkerId = table[x].WorkerId
    /\ table'[x].Eo = table[x].Eo /\ table'[x].CoreMask = table[x].CoreMask
KeepsEo(d) ==
    eo'[d].State = eo[d].State /\ eo'[d].Context = eo[d].Context /\ eo'[d].Pending = eo[d].Pending

(* A step that touches the entry of w and the EO e at most, where e is that *)
(* of no other entry.                                                       *)
Touches(w, e) ==
    /\ \A x \in Workers : x # w => KeepsEntry(x) /\ (e # NoEo => table[x].Eo # e)
    /\ \A d \in Eos : d # e => KeepsEo(d) /\ (table[w].Eo = d => table'[w].Eo = d)

Same(f, g) == f.at = g.at /\ f.w = g.w /\ f.eo = g.eo

(* Core c leaves its m innermost calls and enters those of new. *)
Moves(c, m, new) ==
    /\ m <= Len(stack[c])
    /\ \A q \in Cores : q # c => stack'[q] = stack[q]
    /\ Len(stack'[c]) = Len(new) + (Len(stack[c]) - m)
    /\ \A i \in 1 .. Len(new) : stack'[c][i] = new[i]
    /\ \A i \in Len(new) + 1 .. Len(stack'[c]) : Same(stack'[c][i], stack[c][i - Len(new) + m])

(* f is a frame of core q, and not one that c leaves. *)
Stays(c, m, q, f) == \E j \in 1 .. Len(stack[q]) : (q = c => j > m) /\ f = stack[q][j]

LEMMA FrameTypes ==
    ASSUME TypeInv, NEW c \in Cores
    PROVE  /\ Len(stack[c]) \in Nat
           /\ \A i \in 1 .. Len(stack[c]) : stack[c][i] \in Frames
           /\ stack[c] # << >> <=> Len(stack[c]) > 0
           /\ stack[c] # << >> => Top(c) = stack[c][1] /\ Top(c) \in Frames
<1>1. stack[c] \in Seq(Frames)
  BY DEF TypeInv
<1> QED BY <1>1 DEF Top

(* What is known of the frames that stay. *)
LEMMA Stayers ==
    ASSUME TypeInv, FramesInv, NEW c \in Cores, NEW m \in Nat, m <= Len(stack[c]),
           NEW q \in Cores, NEW f, Stays(c, m, q, f)
    PROVE  /\ f \in Frames /\ FrameOK(q, f)
           /\ \A i \in 1 .. m : ~ Clash(f, stack[c][i]) /\ ~ Clash(stack[c][i], f)
<1>1. PICK j \in 1 .. Len(stack[q]) : (q = c => j > m) /\ f = stack[q][j]
  BY DEF Stays
<1>2. f \in Frames /\ FrameOK(q, f)
  BY <1>1, FrameTypes DEF FramesInv
<1>3. ASSUME NEW i \in 1 .. m PROVE ~ Clash(f, stack[c][i]) /\ ~ Clash(stack[c][i], f)
  <2>1. i \in 1 .. Len(stack[c]) /\ ~ (q = c /\ i = j)
    BY <1>1, <1>3, FrameTypes
  <2> QED BY <1>1, <2>1 DEF FramesInv, Apart
<1> QED BY <1>2, <1>3

LEMMA SameClash ==
    ASSUME NEW f, NEW g, NEW h, Same(f, g)
    PROVE  (Clash(f, h) <=> Clash(g, h)) /\ (Clash(h, f) <=> Clash(h, g))
BY DEF Same, Clash

(* The stacks stay in order when the frames that stay and those that are    *)
(* new find what they rely on.                                              *)
LEMMA FrameMove ==
    ASSUME TypeInv, TypeInv', FramesInv, NEW c \in Cores, NEW m \in Nat, NEW new, Len(new) \in Nat,
           Moves(c, m, new), Shape(stack'[c]),
           \A q \in Cores : \A f : Stays(c, m, q, f) => FrameOK(q, f)',
           \A i \in 1 .. Len(new) : FrameOK(c, new[i])',
           \A q \in Cores : \A f : Stays(c, m, q, f) =>
               \A i \in 1 .. Len(new) : ~ Clash(new[i], f) /\ ~ Clash(f, new[i]),
           \A i, j \in 1 .. Len(new) : Clash(new[i], new[j]) => i = j
    PROVE  FramesInv'
<1> DEFINE n == Len(new)
           Old(i) == i - n + m
<1>l. \A q \in Cores : Len(stack[q]) \in Nat /\ Len(stack'[q]) \in Nat
  BY FrameTypes DEF TypeInv
<1>1. ASSUME NEW q \in Cores, NEW i \in 1 .. Len(stack'[q]), ~ (q = c /\ i <= n)
      PROVE  \E j \in 1 .. Len(stack[q]) :
                /\ j = (IF q = c THEN Old(i) ELSE i)
                /\ Same(stack[q][j], stack'[q][i])
                /\ Stays(c, m, q, stack[q][j])
  <2>1. CASE q = c
    <3>1. i \in n + 1 .. Len(stack'[c]) /\ Len(stack'[c]) = n + (Len(stack[c]) - m) /\ m <= Len(stack[c])
      BY <1>l, <1>1, <2>1 DEF Moves
    <3>2. Old(i) \in 1 .. Len(stack[c]) /\ Old(i) > m
      BY <1>l, <3>1
    <3>3. Same(stack'[c][i], stack[c][Old(i)])
      BY <3>1 DEF Moves
    <3> QED BY <2>1, <3>2, <3>3 DEF Stays, Same
  <2>2. CASE q # c
    <3>1. stack'[q] = stack[q]
      BY <2>2 DEF Moves
    <3> QED BY <1>1, <2>2, <3>1 DEF Stays, Same
  <2> QED BY <2>1, <2>2
<1>2. ASSUME NEW q \in Cores, NEW i \in 1 .. Len(stack'[q]), NEW g, g = stack'[q][i]
      PROVE  FrameOK(q, g)'
  <2>1. CASE q = c /\ i <= n
    <3>1. stack'[c][i] = new[i] /\ i \in 1 .. n
      BY <1>2, <2>1, <1>l DEF Moves
    <3>2. \A f : f = new[i] => FrameOK(c, f)'
      BY SMTT(20), <3>1 DEF FrameOK, Has, Awaits, Hosts
    <3> QED BY <1>2, <2>1, <3>1, <3>2
  <2>2. CASE ~ (q = c /\ i <= n)
    <3>1. PICK j \in 1 .. Len(stack[q]) : Same(stack[q][j], stack'[q][i]) /\ Stays(c, m, q, stack[q][j])
      BY <1>1, <1>2, <2>2
    <3>2. PICK f : f = stack[q][j]
      OBVIOUS
    <3>3. FrameOK(q, f)' /\ Same(f, g)
      BY <1>2, <3>1, <3>2
    <3> QED BY <3>3 DEF Same, FrameOK, Has
  <2> QED BY <2>1, <2>2
<1>3. \A q \in Cores : \A i \in 1 .. Len(stack'[q]) : FrameOK(q, stack[q][i])'
  <2> SUFFICES ASSUME NEW q \in Cores, NEW i \in 1 .. Len(stack'[q]) PROVE FrameOK(q, stack[q][i])'
    OBVIOUS
  <2>1. PICK g : g = stack'[q][i]
    OBVIOUS
  <2>2. FrameOK(q, g)'
    BY <1>2, <2>1
  <2> QED BY <2>1, <2>2 DEF FrameOK, Has, Awaits, Hosts
<1>4. ASSUME NEW q \in Cores, NEW i \in 1 .. Len(stack'[q]), ~ (q = c /\ i <= n),
             NEW d \in Cores, NEW k \in 1 .. Len(stack'[d]),
             Clash(stack'[q][i], stack'[d][k]) \/ Clash(stack'[d][k], stack'[q][i])
      PROVE  q = d /\ i = k
  <2>1. PICK j \in 1 .. Len(stack[q]) : /\ j = (IF q = c THEN Old(i) ELSE i)
                                        /\ Same(stack[q][j], stack'[q][i])
                                        /\ Stays(c, m, q, stack[q][j])
    BY <1>1, <1>4
  <2>2. Clash(stack[q][j], stack'[d][k]) \/ Clash(stack'[d][k], stack[q][j])
    BY <1>4, <2>1, SameClash
  <2>3. CASE d = c /\ k <= n
    <3>1. stack'[c][k] = new[k] /\ k \in 1 .. n
      BY <1>4, <2>3, <1>l DEF Moves
    <3> QED BY <2>1, <2>2, <2>3, <3>1
  <2>4. CASE ~ (d = c /\ k <= n)
    <3>1. PICK l \in 1 .. Len(stack[d]) : /\ l = (IF d = c THEN Old(k) ELSE k)
                                          /\ Same(stack[d][l], stack'[d][k])
                                          /\ Stays(c, m, d, stack[d][l])
      BY <1>1, <1>4, <2>4
    <3>2. Clash(stack[q][j], stack[d][l]) \/ Clash(stack[d][l], stack[q][j])
      BY <2>2, <3>1, SameClash
    <3>3. q = d /\ j = l
      BY <3>2 DEF FramesInv, Apart
    <3>4. i = k
      <4>1. i \in Nat /\ k \in Nat /\ n \in Nat
        BY <1>l, <1>4
      <4> QED BY <2>1, <3>1, <3>3, <4>1
    <3> QED BY <3>3, <3>4
  <2> QED BY <2>3, <2>4
<1>5. ASSUME NEW q \in Cores, NEW i \in 1 .. Len(stack'[q]), NEW d \in Cores, NEW k \in 1 .. Len(stack'[d]),
             Clash(stack'[q][i], stack'[d][k])
      PROVE  q = d /\ i = k
  <2>1. CASE ~ (q = c /\ i <= n) \/ ~ (d = c /\ k <= n)
    BY <1>4, <1>5, <2>1
  <2>2. CASE (q = c /\ i <= n) /\ (d = c /\ k <= n)
    <3>1. i \in 1 .. n /\ k \in 1 .. n /\ stack'[c][i] = new[i] /\ stack'[c][k] = new[k]
      BY <1>l, <1>5, <2>2 DEF Moves
    <3> QED BY <1>5, <2>2, <3>1
  <2> QED BY <2>1, <2>2
<1>6. \A q \in Cores : Shape(stack'[q])
  <2>1. \A q \in Cores : q # c => Shape(stack'[q])
    BY DEF FramesInv, Moves
  <2> QED BY <2>1
<1> QED BY <1>3, <1>5, <1>6 DEF FramesInv, Apart

(* A frame of another worker is not affected by what happens to w and e. *)
LEMMA UntouchedFrame ==
    ASSUME TypeInv, NEW w \in Workers, NEW e \in Eos \cup {NoEo}, Touches(w, e),
           NEW q \in Cores, NEW f \in Frames, FrameOK(q, f),
           f.w # w \/ f.at \in {"DeleteEo", "Crashed"},
           f.at = "DeleteEo" => f.eo # e /\ table'[w].Eo # f.eo
    PROVE  FrameOK(q, f)'
<1>1. f.w \in Workers /\ NoEo \notin Eos
  BY WorkersAssumption DEF Frames
<1>2. CASE f.at = "DeleteEo"
  <2>1. f.eo \in Eos /\ eo[f.eo].State \in {"Created", "Stop"} /\ \A x \in Workers : table[x].Eo # f.eo
    BY <1>2 DEF FrameOK
  <2>2. KeepsEo(f.eo)
    BY <1>2, <2>1 DEF Touches
  <2>3. \A x \in Workers : table'[x].Eo # f.eo
    BY <1>2, <2>1 DEF Touches, KeepsEntry
  <2> QED BY <1>2, <2>1, <2>2, <2>3 DEF FrameOK, KeepsEo
<1>3. CASE f.at = "Crashed"
  BY <1>3 DEF FrameOK
<1>4. CASE f.w # w
  <2>1. KeepsEntry(f.w) /\ (e # NoEo => table[f.w].Eo # e)
    BY <1>1, <1>4 DEF Touches
  <2>2. f.eo \in Eos /\ table[f.w].Eo = f.eo => KeepsEo(f.eo)
    BY <1>1, <2>1 DEF Touches
  <2> QED BY <1>2, <2>1, <2>2, FrameOK(q, f) DEF FrameOK, KeepsEntry, KeepsEo, Has, Awaits, Hosts
<1> QED BY <1>2, <1>3, <1>4

(* Entries and EOs still go together after a step that touches w and e. *)
LEMMA TableMove ==
    ASSUME TypeInv, TypeInv', TableInv, NEW w \in Workers, NEW e \in Eos \cup {NoEo}, Touches(w, e),
           EntryOK(w)', e # NoEo => EoOK(e)',
           \A d \in Eos : d # e /\ Doomed(d) => Doomed(d)',
           \A x \in notifs' : x # w => x \in notifs,
           w \in notifs' => NotifOK(w)'
    PROVE  TableInv'
<1>0. NoEo \notin Eos
  BY WorkersAssumption
<1>1. ASSUME NEW x \in Workers, x # w PROVE EntryOK(x)'
  <2>1. EntryOK(x) /\ KeepsEntry(x) /\ (e # NoEo => table[x].Eo # e)
    BY <1>1 DEF TableInv, Touches
  <2>2. table[x].Eo \in Eos \cup {NoEo}
    BY DEF TypeInv, Contexts
  <2>3. table[x].Eo # NoEo => KeepsEo(table[x].Eo)
    BY <2>1, <2>2 DEF Touches
  <2> QED BY <2>1, <2>3 DEF EntryOK, KeepsEntry, KeepsEo
<1>2. ASSUME NEW d \in Eos, d # e PROVE EoOK(d)'
  <2>1. EoOK(d) /\ KeepsEo(d) /\ (Doomed(d) => Doomed(d)')
    BY <1>2 DEF TableInv, Touches
  <2>2. ASSUME eo[d].State # "Undef", table[eo[d].Context].Eo = d PROVE table'[eo[d].Context].Eo = d
    <3>1. eo[d].Context \in Workers
      BY <2>1, <2>2 DEF EoOK
    <3>2. CASE eo[d].Context = w
      BY <1>2, <2>2, <3>2 DEF Touches
    <3>3. CASE eo[d].Context # w
      BY <2>2, <3>1, <3>3 DEF Touches, KeepsEntry
    <3> QED BY <3>2, <3>3
  <2> QED BY <2>1, <2>2 DEF EoOK, KeepsEo
<1>3. ASSUME NEW x \in notifs', x # w PROVE NotifOK(x)'
  <2>1. NotifOK(x) /\ x \in Workers /\ KeepsEntry(x) /\ (e # NoEo => table[x].Eo # e)
    BY <1>3 DEF TableInv, Touches, TypeInv
  <2>2. table[x].Eo \in Eos \cup {NoEo}
    BY <2>1 DEF TypeInv, Contexts
  <2>3. KeepsEo(table[x].Eo)
    BY <2>1, <2>2 DEF Touches, NotifOK
  <2> QED BY <2>1, <2>3 DEF NotifOK, KeepsEntry, KeepsEo
<1>4. \A x \in Workers : EntryOK(x)'
  BY <1>1
<1>5. \A d \in Eos : EoOK(d)'
  BY <1>0, <1>2
<1>6. \A x \in notifs' : NotifOK(x)'
  BY <1>3
<1> QED BY <1>4, <1>5, <1>6 DEF TableInv

(***************************************************************************)
(* The ring of dynamic IDs                                                 *)
(***************************************************************************)
AllocatedBy(x) ==
    \E c \in Cores : \E i \in 1 .. Len(stack[c]) : stack[c][i].at = "Allocated" /\ stack[c][i].w = x
InUse(x) == table[x].State # "Inactive" \/ AllocatedBy(x)

LEMMA InUseIs == DynamicInUse = {x \in Ids : InUse(x)}
BY DEF DynamicInUse, InUse, AllocatedBy

LEMMA IdsAre ==
    /\ Ids \subseteq Workers
    /\ \A w \in Workers : w \in Ids <=> w >= IdBase
    /\ \A w \in Workers : w \in Int
BY IdAssumption DEF Ids, Workers

LEMMA AllocMove ==
    ASSUME TypeInv, TypeInv', NEW c \in Cores, NEW m \in Nat, NEW new, Len(new) \in Nat,
           Moves(c, m, new), NEW x
    PROVE  /\ AllocatedBy(x) <=>
                  \/ \E q \in Cores : \E f : Stays(c, m, q, f) /\ f.at = "Allocated" /\ f.w = x
                  \/ \E i \in 1 .. m : stack[c][i].at = "Allocated" /\ stack[c][i].w = x
           /\ AllocatedBy(x)' <=>
                  \/ \E q \in Cores : \E f : Stays(c, m, q, f) /\ f.at = "Allocated" /\ f.w = x
                  \/ \E i \in 1 .. Len(new) : new[i].at = "Allocated" /\ new[i].w = x
<1> DEFINE n == Len(new)
           Staying == \E q \in Cores : \E f : Stays(c, m, q, f) /\ f.at = "Allocated" /\ f.w = x
<1>l. \A q \in Cores : Len(stack[q]) \in Nat /\ Len(stack'[q]) \in Nat
  BY FrameTypes DEF TypeInv
<1>m. /\ m <= Len(stack[c])
      /\ \A q \in Cores : q # c => stack'[q] = stack[q]
      /\ Len(stack'[c]) = n + (Len(stack[c]) - m)
      /\ \A i \in 1 .. n : stack'[c][i] = new[i]
      /\ \A i \in n + 1 .. Len(stack'[c]) : Same(stack'[c][i], stack[c][i - n + m])
  BY DEF Moves
<1>1. AllocatedBy(x) => Staying \/ \E i \in 1 .. m : stack[c][i].at = "Allocated" /\ stack[c][i].w = x
  <2> SUFFICES ASSUME NEW q \in Cores, NEW i \in 1 .. Len(stack[q]),
                      stack[q][i].at = "Allocated", stack[q][i].w = x
               PROVE  Staying \/ \E k \in 1 .. m : stack[c][k].at = "Allocated" /\ stack[c][k].w = x
    BY DEF AllocatedBy
  <2>1. CASE q = c /\ i <= m
    <3>1. i \in 1 .. m
      BY <1>l, <2>1
    <3> QED BY <2>1, <3>1
  <2>2. CASE ~ (q = c /\ i <= m)
    <3>1. Stays(c, m, q, stack[q][i])
      BY <1>l, <2>2 DEF Stays
    <3> QED BY <3>1
  <2> QED BY <2>1, <2>2
<1>2. Staying => AllocatedBy(x)
  BY DEF Stays, AllocatedBy
<1>3. (\E i \in 1 .. m : stack[c][i].at = "Allocated" /\ stack[c][i].w = x) => AllocatedBy(x)
  <2>1. \A i \in 1 .. m : i \in 1 .. Len(stack[c])
    BY <1>l, <1>m
  <2> QED BY <2>1 DEF AllocatedBy
<1>4. AllocatedBy(x)' => Staying \/ \E i \in 1 .. n : new[i].at = "Allocated" /\ new[i].w = x
  <2> SUFFICES ASSUME NEW q \in Cores, NEW i \in 1 .. Len(stack'[q]),
                      stack'[q][i].at = "Allocated", stack'[q][i].w = x
               PROVE  Staying \/ \E k \in 1 .. n : new[k].at = "Allocated" /\ new[k].w = x
    BY DEF AllocatedBy
  <2>1. CASE q = c /\ i <= n
    <3>1. i \in 1 .. n
      BY <1>l, <2>1
    <3> QED BY <1>m, <2>1, <3>1
  <2>2. CASE q = c /\ i > n
    <3> DEFINE j == i - n + m
    <3>1. i \in n + 1 .. Len(stack'[c]) /\ j \in 1 .. Len(stack[c]) /\ j > m
      BY <1>l, <1>m, <2>2
    <3>2. Same(stack'[c][i], stack[c][j])
      BY <1>m, <3>1
    <3>3. Stays(c, m, c, stack[c][j])
      BY <3>1 DEF Stays
    <3> HIDE DEF j
    <3> QED BY <2>2, <3>2, <3>3 DEF Same
  <2>3. CASE q # c
    <3>1. Stays(c, m, q, stack[q][i])
      BY <1>m, <2>3 DEF Stays
    <3> QED BY <1>m, <2>3, <3>1
  <2> QED BY <1>l, <2>1, <2>2, <2>3
<1>5. Staying => AllocatedBy(x)'
  <2> SUFFICES ASSUME NEW q \in Cores, NEW f, Stays(c, m, q, f), f.at = "Allocated", f.w = x
               PROVE  AllocatedBy(x)'
    OBVIOUS
  <2>1. PICK j \in 1 .. Len(stack[q]) : (q = c => j > m) /\ f = stack[q][j]
    BY DEF Stays
  <2>2. CASE q = c
    <3> DEFINE i == j - m + n
    <3>1. i \in n + 1 .. Len(stack'[c]) /\ i - n + m = j /\ i \in 1 .. Len(stack'[c])
      BY <1>l, <1>m, <2>1, <2>2
    <3>2. Same(stack'[c][i], stack[c][j])
      BY <1>m, <3>1
    <3> HIDE DEF i
    <3> QED BY <2>1, <2>2, <3>1, <3>2 DEF Same, AllocatedBy
  <2>3. CASE q # c
    BY <1>m, <2>1, <2>3 DEF AllocatedBy
  <2> QED BY <2>2, <2>3
<1>6. (\E i \in 1 .. n : new[i].at = "Allocated" /\ new[i].w = x) => AllocatedBy(x)'
  <2>1. \A i \in 1 .. n : i \in 1 .. Len(stack'[c])
    BY <1>l, <1>m
  <2> QED BY <1>m, <2>1 DEF AllocatedBy
<1> QED BY <1>1, <1>2, <1>3, <1>4, <1>5, <1>6

LEMMA RingKept ==
    ASSUME TypeInv, RingInv(fifo, DynamicInUse), fifo' = fifo,
           \A x \in Ids : InUse(x)' <=> InUse(x)
    PROVE  RingInv(fifo, DynamicInUse)'
<1>1. DynamicInUse' = {x \in Ids : InUse(x)'}
  BY DEF DynamicInUse, InUse, AllocatedBy
<1>2. DynamicInUse' = DynamicInUse
  BY <1>1, InUseIs
<1>3. PICK H : H = DynamicInUse
  OBVIOUS
<1>4. PICK r : r = fifo
  OBVIOUS
<1>5. RingInv(r, H)
  BY <1>3, <1>4
<1> QED BY <1>2, <1>3, <1>4, <1>5

LEMMA RingReleased ==
    ASSUME TypeInv, RingInv(fifo, DynamicInUse), NEW w \in Workers,
           fifo' = IF w >= IdBase THEN ReleaseId(fifo, w) ELSE fifo,
           InUse(w), ~ InUse(w)', \A x \in Ids : x # w => (InUse(x)' <=> InUse(x))
    PROVE  RingInv(fifo, DynamicInUse)' /\ (w >= IdBase => ReleaseAssert(fifo))
<1>1. DynamicInUse' = {x \in Ids : InUse(x)'}
  BY DEF DynamicInUse, InUse, AllocatedBy
<1>2. CASE w >= IdBase
  <2>1. w \in Ids
    BY <1>2, IdsAre
  <2>2. w \in DynamicInUse /\ DynamicInUse' = DynamicInUse \ {w}
    BY <1>1, <2>1, InUseIs
  <2>3. PICK H : H = DynamicInUse
    OBVIOUS
  <2>4. PICK r : r = fifo
    OBVIOUS
  <2>5. ReleaseAssert(r) /\ RingInv(ReleaseId(r, w), H \ {w})
    BY <2>2, <2>3, <2>4, ReleaseRing
  <2>6. fifo' = ReleaseId(r, w) /\ DynamicInUse' = H \ {w}
    BY <1>2, <2>2, <2>3, <2>4
  <2>7. ReleaseAssert(fifo)
    BY <2>4, <2>5
  <2> QED BY <2>5, <2>6, <2>7
<1>3. CASE ~ (w >= IdBase)
  <2>1. w \notin Ids
    BY <1>3, IdsAre
  <2> QED BY <1>3, <2>1, RingKept
<1> QED BY <1>2, <1>3

LEMMA RingAllocated ==
    ASSUME TypeInv, RingInv(fifo, DynamicInUse), fifo.FreeIds > 0, fifo' = AllocateId(fifo),
           \A x \in Ids : InUse(x)' <=> (InUse(x) \/ x = AllocatedId(fifo))
    PROVE  /\ RingInv(fifo, DynamicInUse)' /\ AllocateAssert(fifo)
           /\ AllocatedId(fifo) \in Ids /\ ~ InUse(AllocatedId(fifo))
<1>1. DynamicInUse' = {x \in Ids : InUse(x)'}
  BY DEF DynamicInUse, InUse, AllocatedBy
<1>2. PICK H : H = DynamicInUse
  OBVIOUS
<1>3. PICK r : r = fifo
  OBVIOUS
<1>4. /\ AllocateAssert(r) /\ AllocatedId(r) \in Ids \ H
      /\ RingInv(AllocateId(r), H \cup {AllocatedId(r)})
  BY <1>2, <1>3, AllocateRing
<1>5. ~ InUse(AllocatedId(fifo))
  BY <1>2, <1>3, <1>4, InUseIs
<1>6. DynamicInUse' = H \cup {AllocatedId(r)}
  BY <1>1, <1>2, <1>3, <1>4, InUseIs
<1>7. RingInv(fifo, DynamicInUse)'
  BY <1>3, <1>4, <1>6
<1> QED BY <1>3, <1>4, <1>5, <1>7

-----------------------------------------------------------------------------
(***************************************************************************)
(* What the operators on stacks do                                         *)
(***************************************************************************)
Frame(at, w, e, pad) == [at |-> at, w |-> w, eo |-> e, pad |-> pad]
Places == Callbacks \cup DeploySteps \cup {"DeleteEo", "Crashed"}

LEMMA FrameIs ==
    ASSUME NEW at \in Places, NEW w \in Workers, NEW e \in Eos \cup {NoEo}, NEW pad \in BOOLEAN
    PROVE  Frame(at, w, e, pad) \in Frames
BY DEF Frame, Places, Frames

LEMMA CallMoves ==
    ASSUME TypeInv, NEW c \in Cores, NEW at \in Places, NEW w \in Workers,
           NEW e \in Eos \cup {NoEo}, NEW pad \in BOOLEAN, stack' = Call(c, at, w, e, pad)
    PROVE  /\ stack' \in [Cores -> Seq(Frames)]
           /\ Moves(c, 0, <<Frame(at, w, e, pad)>>)
           /\ stack'[c] # << >> /\ stack'[c][1].at = at /\ stack'[c][1].w = w /\ stack'[c][1].eo = e
<1> DEFINE f == Frame(at, w, e, pad)
           s == stack[c]
<1>1. f \in Frames /\ s \in Seq(Frames) /\ stack \in [Cores -> Seq(Frames)]
  BY FrameIs DEF TypeInv
<1>2. stack' = [stack EXCEPT ![c] = <<f>> \o s]
  BY DEF Call, Frame
<1>3. f.at = at /\ f.w = w /\ f.eo = e
  BY DEF Frame
<1> HIDE DEF f, s
<1>4. <<f>> \o s \in Seq(Frames) /\ stack'[c] = <<f>> \o s
  BY <1>1, <1>2
<1>5. /\ Len(<<f>> \o s) = 1 + Len(s) /\ Len(<<f>>) = 1 /\ (<<f>> \o s)[1] = f /\ <<f>>[1] = f
      /\ \A i \in 2 .. 1 + Len(s) : (<<f>> \o s)[i] = s[i - 1]
  BY <1>1
<1>6. Moves(c, 0, <<f>>)
  BY <1>1, <1>2, <1>4, <1>5 DEF Moves, Same, s
<1>7. stack' \in [Cores -> Seq(Frames)]
  BY <1>1, <1>2, <1>4
<1> QED BY <1>3, <1>4, <1>5, <1>6, <1>7 DEF f

LEMMA GoToMoves ==
    ASSUME TypeInv, NEW c \in Cores, NEW at \in Places, NEW e \in Eos \cup {NoEo}, NEW w, w = Top(c).w,
           stack[c] # << >>, stack' = GoTo(c, at, e)
    PROVE  /\ stack' \in [Cores -> Seq(Frames)]
           /\ Moves(c, 1, <<Frame(at, w, e, FALSE)>>)
           /\ stack'[c] # << >> /\ stack'[c][1].at = at /\ stack'[c][1].eo = e
<1> DEFINE s == stack[c]
           f == Frame(at, w, e, FALSE)
<1>2. s \in Seq(Frames) /\ stack \in [Cores -> Seq(Frames)] /\ Top(c) \in Frames /\ s # << >>
  BY FrameTypes DEF TypeInv
<1>3. f \in Frames /\ f.at = at /\ f.eo = e
  BY <1>2, FrameIs DEF Frames, Frame
<1>4. stack' = [stack EXCEPT ![c] = <<f>> \o Tail(s)]
  BY DEF GoTo, Frame
<1> HIDE DEF f, s
<1>5. <<f>> \o Tail(s) \in Seq(Frames) /\ stack'[c] = <<f>> \o Tail(s)
  BY <1>2, <1>3, <1>4
<1>6. /\ Len(<<f>> \o Tail(s)) = Len(s) /\ Len(<<f>>) = 1 /\ (<<f>> \o Tail(s))[1] = f /\ <<f>>[1] = f
      /\ Len(s) \in Nat /\ Len(s) >= 1
      /\ \A i \in 2 .. Len(s) : (<<f>> \o Tail(s))[i] = s[i]
  BY <1>2, <1>3
<1>7. Moves(c, 1, <<f>>)
  BY <1>2, <1>4, <1>5, <1>6 DEF Moves, Same, s
<1>8. stack' \in [Cores -> Seq(Frames)]
  BY <1>2, <1>4, <1>5
<1>9. stack'[c] # << >> /\ stack'[c][1].at = at /\ stack'[c][1].eo = e
  BY <1>2, <1>3, <1>5, <1>6
<1> QED BY <1>7, <1>8, <1>9 DEF f

LEMMA ReturnMoves ==
    ASSUME TypeInv, NEW c \in Cores, stack[c] # << >>, stack' = Return(c)
    PROVE  stack' \in [Cores -> Seq(Frames)] /\ Moves(c, 1, << >>)
<1> DEFINE s == stack[c]
<1>1. s \in Seq(Frames) /\ stack \in [Cores -> Seq(Frames)] /\ s # << >>
  BY DEF TypeInv
<1>2. stack' = [stack EXCEPT ![c] = Tail(s)]
  BY DEF Return
<1> HIDE DEF s
<1>3. /\ Tail(s) \in Seq(Frames) /\ stack'[c] = Tail(s) /\ Len(Tail(s)) = Len(s) - 1
      /\ Len(s) \in Nat /\ Len(s) >= 1 /\ Len(<< >>) = 0
      /\ \A i \in 1 .. Len(s) - 1 : Tail(s)[i] = s[i + 1]
  BY <1>1, <1>2
<1>4. Moves(c, 1, << >>)
  BY <1>1, <1>2, <1>3 DEF Moves, Same, s
<1> QED BY <1>1, <1>2, <1>3, <1>4

(* The start function and em_eo_start are left together. *)
LEMMA LeaveStartMoves ==
    ASSUME TypeInv, NEW c \in Cores, NEW at \in Places, Len(stack[c]) >= 2,
           NEW w, w = Top(c).w, NEW e, e = Top(c).eo,
           stack' = LeaveStart(c, at)
    PROVE  /\ stack' \in [Cores -> Seq(Frames)]
           /\ Moves(c, 2, <<Frame(at, w, e, FALSE)>>)
           /\ stack'[c] # << >> /\ stack'[c][1].at = at
<1> DEFINE s == stack[c]
           f == Frame(at, w, e, FALSE)
           t == Tail(Tail(s))
<1>1. PICK g : g = Top(c)
  OBVIOUS
<1>2. /\ s \in Seq(Frames) /\ stack \in [Cores -> Seq(Frames)] /\ Len(s) \in Nat
      /\ s # << >> /\ g \in Frames /\ Len(s) >= 2
  <2>1. s # << >>
    <3>1. \A r : r = << >> => ~ (Len(r) >= 2)
      OBVIOUS
    <3> QED BY <3>1
  <2> QED BY <1>1, <2>1, FrameTypes DEF TypeInv
<1>3. f \in Frames /\ f.at = at
  <2>1. w \in Workers /\ e \in Eos \cup {NoEo}
    BY <1>1, <1>2 DEF Frames
  <2> QED BY <2>1, FrameIs DEF Frame
<1>5. stack' = [stack EXCEPT ![c] = <<f>> \o t]
  BY DEF LeaveStart, Frame
<1> HIDE DEF f, s
<1>6. /\ t \in Seq(Frames) /\ Len(t) = Len(s) - 2
      /\ \A i \in 1 .. Len(s) - 2 : t[i] = s[i + 2]
  <2> DEFINE u == Tail(s)
  <2>1. u \in Seq(Frames) /\ Len(u) = Len(s) - 1 /\ \A i \in 1 .. Len(s) - 1 : u[i] = s[i + 1]
    BY <1>2
  <2> HIDE DEF u
  <2>2. u # << >>
    BY <1>2, <2>1
  <2>3. Tail(u) \in Seq(Frames) /\ Len(Tail(u)) = Len(u) - 1 /\ \A i \in 1 .. Len(u) - 1 : Tail(u)[i] = u[i + 1]
    BY <2>1, <2>2
  <2>4. Len(Tail(u)) = Len(s) - 2
    BY <1>2, <2>1, <2>3
  <2>5. ASSUME NEW i \in 1 .. Len(s) - 2 PROVE Tail(u)[i] = s[i + 2]
    <3>1. i \in 1 .. Len(u) - 1 /\ i + 1 \in 1 .. Len(s) - 1 /\ (i + 1) + 1 = i + 2
      BY <1>2, <2>1
    <3> QED BY <2>1, <2>3, <3>1
  <2>6. t = Tail(u)
    BY DEF u
  <2> HIDE DEF t
  <2>7. \A i \in 1 .. Len(s) - 2 : t[i] = s[i + 2]
    BY <2>5, <2>6
  <2> QED BY <2>3, <2>4, <2>6, <2>7
<1> HIDE DEF t
<1>7. <<f>> \o t \in Seq(Frames) /\ stack'[c] = <<f>> \o t
  <2>1. <<f>> \o t \in Seq(Frames)
    BY <1>3, <1>6
  <2> QED BY <1>2, <1>5, <2>1
<1>8. /\ Len(<<f>> \o t) = Len(s) - 1 /\ Len(<<f>>) = 1 /\ (<<f>> \o t)[1] = f /\ <<f>>[1] = f
      /\ \A i \in 2 .. Len(s) - 1 : (<<f>> \o t)[i] = s[i + 1]
  BY <1>2, <1>3, <1>6
<1>9. Moves(c, 2, <<f>>)
  BY <1>2, <1>5, <1>7, <1>8 DEF Moves, Same, s
<1>10. stack' \in [Cores -> Seq(Frames)]
  BY <1>2, <1>5, <1>7
<1>11. stack'[c] # << >> /\ stack'[c][1].at = at
  BY <1>2, <1>3, <1>7, <1>8
<1> QED BY <1>9, <1>10, <1>11 DEF f

(* The new frames on the stack of core c are where such frames may be. *)
Fits(c, new) ==
    /\ Len(new) \in Nat
    /\ Len(stack'[c]) <= MaxDepth
    /\ \A i \in 1 .. Len(new) :
          /\ new[i].at = "DeleteEo" => i = 1
          /\ new[i].at \in {"Allocated", "Reserved"} => i = 1 /\ Len(stack'[c]) < MaxDepth
          /\ new[i].at \in {"LocalStart", "Receive", "LocalStop", "Stop"} => i = Len(stack'[c])
          /\ new[i].at = "Start" => /\ i < Len(new)
                                    /\ new[i + 1].at = "Starting"
                                    /\ new[i + 1].w = new[i].w
                                    /\ new[i + 1].eo = new[i].eo

LEMMA ShapeMove ==
    ASSUME TypeInv, TypeInv', FramesInv, NEW c \in Cores, NEW m \in Nat, NEW new,
           Moves(c, m, new), Fits(c, new),
           m = 0 => stack[c] = << >> \/ stack[c][1].at \in Callbacks \/ Len(new) = 0
    PROVE  Shape(stack'[c])
<1> DEFINE n == Len(new)
           s == stack[c]
           t == stack'[c]
<1>1. /\ n \in Nat /\ Len(s) \in Nat /\ Len(t) \in Nat /\ MaxDepth \in Nat
      /\ Shape(s)
  BY FrameTypes, WorkersAssumption DEF TypeInv, FramesInv, Fits
<1>2. /\ m <= Len(s) /\ Len(t) = n + (Len(s) - m)
      /\ \A i \in 1 .. n : t[i] = new[i]
      /\ \A i \in n + 1 .. Len(t) : Same(t[i], s[i - n + m])
  BY DEF Moves
<1>3. m = 0 => Len(s) = 0 \/ s[1].at \in Callbacks \/ n = 0
  <2>1. \A r : r = << >> => Len(r) = 0
    OBVIOUS
  <2> QED BY <2>1
<1>f. /\ Len(t) <= MaxDepth
      /\ \A i \in 1 .. n :
          /\ new[i].at = "DeleteEo" => i = 1
          /\ new[i].at \in {"Allocated", "Reserved"} => i = 1 /\ Len(t) < MaxDepth
          /\ new[i].at \in {"LocalStart", "Receive", "LocalStop", "Stop"} => i = Len(t)
          /\ new[i].at = "Start" => i < n /\ new[i + 1].at = "Starting"
                                    /\ new[i + 1].w = new[i].w /\ new[i + 1].eo = new[i].eo
  BY DEF Fits
<1> HIDE DEF n, s, t
<1>4. ASSUME NEW i \in 1 .. Len(t), i <= n
      PROVE  /\ t[i].at = "DeleteEo" => i = 1
             /\ t[i].at \in {"Allocated", "Reserved"} => i = 1 /\ Len(t) < MaxDepth
             /\ t[i].at \in {"LocalStart", "Receive", "LocalStop", "Stop"} => i = Len(t)
             /\ t[i].at = "Start" => i < Len(t) /\ t[i + 1].at = "Starting"
                                     /\ t[i + 1].w = t[i].w /\ t[i + 1].eo = t[i].eo
  <2>1. i \in 1 .. n /\ t[i] = new[i] /\ n <= Len(t)
    BY <1>1, <1>2, <1>4
  <2>2. i < n => t[i + 1] = new[i + 1]
    BY <1>1, <1>2, <2>1
  <2>3. i < n => i < Len(t)
    BY <1>1, <2>1
  <2> QED BY <1>f, <2>1, <2>2, <2>3
<1>5. ASSUME NEW i \in 1 .. Len(t), i > n
      PROVE  /\ t[i].at = "DeleteEo" => i = 1
             /\ t[i].at \in {"Allocated", "Reserved"} => i = 1 /\ Len(t) < MaxDepth
             /\ t[i].at \in {"LocalStart", "Receive", "LocalStop", "Stop"} => i = Len(t)
             /\ t[i].at = "Start" => i < Len(t) /\ t[i + 1].at = "Starting"
                                     /\ t[i + 1].w = t[i].w /\ t[i + 1].eo = t[i].eo
  <2> DEFINE j == i - n + m
  <2>1. /\ i \in n + 1 .. Len(t) /\ j \in 1 .. Len(s) /\ j > m
        /\ j = Len(s) => i = Len(t)
        /\ j < Len(s) => i + 1 \in n + 1 .. Len(t) /\ (i + 1) - n + m = j + 1 /\ i < Len(t)
        /\ j = 1 => m = 0 /\ i = n + 1
    BY SMTT(20), <1>1, <1>2, <1>5
  <2>2. t[i].at = s[j].at /\ t[i].w = s[j].w /\ t[i].eo = s[j].eo
    BY <1>2, <2>1 DEF Same
  <2>3. j < Len(s) => t[i + 1].at = s[j + 1].at /\ t[i + 1].w = s[j + 1].w /\ t[i + 1].eo = s[j + 1].eo
    BY <1>2, <2>1 DEF Same
  <2> HIDE DEF j
  <2>4. /\ s[j].at = "DeleteEo" => j = 1
        /\ s[j].at \in {"Allocated", "Reserved"} => j = 1 /\ Len(s) < MaxDepth
        /\ s[j].at \in {"LocalStart", "Receive", "LocalStop", "Stop"} => j = Len(s)
        /\ s[j].at = "Start" => j < Len(s) /\ s[j + 1].at = "Starting"
                                /\ s[j + 1].w = s[j].w /\ s[j + 1].eo = s[j].eo
    BY <1>1, <2>1 DEF Shape
  <2>5. s[j].at \in {"DeleteEo", "Allocated", "Reserved"} => n = 0 /\ m = 0
    <3>1. ASSUME s[j].at \in {"DeleteEo", "Allocated", "Reserved"} PROVE n = 0 /\ m = 0
      <4>1. m = 0 /\ s[1].at \notin Callbacks /\ Len(s) # 0
        BY <1>1, <2>1, <2>4, <3>1 DEF Callbacks
      <4> QED BY <1>3, <4>1
    <3> QED BY <3>1
  <2>6. s[j].at \in {"DeleteEo", "Allocated", "Reserved"} => i = 1 /\ Len(t) = Len(s)
    BY <1>1, <1>2, <2>1, <2>4, <2>5
  <2> QED BY <2>1, <2>2, <2>3, <2>4, <2>6
<1>6. ASSUME NEW i \in 1 .. Len(t)
      PROVE  /\ t[i].at = "DeleteEo" => i = 1
             /\ t[i].at \in {"Allocated", "Reserved"} => i = 1 /\ Len(t) < MaxDepth
             /\ t[i].at \in {"LocalStart", "Receive", "LocalStop", "Stop"} => i = Len(t)
             /\ t[i].at = "Start" => i < Len(t) /\ t[i + 1].at = "Starting"
                                     /\ t[i + 1].w = t[i].w /\ t[i + 1].eo = t[i].eo
  <2>1. i <= n \/ i > n
    BY <1>1
  <2> QED BY <1>4, <1>5, <2>1
<1>7. Shape(t)
  BY <1>f, <1>6 DEF Shape
<1> QED BY <1>7 DEF t

(***************************************************************************)
(* What a step has to show                                                 *)
(***************************************************************************)
(* Core c moves on its stack, at most the entry of w and the EO e change:   *)
(* what is left is about w, e, the frames that work on them and those that  *)
(* are new.                                                                 *)
Works(w, f) == f.w = w /\ f.at \notin {"DeleteEo", "Crashed"}

LEMMA StepMove ==
    ASSUME TypeInv, TypeInv', TableInv, FramesInv,
           NEW w \in Workers, NEW e \in Eos \cup {NoEo}, Touches(w, e),
           EntryOK(w)', e # NoEo => EoOK(e)',
           \A x \in notifs' : x # w => x \in notifs,
           w \in notifs' => NotifOK(w)',
           NEW c \in Cores, NEW m \in Nat, NEW new, Moves(c, m, new), Fits(c, new),
           m = 0 => stack[c] = << >> \/ stack[c][1].at \in Callbacks \/ Len(new) = 0,
           At(c, "DeleteEo") => Top(c).eo = e,
           \A q \in Cores : \A f : Stays(c, m, q, f) =>
               /\ Works(w, f) => FrameOK(q, f)'
               /\ f.at = "DeleteEo" => f.eo # e /\ table'[w].Eo # f.eo
               /\ \A i \in 1 .. Len(new) : ~ Clash(new[i], f) /\ ~ Clash(f, new[i]),
           \A i \in 1 .. Len(new) : FrameOK(c, new[i])',
           \A i, j \in 1 .. Len(new) : Clash(new[i], new[j]) => i = j
    PROVE  TableInv' /\ FramesInv'
<1>1. ASSUME NEW q \in Cores, NEW f, Stays(c, m, q, f) PROVE FrameOK(q, f)'
  <2>1. m <= Len(stack[c])
    BY DEF Moves
  <2>2. f \in Frames /\ FrameOK(q, f)
    BY <1>1, <2>1, Stayers
  <2>3. CASE Works(w, f)
    BY <1>1, <2>3
  <2>4. CASE ~ Works(w, f)
    <3>1. f.w # w \/ f.at \in {"DeleteEo", "Crashed"}
      BY <2>4 DEF Works
    <3>2. f.at = "DeleteEo" => f.eo # e /\ table'[w].Eo # f.eo
      BY <1>1
    <3> QED BY <2>2, <3>1, <3>2, UntouchedFrame
  <2> QED BY <2>3, <2>4
<1>2. Shape(stack'[c])
  BY ShapeMove
<1>3. Len(new) \in Nat
  BY DEF Fits
<1>4. FramesInv'
  <2>1. \A q \in Cores : \A f : Stays(c, m, q, f) => FrameOK(q, f)'
    BY <1>1
  <2>2. \A q \in Cores : \A f : Stays(c, m, q, f) =>
            \A i \in 1 .. Len(new) : ~ Clash(new[i], f) /\ ~ Clash(f, new[i])
    OBVIOUS
  <2> QED BY <1>2, <1>3, <2>1, <2>2, FrameMove
<1>5. ASSUME NEW d \in Eos, d # e, Doomed(d) PROVE Doomed(d)'
  <2>1. PICK q \in Cores : At(q, "DeleteEo") /\ Top(q).eo = d
    BY <1>5 DEF Doomed
  <2>2. q # c
    BY <1>5, <2>1
  <2>3. stack'[q] = stack[q]
    BY <2>2 DEF Moves
  <2> QED BY <2>1, <2>3 DEF Doomed, At, Top
<1>6. TableInv'
  BY <1>5, TableMove
<1> QED BY <1>4, <1>6

(* The same for a step on no core. *)
LEMMA StepStill ==
    ASSUME TypeInv, TypeInv', TableInv, FramesInv,
           NEW w \in Workers, NEW e \in Eos \cup {NoEo}, Touches(w, e),
           EntryOK(w)', e # NoEo => EoOK(e)',
           \A x \in notifs' : x # w => x \in notifs,
           w \in notifs' => NotifOK(w)',
           stack' = stack,
           \A q \in Cores : \A f : Stays(q, 0, q, f) =>
               /\ Works(w, f) => FrameOK(q, f)'
               /\ f.at = "DeleteEo" => f.eo # e /\ table'[w].Eo # f.eo
    PROVE  TableInv' /\ FramesInv'
<1>1. ASSUME NEW q \in Cores, NEW i \in 1 .. Len(stack[q]), NEW f, f = stack[q][i]
      PROVE  FrameOK(q, f)'
  <2>1. Stays(q, 0, q, f) /\ f \in Frames /\ FrameOK(q, f)
    <3>1. i > 0
      BY FrameTypes
    <3> QED BY <1>1, <3>1, FrameTypes DEF Stays, FramesInv
  <2>3. CASE Works(w, f)
    BY <2>1, <2>3
  <2>4. CASE ~ Works(w, f)
    <3>1. f.w # w \/ f.at \in {"DeleteEo", "Crashed"}
      BY <2>4 DEF Works
    <3>2. f.at = "DeleteEo" => f.eo # e /\ table'[w].Eo # f.eo
      BY <2>1
    <3> QED BY <2>1, <3>1, <3>2, UntouchedFrame
  <2> QED BY <2>3, <2>4
<1>2. \A q \in Cores : \A i \in 1 .. Len(stack'[q]) : FrameOK(q, stack[q][i])'
  <2> SUFFICES ASSUME NEW q \in Cores, NEW i \in 1 .. Len(stack'[q]) PROVE FrameOK(q, stack[q][i])'
    OBVIOUS
  <2>1. PICK g : g = stack[q][i]
    OBVIOUS
  <2>2. FrameOK(q, g)' /\ g = stack'[q][i]
    BY <1>1, <2>1
  <2> QED BY <2>1, <2>2 DEF FrameOK, Has, Awaits, Hosts
<1>3. FramesInv'
  <2>1. \A q \in Cores : Shape(stack'[q])
    BY DEF FramesInv
  <2>2. Apart'
    BY DEF FramesInv, Apart
  <2> QED BY <1>2, <2>1, <2>2 DEF FramesInv
<1>4. TableInv'
  <2>1. \A d \in Eos : d # e /\ Doomed(d) => Doomed(d)'
    BY DEF Doomed, At, Top
  <2> QED BY <2>1, TableMove
<1> QED BY <1>3, <1>4

-----------------------------------------------------------------------------
(***************************************************************************)
(* What the actions have in common                                         *)
(***************************************************************************)
NoneAllocated(c, m, new) ==
    /\ \A i \in 1 .. m : stack[c][i].at # "Allocated"
    /\ \A i \in 1 .. Len(new) : new[i].at # "Allocated"

LEMMA AllocKept ==
    ASSUME TypeInv, TypeInv', NEW c \in Cores, NEW m \in Nat, NEW new, Fits(c, new),
           Moves(c, m, new), NoneAllocated(c, m, new), NEW x
    PROVE  AllocatedBy(x)' <=> AllocatedBy(x)
<1>1. Len(new) \in Nat
  BY DEF Fits
<1> QED BY <1>1, AllocMove DEF NoneAllocated

LEMMA AllocatedInactive ==
    ASSUME TypeInv, FramesInv, NEW w \in Workers, AllocatedBy(w)
    PROVE  table[w].State = "Inactive" /\ w \in Ids
BY DEF AllocatedBy, FramesInv, FrameOK

(* No ID is handed out or put back. *)
LEMMA RingSameIds ==
    ASSUME SInv, TypeInv', fifo' = fifo, \A x \in Ids : AllocatedBy(x)' <=> AllocatedBy(x),
           \A x \in Workers : table'[x].State = "Inactive" <=> table[x].State = "Inactive"
    PROVE  RingInv(fifo, DynamicInUse)'
<1>1. \A x \in Ids : InUse(x)' <=> InUse(x)
  BY IdsAre DEF InUse
<1> QED BY <1>1, RingKept DEF SInv

LEMMA RingSame ==
    ASSUME SInv, TypeInv', fifo' = fifo,
           NEW c \in Cores, NEW m \in Nat, NEW new, Fits(c, new), Moves(c, m, new), NoneAllocated(c, m, new),
           \A x \in Workers : table'[x].State = "Inactive" <=> table[x].State = "Inactive"
    PROVE  RingInv(fifo, DynamicInUse)'
<1>1. \A x \in Ids : AllocatedBy(x)' <=> AllocatedBy(x)
  BY AllocKept DEF SInv
<1> QED BY <1>1, RingSameIds

(* The context of w is released. *)
LEMMA RingReset ==
    ASSUME SInv, TypeInv', NEW w \in Workers, ReleaseWorkerContext(w),
           table[w].State \in {"Deploying", "Terminating"},
           NEW c \in Cores, NEW m \in Nat, NEW new, Fits(c, new), Moves(c, m, new), NoneAllocated(c, m, new)
    PROVE  RingInv(fifo, DynamicInUse)' /\ ReleaseChecks(w) = {}
<1>1. \A x \in Ids : AllocatedBy(x)' <=> AllocatedBy(x)
  BY AllocKept DEF SInv
<1>2. table' = [table EXCEPT ![w] = ResetContext] /\ table \in [Workers -> Contexts]
  BY DEF ReleaseWorkerContext, SInv, TypeInv
<1>3. table'[w].State = "Inactive" /\ \A x \in Workers : x # w => table'[x] = table[x]
  BY <1>2 DEF ResetContext
<1>4. InUse(w)
  BY DEF InUse
<1>5. ~ InUse(w)'
  <2>1. ~ AllocatedBy(w)
    BY AllocatedInactive DEF SInv
  <2>2. ~ AllocatedBy(w)'
    BY <2>1, AllocKept DEF SInv
  <2> QED BY <1>3, <2>2 DEF InUse
<1>6. \A x \in Ids : x # w => (InUse(x)' <=> InUse(x))
  BY <1>1, <1>3, IdsAre DEF InUse
<1>7. RingInv(fifo, DynamicInUse)' /\ (w >= IdBase => ReleaseAssert(fifo))
  <2>1. fifo' = IF w >= IdBase THEN ReleaseId(fifo, w) ELSE fifo
    BY DEF ReleaseWorkerContext
  <2>2. TypeInv /\ RingInv(fifo, DynamicInUse)
    BY DEF SInv
  <2> QED BY <1>4, <1>5, <1>6, <2>1, <2>2, RingReleased
<1>8. table[w].WorkerId = w /\ table[w].State # "Active"
  BY DEF SInv, TableInv, EntryOK
<1> QED BY <1>7, <1>8 DEF ReleaseChecks, Check

(* What an entry and an EO may hold. *)
LEMMA BuffersAre ==
    /\ << >> \in Buffers
    /\ \A b \in Buffers : b \in Seq(Messages) /\ Len(b) \in 0 .. BufferLength
    /\ \A b \in Buffers, m \in Messages : Len(b) < BufferLength => Append(b, m) \in Buffers
<1>0. BufferLength \in Nat
  BY WorkersAssumption
<1>1. ASSUME NEW b \in Seq(Messages), Len(b) <= BufferLength PROVE b \in Buffers
  <2>1. Len(b) \in 0 .. BufferLength /\ b \in [1 .. Len(b) -> Messages]
    BY <1>0, <1>1
  <2> QED BY <2>1 DEF Buffers
<1>2. ASSUME NEW b \in Buffers PROVE b \in Seq(Messages) /\ Len(b) \in 0 .. BufferLength
  <2>1. PICK n \in 0 .. BufferLength : b \in [1 .. n -> Messages]
    BY <1>2 DEF Buffers
  <2>2. n \in Nat
    BY <1>0, <2>1
  <2> QED BY <2>1, <2>2
<1>3. << >> \in Seq(Messages) /\ Len(<< >>) = 0
  OBVIOUS
<1>4. \A b \in Buffers, m \in Messages : Len(b) < BufferLength => Append(b, m) \in Buffers
  <2> SUFFICES ASSUME NEW b \in Buffers, NEW m \in Messages, Len(b) < BufferLength
               PROVE  Append(b, m) \in Buffers
    OBVIOUS
  <2>1. Append(b, m) \in Seq(Messages) /\ Len(Append(b, m)) = Len(b) + 1 /\ Len(b) \in Nat
    BY <1>2
  <2> DEFINE a == Append(b, m)
  <2>2. a \in Seq(Messages) /\ Len(a) <= BufferLength
    BY <1>0, <2>1
  <2> HIDE DEF a
  <2>3. a \in Buffers
    BY <1>1, <2>2
  <2> QED BY <2>3 DEF a
<1>5. << >> \in Buffers
  <2>1. PICK b : b = << >>
    OBVIOUS
  <2>2. b \in Seq(Messages) /\ Len(b) <= BufferLength
    BY <1>0, <1>3, <2>1
  <2> QED BY <1>1, <2>1, <2>2
<1> QED BY <1>2, <1>4, <1>5

LEMMA ResetType == ResetContext \in Contexts
BY BuffersAre DEF ResetContext, Contexts, WorkerStates

(* Handles and IDs do not clash with the marks for none. *)
LEMMA Distinct ==
    ASSUME TypeInv
    PROVE  /\ NoEo \notin Eos
           /\ \A w \in Workers : table[w] \in Contexts /\ table[w].Eo \in Eos \cup {NoEo}
           /\ \A e \in Eos : eo[e] \in EoRecords
BY WorkersAssumption DEF TypeInv, Contexts

LEMMA ReservedType ==
    ASSUME TypeInv, NEW w \in Workers,
           table' = [table EXCEPT ![w].State = "Deploying", ![w].WorkerId = w]
    PROVE  /\ table' \in [Workers -> Contexts]
           /\ table'[w].State = "Deploying" /\ table'[w].WorkerId = w
           /\ table'[w].Eo = table[w].Eo /\ table'[w].CoreMask = table[w].CoreMask
           /\ \A x \in Workers : x # w => table'[x] = table[x]
<1>1. table \in [Workers -> Contexts] /\ "Deploying" \in WorkerStates
  BY DEF TypeInv, WorkerStates
<1>2. table' \in [Workers -> Contexts]
  BY ZenonT(40), <1>1 DEF Contexts
<1> QED BY <1>1, <1>2 DEF Contexts

LEMMA SingleFits ==
    ASSUME TypeInv, NEW c \in Cores, NEW m \in {0, 1, 2}, NEW f,
           f.at \in {"LocalStart", "Receive", "LocalStop", "Stop"} => Len(stack[c]) = m,
           f.at \in {"Allocated", "Reserved"} => Len(stack[c]) - m + 1 < MaxDepth,
           Len(stack[c]) - m + 1 <= MaxDepth,
           f.at # "Start", Moves(c, m, <<f>>)
    PROVE  Fits(c, <<f>>)
<1> DEFINE new == <<f>>
<1>1. Len(new) = 1 /\ new[1] = f /\ Len(stack[c]) \in Nat
  BY FrameTypes
<1>2. Len(stack'[c]) = Len(new) + (Len(stack[c]) - m)
  BY DEF Moves
<1> HIDE DEF new
<1>3. Len(stack'[c]) = Len(stack[c]) - m + 1
  BY <1>1, <1>2
<1>4. \A i \in 1 .. Len(new) : i = 1 /\ new[i] = f
  BY <1>1
<1>5. Fits(c, new)
  BY <1>1, <1>3, <1>4 DEF Fits
<1> QED BY <1>5 DEF new

LEMMA SingleNew ==
    ASSUME NEW f
    PROVE  Len(<<f>>) = 1 /\ \A i \in 1 .. Len(<<f>>) : i = 1 /\ <<f>>[i] = f
OBVIOUS

LEMMA TopIs ==
    ASSUME TypeInv, FramesInv, NEW c \in Cores, stack[c] # << >>
    PROVE  /\ Top(c) = stack[c][1] /\ Top(c) \in Frames /\ Len(stack[c]) \in Nat /\ 1 <= Len(stack[c])
           /\ \A f : f = Top(c) => FrameOK(c, f) /\ f \in Frames
           /\ Len(stack[c]) <= MaxDepth /\ MaxDepth \in Nat
<1>1. Top(c) = stack[c][1] /\ Top(c) \in Frames /\ Len(stack[c]) \in Nat /\ 1 <= Len(stack[c])
  BY FrameTypes
<1>2. FrameOK(c, stack[c][1])
  BY <1>1 DEF FramesInv
<1>3. Len(stack[c]) <= MaxDepth /\ MaxDepth \in Nat
  BY WorkersAssumption DEF FramesInv, Shape
<1> QED BY <1>1, <1>2, <1>3

(* The frames that stay when the innermost call of c is left. *)
LEMMA StaysBelow ==
    ASSUME TypeInv, FramesInv, NEW c \in Cores, stack[c] # << >>, NEW t, t = Top(c),
           NEW q \in Cores, NEW g, Stays(c, 1, q, g)
    PROVE  g \in Frames /\ FrameOK(q, g) /\ ~ Clash(g, t) /\ ~ Clash(t, g)
<1>1. 1 <= Len(stack[c]) /\ t = stack[c][1]
  BY TopIs
<1> QED BY <1>1, Stayers

LEMMA ReleasedType ==
    ASSUME TypeInv, NEW w \in Workers, ReleaseWorkerContext(w)
    PROVE  /\ table' \in [Workers -> Contexts]
           /\ table'[w].State = "Inactive" /\ table'[w].Eo = NoEo
           /\ \A x \in Workers : x # w => table'[x] = table[x]
<1>1. table' = [table EXCEPT ![w] = ResetContext] /\ table \in [Workers -> Contexts]
  BY DEF ReleaseWorkerContext, TypeInv
<1>2. PICK r : r = ResetContext
  OBVIOUS
<1>3. r \in Contexts /\ r.State = "Inactive" /\ r.Eo = NoEo
  BY <1>2, ResetType DEF ResetContext
<1> QED BY <1>1, <1>2, <1>3

LEMMA DoomedNow ==
    ASSUME TypeInv', NEW c \in Cores, NEW e, stack'[c] # << >>,
           stack'[c][1].at = "DeleteEo", stack'[c][1].eo = e
    PROVE  Doomed(e)'
<1>1. stack'[c] \in Seq(Frames)
  BY DEF TypeInv
<1>2. Top(c)' = stack'[c][1]
  BY <1>1 DEF Top
<1> QED BY <1>2 DEF Doomed, At

(* An EO is that of one entry at most. *)
LEMMA OwnEo ==
    ASSUME TypeInv, TableInv, NEW w \in Workers, table[w].Eo # NoEo, NEW x \in Workers, x # w
    PROVE  table[x].Eo # table[w].Eo
BY DEF TableInv, EntryOK

CreatedEo(state, w, name) == [NoEoRecord EXCEPT !.State = state, !.Context = w, !.Name = name]

LEMMA NewEo ==
    ASSUME NEW state \in EoStates, NEW w \in Workers, NEW name \in Names
    PROVE  /\ CreatedEo(state, w, name) \in EoRecords
           /\ CreatedEo(state, w, name).State = state
           /\ CreatedEo(state, w, name).Context = w
           /\ CreatedEo(state, w, name).Queue = << >>
<1>1. NoEoRecord \in EoRecords /\ NoEoRecord.Queue = << >>
  <2>1. "Undef" \in EoStates /\ << >> \in Seq(Messages) /\ {} \in SUBSET Cores
    BY DEF EoStates
  <2> QED BY <2>1 DEF NoEoRecord, EoRecords
<1>2. PICK n : n = NoEoRecord
  OBVIOUS
<1>3. PICK r : r = [n EXCEPT !.State = state, !.Context = w, !.Name = name]
  OBVIOUS
<1>4. n \in EoRecords /\ n.Queue = << >>
  BY <1>1, <1>2
<1>5. r \in EoRecords /\ r.State = state /\ r.Context = w /\ r.Queue = n.Queue
  BY <1>3, <1>4 DEF EoRecords
<1>6. r = CreatedEo(state, w, name)
  BY <1>2, <1>3 DEF CreatedEo
<1> QED BY <1>4, <1>5, <1>6

LEMMA NoEoRecordType == NoEoRecord \in EoRecords
<1>1. "Undef" \in EoStates /\ << >> \in Seq(Messages) /\ {} \in SUBSET Cores
  BY DEF EoStates
<1> QED BY <1>1 DEF NoEoRecord, EoRecords

LEMMA EoStateType ==
    ASSUME TypeInv, NEW e \in Eos, NEW state \in EoStates, eo' = [eo EXCEPT ![e].State = state]
    PROVE  /\ eo' \in [Eos -> EoRecords]
           /\ eo'[e].State = state /\ eo'[e].Context = eo[e].Context
           /\ eo'[e].Pending = eo[e].Pending /\ eo'[e].Queue = eo[e].Queue
           /\ \A d \in Eos : d # e => eo'[d] = eo[d]
<1>1. eo \in [Eos -> EoRecords]
  BY DEF TypeInv
<1> QED BY <1>1 DEF EoRecords

LEMMA EoPendingType ==
    ASSUME TypeInv, NEW e \in Eos, NEW c, eo' = [eo EXCEPT ![e].Pending = @ \ {c}]
    PROVE  /\ eo' \in [Eos -> EoRecords]
           /\ eo'[e].State = eo[e].State /\ eo'[e].Context = eo[e].Context
           /\ eo'[e].Pending = eo[e].Pending \ {c} /\ eo'[e].Queue = eo[e].Queue
           /\ \A d \in Eos : d # e => eo'[d] = eo[d]
<1>1. eo \in [Eos -> EoRecords]
  BY DEF TypeInv
<1> QED BY <1>1 DEF EoRecords

LEMMA EoPhaseType ==
    ASSUME TypeInv, NEW e \in Eos, NEW state \in EoStates,
           eo' = [eo EXCEPT ![e] = [@ EXCEPT !.State = state, !.Pending = Cores]]
    PROVE  /\ eo' \in [Eos -> EoRecords]
           /\ eo'[e].State = state /\ eo'[e].Context = eo[e].Context
           /\ eo'[e].Pending = Cores /\ eo'[e].Queue = eo[e].Queue
           /\ \A d \in Eos : d # e => eo'[d] = eo[d]
<1>1. eo \in [Eos -> EoRecords]
  BY DEF TypeInv
<1>2. PICK g : g = eo[e]
  OBVIOUS
<1>3. PICK r : r = [g EXCEPT !.State = state, !.Pending = Cores]
  OBVIOUS
<1>4. g \in EoRecords
  BY <1>1, <1>2
<1>5. r \in EoRecords /\ r.State = state /\ r.Context = g.Context /\ r.Pending = Cores /\ r.Queue = g.Queue
  BY <1>3, <1>4 DEF EoRecords
<1>6. eo' = [eo EXCEPT ![e] = r]
  BY <1>2, <1>3
<1> QED BY <1>1, <1>2, <1>5, <1>6

LEMMA EoQueueType ==
    ASSUME TypeInv, NEW e \in Eos, NEW q \in Seq(Messages), eo' = [eo EXCEPT ![e].Queue = q]
    PROVE  /\ eo' \in [Eos -> EoRecords]
           /\ eo'[e].State = eo[e].State /\ eo'[e].Context = eo[e].Context
           /\ eo'[e].Pending = eo[e].Pending /\ eo'[e].Queue = q
           /\ \A d \in Eos : d # e => eo'[d] = eo[d]
<1>1. eo \in [Eos -> EoRecords]
  BY DEF TypeInv
<1> QED BY <1>1 DEF EoRecords

(* A call, or another step of the same call: one new frame. *)
LEMMA StepOne ==
    ASSUME TypeInv, TypeInv', TableInv, FramesInv,
           NEW w \in Workers, NEW e \in Eos \cup {NoEo}, Touches(w, e),
           EntryOK(w)', e # NoEo => EoOK(e)',
           \A x \in notifs' : x # w => x \in notifs,
           w \in notifs' => NotifOK(w)',
           NEW c \in Cores, NEW m \in Nat, NEW f, Moves(c, m, <<f>>), Fits(c, <<f>>),
           m = 0 => stack[c] = << >> \/ stack[c][1].at \in Callbacks,
           At(c, "DeleteEo") => Top(c).eo = e,
           \A q \in Cores : \A g : Stays(c, m, q, g) =>
               /\ Works(w, g) => FrameOK(q, g)'
               /\ g.at = "DeleteEo" => g.eo # e /\ table'[w].Eo # g.eo
               /\ ~ Clash(f, g) /\ ~ Clash(g, f),
           FrameOK(c, f)'
    PROVE  TableInv' /\ FramesInv'
<1>1. PICK new : new = <<f>>
  OBVIOUS
<1>2. Len(new) = 1 /\ \A i \in 1 .. Len(new) : i = 1 /\ new[i] = f
  BY <1>1, SingleNew
<1>3. Moves(c, m, new) /\ Fits(c, new)
  BY <1>1
<1>4. \A q \in Cores : \A g : Stays(c, m, q, g) =>
               /\ Works(w, g) => FrameOK(q, g)'
               /\ g.at = "DeleteEo" => g.eo # e /\ table'[w].Eo # g.eo
               /\ \A i \in 1 .. Len(new) : ~ Clash(new[i], g) /\ ~ Clash(g, new[i])
  BY <1>2
<1>5. \A i \in 1 .. Len(new) : FrameOK(c, new[i])'
  <2> SUFFICES ASSUME NEW i \in 1 .. Len(new) PROVE FrameOK(c, new[i])'
    OBVIOUS
  <2>1. new[i] = f
    BY <1>2
  <2> QED BY <2>1 DEF FrameOK, Has, Awaits, Hosts
<1>6. \A i, j \in 1 .. Len(new) : Clash(new[i], new[j]) => i = j
  BY <1>2
<1> QED BY <1>3, <1>4, <1>5, <1>6, StepMove

(* A call returns: no new frame. *)
LEMMA StepReturn ==
    ASSUME TypeInv, TypeInv', TableInv, FramesInv,
           NEW w \in Workers, NEW e \in Eos \cup {NoEo}, Touches(w, e),
           EntryOK(w)', e # NoEo => EoOK(e)',
           \A x \in notifs' : x # w => x \in notifs,
           w \in notifs' => NotifOK(w)',
           NEW c \in Cores, stack[c] # << >>, stack' = Return(c),
           At(c, "DeleteEo") => Top(c).eo = e,
           \A q \in Cores : \A g : Stays(c, 1, q, g) =>
               /\ Works(w, g) => FrameOK(q, g)'
               /\ g.at = "DeleteEo" => g.eo # e /\ table'[w].Eo # g.eo
    PROVE  TableInv' /\ FramesInv'
<1>1. PICK new : new = << >>
  OBVIOUS
<1>2. Len(new) = 0 /\ \A i \in 1 .. Len(new) : FALSE
  BY <1>1
<1>3. Moves(c, 1, new)
  BY <1>1, ReturnMoves
<1>4. Fits(c, new)
  <2>1. Len(stack'[c]) = Len(stack[c]) - 1 /\ 1 <= Len(stack[c])
    BY <1>2, <1>3, FrameTypes DEF Moves
  <2>2. Len(stack[c]) \in Nat /\ Len(stack[c]) <= MaxDepth /\ MaxDepth \in Nat
    BY FrameTypes, WorkersAssumption DEF FramesInv, Shape
  <2>3. Len(stack'[c]) <= MaxDepth
    BY <2>1, <2>2
  <2> QED BY <1>2, <2>3 DEF Fits
<1> QED BY <1>2, <1>3, <1>4, StepMove

(* A call that returns when nothing else changes. *)
LEMMA ReturnSame ==
    ASSUME TypeInv, TypeInv', TableInv, FramesInv, NEW c \in Cores, stack[c] # << >>,
           stack' = Return(c), ~ At(c, "DeleteEo"), table' = table, eo' = eo, notifs' = notifs
    PROVE  TableInv' /\ FramesInv'
<1>1. PICK w \in Workers : w = Top(c).w
  BY TopIs DEF Frames
<1>2. Touches(w, NoEo) /\ NoEo \in Eos \cup {NoEo}
  BY DEF Touches, KeepsEntry, KeepsEo
<1>3. ASSUME NEW q \in Cores, NEW g, Stays(c, 1, q, g)
      PROVE  FrameOK(q, g)' /\ (g.at = "DeleteEo" => g.eo # NoEo /\ table'[w].Eo # g.eo)
  <2>1. FrameOK(q, g)
    <3>1. PICK t : t = Top(c)
      OBVIOUS
    <3> QED BY <1>3, <3>1, StaysBelow
  <2>2. FrameOK(q, g)'
    BY <2>1 DEF FrameOK, Has, Awaits, Hosts
  <2> QED BY <2>1, <2>2, Distinct DEF FrameOK
<1>4. EntryOK(w)' /\ (w \in notifs' => NotifOK(w)')
  BY DEF TableInv, EntryOK, NotifOK
<1>5. \A x \in notifs' : x # w => x \in notifs
  OBVIOUS
<1>6. \A q \in Cores : \A g : Stays(c, 1, q, g) =>
           /\ Works(w, g) => FrameOK(q, g)'
           /\ g.at = "DeleteEo" => g.eo # NoEo /\ table'[w].Eo # g.eo
  BY <1>3
<1> QED BY <1>2, <1>4, <1>5, <1>6, StepReturn

LEMMA RingReturn ==
    ASSUME SInv, TypeInv', NEW c \in Cores, stack[c] # << >>, stack' = Return(c),
           stack[c][1].at # "Allocated", fifo' = fifo,
           \A x \in Workers : table'[x].State = "Inactive" <=> table[x].State = "Inactive"
    PROVE  RingInv(fifo, DynamicInUse)'
<1>1. PICK new : new = << >>
  OBVIOUS
<1>2. Len(new) = 0
  BY <1>1
<1>3. Moves(c, 1, new)
  BY <1>1, ReturnMoves DEF SInv
<1>4. Fits(c, new)
  <2>1. Len(stack'[c]) = Len(stack[c]) - 1 /\ Len(stack[c]) <= MaxDepth /\ MaxDepth \in Nat
        /\ Len(stack[c]) \in Nat /\ 1 <= Len(stack[c])
    BY <1>2, <1>3, TopIs DEF Moves, SInv
  <2>2. Len(stack'[c]) <= MaxDepth
    BY <2>1
  <2> QED BY <1>2, <2>2 DEF Fits
<1>5. NoneAllocated(c, 1, new)
  BY <1>2 DEF NoneAllocated
<1> QED BY <1>3, <1>4, <1>5, RingSame

-----------------------------------------------------------------------------
(***************************************************************************)
(* One lemma per action                                                    *)
(***************************************************************************)
LEMMA MayDeployFits ==
    ASSUME TypeInv, NEW c \in Cores, MayDeploy(c)
    PROVE  /\ stack[c] = << >> \/ stack[c][1].at \in Callbacks
           /\ Len(stack[c]) + 2 <= MaxDepth
           /\ ~ At(c, "DeleteEo")
BY FrameTypes DEF MayDeploy, UserCode, Dispatching, At, Top, Callbacks

LEMMA DeployDynamicStep ==
    ASSUME SInv, NEW c \in Cores, DeployDynamic(c)
    PROVE  SInv'
<1>1. PICK w : w = AllocatedId(fifo)
  OBVIOUS
<1>f. PICK f : f = Frame("Allocated", w, NoEo, FALSE)
  OBVIOUS
<1>2. PICK H : H = DynamicInUse
  OBVIOUS
<1>3. PICK r : r = fifo
  OBVIOUS
<1>4. /\ TypeInv /\ TableInv /\ FramesInv
      /\ MayDeploy(c) /\ fifo.FreeIds > 0 /\ fifo' = AllocateId(fifo)
      /\ stack' = Call(c, "Allocated", w, NoEo, FALSE)
      /\ table' = table /\ eo' = eo /\ notifs' = notifs /\ live' = live /\ allow' = allow
      /\ failed = {} /\ failed' = failed \cup Check("AllocateDynamicLocalId", AllocateAssert(fifo))
  BY <1>1 DEF SInv, DeployDynamic
<1>5. AllocateAssert(fifo) /\ w \in Ids /\ ~ InUse(w)
  <2>1. /\ AllocateAssert(r) /\ AllocatedId(r) \in Ids \ H
    BY <1>2, <1>3, <1>4, AllocateRing DEF SInv
  <2> QED BY <1>1, <1>2, <1>3, <2>1, InUseIs
<1>6. w \in Workers /\ table[w].State = "Inactive" /\ table[w].Eo = NoEo
  BY <1>4, <1>5, IdsAre DEF InUse, TableInv, EntryOK
<1>7. stack' \in [Cores -> Seq(Frames)] /\ Moves(c, 0, <<f>>)
  BY <1>4, <1>6, CallMoves, <1>f DEF Places, DeploySteps
<1>8. TypeInv'
  BY <1>4, <1>7 DEF TypeInv
<1>9. f.at = "Allocated" /\ f.w = w /\ f.eo = NoEo
  BY <1>f DEF Frame
<1>10. Fits(c, <<f>>) /\ (stack[c] = << >> \/ stack[c][1].at \in Callbacks) /\ ~ At(c, "DeleteEo")
  <2>1. Len(stack[c]) \in Nat /\ MaxDepth \in Nat
    BY <1>4, FrameTypes, WorkersAssumption
  <2> QED BY <1>4, <1>7, <1>9, <2>1, MayDeployFits, SingleFits
<1>11. Touches(w, NoEo)
  BY <1>4 DEF Touches, KeepsEntry, KeepsEo
<1>12. ASSUME NEW q \in Cores, NEW g, Stays(c, 0, q, g)
       PROVE  /\ Works(w, g) => FrameOK(q, g)'
              /\ g.at = "DeleteEo" => g.eo # NoEo /\ table'[w].Eo # g.eo
              /\ ~ Clash(f, g) /\ ~ Clash(g, f)
  <2>1. g \in Frames /\ FrameOK(q, g)
    <3>1. 0 <= Len(stack[c])
      BY <1>4, FrameTypes
    <3> QED BY <1>4, <1>12, <3>1, Stayers
  <2>2. FrameOK(q, g)'
    BY <1>4, <2>1 DEF FrameOK, Has, Awaits, Hosts
  <2>3. g.at = "DeleteEo" => g.eo # NoEo /\ table'[w].Eo # g.eo
    BY <1>4, <1>6, <2>1, Distinct DEF FrameOK
  <2>4. g.at \in DeploySteps => g.w # w
    <3>1. g.at = "Allocated" => g.w # w
      BY <1>5, <1>12 DEF InUse, AllocatedBy, Stays
    <3> QED BY <1>6, <2>1, <3>1 DEF FrameOK, Has, DeploySteps
  <2> QED BY <1>9, <2>2, <2>3, <2>4 DEF Clash
<1>13. FrameOK(c, f)'
  BY <1>4, <1>5, <1>6, <1>9 DEF FrameOK
<1>14. TableInv' /\ FramesInv'
  <2>1. EntryOK(w)' /\ (w \in notifs' => NotifOK(w)')
    BY <1>4, <1>6 DEF TableInv, EntryOK, NotifOK
  <2> QED BY <1>4, <1>6, <1>7, <1>8, <1>10, <1>11, <1>12, <1>13, <2>1, StepOne
<1>15. RingInv(fifo, DynamicInUse)'
  <2>1. \A x \in Ids : InUse(x)' <=> (InUse(x) \/ x = w)
    <3>1. \A x \in Ids : AllocatedBy(x)' <=> (AllocatedBy(x) \/ x = w)
      <4> SUFFICES ASSUME NEW x \in Ids PROVE AllocatedBy(x)' <=> (AllocatedBy(x) \/ x = w)
        OBVIOUS
      <4> DEFINE Staying == \E q \in Cores : \E g : Stays(c, 0, q, g) /\ g.at = "Allocated" /\ g.w = x
                 new == <<f>>
      <4>1. Len(new) = 1 /\ \A i \in 1 .. Len(new) : i = 1 /\ new[i] = f
        BY SingleNew
      <4>2. Moves(c, 0, new)
        BY <1>7
      <4> HIDE DEF new
      <4>3. /\ AllocatedBy(x) <=> Staying \/ \E i \in 1 .. 0 : stack[c][i].at = "Allocated" /\ stack[c][i].w = x
            /\ AllocatedBy(x)' <=> Staying \/ \E i \in 1 .. Len(new) : new[i].at = "Allocated" /\ new[i].w = x
        <5>1. TypeInv /\ Len(new) \in Nat /\ 0 \in Nat
          BY <1>4, <4>1
        <5> QED BY <1>8, <4>2, <5>1, AllocMove
      <4>4. (\E i \in 1 .. Len(new) : new[i].at = "Allocated" /\ new[i].w = x) <=> x = w
        BY <1>9, <4>1
      <4> HIDE DEF Staying
      <4> QED BY <4>3, <4>4
    <3> QED BY <1>4, <3>1 DEF InUse
  <2> QED BY <1>1, <1>4, <2>1, RingAllocated DEF SInv
<1> QED BY <1>4, <1>5, <1>8, <1>14, <1>15 DEF SInv, Check

LEMMA ReserveDynamicStep ==
    ASSUME SInv, NEW c \in Cores, ReserveDynamic(c)
    PROVE  SInv'
<1>1. PICK t : t = Top(c)
  OBVIOUS
<1>2. PICK w : w = t.w
  OBVIOUS
<1>f. PICK f : f = Frame("Reserved", w, NoEo, FALSE)
  OBVIOUS
<1>4. /\ TypeInv /\ TableInv /\ FramesInv
      /\ stack[c] # << >> /\ t.at = "Allocated" /\ w = Top(c).w
      /\ stack' = GoTo(c, "Reserved", NoEo)
      /\ table' = [table EXCEPT ![w].State = "Deploying", ![w].WorkerId = w]
      /\ fifo' = fifo /\ eo' = eo /\ notifs' = notifs /\ live' = live /\ allow' = allow
      /\ failed = {} /\ failed' = failed \cup Check("ReserveWorkerContext", table[w].State = "Inactive")
  BY <1>1, <1>2 DEF SInv, ReserveDynamic, At
<1>5. FrameOK(c, t) /\ t \in Frames /\ t = stack[c][1] /\ 1 <= Len(stack[c]) /\ Len(stack[c]) \in Nat
  BY <1>1, <1>4, TopIs
<1>6. w \in Workers /\ w \in Ids /\ table[w].State = "Inactive" /\ table[w].Eo = NoEo
  BY ZenonT(40), <1>2, <1>4, <1>5 DEF FrameOK, Frames, TableInv, EntryOK
<1>7. stack' \in [Cores -> Seq(Frames)] /\ Moves(c, 1, <<f>>)
  BY <1>4, GoToMoves, <1>f DEF Places, DeploySteps
<1>t. /\ table' \in [Workers -> Contexts]
      /\ table'[w].State = "Deploying" /\ table'[w].WorkerId = w /\ table'[w].Eo = NoEo
      /\ \A x \in Workers : x # w => table'[x] = table[x]
  BY <1>4, <1>6, ReservedType
<1>8. TypeInv'
  BY <1>4, <1>7, <1>t DEF TypeInv
<1>9. f.at = "Reserved" /\ f.w = w /\ f.eo = NoEo
  BY <1>f DEF Frame
<1>10. Fits(c, <<f>>) /\ ~ At(c, "DeleteEo")
  <2>1. Len(stack[c]) < MaxDepth /\ MaxDepth \in Nat
    BY <1>4, <1>5, WorkersAssumption DEF FramesInv, Shape
  <2>2. Len(stack[c]) - 1 + 1 < MaxDepth /\ Len(stack[c]) - 1 + 1 <= MaxDepth
    BY <1>5, <2>1
  <2>3. Fits(c, <<f>>)
    BY <1>4, <1>7, <1>9, <2>2, SingleFits
  <2> QED BY <1>1, <1>4, <2>3 DEF At
<1>11. Touches(w, NoEo)
  BY <1>4, <1>6, <1>t DEF Touches, KeepsEntry, KeepsEo
<1>12. ASSUME NEW q \in Cores, NEW g, Stays(c, 1, q, g)
       PROVE  /\ Works(w, g) => FrameOK(q, g)'
              /\ g.at = "DeleteEo" => g.eo # NoEo /\ table'[w].Eo # g.eo
              /\ ~ Clash(f, g) /\ ~ Clash(g, f)
  <2>1. g \in Frames /\ FrameOK(q, g) /\ ~ Clash(g, t)
    BY <1>1, <1>4, <1>12, StaysBelow
  <2>2. g.w = w => g.at \in {"DeleteEo", "Crashed"}
    BY <1>2, <1>4, <1>6, <2>1 DEF FrameOK, Has, Clash, Frames, DeploySteps, Callbacks
  <2>3. g.at = "DeleteEo" => g.eo # NoEo /\ table'[w].Eo # g.eo
    BY <1>4, <1>t, <2>1, Distinct DEF FrameOK
  <2> QED BY <1>9, <2>2, <2>3 DEF Clash, Works, DeploySteps
<1>13. FrameOK(c, f)'
  BY <1>t, <1>9 DEF FrameOK
<1>14. TableInv' /\ FramesInv'
  <2>1. EntryOK(w)' /\ (w \in notifs' => NotifOK(w)')
    BY <1>4, <1>6, <1>t DEF TableInv, EntryOK, NotifOK
  <2>2. TypeInv /\ TableInv /\ FramesInv /\ w \in Workers /\ \A x \in notifs' : x \in notifs
    BY <1>4, <1>6
  <2>3. NoEo \in Eos \cup {NoEo}
    OBVIOUS
  <2> QED BY <1>7, <1>8, <1>10, <1>11, <1>12, <1>13, <2>1, <2>2, <2>3, StepOne
<1>15. RingInv(fifo, DynamicInUse)'
  <2>1. \A x \in Ids : InUse(x)' <=> InUse(x)
    <3> SUFFICES ASSUME NEW x \in Ids PROVE InUse(x)' <=> InUse(x)
      OBVIOUS
    <3>1. CASE x = w
      <4>1. AllocatedBy(w)
        <5>1. 1 \in 1 .. Len(stack[c])
          BY <1>5
        <5> QED BY <1>2, <1>4, <1>5, <5>1 DEF AllocatedBy
      <4> QED BY <1>t, <3>1, <4>1 DEF InUse
    <3>2. CASE x # w
      <4> DEFINE Staying == \E q \in Cores : \E g : Stays(c, 1, q, g) /\ g.at = "Allocated" /\ g.w = x
                 new == <<f>>
      <4>1. Len(new) = 1 /\ \A i \in 1 .. Len(new) : i = 1 /\ new[i] = f
        BY SingleNew
      <4>2. Moves(c, 1, new)
        BY <1>7
      <4> HIDE DEF new
      <4>3. /\ AllocatedBy(x) <=> Staying \/ \E i \in 1 .. 1 : stack[c][i].at = "Allocated" /\ stack[c][i].w = x
            /\ AllocatedBy(x)' <=> Staying \/ \E i \in 1 .. Len(new) : new[i].at = "Allocated" /\ new[i].w = x
        BY <1>4, <1>8, <4>1, <4>2, AllocMove
      <4>4. ~ \E i \in 1 .. Len(new) : new[i].at = "Allocated" /\ new[i].w = x
        BY <1>9, <4>1
      <4>5. ~ \E i \in 1 .. 1 : stack[c][i].at = "Allocated" /\ stack[c][i].w = x
        BY <1>2, <1>5, <3>2
      <4> HIDE DEF Staying
      <4>6. AllocatedBy(x)' <=> AllocatedBy(x)
        BY <4>3, <4>4, <4>5
      <4>7. table'[x] = table[x]
        BY <1>t, <3>2, IdsAre
      <4> QED BY <4>6, <4>7 DEF InUse
    <3> QED BY <3>1, <3>2
  <2> QED BY <1>4, <2>1, RingKept DEF SInv
<1> QED BY <1>4, <1>6, <1>8, <1>14, <1>15 DEF SInv, Check

LEMMA DeployStaticStep ==
    ASSUME SInv, NEW c \in Cores, NEW w \in Workers, DeployStatic(c, w)
    PROVE  SInv'
<1>f. PICK f : f = Frame("Reserved", w, NoEo, FALSE)
  OBVIOUS
<1>4. /\ TypeInv /\ TableInv /\ FramesInv
      /\ MayDeploy(c) /\ w < IdBase /\ table[w].State = "Inactive"
      /\ stack' = Call(c, "Reserved", w, NoEo, FALSE)
      /\ table' = [table EXCEPT ![w].State = "Deploying", ![w].WorkerId = w]
      /\ fifo' = fifo /\ eo' = eo /\ notifs' = notifs /\ live' = live /\ allow' = allow
      /\ failed = {} /\ failed' = failed
  BY DEF SInv, DeployStatic
<1>6. table[w].Eo = NoEo /\ w \notin Ids
  <2>1. IdBase \in Int
    BY IdAssumption
  <2> QED BY <1>4, <2>1, IdsAre DEF TableInv, EntryOK
<1>7. stack' \in [Cores -> Seq(Frames)] /\ Moves(c, 0, <<f>>)
  BY <1>4, CallMoves, <1>f DEF Places, DeploySteps
<1>t. /\ table' \in [Workers -> Contexts]
      /\ table'[w].State = "Deploying" /\ table'[w].WorkerId = w /\ table'[w].Eo = NoEo
      /\ \A x \in Workers : x # w => table'[x] = table[x]
  BY <1>4, <1>6, ReservedType
<1>8. TypeInv'
  BY <1>4, <1>7, <1>t DEF TypeInv
<1>9. f.at = "Reserved" /\ f.w = w /\ f.eo = NoEo
  BY <1>f DEF Frame
<1>10. Fits(c, <<f>>) /\ (stack[c] = << >> \/ stack[c][1].at \in Callbacks) /\ ~ At(c, "DeleteEo")
  <2>1. Len(stack[c]) \in Nat /\ MaxDepth \in Nat
    BY <1>4, FrameTypes, WorkersAssumption
  <2> QED BY <1>4, <1>7, <1>9, <2>1, MayDeployFits, SingleFits
<1>11. Touches(w, NoEo)
  BY <1>4, <1>6, <1>t DEF Touches, KeepsEntry, KeepsEo
<1>12. ASSUME NEW q \in Cores, NEW g, Stays(c, 0, q, g)
       PROVE  /\ Works(w, g) => FrameOK(q, g)'
              /\ g.at = "DeleteEo" => g.eo # NoEo /\ table'[w].Eo # g.eo
              /\ ~ Clash(f, g) /\ ~ Clash(g, f)
  <2>1. g \in Frames /\ FrameOK(q, g)
    <3>1. 0 <= Len(stack[c])
      BY <1>4, FrameTypes
    <3> QED BY <1>4, <1>12, <3>1, Stayers
  <2>2. g.w = w => g.at \in {"DeleteEo", "Crashed"}
    BY <1>4, <1>6, <2>1 DEF FrameOK, Has, Frames, DeploySteps, Callbacks
  <2>3. g.at = "DeleteEo" => g.eo # NoEo /\ table'[w].Eo # g.eo
    BY <1>4, <1>t, <2>1, Distinct DEF FrameOK
  <2> QED BY <1>9, <2>2, <2>3 DEF Clash, Works, DeploySteps
<1>13. FrameOK(c, f)'
  BY <1>t, <1>9 DEF FrameOK
<1>14. TableInv' /\ FramesInv'
  <2>1. EntryOK(w)' /\ (w \in notifs' => NotifOK(w)')
    BY <1>4, <1>6, <1>t DEF TableInv, EntryOK, NotifOK
  <2>2. TypeInv /\ TableInv /\ FramesInv /\ w \in Workers /\ \A x \in notifs' : x \in notifs
    BY <1>4, <1>6
  <2>3. NoEo \in Eos \cup {NoEo}
    OBVIOUS
  <2> QED BY <1>7, <1>8, <1>10, <1>11, <1>12, <1>13, <2>1, <2>2, <2>3, StepOne
<1>15. RingInv(fifo, DynamicInUse)'
  <2>1. \A x \in Ids : AllocatedBy(x)' <=> AllocatedBy(x)
    <3>1. NoneAllocated(c, 0, <<f>>)
      BY <1>9, SingleNew DEF NoneAllocated
    <3> QED BY <1>4, <1>7, <1>8, <1>10, <3>1, AllocKept
  <2>2. \A x \in Ids : InUse(x)' <=> InUse(x)
    BY <1>6, <1>t, <2>1, IdsAre DEF InUse
  <2> QED BY <1>4, <2>2, RingKept DEF SInv
<1> QED BY <1>4, <1>8, <1>14, <1>15 DEF SInv

LEMMA DeployNoEoStep ==
    ASSUME SInv, NEW c \in Cores, DeployNoEo(c)
    PROVE  SInv'
<1>1. PICK t : t = Top(c)
  OBVIOUS
<1>2. PICK w : w = t.w
  OBVIOUS
<1>3. /\ TypeInv /\ TableInv /\ FramesInv
      /\ stack[c] # << >> /\ t.at = "Reserved" /\ w = Top(c).w
      /\ stack' = Return(c) /\ ReleaseWorkerContext(w)
      /\ eo' = eo /\ notifs' = notifs /\ live' = live /\ allow' = allow
      /\ failed = {} /\ failed' = failed \cup ReleaseChecks(w)
  BY <1>1, <1>2 DEF SInv, DeployNoEo, At
<1>4. FrameOK(c, t) /\ t \in Frames /\ t = stack[c][1]
  BY <1>1, <1>3, TopIs
<1>5. w \in Workers /\ table[w].State = "Deploying" /\ table[w].Eo = NoEo
  BY <1>2, <1>3, <1>4 DEF FrameOK, Frames
<1>6. stack' \in [Cores -> Seq(Frames)] /\ Moves(c, 1, << >>)
  BY <1>3, ReturnMoves
<1>7. /\ table' \in [Workers -> Contexts]
      /\ table'[w].State = "Inactive" /\ table'[w].Eo = NoEo
      /\ \A x \in Workers : x # w => table'[x] = table[x]
  BY <1>3, <1>5, ReleasedType
<1>8. TypeInv'
  BY <1>3, <1>6, <1>7 DEF TypeInv
<1>9. Touches(w, NoEo)
  BY <1>3, <1>5, <1>7, Distinct DEF Touches, KeepsEntry, KeepsEo
<1>10. ASSUME NEW q \in Cores, NEW g, Stays(c, 1, q, g)
       PROVE  /\ Works(w, g) => FrameOK(q, g)'
              /\ g.at = "DeleteEo" => g.eo # NoEo /\ table'[w].Eo # g.eo
  <2>1. g \in Frames /\ FrameOK(q, g) /\ ~ Clash(g, t)
    BY <1>1, <1>3, <1>10, StaysBelow
  <2>2. g.w = w => g.at \in {"DeleteEo", "Crashed"}
    BY <1>2, <1>3, <1>5, <2>1, Distinct DEF FrameOK, Has, Clash, Frames, DeploySteps, Callbacks
  <2>3. g.at = "DeleteEo" => g.eo # NoEo /\ table'[w].Eo # g.eo
    BY <1>3, <1>7, <2>1, Distinct DEF FrameOK
  <2> QED BY <2>2, <2>3 DEF Works
<1>11. w \notin notifs
  BY <1>3, <1>5 DEF TableInv, NotifOK
<1>12. TableInv' /\ FramesInv'
  <2>1. EntryOK(w)' /\ ~ At(c, "DeleteEo")
    BY <1>1, <1>3, <1>7 DEF EntryOK, At
  <2>2. TypeInv /\ TableInv /\ FramesInv /\ notifs' = notifs /\ stack' = Return(c) /\ stack[c] # << >>
    BY <1>3
  <2>3. NoEo \in Eos \cup {NoEo}
    OBVIOUS
  <2> QED BY <1>5, <1>8, <1>9, <1>10, <1>11, <2>1, <2>2, <2>3, StepReturn
<1>13. RingInv(fifo, DynamicInUse)' /\ ReleaseChecks(w) = {}
  <2>1. PICK new : new = << >>
    OBVIOUS
  <2>2. Len(new) = 0 /\ Moves(c, 1, new)
    BY <1>6, <2>1
  <2>3. Fits(c, new)
    <3>1. Len(stack'[c]) = Len(stack[c]) - 1 /\ Len(stack[c]) <= MaxDepth /\ MaxDepth \in Nat
          /\ Len(stack[c]) \in Nat /\ 1 <= Len(stack[c])
      BY <1>3, <2>2, TopIs DEF Moves
    <3>2. Len(stack'[c]) <= MaxDepth
      BY <3>1
    <3> QED BY <2>2, <3>2 DEF Fits
  <2>4. NoneAllocated(c, 1, new)
    BY <1>3, <1>4, <2>2 DEF NoneAllocated
  <2> QED BY <1>3, <1>5, <1>8, <2>2, <2>3, <2>4, RingReset
<1> QED BY <1>3, <1>8, <1>12, <1>13 DEF SInv

(* The frame that is left for em_eo_delete. *)
LEMMA ToDeleteEo ==
    ASSUME TypeInv, FramesInv, NEW c \in Cores, stack[c] # << >>, Top(c).at # "Allocated",
           NEW w, w = Top(c).w, NEW e \in Eos, stack' = GoTo(c, "DeleteEo", e)
    PROVE  /\ Moves(c, 1, <<Frame("DeleteEo", w, e, FALSE)>>)
           /\ Fits(c, <<Frame("DeleteEo", w, e, FALSE)>>)
           /\ NoneAllocated(c, 1, <<Frame("DeleteEo", w, e, FALSE)>>)
           /\ stack' \in [Cores -> Seq(Frames)]
           /\ stack'[c] # << >> /\ stack'[c][1].at = "DeleteEo" /\ stack'[c][1].eo = e
<1>1. PICK f : f = Frame("DeleteEo", w, e, FALSE)
  OBVIOUS
<1>2. f.at = "DeleteEo"
  BY <1>1 DEF Frame
<1>4. /\ Moves(c, 1, <<f>>) /\ stack' \in [Cores -> Seq(Frames)]
      /\ stack'[c] # << >> /\ stack'[c][1].at = "DeleteEo" /\ stack'[c][1].eo = e
  BY <1>1, GoToMoves DEF Places
<1>5. Len(stack[c]) \in Nat /\ Len(stack[c]) <= MaxDepth /\ MaxDepth \in Nat /\ Top(c) = stack[c][1]
  BY TopIs
<1>6. Fits(c, <<f>>)
  <2>1. Len(stack[c]) - 1 + 1 <= MaxDepth
    BY <1>5
  <2> QED BY <1>2, <1>4, <2>1, SingleFits
<1>7. NoneAllocated(c, 1, <<f>>)
  <2>1. \A i \in 1 .. 1 : stack[c][i].at # "Allocated"
    BY <1>5
  <2>2. PICK new : new = <<f>>
    OBVIOUS
  <2>3. \A i \in 1 .. Len(new) : new[i] = f
    BY <2>2, SingleNew
  <2> QED BY <1>2, <2>1, <2>2, <2>3 DEF NoneAllocated
<1> QED BY <1>1, <1>4, <1>6, <1>7

LEMMA DeployNoQueueStep ==
    ASSUME SInv, NEW c \in Cores, NEW e \in Eos, DeployNoQueue(c, e)
    PROVE  SInv'
<1>1. PICK t : t = Top(c)
  OBVIOUS
<1>2. PICK w : w = t.w
  OBVIOUS
<1>3. /\ TypeInv /\ TableInv /\ FramesInv
      /\ stack[c] # << >> /\ t.at = "Reserved" /\ w = Top(c).w
      /\ stack' = GoTo(c, "DeleteEo", e) /\ ReleaseWorkerContext(w)
      /\ eo[e].State = "Undef" /\ notifs' = notifs /\ live' = live /\ allow' = allow
      /\ failed = {} /\ failed' = failed \cup ReleaseChecks(w)
  BY <1>1, <1>2 DEF SInv, DeployNoQueue, At
<1>n. PICK name \in Names : eo' = [eo EXCEPT ![e] = [NoEoRecord EXCEPT !.State = "Created",
                                                         !.Context = w, !.Name = name]]
  BY <1>1, <1>2 DEF DeployNoQueue
<1>4. FrameOK(c, t) /\ t \in Frames /\ t = stack[c][1]
  BY <1>1, <1>3, TopIs
<1>5. w \in Workers /\ table[w].State = "Deploying" /\ table[w].Eo = NoEo
  BY <1>2, <1>3, <1>4 DEF FrameOK, Frames
<1>f. PICK f : f = Frame("DeleteEo", w, e, FALSE)
  OBVIOUS
<1>6. /\ f.at = "DeleteEo" /\ f.w = w /\ f.eo = e
      /\ Moves(c, 1, <<f>>) /\ Fits(c, <<f>>) /\ NoneAllocated(c, 1, <<f>>)
      /\ stack' \in [Cores -> Seq(Frames)]
      /\ stack'[c] # << >> /\ stack'[c][1].at = "DeleteEo" /\ stack'[c][1].eo = e
  <2>1. f.at = "DeleteEo" /\ f.w = w /\ f.eo = e
    BY <1>f DEF Frame
  <2>2. Top(c).at # "Allocated" /\ w = Top(c).w /\ e \in Eos
    BY <1>1, <1>2, <1>3
  <2>3. TypeInv /\ FramesInv /\ stack[c] # << >> /\ stack' = GoTo(c, "DeleteEo", e)
    BY <1>3
  <2> QED BY <1>f, <2>1, <2>2, <2>3, ToDeleteEo
<1>7. /\ table' \in [Workers -> Contexts]
      /\ table'[w].State = "Inactive" /\ table'[w].Eo = NoEo
      /\ \A x \in Workers : x # w => table'[x] = table[x]
  BY <1>3, <1>5, ReleasedType
<1>e. /\ eo' \in [Eos -> EoRecords]
      /\ eo'[e].State = "Created" /\ eo'[e].Context = w
      /\ \A d \in Eos : d # e => eo'[d] = eo[d]
  <2>1. PICK r : r = CreatedEo("Created", w, name)
    OBVIOUS
  <2>2. r \in EoRecords /\ r.State = "Created" /\ r.Context = w
    <3>1. "Created" \in EoStates
      BY DEF EoStates
    <3> QED BY <1>5, <2>1, <3>1, NewEo
  <2>3. eo \in [Eos -> EoRecords] /\ eo' = [eo EXCEPT ![e] = r]
    BY <1>3, <1>n, <2>1 DEF TypeInv, CreatedEo
  <2> QED BY <2>2, <2>3
<1>8. TypeInv'
  BY <1>3, <1>6, <1>7, <1>e DEF TypeInv
<1>d. \A x \in Workers : table[x].Eo # e
  BY <1>3, Distinct DEF TableInv, EntryOK, FitsEntry
<1>9. Touches(w, e)
  BY <1>3, <1>5, <1>7, <1>d, <1>e, Distinct DEF Touches, KeepsEntry, KeepsEo
<1>10. ASSUME NEW q \in Cores, NEW g, Stays(c, 1, q, g)
       PROVE  /\ Works(w, g) => FrameOK(q, g)'
              /\ g.at = "DeleteEo" => g.eo # e /\ table'[w].Eo # g.eo
              /\ ~ Clash(f, g) /\ ~ Clash(g, f)
  <2>1. g \in Frames /\ FrameOK(q, g) /\ ~ Clash(g, t)
    BY <1>1, <1>3, <1>10, StaysBelow
  <2>2. g.w = w => g.at \in {"DeleteEo", "Crashed"}
    BY <1>2, <1>3, <1>5, <2>1, Distinct DEF FrameOK, Has, Clash, Frames, DeploySteps, Callbacks
  <2>3. g.at = "DeleteEo" => g.eo # e /\ table'[w].Eo # g.eo
    BY <1>3, <1>7, <2>1, Distinct DEF FrameOK
  <2> QED BY <1>6, <2>2, <2>3 DEF Works, Clash, DeploySteps
<1>11. w \notin notifs
  BY <1>3, <1>5 DEF TableInv, NotifOK
<1>12. TableInv' /\ FramesInv'
  <2>1. EntryOK(w)' /\ ~ At(c, "DeleteEo") /\ w \in Workers
    BY <1>1, <1>3, <1>5, <1>7 DEF EntryOK, At
  <2>2. TypeInv /\ TableInv /\ FramesInv /\ notifs' = notifs /\ 1 \in Nat /\ e \in Eos \cup {NoEo}
    BY <1>3
  <2>3. EoOK(e)'
    <3>1. Doomed(e)'
      BY <1>6, <1>8, DoomedNow
    <3> QED BY <1>5, <1>e, <3>1 DEF EoOK
  <2>4. FrameOK(c, f)'
    <3>1. \A x \in Workers : table'[x].Eo # e
      BY <1>7, <1>d, <1>3, Distinct
    <3> QED BY <1>6, <1>e, <3>1 DEF FrameOK
  <2>5. Moves(c, 1, <<f>>) /\ Fits(c, <<f>>) /\ \A x \in notifs' : x \in notifs
    BY <1>6, <2>2
  <2> QED BY <1>8, <1>9, <1>10, <1>11, <2>1, <2>2, <2>3, <2>4, <2>5, StepOne
<1>13. RingInv(fifo, DynamicInUse)' /\ ReleaseChecks(w) = {}
  BY <1>3, <1>5, <1>6, <1>8, RingReset
<1> QED BY <1>3, <1>8, <1>12, <1>13 DEF SInv

(* The context of an EO that cannot run any more is released, whether its   *)
(* start has failed or its worker has come to its end.                      *)
LEMMA LastRelease ==
    ASSUME SInv, NEW c \in Cores, At(c, "RollBack") \/ At(c, "Stop"),
           failed' = failed \cup ReleaseChecks(Top(c).w), ReleaseWorkerContext(Top(c).w),
           stack' = GoTo(c, "DeleteEo", Top(c).eo), UNCHANGED <<eo, notifs, live, allow>>
    PROVE  SInv'
<1>1. PICK t : t = Top(c)
  OBVIOUS
<1>2. PICK w, e : w = t.w /\ e = t.eo
  OBVIOUS
<1>3. /\ TypeInv /\ TableInv /\ FramesInv
      /\ stack[c] # << >> /\ t.at \in {"RollBack", "Stop"} /\ w = Top(c).w
      /\ stack' = GoTo(c, "DeleteEo", e) /\ ReleaseWorkerContext(w)
      /\ eo' = eo /\ notifs' = notifs /\ live' = live /\ allow' = allow
      /\ failed = {} /\ failed' = failed \cup ReleaseChecks(w)
  BY <1>1, <1>2 DEF SInv, At
<1>4. FrameOK(c, t) /\ t \in Frames /\ t = stack[c][1]
  BY <1>1, <1>3, TopIs
<1>5. /\ w \in Workers /\ e \in Eos /\ table[w].Eo = e /\ e # NoEo
      /\ t.at = "RollBack" => table[w].State = "Deploying" /\ eo[e].State = "Created"
      /\ t.at = "Stop" => table[w].State = "Terminating" /\ eo[e].State = "Stop"
  BY <1>2, <1>3, <1>4, Distinct DEF FrameOK, Frames, Has
<1>f. PICK f : f = Frame("DeleteEo", w, e, FALSE)
  OBVIOUS
<1>6. /\ f.at = "DeleteEo" /\ f.w = w /\ f.eo = e
      /\ Moves(c, 1, <<f>>) /\ Fits(c, <<f>>) /\ NoneAllocated(c, 1, <<f>>)
      /\ stack' \in [Cores -> Seq(Frames)]
      /\ stack'[c] # << >> /\ stack'[c][1].at = "DeleteEo" /\ stack'[c][1].eo = e
  <2>1. f.at = "DeleteEo" /\ f.w = w /\ f.eo = e
    BY <1>f DEF Frame
  <2>2. Top(c).at # "Allocated" /\ w = Top(c).w /\ e \in Eos
    BY <1>1, <1>2, <1>3, <1>5
  <2>3. TypeInv /\ FramesInv /\ stack[c] # << >> /\ stack' = GoTo(c, "DeleteEo", e)
    BY <1>3
  <2> QED BY <1>f, <2>1, <2>2, <2>3, ToDeleteEo
<1>7. /\ table' \in [Workers -> Contexts]
      /\ table'[w].State = "Inactive" /\ table'[w].Eo = NoEo
      /\ \A x \in Workers : x # w => table'[x] = table[x]
  BY <1>3, <1>5, ReleasedType
<1>8. TypeInv'
  BY <1>3, <1>6, <1>7 DEF TypeInv
<1>d. \A x \in Workers : x # w => table[x].Eo # e
  BY <1>3, <1>5, OwnEo
<1>9. Touches(w, e)
  BY <1>3, <1>5, <1>7, <1>d DEF Touches, KeepsEntry, KeepsEo
<1>10. ASSUME NEW q \in Cores, NEW g, Stays(c, 1, q, g)
       PROVE  /\ Works(w, g) => FrameOK(q, g)'
              /\ g.at = "DeleteEo" => g.eo # e /\ table'[w].Eo # g.eo
              /\ ~ Clash(f, g) /\ ~ Clash(g, f)
  <2>1. g \in Frames /\ FrameOK(q, g) /\ ~ Clash(g, t)
    BY <1>1, <1>3, <1>10, StaysBelow
  <2>4. ~ Works(w, g)
    <3>1. g.w = w => g.at \in {"DeleteEo", "Crashed"}
      <4>1. CASE t.at = "RollBack"
        BY <1>2, <1>3, <1>5, <2>1, <4>1 DEF FrameOK, Has, Awaits, Clash, Frames, DeploySteps, Callbacks
      <4>2. CASE t.at = "Stop"
        BY <1>2, <1>3, <1>5, <2>1, <4>2 DEF FrameOK, Has, Awaits, Clash, Frames, DeploySteps, Callbacks
      <4> QED BY <1>3, <4>1, <4>2
    <3> QED BY <3>1 DEF Works
  <2>5. g.at = "DeleteEo" => g.eo # e /\ table'[w].Eo # g.eo
    BY <1>3, <1>5, <1>7, <2>1, Distinct DEF FrameOK
  <2> QED BY <1>6, <2>4, <2>5 DEF Clash, DeploySteps
<1>11. w \notin notifs
  BY <1>3, <1>5 DEF TableInv, NotifOK
<1>12. TableInv' /\ FramesInv'
  <2>1. EntryOK(w)' /\ ~ At(c, "DeleteEo") /\ w \in Workers
    BY <1>1, <1>3, <1>5, <1>7 DEF EntryOK, At
  <2>2. TypeInv /\ TableInv /\ FramesInv /\ notifs' = notifs /\ 1 \in Nat /\ e \in Eos \cup {NoEo}
    BY <1>3, <1>5
  <2>3. EoOK(e)'
    <3>1. Doomed(e)'
      BY <1>6, <1>8, DoomedNow
    <3>2. eo[e].Context = w
      BY <1>3, <1>5 DEF TableInv, EntryOK
    <3> QED BY <1>3, <1>5, <3>1, <3>2 DEF EoOK
  <2>4. FrameOK(c, f)'
    <3>1. \A x \in Workers : table'[x].Eo # e
      BY <1>5, <1>7, <1>d
    <3> QED BY <1>3, <1>5, <1>6, <3>1 DEF FrameOK
  <2>5. Moves(c, 1, <<f>>) /\ Fits(c, <<f>>) /\ \A x \in notifs' : x \in notifs
    BY <1>6, <2>2
  <2> QED BY <1>8, <1>9, <1>10, <1>11, <2>1, <2>2, <2>3, <2>4, <2>5, StepOne
<1>13. RingInv(fifo, DynamicInUse)' /\ ReleaseChecks(w) = {}
  <2>1. table[w].State \in {"Deploying", "Terminating"}
    BY <1>3, <1>5
  <2> QED BY <1>3, <1>5, <1>6, <1>8, <2>1, RingReset
<1> QED BY <1>3, <1>8, <1>12, <1>13 DEF SInv

LEMMA DeployRollBackStep ==
    ASSUME SInv, NEW c \in Cores, DeployRollBack(c)
    PROVE  SInv'
BY LastRelease DEF DeployRollBack

LEMMA EoStopReleaseStep ==
    ASSUME SInv, NEW c \in Cores, EoStopRelease(c)
    PROVE  SInv'
BY LastRelease DEF EoStopRelease

LEMMA DeleteEoStep ==
    ASSUME SInv, NEW c \in Cores, DeleteEo(c)
    PROVE  SInv'
<1>1. PICK t : t = Top(c)
  OBVIOUS
<1>2. PICK e : e = t.eo
  OBVIOUS
<1>3. /\ TypeInv /\ TableInv /\ FramesInv
      /\ stack[c] # << >> /\ t.at = "DeleteEo"
      /\ stack' = Return(c) /\ live' = live \ In(eo[e].Queue)
      /\ eo' = [eo EXCEPT ![e] = NoEoRecord]
      /\ table' = table /\ fifo' = fifo /\ notifs' = notifs /\ allow' = allow
      /\ failed = {} /\ failed' = failed \cup Check("em_eo_delete", eo[e].State \in {"Created", "Stop"})
  BY <1>1, <1>2 DEF SInv, DeleteEo, At
<1>4. FrameOK(c, t) /\ t \in Frames /\ t = stack[c][1] /\ e = Top(c).eo
  BY <1>1, <1>2, <1>3, TopIs
<1>5. e \in Eos /\ eo[e].State \in {"Created", "Stop"} /\ \A x \in Workers : table[x].Eo # e
  BY <1>2, <1>3, <1>4 DEF FrameOK
<1>w. PICK w \in Workers : w = eo[e].Context
  BY <1>3, <1>5 DEF TableInv, EoOK
<1>e. /\ eo' \in [Eos -> EoRecords] /\ eo'[e].State = "Undef"
      /\ \A d \in Eos : d # e => eo'[d] = eo[d]
  <2>1. PICK r : r = NoEoRecord
    OBVIOUS
  <2>2. r \in EoRecords /\ r.State = "Undef"
    BY <2>1, NoEoRecordType DEF NoEoRecord
  <2>3. eo' = [eo EXCEPT ![e] = r] /\ eo \in [Eos -> EoRecords]
    BY <1>3, <2>1 DEF TypeInv
  <2> QED BY <1>5, <2>2, <2>3
<1>6. stack' \in [Cores -> Seq(Frames)] /\ Moves(c, 1, << >>)
  BY <1>3, ReturnMoves
<1>8. TypeInv'
  BY <1>3, <1>6, <1>e DEF TypeInv
<1>9. Touches(w, e)
  BY <1>3, <1>5, <1>e DEF Touches, KeepsEntry, KeepsEo
<1>10. ASSUME NEW q \in Cores, NEW g, Stays(c, 1, q, g)
       PROVE  /\ Works(w, g) => FrameOK(q, g)'
              /\ g.at = "DeleteEo" => g.eo # e /\ table'[w].Eo # g.eo
  <2>1. g \in Frames /\ FrameOK(q, g) /\ ~ Clash(g, t)
    BY <1>1, <1>3, <1>10, StaysBelow
  <2>2. g.at # "DeleteEo" => FrameOK(q, g)'
    <3>1. g.w \in Workers
      BY <2>1 DEF Frames
    <3>2. g.eo \in Eos /\ table[g.w].Eo = g.eo => eo'[g.eo] = eo[g.eo]
      BY <1>5, <1>e, <3>1
    <3> QED BY <1>3, <2>1, <3>2 DEF FrameOK, Has, Awaits, Hosts
  <2>3. g.at = "DeleteEo" => g.eo # e /\ table'[w].Eo # g.eo
    BY <1>2, <1>3, <2>1 DEF FrameOK, Clash
  <2> QED BY <2>2, <2>3 DEF Works
<1>12. TableInv' /\ FramesInv'
  <2>1. EntryOK(w)' /\ EoOK(e)' /\ (w \in notifs' => NotifOK(w)')
    <3>1. EntryOK(w) /\ (w \in notifs => NotifOK(w))
      BY <1>3 DEF TableInv
    <3>2. table[w].Eo \in Eos \cup {NoEo} /\ table[w].Eo # e
      BY <1>3, <1>5, Distinct
    <3>3. table[w].Eo # NoEo => eo'[table[w].Eo] = eo[table[w].Eo]
      BY <1>e, <3>2
    <3> QED BY <1>3, <1>e, <3>1, <3>3 DEF EntryOK, EoOK, NotifOK
  <2>2. /\ TypeInv /\ TableInv /\ FramesInv /\ \A x \in notifs' : x \in notifs
        /\ stack' = Return(c) /\ stack[c] # << >> /\ e \in Eos \cup {NoEo}
    BY <1>3, <1>5
  <2> QED BY <1>4, <1>8, <1>9, <1>10, <2>1, <2>2, StepReturn
<1>13. RingInv(fifo, DynamicInUse)'
  BY <1>1, <1>3, <1>4, <1>8, RingReturn
<1> QED BY <1>3, <1>5, <1>8, <1>12, <1>13 DEF SInv, Check

LEMMA DeployReturnStep ==
    ASSUME SInv, NEW c \in Cores, DeployReturn(c)
    PROVE  SInv'
<1>1. PICK t : t = Top(c)
  OBVIOUS
<1>2. PICK w : w = t.w
  OBVIOUS
<1>3. /\ TypeInv /\ TableInv /\ FramesInv
      /\ stack[c] # << >> /\ t.at = "Started" /\ stack' = Return(c)
      /\ table' = table /\ fifo' = fifo /\ eo' = eo /\ notifs' = notifs /\ live' = live /\ allow' = allow
      /\ failed = {} /\ failed' = failed \cup Check("DeployWorker result", table[w].WorkerId = w)
  BY <1>1, <1>2 DEF SInv, DeployReturn, At
<1>4. FrameOK(c, t) /\ t \in Frames /\ t = stack[c][1]
  BY <1>1, <1>3, TopIs
<1>5. w \in Workers /\ table[w].WorkerId = w
  BY <1>2, <1>3, <1>4 DEF FrameOK, Has, Frames, TableInv, EntryOK
<1>6. stack' \in [Cores -> Seq(Frames)] /\ Moves(c, 1, << >>)
  BY <1>3, ReturnMoves
<1>8. TypeInv'
  BY <1>3, <1>6 DEF TypeInv
<1>12. TableInv' /\ FramesInv'
  <2>1. ~ At(c, "DeleteEo")
    BY <1>1, <1>3 DEF At
  <2> QED BY <1>3, <1>5, <1>8, <2>1, ReturnSame
<1>13. RingInv(fifo, DynamicInUse)'
  BY <1>1, <1>3, <1>4, <1>8, RingReturn
<1> QED BY <1>3, <1>5, <1>8, <1>12, <1>13 DEF SInv, Check

LEMMA DeployStartMoves ==
    ASSUME TypeInv, NEW c \in Cores, stack[c] # << >>, NEW w \in Workers, w = Top(c).w, NEW e \in Eos,
           stack' = [stack EXCEPT ![c] =
                       <<[at |-> "Start", w |-> w, eo |-> e, pad |-> TRUE],
                         [at |-> "Starting", w |-> w, eo |-> e, pad |-> FALSE]>>
                       \o [i \in DOMAIN Tail(@) |-> [Tail(@)[i] EXCEPT !.pad = FALSE]]],
           NEW f, f = Frame("Start", w, e, TRUE), NEW h, h = Frame("Starting", w, e, FALSE)
    PROVE  stack' \in [Cores -> Seq(Frames)] /\ Moves(c, 1, <<f, h>>)
<1> DEFINE s == stack[c]
           u == Tail(s)
           t == [i \in DOMAIN u |-> [u[i] EXCEPT !.pad = FALSE]]
<1>1. s \in Seq(Frames) /\ stack \in [Cores -> Seq(Frames)] /\ s # << >>
  BY DEF TypeInv
<1>2. f \in Frames /\ h \in Frames
  BY FrameIs DEF Places, Callbacks, DeploySteps
<1>3. stack' = [stack EXCEPT ![c] = <<f, h>> \o t]
  BY DEF Frame
<1> HIDE DEF s
<1>4. /\ u \in Seq(Frames) /\ Len(u) = Len(s) - 1 /\ Len(s) \in Nat /\ Len(s) >= 1
      /\ \A i \in 1 .. Len(s) - 1 : u[i] = s[i + 1]
  BY <1>1
<1> HIDE DEF u
<1>5. /\ t \in Seq(Frames) /\ Len(t) = Len(u)
      /\ \A i \in 1 .. Len(u) : t[i].at = u[i].at /\ t[i].w = u[i].w /\ t[i].eo = u[i].eo
  <2>1. DOMAIN u = 1 .. Len(u) /\ \A i \in 1 .. Len(u) : u[i] \in Frames
    BY <1>4
  <2>2. ASSUME NEW g \in Frames
        PROVE  [g EXCEPT !.pad = FALSE] \in Frames /\ Same([g EXCEPT !.pad = FALSE], g)
    BY DEF Frames, Same
  <2>3. \A i \in 1 .. Len(u) : t[i] = [u[i] EXCEPT !.pad = FALSE]
    BY <2>1
  <2>4. \A i \in 1 .. Len(u) : t[i] \in Frames /\ Same(t[i], u[i])
    BY <2>1, <2>2, <2>3
  <2>5. t \in [1 .. Len(u) -> Frames]
    BY <2>1, <2>4
  <2> QED BY <1>4, <2>4, <2>5 DEF Same
<1> HIDE DEF t
<1> DEFINE new == <<f, h>>
<1>6. Len(new) = 2 /\ new[1] = f /\ new[2] = h /\ new \in Seq(Frames)
  <2>1. Len(<<f, h>>) = 2 /\ <<f, h>>[1] = f /\ <<f, h>>[2] = h
    OBVIOUS
  <2>2. <<f, h>> \in Seq(Frames)
    <3>1. \A A : \A a, b \in A : <<a, b>> \in Seq(A)
      OBVIOUS
    <3>2. PICK A : A = Frames
      OBVIOUS
    <3>3. <<f, h>> \in Seq(A)
      BY <1>2, <3>1, <3>2
    <3> QED BY <3>2, <3>3
  <2> QED BY <2>1, <2>2
<1> HIDE DEF new
<1>7. /\ new \o t \in Seq(Frames) /\ Len(new \o t) = Len(s) + 1
      /\ \A i \in 1 .. Len(new) : (new \o t)[i] = new[i]
      /\ \A i \in 3 .. Len(s) + 1 : (new \o t)[i] = t[i - 2]
  <2>1. new \in Seq(Frames) /\ t \in Seq(Frames) /\ Len(new) = 2 /\ Len(t) = Len(s) - 1 /\ Len(s) \in Nat
    BY <1>4, <1>5, <1>6
  <2>2. /\ new \o t \in Seq(Frames) /\ Len(new \o t) = Len(s) + 1
        /\ \A i \in 1 .. Len(new) + Len(t) : (new \o t)[i] = IF i <= Len(new) THEN new[i] ELSE t[i - Len(new)]
    <3>1. Len(new \o t) = Len(new) + Len(t)
      BY <2>1, ConcatProperties
    <3> QED BY <2>1, <3>1, ConcatProperties
  <2>3. \A i \in 1 .. Len(new) : i \in 1 .. Len(new) + Len(t) /\ i <= Len(new)
    BY <2>1
  <2>4. \A i \in 3 .. Len(s) + 1 : i \in 1 .. Len(new) + Len(t) /\ ~ (i <= Len(new)) /\ i - Len(new) = i - 2
    BY <2>1
  <2> QED BY <2>2, <2>3, <2>4
<1>8. stack' = [stack EXCEPT ![c] = new \o t]
  BY <1>3 DEF new
<1>9. stack' \in [Cores -> Seq(Frames)] /\ stack'[c] = new \o t
  BY <1>1, <1>7, <1>8
<1>10. Moves(c, 1, new)
  <2>1. ASSUME NEW i \in Len(new) + 1 .. Len(stack'[c]) PROVE Same(stack'[c][i], stack[c][i - Len(new) + 1])
    <3>1. i \in 3 .. Len(s) + 1 /\ i - 2 \in 1 .. Len(u) /\ i - 2 + 1 = i - Len(new) + 1 /\ i - 2 \in 1 .. Len(s) - 1
      BY <1>4, <1>6, <1>7, <1>9
    <3>2. stack'[c][i] = t[i - 2] /\ u[i - 2] = s[i - Len(new) + 1]
      BY <1>4, <1>7, <1>9, <3>1
    <3>3. Same(t[i - 2], u[i - 2])
      BY <1>5, <3>1 DEF Same
    <3> QED BY <3>2, <3>3 DEF s
  <2>2. \A q \in Cores : q # c => stack'[q] = stack[q]
    BY <1>1, <1>8
  <2>3. 1 <= Len(stack[c]) /\ Len(stack'[c]) = Len(new) + (Len(stack[c]) - 1)
    BY <1>4, <1>6, <1>7, <1>9 DEF s
  <2>4. \A i \in 1 .. Len(new) : stack'[c][i] = new[i]
    BY <1>7, <1>9
  <2> QED BY <2>1, <2>2, <2>3, <2>4 DEF Moves
<1> QED BY <1>9, <1>10 DEF new

LEMMA StartedType ==
    ASSUME TypeInv, NEW w \in Workers, NEW e \in Eos, NEW mask \in SUBSET Cores, NEW name \in Names,
           table' = [table EXCEPT ![w].CoreMask = mask, ![w].Name = name, ![w].Eo = e]
    PROVE  /\ table' \in [Workers -> Contexts]
           /\ table'[w].State = table[w].State /\ table'[w].WorkerId = table[w].WorkerId
           /\ table'[w].Eo = e
           /\ \A x \in Workers : x # w => table'[x] = table[x]
<1>1. table \in [Workers -> Contexts]
  BY DEF TypeInv
<1>2. PICK ctx : ctx = table[w]
  OBVIOUS
<1>3. PICK r : r = [ctx EXCEPT !.CoreMask = mask, !.Name = name, !.Eo = e]
  OBVIOUS
<1>4. ctx \in Contexts
  BY <1>1, <1>2
<1>5. r \in Contexts /\ r.State = ctx.State /\ r.WorkerId = ctx.WorkerId /\ r.Eo = e
  BY <1>3, <1>4 DEF Contexts
<1>6. table' = [table EXCEPT ![w] = r]
  BY <1>2, <1>3
<1> QED BY ZenonT(40), <1>1, <1>2, <1>5, <1>6

LEMMA DeployStartStep ==
    ASSUME SInv, NEW c \in Cores, NEW e \in Eos, NEW mask \in CoreMasks, NEW name \in Names,
           DeployStart(c, e, mask, name)
    PROVE  SInv'
<1>1. PICK t : t = Top(c)
  OBVIOUS
<1>2. PICK w : w = t.w
  OBVIOUS
<1>3. /\ TypeInv /\ TableInv /\ FramesInv
      /\ stack[c] # << >> /\ t.at = "Reserved" /\ w = Top(c).w
      /\ eo[e].State = "Undef"
      /\ fifo' = fifo /\ notifs' = notifs /\ live' = live /\ allow' = allow
      /\ failed = {} /\ failed' = failed
  BY <1>1, <1>2 DEF SInv, DeployStart, At
<1>4. FrameOK(c, t) /\ t \in Frames /\ t = stack[c][1]
  BY <1>1, <1>3, TopIs
<1>5. w \in Workers /\ table[w].State = "Deploying" /\ table[w].Eo = NoEo
  BY <1>2, <1>3, <1>4 DEF FrameOK, Frames
<1>f. PICK f, h : f = Frame("Start", w, e, TRUE) /\ h = Frame("Starting", w, e, FALSE)
  OBVIOUS
<1>g. /\ f.at = "Start" /\ f.w = w /\ f.eo = e
      /\ h.at = "Starting" /\ h.w = w /\ h.eo = e
  BY <1>f DEF Frame
<1>n. PICK new : new = <<f, h>>
  OBVIOUS
<1>l. Len(new) = 2 /\ new[1] = f /\ new[2] = h /\ \A i \in 1 .. Len(new) : i = 1 \/ i = 2
  BY <1>n
<1>6. stack' \in [Cores -> Seq(Frames)] /\ Moves(c, 1, new)
  <2>1. stack' = [stack EXCEPT ![c] =
                       <<[at |-> "Start", w |-> w, eo |-> e, pad |-> TRUE],
                         [at |-> "Starting", w |-> w, eo |-> e, pad |-> FALSE]>>
                       \o [i \in DOMAIN Tail(@) |-> [Tail(@)[i] EXCEPT !.pad = FALSE]]]
    BY <1>3 DEF DeployStart
  <2>2. TypeInv /\ stack[c] # << >> /\ w \in Workers /\ w = Top(c).w
    BY <1>3, <1>5
  <2> QED BY <1>f, <1>n, <2>1, <2>2, DeployStartMoves
<1>7. /\ table' \in [Workers -> Contexts]
      /\ table'[w].State = "Deploying" /\ table'[w].WorkerId = table[w].WorkerId /\ table'[w].Eo = e
      /\ \A x \in Workers : x # w => table'[x] = table[x]
  <2>1. table' = [table EXCEPT ![w].CoreMask = mask, ![w].Name = name, ![w].Eo = e]
    BY <1>3 DEF DeployStart
  <2>2. mask \in SUBSET Cores
    BY WorkersAssumption
  <2> QED BY <1>3, <1>5, <2>1, <2>2, StartedType
<1>e. /\ eo' \in [Eos -> EoRecords]
      /\ eo'[e].State = "Start" /\ eo'[e].Context = w
      /\ \A d \in Eos : d # e => eo'[d] = eo[d]
  <2>1. PICK r : r = CreatedEo("Start", w, name)
    OBVIOUS
  <2>2. r \in EoRecords /\ r.State = "Start" /\ r.Context = w
    <3>1. "Start" \in EoStates
      BY DEF EoStates
    <3> QED BY <1>5, <2>1, <3>1, NewEo
  <2>3. eo \in [Eos -> EoRecords] /\ eo' = [eo EXCEPT ![e] = r]
    BY <1>3, <2>1 DEF TypeInv, CreatedEo, DeployStart
  <2> QED BY <2>2, <2>3
<1>8. TypeInv'
  BY <1>3, <1>6, <1>7, <1>e DEF TypeInv
<1>d. \A x \in Workers : table[x].Eo # e
  BY <1>3, Distinct DEF TableInv, EntryOK, FitsEntry
<1>9. Touches(w, e)
  BY <1>3, <1>5, <1>7, <1>d, <1>e, Distinct DEF Touches, KeepsEntry, KeepsEo
<1>10. ASSUME NEW q \in Cores, NEW g, Stays(c, 1, q, g)
       PROVE  /\ Works(w, g) => FrameOK(q, g)'
              /\ g.at = "DeleteEo" => g.eo # e /\ table'[w].Eo # g.eo
              /\ \A i \in 1 .. Len(new) : ~ Clash(new[i], g) /\ ~ Clash(g, new[i])
  <2>1. g \in Frames /\ FrameOK(q, g) /\ ~ Clash(g, t)
    BY <1>1, <1>3, <1>10, StaysBelow
  <2>2. g.w = w => g.at \in {"DeleteEo", "Crashed"}
    BY <1>2, <1>3, <1>5, <2>1, Distinct DEF FrameOK, Has, Clash, Frames, DeploySteps, Callbacks
  <2>3. g.at = "DeleteEo" => g.eo # e /\ table'[w].Eo # g.eo
    BY <1>3, <1>7, <2>1, Distinct DEF FrameOK
  <2>4. ~ (g.at = "Start" /\ g.eo = e)
    BY <1>3, <2>1 DEF FrameOK
  <2>5. ~ Clash(f, g) /\ ~ Clash(g, f)
    BY <1>g, <2>4 DEF Clash, DeploySteps
  <2>6. ~ Clash(h, g) /\ ~ Clash(g, h)
    BY <1>g, <2>2 DEF Clash, DeploySteps
  <2> QED BY <1>l, <2>2, <2>3, <2>5, <2>6 DEF Works
<1>11. w \notin notifs
  BY <1>3, <1>5 DEF TableInv, NotifOK
<1>12. Fits(c, new) /\ NoneAllocated(c, 1, new)
  <2>1. Len(stack[c]) < MaxDepth /\ Len(stack[c]) \in Nat /\ 1 <= Len(stack[c]) /\ MaxDepth \in Nat
    BY <1>3, <1>4, TopIs DEF FramesInv, Shape
  <2>2. Len(stack'[c]) = Len(new) + (Len(stack[c]) - 1)
    BY <1>6 DEF Moves
  <2>3. Len(stack'[c]) <= MaxDepth
    BY <1>l, <2>1, <2>2
  <2>4. Fits(c, new)
    BY <1>g, <1>l, <2>3 DEF Fits
  <2>5. \A i \in 1 .. 1 : stack[c][i].at # "Allocated"
    BY <1>3, <1>4
  <2> QED BY <1>g, <1>l, <2>4, <2>5 DEF NoneAllocated
<1>13. TableInv' /\ FramesInv'
  <2>1. EntryOK(w)' /\ ~ At(c, "DeleteEo") /\ EoOK(e)' /\ w \in Workers
    <3>1. EntryOK(w)'
      BY <1>3, <1>5, <1>7, <1>e DEF EntryOK, FitsEntry, TableInv
    <3>2. EoOK(e)'
      BY <1>5, <1>7, <1>e DEF EoOK
    <3> QED BY <1>1, <1>3, <1>5, <3>1, <3>2 DEF At
  <2>2. TypeInv /\ TableInv /\ FramesInv /\ notifs' = notifs /\ 1 \in Nat /\ e \in Eos \cup {NoEo}
    BY <1>3
  <2>3. \A i \in 1 .. Len(new) : FrameOK(c, new[i])'
    <3>1. FrameOK(c, f)' /\ FrameOK(c, h)'
      BY <1>7, <1>e, <1>g DEF FrameOK, Has
    <3> SUFFICES ASSUME NEW i \in 1 .. Len(new) PROVE FrameOK(c, new[i])'
      OBVIOUS
    <3>2. CASE i = 1
      BY <1>l, <3>1, <3>2 DEF FrameOK, Has, Awaits, Hosts
    <3>3. CASE i = 2
      BY <1>l, <3>1, <3>3 DEF FrameOK, Has, Awaits, Hosts
    <3> QED BY <1>l, <3>2, <3>3
  <2>4. \A i, j \in 1 .. Len(new) : Clash(new[i], new[j]) => i = j
    <3>1. ~ Clash(f, h) /\ ~ Clash(h, f)
      BY <1>g DEF Clash, DeploySteps
    <3> QED BY <1>l, <3>1
  <2>5. \A x \in notifs' : x \in notifs
    BY <1>3
  <2> QED BY <1>6, <1>8, <1>9, <1>10, <1>11, <1>12, <2>1, <2>2, <2>3, <2>4, <2>5, StepMove
<1>14. RingInv(fifo, DynamicInUse)'
  <2>1. \A x \in Workers : table'[x].State = "Inactive" <=> table[x].State = "Inactive"
    BY <1>5, <1>7
  <2> QED BY <1>3, <1>6, <1>8, <1>12, <2>1, RingSame
<1> QED BY <1>3, <1>8, <1>13, <1>14 DEF SInv

-----------------------------------------------------------------------------
(***************************************************************************)
(* Callbacks end                                                           *)
(***************************************************************************)
(* Core c leaves m calls and at most a crash takes their place. *)
Leaves(c, m, new) ==
    /\ Moves(c, m, new) /\ Fits(c, new) /\ NoneAllocated(c, m, new)
    /\ m = 0 => stack[c] = << >> \/ stack[c][1].at \in Callbacks \/ Len(new) = 0
    /\ ~ At(c, "DeleteEo")
    /\ Len(new) <= 1 /\ \A i \in 1 .. Len(new) : new[i].at = "Crashed" /\ i = 1
    /\ stack' \in [Cores -> Seq(Frames)]

LEMMA LeavesNothing ==
    ASSUME TypeInv, FramesInv, NEW c \in Cores, ~ At(c, "DeleteEo"), stack' = stack, NEW new, new = << >>
    PROVE  Leaves(c, 0, new)
<1>1. Len(new) = 0
  OBVIOUS
<1>2. Len(stack[c]) \in Nat /\ Len(stack[c]) <= MaxDepth /\ stack \in [Cores -> Seq(Frames)]
  BY FrameTypes DEF FramesInv, Shape, TypeInv
<1>3. Moves(c, 0, new)
  BY <1>1, <1>2 DEF Moves, Same
<1>4. Fits(c, new)
  BY <1>1, <1>2 DEF Fits
<1> QED BY <1>1, <1>2, <1>3, <1>4 DEF Leaves, NoneAllocated

LEMMA LeavesReturn ==
    ASSUME TypeInv, FramesInv, NEW c \in Cores, stack[c] # << >>, Top(c).at \in Callbacks,
           stack' = Return(c), NEW new, new = << >>
    PROVE  Leaves(c, 1, new)
<1>1. Len(new) = 0
  OBVIOUS
<1>2. /\ Len(stack[c]) \in Nat /\ Len(stack[c]) <= MaxDepth /\ MaxDepth \in Nat /\ 1 <= Len(stack[c])
      /\ stack[c][1] = Top(c)
  BY TopIs
<1>3. Moves(c, 1, new) /\ stack' \in [Cores -> Seq(Frames)]
  BY ReturnMoves
<1>4. Fits(c, new)
  <2>1. Len(stack'[c]) = Len(stack[c]) - 1
    BY <1>1, <1>3 DEF Moves
  <2>2. Len(stack'[c]) <= MaxDepth
    BY <1>2, <2>1
  <2> QED BY <1>1, <2>2 DEF Fits
<1>5. NoneAllocated(c, 1, new)
  BY <1>1, <1>2 DEF NoneAllocated, Callbacks
<1>6. ~ At(c, "DeleteEo")
  BY DEF At, Callbacks
<1> QED BY <1>1, <1>3, <1>4, <1>5, <1>6 DEF Leaves

LEMMA LeavesCrashed ==
    ASSUME TypeInv, FramesInv, NEW c \in Cores, stack[c] # << >>, Top(c).at \in Callbacks,
           stack' = GoTo(c, "Crashed", NoEo),
           NEW w, w = Top(c).w
    PROVE  Leaves(c, 1, <<Frame("Crashed", w, NoEo, FALSE)>>)
<1>1. PICK f : f = Frame("Crashed", w, NoEo, FALSE)
  OBVIOUS
<1>2. f.at = "Crashed"
  BY <1>1 DEF Frame
<1>3. /\ Len(stack[c]) \in Nat /\ Len(stack[c]) <= MaxDepth /\ MaxDepth \in Nat /\ 1 <= Len(stack[c])
      /\ stack[c][1] = Top(c)
  BY TopIs
<1>4. Moves(c, 1, <<f>>) /\ stack' \in [Cores -> Seq(Frames)]
  BY <1>1, GoToMoves DEF Places
<1>5. Fits(c, <<f>>)
  <2>1. Len(stack[c]) - 1 + 1 <= MaxDepth
    BY <1>3
  <2> QED BY <1>2, <1>4, <2>1, SingleFits
<1>6. PICK new : new = <<f>>
  OBVIOUS
<1>7. Len(new) = 1 /\ \A i \in 1 .. Len(new) : i = 1 /\ new[i] = f
  BY <1>6, SingleNew
<1>8. NoneAllocated(c, 1, new)
  BY <1>2, <1>3, <1>7 DEF NoneAllocated, Callbacks
<1>9. ~ At(c, "DeleteEo")
  BY DEF At, Callbacks
<1>10. Leaves(c, 1, new)
  BY <1>2, <1>4, <1>5, <1>6, <1>7, <1>8, <1>9 DEF Leaves
<1> QED BY <1>1, <1>6, <1>10

(* A crash concerns nobody. *)
LEMMA LeaveStep ==
    ASSUME TypeInv, TypeInv', TableInv, FramesInv,
           NEW w \in Workers, NEW e \in Eos \cup {NoEo}, Touches(w, e),
           EntryOK(w)', e # NoEo => EoOK(e)',
           \A x \in notifs' : x # w => x \in notifs,
           w \in notifs' => NotifOK(w)',
           NEW c \in Cores, NEW m \in Nat, NEW new, Leaves(c, m, new),
           \A q \in Cores : \A g : Stays(c, m, q, g) =>
               /\ Works(w, g) => FrameOK(q, g)'
               /\ g.at = "DeleteEo" => g.eo # e /\ table'[w].Eo # g.eo
    PROVE  TableInv' /\ FramesInv'
<1>1. /\ Moves(c, m, new) /\ Fits(c, new) /\ ~ At(c, "DeleteEo")
      /\ m = 0 => stack[c] = << >> \/ stack[c][1].at \in Callbacks \/ Len(new) = 0
      /\ \A i \in 1 .. Len(new) : new[i].at = "Crashed" /\ i = 1
  BY DEF Leaves
<1>2. \A i \in 1 .. Len(new) : FrameOK(c, new[i])'
  <2> SUFFICES ASSUME NEW i \in 1 .. Len(new) PROVE FrameOK(c, new[i])'
    OBVIOUS
  <2> QED BY <1>1 DEF FrameOK
<1>3. \A i \in 1 .. Len(new) : \A g : ~ Clash(new[i], g) /\ ~ Clash(g, new[i])
  BY <1>1 DEF Clash, DeploySteps
<1>4. \A i, j \in 1 .. Len(new) : Clash(new[i], new[j]) => i = j
  BY <1>1
<1>5. \A q \in Cores : \A g : Stays(c, m, q, g) =>
               /\ Works(w, g) => FrameOK(q, g)'
               /\ g.at = "DeleteEo" => g.eo # e /\ table'[w].Eo # g.eo
               /\ \A i \in 1 .. Len(new) : ~ Clash(new[i], g) /\ ~ Clash(g, new[i])
  BY <1>3
<1> QED BY <1>1, <1>2, <1>4, <1>5, StepMove

(* Nothing that the others look at changes. *)
LEMMA KeptFrame ==
    ASSUME TypeInv, \A x \in Workers : KeepsEntry(x), \A d \in Eos : KeepsEo(d),
           NEW q \in Cores, NEW g \in Frames, FrameOK(q, g)
    PROVE  FrameOK(q, g)'
<1>1. KeepsEntry(g.w) /\ (g.eo \in Eos => KeepsEo(g.eo))
  BY DEF Frames
<1>2. \A x \in Workers : table'[x].Eo = table[x].Eo
  BY DEF KeepsEntry
<1> QED BY <1>1, <1>2 DEF FrameOK, Has, Awaits, Hosts, KeepsEntry, KeepsEo

LEMMA QuietStep ==
    ASSUME SInv, TypeInv', \A x \in Workers : KeepsEntry(x), \A d \in Eos : KeepsEo(d),
           fifo' = fifo, notifs' = notifs, failed' = failed,
           NEW c \in Cores, NEW m \in Nat, NEW new, Leaves(c, m, new), m <= Len(stack[c]),
           NEW w \in Workers
    PROVE  SInv'
<1>1. TypeInv /\ TableInv /\ FramesInv /\ failed = {}
  BY DEF SInv
<1>2. Touches(w, NoEo) /\ NoEo \in Eos \cup {NoEo}
  BY DEF Touches, KeepsEntry
<1>3. ASSUME NEW q \in Cores, NEW g, Stays(c, m, q, g)
      PROVE  FrameOK(q, g)' /\ (g.at = "DeleteEo" => g.eo # NoEo /\ table'[w].Eo # g.eo)
  <2>1. g \in Frames /\ FrameOK(q, g)
    BY <1>1, <1>3, Stayers
  <2>2. FrameOK(q, g)'
    BY <1>1, <2>1, KeptFrame
  <2> QED BY <1>1, <2>1, <2>2, Distinct DEF FrameOK
<1>4. EntryOK(w)' /\ (w \in notifs' => NotifOK(w)')
  <2>1. KeepsEntry(w) /\ EntryOK(w) /\ (w \in notifs => NotifOK(w))
    BY <1>1 DEF TableInv
  <2>2. table[w].Eo # NoEo => KeepsEo(table[w].Eo)
    BY <1>1, Distinct
  <2> QED BY <1>1, <2>1, <2>2 DEF EntryOK, NotifOK, KeepsEntry, KeepsEo
<1>5. \A x \in notifs' : x \in notifs
  OBVIOUS
<1>6. \A q \in Cores : \A g : Stays(c, m, q, g) =>
           /\ Works(w, g) => FrameOK(q, g)'
           /\ g.at = "DeleteEo" => g.eo # NoEo /\ table'[w].Eo # g.eo
  BY <1>3
<1>7. TableInv' /\ FramesInv'
  BY <1>1, <1>2, <1>4, <1>5, <1>6, LeaveStep
<1>8. RingInv(fifo, DynamicInUse)'
  BY RingSame DEF Leaves, KeepsEntry
<1> QED BY <1>1, <1>7, <1>8 DEF SInv

(* The local function of EO e is done on core c, which has nothing else to  *)
(* come back to.                                                            *)
LEMMA PendingStep ==
    ASSUME SInv, TypeInv', \A x \in Workers : KeepsEntry(x),
           NEW e \in Eos, eo[e].State \in {"LocalStart", "LocalStop"},
           \A d \in Eos : d # e => KeepsEo(d),
           eo'[e].State = eo[e].State, eo'[e].Context = eo[e].Context,
           NEW c \in Cores, eo'[e].Pending = eo[e].Pending \ {c},
           fifo' = fifo, notifs' = notifs, failed' = failed,
           NEW m \in Nat, m = Len(stack[c]), NEW new, Leaves(c, m, new)
    PROVE  SInv'
<1>1. TypeInv /\ TableInv /\ FramesInv /\ failed = {} /\ m <= Len(stack[c])
  BY DEF SInv
<1>w. PICK w \in Workers : w = eo[e].Context /\ table[w].Eo = e
  BY <1>1 DEF TableInv, EoOK
<1>2. Touches(w, e) /\ e \in Eos \cup {NoEo}
  <2>1. \A x \in Workers : x # w => table[x].Eo # e
    BY <1>1, <1>w, Distinct, OwnEo
  <2> QED BY <1>w, <2>1 DEF Touches, KeepsEntry
<1>3. ASSUME NEW q \in Cores, NEW g, Stays(c, m, q, g)
      PROVE  FrameOK(q, g)' /\ (g.at = "DeleteEo" => g.eo # e /\ table'[w].Eo # g.eo)
  <2>1. g \in Frames /\ FrameOK(q, g)
    BY <1>1, <1>3, Stayers
  <2>2. q # c
    <3>1. Len(stack[c]) \in Nat
      BY <1>1, FrameTypes
    <3> QED BY <1>3, <3>1 DEF Stays
  <2>3. FrameOK(q, g)'
    <3>1. KeepsEntry(g.w)
      BY <2>1 DEF Frames
    <3>2. g.eo \in Eos => /\ eo'[g.eo].State = eo[g.eo].State
                          /\ q \in eo[g.eo].Pending => q \in eo'[g.eo].Pending
      BY <2>2 DEF KeepsEo
    <3>3. \A x \in Workers : table'[x].Eo = table[x].Eo
      BY DEF KeepsEntry
    <3> QED BY <2>1, <3>1, <3>2, <3>3 DEF FrameOK, Has, Awaits, Hosts, KeepsEntry
  <2> QED BY <1>w, <2>1, <2>3 DEF FrameOK, KeepsEntry
<1>4. EntryOK(w)' /\ EoOK(e)' /\ w \notin notifs
  <2>1. KeepsEntry(w) /\ EntryOK(w) /\ (w \in notifs => NotifOK(w))
    BY <1>1 DEF TableInv
  <2> QED BY <1>w, <2>1 DEF EntryOK, EoOK, NotifOK, KeepsEntry
<1>5. \A x \in notifs' : x \in notifs
  OBVIOUS
<1>6. \A q \in Cores : \A g : Stays(c, m, q, g) =>
           /\ Works(w, g) => FrameOK(q, g)'
           /\ g.at = "DeleteEo" => g.eo # e /\ table'[w].Eo # g.eo
  BY <1>3
<1>7. TableInv' /\ FramesInv'
  BY <1>1, <1>2, <1>4, <1>5, <1>6, LeaveStep
<1>8. RingInv(fifo, DynamicInUse)'
  BY RingSame DEF Leaves, KeepsEntry
<1> QED BY <1>1, <1>7, <1>8 DEF SInv

(* EM is told to stop the EO e of worker w. *)
LEMMA StopStep ==
    ASSUME SInv, TypeInv', NEW w \in Workers, NEW e \in Eos, table[w].Eo = e, eo[e].State = "Running",
           \A x \in Workers : x # w => KeepsEntry(x),
           table'[w].State = "Terminating", table'[w].WorkerId = table[w].WorkerId,
           table'[w].Eo = e, table'[w].CoreMask = table[w].CoreMask,
           \A d \in Eos : d # e => KeepsEo(d),
           eo'[e].State = "LocalStop", eo'[e].Pending = Cores, eo'[e].Context = eo[e].Context,
           fifo' = fifo, failed' = failed, \A x \in notifs' : x \in notifs, w \notin notifs',
           NEW c \in Cores, NEW m \in Nat, NEW new, Leaves(c, m, new), m <= Len(stack[c])
    PROVE  SInv'
<1>1. TypeInv /\ TableInv /\ FramesInv /\ failed = {}
  BY DEF SInv
<1>w. eo[e].Context = w /\ e # NoEo /\ table[w].State \in {"Deploying", "Active"} /\ table[w].WorkerId = w
  <2>1. EntryOK(w) /\ e # NoEo
    BY <1>1, Distinct DEF TableInv
  <2>2. table[w].State \in WorkerStates
    BY <1>1 DEF TypeInv, Contexts
  <2> QED BY <2>1, <2>2 DEF EntryOK, FitsEntry, WorkerStates
<1>2. Touches(w, e) /\ e \in Eos \cup {NoEo}
  <2>1. \A x \in Workers : x # w => table[x].Eo # e
    BY <1>1, <1>w, OwnEo
  <2> QED BY <2>1 DEF Touches
<1>3. ASSUME NEW q \in Cores, NEW g, Stays(c, m, q, g)
      PROVE  (Works(w, g) => FrameOK(q, g)') /\ (g.at = "DeleteEo" => g.eo # e /\ table'[w].Eo # g.eo)
  <2>1. g \in Frames /\ FrameOK(q, g)
    BY <1>1, <1>3, Stayers
  <2>2. ASSUME Works(w, g) PROVE FrameOK(q, g)'
    <3>1. g.w = w /\ g.at \in {"Receive", "LocalStop", "Stop", "Allocated", "Reserved", "Start",
                               "Starting", "Started", "RollBack", "LocalStart"}
      BY <2>1, <2>2 DEF Works, Frames, Callbacks, DeploySteps
    <3>2. g.at = "Receive" /\ g.eo = e /\ Hosts(q, w)
      BY <1>w, <2>1, <3>1 DEF FrameOK, Has, Awaits
    <3> QED BY <1>w, <3>1, <3>2 DEF FrameOK, Has, Awaits, Hosts
  <2>3. g.at = "DeleteEo" => g.eo # e
    BY <2>1 DEF FrameOK
  <2> QED BY <2>2, <2>3
<1>4. EntryOK(w)' /\ EoOK(e)'
  BY <1>w DEF EntryOK, EoOK, FitsEntry
<1>6. \A q \in Cores : \A g : Stays(c, m, q, g) =>
           /\ Works(w, g) => FrameOK(q, g)'
           /\ g.at = "DeleteEo" => g.eo # e /\ table'[w].Eo # g.eo
  BY <1>3
<1>7. TableInv' /\ FramesInv'
  BY <1>1, <1>2, <1>4, <1>6, LeaveStep
<1>8. RingInv(fifo, DynamicInUse)'
  <2>1. \A x \in Workers : table'[x].State = "Inactive" <=> table[x].State = "Inactive"
    BY <1>w DEF KeepsEntry
  <2> QED BY <2>1, RingSame DEF Leaves
<1> QED BY <1>1, <1>7, <1>8 DEF SInv

(* The start function has run: EM has the cores run the local one, unless   *)
(* it has failed.                                                           *)
LEMMA StartLeft ==
    ASSUME SInv, TypeInv', NEW c \in Cores, At(c, "Start"),
           NEW w, w = Top(c).w, NEW e, e = Top(c).eo,
           \A x \in Workers : KeepsEntry(x),
           \A d \in Eos : d # e => KeepsEo(d), eo'[e].Context = eo[e].Context,
           fifo' = fifo, failed' = failed, notifs' = notifs,
           NEW at, at \in {"Started", "RollBack", "Crashed"}, NEW f, f.at = at, f.w = w,
           at # "Crashed" => f.eo = e,
           eo'[e].State = IF at = "RollBack" THEN "Created" ELSE "LocalStart",
           at # "RollBack" => eo'[e].Pending = Cores,
           NEW m \in Nat, m = IF at = "Crashed" THEN 1 ELSE 2,
           Moves(c, m, <<f>>), Fits(c, <<f>>)
    PROVE  SInv'
<1>1. TypeInv /\ TableInv /\ FramesInv /\ failed = {} /\ stack[c] # << >>
  BY DEF SInv, At
<1>2. PICK t : t = Top(c)
  OBVIOUS
<1>3. /\ t \in Frames /\ FrameOK(c, t) /\ t = stack[c][1] /\ t.at = "Start" /\ t.w = w /\ t.eo = e
      /\ Len(stack[c]) \in Nat /\ 1 <= Len(stack[c])
  BY <1>1, <1>2, TopIs DEF At
<1>4. PICK u : u = stack[c][2]
  OBVIOUS
<1>5. 1 < Len(stack[c]) /\ u.at = "Starting" /\ u.w = w /\ u.eo = e
  <2>1. Shape(stack[c]) /\ 1 \in 1 .. Len(stack[c]) /\ stack[c][1].at = "Start"
        /\ stack[c][1].w = w /\ stack[c][1].eo = e
    BY <1>1, <1>3 DEF FramesInv
  <2> QED BY <1>4, <2>1 DEF Shape
<1>6. /\ w \in Workers /\ e \in Eos /\ table[w].Eo = e /\ table[w].State = "Deploying"
      /\ eo[e].State = "Start" /\ e # NoEo /\ eo[e].Context = w /\ table[w].WorkerId = w
  <2>1. w \in Workers /\ e \in Eos /\ table[w].Eo = e /\ table[w].State = "Deploying" /\ eo[e].State = "Start"
    BY <1>3 DEF FrameOK, Has, Frames
  <2> QED BY <1>1, <2>1, Distinct DEF TableInv, EntryOK
<1>7. Touches(w, e) /\ e \in Eos \cup {NoEo}
  <2>1. \A x \in Workers : x # w => table[x].Eo # e
    BY <1>1, <1>6, OwnEo
  <2> QED BY <1>6, <2>1 DEF Touches, KeepsEntry
<1>8. ASSUME NEW q \in Cores, NEW g, Stays(c, m, q, g)
      PROVE  /\ Works(w, g) => FrameOK(q, g)'
             /\ g.at = "DeleteEo" => g.eo # e /\ table'[w].Eo # g.eo
             /\ ~ Clash(f, g) /\ ~ Clash(g, f)
  <2>1. g \in Frames /\ FrameOK(q, g) /\ \A i \in 1 .. m : ~ Clash(g, stack[c][i])
    <3>1. m <= Len(stack[c])
      BY DEF Moves
    <3> QED BY <1>1, <1>8, <3>1, Stayers
  <2>2. ~ Clash(g, t) /\ (at # "Crashed" => ~ Clash(g, u))
    BY <1>3, <1>4, <2>1
  <2>3. ASSUME Works(w, g) PROVE g.at = "Starting" /\ g.w = w /\ g.eo = e /\ at = "Crashed"
    <3>1. g.w = w /\ g.at \in {"Receive", "LocalStop", "Stop", "Allocated", "Reserved", "Start",
                               "Starting", "Started", "RollBack", "LocalStart"}
      BY <2>1, <2>3 DEF Works, Frames, Callbacks, DeploySteps
    <3>2. g.at \in {"Start", "Starting"} /\ g.eo = e
      BY <1>6, <2>1, <3>1 DEF FrameOK, Has, Awaits
    <3>3. g.at = "Starting"
      BY <1>3, <2>2, <3>2 DEF Clash
    <3>4. at = "Crashed"
      BY <1>5, <2>2, <3>1, <3>3 DEF Clash, DeploySteps
    <3> QED BY <3>1, <3>2, <3>3, <3>4
  <2>4. Works(w, g) => FrameOK(q, g)'
    <3>1. KeepsEntry(w)
      BY <1>6
    <3> QED BY <1>6, <2>3, <3>1 DEF FrameOK, Has, Awaits, KeepsEntry
  <2>5. g.at = "DeleteEo" => g.eo # e /\ table'[w].Eo # g.eo
    BY <1>6, <2>1 DEF FrameOK, KeepsEntry
  <2>6. ~ Clash(f, g) /\ ~ Clash(g, f)
    <3>1. g.at \in DeploySteps /\ g.w = w => at = "Crashed"
      BY <2>3 DEF Works, DeploySteps
    <3> QED BY <3>1 DEF Clash, DeploySteps
  <2> QED BY <2>4, <2>5, <2>6
<1>9. EntryOK(w)' /\ EoOK(e)' /\ w \notin notifs
  <2>1. KeepsEntry(w) /\ (w \in notifs => NotifOK(w))
    BY <1>1, <1>6 DEF TableInv
  <2> QED BY <1>6, <2>1 DEF EntryOK, EoOK, NotifOK, KeepsEntry, FitsEntry
<1>10. FrameOK(c, f)'
  <2>1. KeepsEntry(w)
    BY <1>6
  <2> QED BY <1>6, <2>1 DEF FrameOK, Has, Awaits, KeepsEntry
<1>11. TableInv' /\ FramesInv'
  <2>1. ~ At(c, "DeleteEo") /\ m # 0
    BY DEF At
  <2>2. \A x \in notifs' : x \in notifs
    OBVIOUS
  <2> QED BY <1>1, <1>6, <1>7, <1>8, <1>9, <1>10, <2>1, <2>2, StepOne
<1>12. RingInv(fifo, DynamicInUse)'
  <2>1. NoneAllocated(c, m, <<f>>)
    <3>1. \A i \in 1 .. m : stack[c][i].at # "Allocated"
      BY <1>3, <1>4, <1>5
    <3>2. f.at # "Allocated"
      OBVIOUS
    <3>3. PICK new : new = <<f>>
      OBVIOUS
    <3>4. \A i \in 1 .. Len(new) : new[i] = f
      BY <3>3, SingleNew
    <3> QED BY <3>1, <3>2, <3>3, <3>4 DEF NoneAllocated
  <2>2. \A x \in Workers : table'[x].State = "Inactive" <=> table[x].State = "Inactive"
    BY DEF KeepsEntry
  <2> QED BY <2>1, <2>2, RingSame
<1> QED BY <1>1, <1>11, <1>12 DEF SInv

LEMMA LeaveStartFits ==
    ASSUME TypeInv, FramesInv, NEW c \in Cores, At(c, "Start"),
           NEW at, at \in {"Started", "RollBack"}, stack' = LeaveStart(c, at),
           NEW w, w = Top(c).w, NEW e, e = Top(c).eo
    PROVE  /\ stack' \in [Cores -> Seq(Frames)]
           /\ Moves(c, 2, <<Frame(at, w, e, FALSE)>>) /\ Fits(c, <<Frame(at, w, e, FALSE)>>)
<1>1. stack[c] # << >> /\ Top(c).at = "Start"
  BY DEF At
<1>2. /\ Len(stack[c]) \in Nat /\ 1 <= Len(stack[c]) /\ stack[c][1] = Top(c)
      /\ Len(stack[c]) <= MaxDepth /\ MaxDepth \in Nat
  BY <1>1, TopIs
<1>3. Len(stack[c]) >= 2
  <2>1. 1 \in 1 .. Len(stack[c]) /\ stack[c][1].at = "Start" /\ Shape(stack[c])
    BY <1>1, <1>2 DEF FramesInv
  <2>2. 1 < Len(stack[c])
    BY <2>1 DEF Shape
  <2> QED BY <1>2, <2>2
<1>4. PICK f : f = Frame(at, w, e, FALSE)
  OBVIOUS
<1>5. f.at = at
  BY <1>4 DEF Frame
<1>6. stack' \in [Cores -> Seq(Frames)] /\ Moves(c, 2, <<f>>)
  <2>1. at \in Places
    BY DEF Places, DeploySteps
  <2> QED BY <1>3, <1>4, <2>1, LeaveStartMoves
<1>7. Fits(c, <<f>>)
  <2>1. Len(stack[c]) - 2 + 1 <= MaxDepth
    BY <1>2
  <2> QED BY <1>5, <1>6, <2>1, SingleFits
<1> QED BY <1>4, <1>6, <1>7

LEMMA StartFailsStep ==
    ASSUME SInv, NEW c \in Cores, StartFails(c)
    PROVE  SInv'
<1>1. PICK w, e : w = Top(c).w /\ e = Top(c).eo
  OBVIOUS
<1>2. /\ TypeInv /\ TableInv /\ FramesInv /\ At(c, "Start") /\ stack[c] # << >>
      /\ eo' = [eo EXCEPT ![e].State = "Created"] /\ stack' = LeaveStart(c, "RollBack")
      /\ table' = table /\ fifo' = fifo /\ notifs' = notifs /\ live' = live /\ allow' = allow /\ failed' = failed
  BY <1>1 DEF SInv, StartFails, At
<1>3. PICK t : t = Top(c)
  OBVIOUS
<1>4. e \in Eos
  <2>1. FrameOK(c, t) /\ t.at = "Start"
    BY <1>2, <1>3, TopIs DEF At
  <2> QED BY <1>1, <1>3, <2>1 DEF FrameOK, Has
<1>5. PICK f : f = Frame("RollBack", w, e, FALSE)
  OBVIOUS
<1>6. f.at = "RollBack" /\ f.w = w /\ f.eo = e
  BY <1>5 DEF Frame
<1>7. stack' \in [Cores -> Seq(Frames)] /\ Moves(c, 2, <<f>>) /\ Fits(c, <<f>>)
  BY <1>1, <1>2, <1>5, LeaveStartFits
<1>8. /\ eo' \in [Eos -> EoRecords]
      /\ eo'[e].State = "Created" /\ eo'[e].Context = eo[e].Context
      /\ \A d \in Eos : d # e => eo'[d] = eo[d]
  <2>1. "Created" \in EoStates
    BY DEF EoStates
  <2> QED BY <1>2, <1>4, <2>1, EoStateType
<1>9. TypeInv'
  BY <1>2, <1>7, <1>8 DEF TypeInv
<1>10. (\A x \in Workers : KeepsEntry(x)) /\ \A d \in Eos : d # e => KeepsEo(d)
  BY <1>2, <1>8 DEF KeepsEntry, KeepsEo
<1>11. PICK at, m : at = "RollBack" /\ m = 2
  OBVIOUS
<1>12. /\ at \in {"Started", "RollBack", "Crashed"} /\ f.at = at /\ (at # "Crashed" => f.eo = e)
       /\ eo'[e].State = (IF at = "RollBack" THEN "Created" ELSE "LocalStart")
       /\ at # "RollBack" => eo'[e].Pending = Cores
       /\ m \in Nat /\ m = (IF at = "Crashed" THEN 1 ELSE 2)
       /\ Moves(c, m, <<f>>) /\ Fits(c, <<f>>)
  BY <1>6, <1>7, <1>8, <1>11
<1> QED BY <1>1, <1>2, <1>6, <1>8, <1>9, <1>10, <1>12, StartLeft

(* The end of the start function in core c, by return or by longjmp. *)
LEMMA EndsStart ==
    ASSUME SInv, NEW c \in Cores, At(c, "Start"), table' \in [Workers -> Contexts],
           \A x \in Workers : KeepsEntry(x), eo' = EndCallback(c, eo),
           stack' = LeaveCallback(c) \/ stack' = GoTo(c, "Crashed", NoEo),
           fifo' = fifo, notifs' = notifs, live' = live, allow' = allow, failed' = failed
    PROVE  SInv'
<1>1. PICK w, e : w = Top(c).w /\ e = Top(c).eo
  OBVIOUS
<1>2. /\ TypeInv /\ TableInv /\ FramesInv /\ stack[c] # << >> /\ Top(c).at = "Start"
      /\ eo' = [eo EXCEPT ![e] = [@ EXCEPT !.State = "LocalStart", !.Pending = Cores]]
  BY <1>1 DEF SInv, At, EndCallback
<1>3. PICK t : t = Top(c)
  OBVIOUS
<1>4. e \in Eos
  <2>1. FrameOK(c, t) /\ t.at = "Start"
    BY <1>2, <1>3, TopIs DEF At
  <2> QED BY <1>1, <1>3, <2>1 DEF FrameOK, Has
<1>8. /\ eo' \in [Eos -> EoRecords]
      /\ eo'[e].State = "LocalStart" /\ eo'[e].Context = eo[e].Context /\ eo'[e].Pending = Cores
      /\ \A d \in Eos : d # e => eo'[d] = eo[d]
  <2>1. "LocalStart" \in EoStates
    BY DEF EoStates
  <2> QED BY <1>2, <1>4, <2>1, EoPhaseType
<1>10. \A d \in Eos : d # e => KeepsEo(d)
  BY <1>8 DEF KeepsEo
<1>11. CASE stack' = LeaveCallback(c)
  <2>1. PICK f : f = Frame("Started", w, e, FALSE)
    OBVIOUS
  <2>2. f.at = "Started" /\ f.w = w /\ f.eo = e
    BY <2>1 DEF Frame
  <2>3. stack' \in [Cores -> Seq(Frames)] /\ Moves(c, 2, <<f>>) /\ Fits(c, <<f>>)
    <3>1. stack' = LeaveStart(c, "Started")
      BY <1>2, <1>11 DEF LeaveCallback
    <3> QED BY <1>1, <1>2, <2>1, <3>1, LeaveStartFits
  <2>4. TypeInv'
    BY <1>2, <1>8, <2>3 DEF TypeInv
  <2>5. PICK at, m : at = "Started" /\ m = 2
    OBVIOUS
  <2>6. /\ at \in {"Started", "RollBack", "Crashed"} /\ f.at = at /\ (at # "Crashed" => f.eo = e)
        /\ eo'[e].State = (IF at = "RollBack" THEN "Created" ELSE "LocalStart")
        /\ at # "RollBack" => eo'[e].Pending = Cores
        /\ m \in Nat /\ m = (IF at = "Crashed" THEN 1 ELSE 2)
        /\ Moves(c, m, <<f>>) /\ Fits(c, <<f>>)
    BY <1>8, <2>2, <2>3, <2>5
  <2> QED BY <1>1, <1>8, <1>10, <2>2, <2>4, <2>6, StartLeft
<1>12. CASE stack' = GoTo(c, "Crashed", NoEo)
  <2>1. PICK f : f = Frame("Crashed", w, NoEo, FALSE)
    OBVIOUS
  <2>2. f.at = "Crashed" /\ f.w = w
    BY <2>1 DEF Frame
  <2>3. stack' \in [Cores -> Seq(Frames)] /\ Moves(c, 1, <<f>>) /\ Fits(c, <<f>>)
    <3>1. Top(c).at \in Callbacks
      BY <1>2 DEF Callbacks
    <3> QED BY <1>1, <1>2, <1>12, <2>1, <3>1, LeavesCrashed DEF Leaves
  <2>4. TypeInv'
    BY <1>2, <1>8, <2>3 DEF TypeInv
  <2>5. PICK at, m : at = "Crashed" /\ m = 1
    OBVIOUS
  <2>6. /\ at \in {"Started", "RollBack", "Crashed"} /\ f.at = at /\ (at # "Crashed" => f.eo = e)
        /\ eo'[e].State = (IF at = "RollBack" THEN "Created" ELSE "LocalStart")
        /\ at # "RollBack" => eo'[e].Pending = Cores
        /\ m \in Nat /\ m = (IF at = "Crashed" THEN 1 ELSE 2)
        /\ Moves(c, m, <<f>>) /\ Fits(c, <<f>>)
    BY <1>8, <2>2, <2>3, <2>5
  <2> QED BY <1>1, <1>8, <1>10, <2>2, <2>4, <2>6, StartLeft
<1> QED BY <1>11, <1>12

(* What leaves a callback other than the start function. *)
LEMMA LeavesCallback ==
    ASSUME TypeInv, FramesInv, NEW c \in Cores, stack[c] # << >>,
           Top(c).at \in {"LocalStart", "Receive", "LocalStop"},
           stack' = LeaveCallback(c) \/ stack' = GoTo(c, "Crashed", NoEo)
    PROVE  \E new : Leaves(c, 1, new)
<1>1. Top(c).at \in Callbacks /\ Top(c).at # "Start"
  BY DEF Callbacks
<1>2. CASE stack' = LeaveCallback(c)
  <2>1. stack' = Return(c)
    BY <1>1, <1>2 DEF LeaveCallback
  <2>2. PICK new : new = << >>
    OBVIOUS
  <2>3. Leaves(c, 1, new)
    BY <1>1, <2>1, <2>2, LeavesReturn
  <2> QED BY <2>3
<1>3. CASE stack' = GoTo(c, "Crashed", NoEo)
  <2>1. PICK w : w = Top(c).w
    OBVIOUS
  <2>2. PICK new : new = <<Frame("Crashed", w, NoEo, FALSE)>>
    OBVIOUS
  <2>3. Leaves(c, 1, new)
    BY <1>1, <1>3, <2>1, <2>2, LeavesCrashed
  <2> QED BY <2>3
<1> QED BY <1>2, <1>3

LEMMA EndsLocal ==
    ASSUME SInv, NEW c \in Cores, At(c, "LocalStart") \/ At(c, "LocalStop"), table' \in [Workers -> Contexts],
           \A x \in Workers : KeepsEntry(x), eo' = EndCallback(c, eo),
           stack' = LeaveCallback(c) \/ stack' = GoTo(c, "Crashed", NoEo),
           fifo' = fifo, notifs' = notifs, live' = live, allow' = allow, failed' = failed
    PROVE  SInv'
<1>1. PICK e : e = Top(c).eo
  OBVIOUS
<1>2. /\ TypeInv /\ TableInv /\ FramesInv /\ stack[c] # << >> /\ Top(c).at \in {"LocalStart", "LocalStop"}
      /\ eo' = [eo EXCEPT ![e].Pending = @ \ {c}]
  BY <1>1 DEF SInv, At, EndCallback
<1>3. PICK t : t = Top(c)
  OBVIOUS
<1>4. e \in Eos /\ eo[e].State \in {"LocalStart", "LocalStop"}
  <2>1. FrameOK(c, t) /\ t.at \in {"LocalStart", "LocalStop"}
    BY <1>2, <1>3, TopIs DEF At
  <2> QED BY <1>1, <1>3, <2>1 DEF FrameOK, Has, Awaits
<1>5. 1 = Len(stack[c])
  <2>1. 1 \in 1 .. Len(stack[c]) /\ stack[c][1].at \in {"LocalStart", "LocalStop"} /\ Shape(stack[c])
    BY <1>2, TopIs DEF FramesInv
  <2> QED BY <2>1 DEF Shape
<1>6. PICK new : Leaves(c, 1, new)
  <2>1. Top(c).at \in {"LocalStart", "Receive", "LocalStop"}
    BY <1>2
  <2> QED BY <1>2, <2>1, LeavesCallback
<1>7. /\ eo' \in [Eos -> EoRecords]
      /\ eo'[e].State = eo[e].State /\ eo'[e].Context = eo[e].Context
      /\ eo'[e].Pending = eo[e].Pending \ {c}
      /\ \A d \in Eos : d # e => eo'[d] = eo[d]
  BY <1>2, <1>4, EoPendingType
<1>8. TypeInv'
  BY <1>2, <1>6, <1>7 DEF TypeInv, Leaves
<1>9. \A d \in Eos : d # e => KeepsEo(d)
  BY <1>7 DEF KeepsEo
<1> QED BY <1>4, <1>5, <1>6, <1>7, <1>8, <1>9, PendingStep

LEMMA EndsReceive ==
    ASSUME SInv, NEW c \in Cores, At(c, "Receive"), table' \in [Workers -> Contexts],
           \A x \in Workers : KeepsEntry(x), eo' = eo,
           stack' = LeaveCallback(c) \/ stack' = GoTo(c, "Crashed", NoEo),
           fifo' = fifo, notifs' = notifs, live' = live, allow' = allow, failed' = failed
    PROVE  SInv'
<1>1. TypeInv /\ FramesInv /\ stack[c] # << >> /\ Top(c).at = "Receive"
  BY DEF SInv, At
<1>2. PICK new : Leaves(c, 1, new)
  BY <1>1, LeavesCallback
<1>3. TypeInv'
  BY <1>1, <1>2 DEF TypeInv, Leaves
<1>4. PICK w \in Workers : w = Top(c).w
  BY <1>1, TopIs DEF Frames
<1>5. \A d \in Eos : KeepsEo(d)
  BY DEF KeepsEo
<1>6. 1 <= Len(stack[c])
  BY <1>1, TopIs
<1> QED BY <1>2, <1>3, <1>4, <1>5, <1>6, QuietStep

LEMMA CallbackReturnsStep ==
    ASSUME SInv, NEW c \in Cores, CallbackReturns(c)
    PROVE  SInv'
<1>1. /\ Top(c).at \in {"Start", "LocalStart", "Receive", "LocalStop"}
      /\ stack[c] # << >> /\ eo' = EndCallback(c, eo) /\ stack' = LeaveCallback(c)
      /\ table' = table /\ fifo' = fifo /\ notifs' = notifs /\ live' = live /\ allow' = allow /\ failed' = failed
  BY DEF CallbackReturns, Dispatching
<1>2. table' \in [Workers -> Contexts] /\ \A x \in Workers : KeepsEntry(x)
  BY <1>1 DEF SInv, TypeInv, KeepsEntry
<1>3. CASE Top(c).at = "Start"
  BY <1>1, <1>2, <1>3, EndsStart DEF At
<1>4. CASE Top(c).at \in {"LocalStart", "LocalStop"}
  BY <1>1, <1>2, <1>4, EndsLocal DEF At
<1>5. CASE Top(c).at = "Receive"
  <2>1. eo' = eo
    BY <1>1, <1>5 DEF EndCallback
  <2> QED BY <1>1, <1>2, <1>5, <2>1, EndsReceive DEF At
<1> QED BY <1>1, <1>3, <1>4, <1>5

(* User code runs in a callback or on a core that dispatches. *)
LEMMA NotDeleting ==
    ASSUME NEW c \in Cores, UserCode(c)
    PROVE  ~ At(c, "DeleteEo")
BY DEF UserCode, Dispatching, At, Callbacks

LEMMA TerminatedType ==
    ASSUME TypeInv, NEW w \in Workers, table' = [table EXCEPT ![w].State = "Terminating"]
    PROVE  /\ table' \in [Workers -> Contexts]
           /\ table'[w].State = "Terminating" /\ table'[w].WorkerId = table[w].WorkerId
           /\ table'[w].Eo = table[w].Eo /\ table'[w].CoreMask = table[w].CoreMask
           /\ \A x \in Workers : x # w => table'[x] = table[x]
<1>1. table \in [Workers -> Contexts] /\ "Terminating" \in WorkerStates
  BY DEF TypeInv, WorkerStates
<1>2. table' \in [Workers -> Contexts]
  BY <1>1 DEF Contexts
<1> QED BY <1>1, <1>2 DEF Contexts

LEMMA RequestedType ==
    ASSUME TypeInv, NEW w \in Workers, table' = [table EXCEPT ![w].TerminationRequested = TRUE]
    PROVE  table' \in [Workers -> Contexts] /\ \A x \in Workers : KeepsEntry(x)
<1>1. table \in [Workers -> Contexts]
  BY DEF TypeInv
<1>2. table' \in [Workers -> Contexts]
  BY <1>1 DEF Contexts
<1> QED BY <1>1, <1>2 DEF Contexts, KeepsEntry

LEMMA TerminateWorkerStep ==
    ASSUME SInv, NEW w \in Workers, TerminateWorker(w)
    PROVE  SInv'
<1>1. PICK c \in Cores : UserCode(c)
  BY DEF TerminateWorker
<1>2. /\ fifo' = fifo /\ notifs' = notifs /\ stack' = stack /\ live' = live /\ allow' = allow
      /\ TypeInv /\ TableInv /\ FramesInv /\ failed = {}
  BY DEF TerminateWorker, SInv
<1>3. PICK new : new = << >>
  OBVIOUS
<1>4. Leaves(c, 0, new) /\ 0 <= Len(stack[c])
  BY <1>1, <1>2, <1>3, LeavesNothing, NotDeleting, FrameTypes
<1>5. CASE TerminateActive(w)
  <2>1. /\ table[w].State = "Active" /\ table' = [table EXCEPT ![w].State = "Terminating"] /\ eo' = EoStop(w)
        /\ failed' = failed \cup Check("TerminateWorker", table[w].WorkerId = w) \cup EoStopCheck(w)
    BY <1>5 DEF TerminateActive
  <2>2. PICK e \in Eos : table[w].Eo = e
    BY <1>2, <2>1, Distinct DEF TableInv, EntryOK
  <2>3. eo[e].State = "Running" /\ table[w].WorkerId = w /\ e # NoEo
    BY <1>2, <2>1, <2>2, Distinct DEF TableInv, EntryOK, FitsEntry
  <2>4. failed' = failed
    BY <2>1, <2>2, <2>3 DEF Check, EoStopCheck
  <2>5. /\ table' \in [Workers -> Contexts]
        /\ table'[w].State = "Terminating" /\ table'[w].WorkerId = table[w].WorkerId
        /\ table'[w].Eo = e /\ table'[w].CoreMask = table[w].CoreMask
        /\ \A x \in Workers : x # w => table'[x] = table[x]
    BY <1>2, <2>1, <2>2, TerminatedType
  <2>6. /\ eo' \in [Eos -> EoRecords]
        /\ eo'[e].State = "LocalStop" /\ eo'[e].Context = eo[e].Context /\ eo'[e].Pending = Cores
        /\ \A d \in Eos : d # e => eo'[d] = eo[d]
    <3>1. "LocalStop" \in EoStates
      BY DEF EoStates
    <3>2. eo' = [eo EXCEPT ![e] = [@ EXCEPT !.State = "LocalStop", !.Pending = Cores]]
      BY <2>1, <2>2 DEF EoStop
    <3> QED BY <1>2, <3>1, <3>2, EoPhaseType
  <2>7. TypeInv'
    BY <1>2, <2>5, <2>6 DEF TypeInv
  <2>8. /\ \A x \in Workers : x # w => KeepsEntry(x)
        /\ \A d \in Eos : d # e => KeepsEo(d)
    BY <2>5, <2>6 DEF KeepsEntry, KeepsEo
  <2>9. w \notin notifs' /\ \A x \in notifs' : x \in notifs
    BY <1>2, <2>1 DEF TableInv, NotifOK
  <2> QED BY <1>2, <1>4, <2>2, <2>3, <2>4, <2>5, <2>6, <2>7, <2>8, <2>9, StopStep
<1>6. CASE TerminateDeploying(w)
  <2>1. /\ table[w].State = "Deploying" /\ table' = [table EXCEPT ![w].TerminationRequested = TRUE] /\ eo' = eo
        /\ failed' = failed \cup Check("TerminateWorker", table[w].WorkerId = w)
    BY <1>6 DEF TerminateDeploying
  <2>2. failed' = failed
    BY <1>2, <2>1 DEF Check, TableInv, EntryOK
  <2>3. table' \in [Workers -> Contexts] /\ \A x \in Workers : KeepsEntry(x)
    BY <1>2, <2>1, RequestedType
  <2>4. TypeInv' /\ \A d \in Eos : KeepsEo(d)
    BY <1>2, <2>1, <2>3 DEF TypeInv, KeepsEo
  <2> QED BY <1>2, <1>4, <2>2, <2>3, <2>4, QuietStep
<1> QED BY <1>5, <1>6 DEF TerminateWorker

LEMMA TerminateSelfStep ==
    ASSUME SInv, NEW c \in Cores, TerminateSelf(c)
    PROVE  SInv'
<1>1. PICK t : t = Top(c)
  OBVIOUS
<1>2. PICK w : w = t.w
  OBVIOUS
<1>3. /\ TypeInv /\ TableInv /\ FramesInv /\ failed = {}
      /\ stack[c] # << >> /\ Top(c).at \in {"Start", "LocalStart", "Receive"} /\ w = Top(c).w
      /\ stack' = LeaveCallback(c) \/ stack' = GoTo(c, "Crashed", NoEo)
      /\ fifo' = fifo /\ notifs' = notifs /\ live' = live /\ allow' = allow
  BY <1>1, <1>2 DEF SInv, TerminateSelf, Dispatching
<1>4. FrameOK(c, t) /\ t \in Frames
  BY <1>1, <1>3, TopIs
<1>5. /\ w \in Workers /\ t.eo \in Eos /\ table[w].Eo = t.eo
      /\ t.at \in {"Start", "LocalStart"} => table[w].State = "Deploying"
      /\ t.at = "Receive" => table[w].State \in {"Active", "Terminating"}
  BY <1>1, <1>2, <1>3, <1>4 DEF FrameOK, Has, Frames
<1>6. ASSUME table' \in [Workers -> Contexts], \A x \in Workers : KeepsEntry(x),
             eo' = EndCallback(c, eo), failed' = failed
      PROVE  SInv'
  <2>1. CASE Top(c).at = "Start"
    BY <1>3, <1>6, <2>1, EndsStart DEF At
  <2>2. CASE Top(c).at = "LocalStart"
    BY <1>3, <1>6, <2>2, EndsLocal DEF At
  <2>3. CASE Top(c).at = "Receive"
    <3>1. eo' = eo
      BY <1>6, <2>3 DEF EndCallback
    <3> QED BY <1>3, <1>6, <2>3, <3>1, EndsReceive DEF At
  <2> QED BY <1>3, <2>1, <2>2, <2>3
<1>7. CASE table[w].State = "Active"
  <2>1. /\ table' = [table EXCEPT ![w].State = "Terminating"] /\ eo' = EndCallback(c, EoStop(w))
        /\ failed' = failed \cup EoStopCheck(w)
    BY <1>3, <1>7 DEF TerminateSelf
  <2>2. PICK e \in Eos : table[w].Eo = e
    BY <1>5
  <2>3. eo[e].State = "Running" /\ table[w].WorkerId = w /\ e # NoEo
    BY <1>3, <1>5, <1>7, <2>2, Distinct DEF TableInv, EntryOK, FitsEntry
  <2>4. failed' = failed
    BY <2>1, <2>2, <2>3 DEF Check, EoStopCheck
  <2>5. /\ table' \in [Workers -> Contexts]
        /\ table'[w].State = "Terminating" /\ table'[w].WorkerId = table[w].WorkerId
        /\ table'[w].Eo = e /\ table'[w].CoreMask = table[w].CoreMask
        /\ \A x \in Workers : x # w => table'[x] = table[x]
    BY <1>3, <1>5, <2>1, <2>2, TerminatedType
  <2>r. Top(c).at = "Receive"
    BY <1>1, <1>3, <1>5, <1>7
  <2>6. /\ eo' \in [Eos -> EoRecords]
        /\ eo'[e].State = "LocalStop" /\ eo'[e].Context = eo[e].Context /\ eo'[e].Pending = Cores
        /\ \A d \in Eos : d # e => eo'[d] = eo[d]
    <3>1. "LocalStop" \in EoStates
      BY DEF EoStates
    <3>2. eo' = [eo EXCEPT ![e] = [@ EXCEPT !.State = "LocalStop", !.Pending = Cores]]
      BY <2>1, <2>2, <2>r DEF EoStop, EndCallback
    <3> QED BY <1>3, <3>1, <3>2, EoPhaseType
  <2>7. PICK new : Leaves(c, 1, new)
    BY <1>3, <2>r, LeavesCallback
  <2>8. TypeInv'
    BY <1>3, <2>5, <2>6, <2>7 DEF TypeInv, Leaves
  <2>9. /\ \A x \in Workers : x # w => KeepsEntry(x)
        /\ \A d \in Eos : d # e => KeepsEo(d)
    BY <2>5, <2>6 DEF KeepsEntry, KeepsEo
  <2>10. w \notin notifs' /\ \A x \in notifs' : x \in notifs
    BY <1>3, <1>7 DEF TableInv, NotifOK
  <2>11. 1 <= Len(stack[c]) /\ 1 \in Nat
    BY <1>3, TopIs
  <2> QED BY <1>3, <1>5, <2>2, <2>3, <2>4, <2>5, <2>6, <2>7, <2>8, <2>9, <2>10, <2>11, StopStep
<1>8. CASE table[w].State = "Deploying"
  <2>1. /\ table' = [table EXCEPT ![w].TerminationRequested = TRUE] /\ eo' = EndCallback(c, eo)
        /\ failed' = failed
    BY <1>3, <1>8 DEF TerminateSelf
  <2>2. table' \in [Workers -> Contexts] /\ \A x \in Workers : KeepsEntry(x)
    BY <1>3, <1>5, <2>1, RequestedType
  <2> QED BY <1>6, <2>1, <2>2
<1>9. CASE table[w].State = "Terminating"
  <2>1. table' = table /\ eo' = EndCallback(c, eo) /\ failed' = failed
    BY <1>3, <1>9 DEF TerminateSelf, Check
  <2>2. table' \in [Workers -> Contexts] /\ \A x \in Workers : KeepsEntry(x)
    BY <1>3, <2>1 DEF TypeInv, KeepsEntry
  <2> QED BY <1>6, <2>1, <2>2
<1> QED BY <1>1, <1>3, <1>5, <1>7, <1>8, <1>9

-----------------------------------------------------------------------------
(***************************************************************************)
(* Callbacks start                                                         *)
(***************************************************************************)
(* From the dispatch loop core c enters a callback of worker w, and nothing *)
(* that the others look at changes.                                         *)
LEMMA DispatchStep ==
    ASSUME SInv, table' \in [Workers -> Contexts], eo' \in [Eos -> EoRecords], live' \subseteq Messages,
           \A x \in Workers : KeepsEntry(x), \A d \in Eos : KeepsEo(d),
           fifo' = fifo, notifs' = notifs, allow' = allow, failed' = failed,
           NEW c \in Cores, Dispatching(c), NEW w \in Workers, NEW e \in Eos,
           NEW at \in {"LocalStart", "Receive", "LocalStop"}, NEW pad \in BOOLEAN,
           stack' = Call(c, at, w, e, pad), FrameOK(c, Frame(at, w, e, pad))
    PROVE  SInv'
<1>1. TypeInv /\ TableInv /\ FramesInv /\ failed = {}
  BY DEF SInv
<1>2. PICK f : f = Frame(at, w, e, pad)
  OBVIOUS
<1>3. f.at = at /\ f.w = w /\ f.eo = e /\ FrameOK(c, f) /\ f \in Frames
  <2>1. at \in Places
    BY DEF Places, Callbacks
  <2> QED BY <1>2, <2>1, FrameIs DEF Frame
<1>4. stack[c] = << >> /\ Len(stack[c]) = 0 /\ ~ At(c, "DeleteEo")
  BY DEF Dispatching, At
<1>5. stack' \in [Cores -> Seq(Frames)] /\ Moves(c, 0, <<f>>)
  <2>1. at \in Places /\ e \in Eos \cup {NoEo}
    BY DEF Places, Callbacks
  <2> QED BY <1>1, <1>2, <2>1, CallMoves
<1>6. TypeInv'
  BY <1>1, <1>5 DEF TypeInv
<1>7. Fits(c, <<f>>)
  <2>1. 0 - 0 + 1 <= MaxDepth
    BY WorkersAssumption
  <2> QED BY <1>1, <1>3, <1>4, <1>5, <2>1, SingleFits
<1>8. Touches(w, NoEo) /\ NoEo \in Eos \cup {NoEo}
  BY DEF Touches, KeepsEntry
<1>9. EntryOK(w)' /\ (w \in notifs' => NotifOK(w)')
  <2>1. KeepsEntry(w) /\ EntryOK(w) /\ (w \in notifs => NotifOK(w))
    BY <1>1 DEF TableInv
  <2>2. table[w].Eo # NoEo => KeepsEo(table[w].Eo)
    BY <1>1, Distinct
  <2> QED BY <1>1, <2>1, <2>2 DEF EntryOK, NotifOK, KeepsEntry, KeepsEo
<1>10. ASSUME NEW q \in Cores, NEW g, Stays(c, 0, q, g)
       PROVE  /\ FrameOK(q, g)' /\ (g.at = "DeleteEo" => g.eo # NoEo /\ table'[w].Eo # g.eo)
              /\ ~ Clash(f, g) /\ ~ Clash(g, f)
  <2>1. g \in Frames /\ FrameOK(q, g)
    <3>1. 0 \in Nat /\ 0 <= Len(stack[c])
      BY <1>4
    <3> QED BY <1>1, <1>10, <3>1, Stayers
  <2>2. FrameOK(q, g)'
    BY <1>1, <2>1, KeptFrame
  <2>3. ~ Clash(f, g) /\ ~ Clash(g, f)
    BY <1>3 DEF Clash, DeploySteps
  <2> QED BY <1>1, <2>1, <2>2, <2>3, Distinct DEF FrameOK
<1>11. FrameOK(c, f)'
  BY <1>1, <1>3, KeptFrame
<1>12. \A x \in notifs' : x # w => x \in notifs
  OBVIOUS
<1>13. \A q \in Cores : \A g : Stays(c, 0, q, g) =>
           /\ Works(w, g) => FrameOK(q, g)'
           /\ g.at = "DeleteEo" => g.eo # NoEo /\ table'[w].Eo # g.eo
           /\ ~ Clash(f, g) /\ ~ Clash(g, f)
  BY <1>10
<1>14. TableInv' /\ FramesInv'
  BY <1>1, <1>4, <1>5, <1>6, <1>7, <1>8, <1>9, <1>11, <1>12, <1>13, StepOne
<1>15. RingInv(fifo, DynamicInUse)'
  <2>1. PICK new : new = <<f>>
    OBVIOUS
  <2>2. Fits(c, new) /\ Moves(c, 0, new) /\ NoneAllocated(c, 0, new)
    <3>1. \A i \in 1 .. Len(new) : new[i] = f
      BY <2>1, SingleNew
    <3> QED BY <1>3, <1>5, <1>7, <2>1, <3>1 DEF NoneAllocated
  <2> QED BY <1>6, <2>2, RingSame DEF KeepsEntry
<1> QED BY <1>1, <1>6, <1>14, <1>15 DEF SInv

LEMMA EoLocalStartStep ==
    ASSUME SInv, NEW c \in Cores, NEW e \in Eos, EoLocalStart(c, e)
    PROVE  SInv'
<1>1. TypeInv /\ TableInv /\ FramesInv
  BY DEF SInv
<1>2. /\ Dispatching(c) /\ eo[e].State = "LocalStart" /\ c \in eo[e].Pending
      /\ table' = table /\ fifo' = fifo /\ notifs' = notifs /\ live' = live /\ allow' = allow /\ failed' = failed
  BY DEF EoLocalStart
<1>3. PICK w \in Workers : w = eo[e].Context /\ table[w].Eo = e
  BY <1>1, <1>2 DEF TableInv, EoOK
<1>4. table[w].State = "Deploying"
  BY <1>1, <1>2, <1>3, Distinct DEF TableInv, EntryOK, FitsEntry
<1>5. table' \in [Workers -> Contexts] /\ live' \subseteq Messages /\ \A x \in Workers : KeepsEntry(x)
  BY <1>1, <1>2 DEF TypeInv, KeepsEntry
<1>6. CASE c \in table[w].CoreMask
  <2>1. stack' = Call(c, "LocalStart", w, e, TRUE) /\ eo' = eo
    BY <1>3, <1>6 DEF EoLocalStart
  <2>2. FrameOK(c, Frame("LocalStart", w, e, TRUE))
    BY <1>2, <1>3, <1>4, <1>6 DEF Frame, FrameOK, Has, Awaits, Hosts
  <2>3. eo' \in [Eos -> EoRecords] /\ \A d \in Eos : KeepsEo(d)
    BY <1>1, <2>1 DEF TypeInv, KeepsEo
  <2> QED BY <1>2, <1>5, <2>1, <2>2, <2>3, DispatchStep
<1>7. CASE c \notin table[w].CoreMask
  <2>1. stack' = stack /\ eo' = [eo EXCEPT ![e].Pending = @ \ {c}]
    BY <1>3, <1>7 DEF EoLocalStart
  <2>2. PICK new : new = << >>
    OBVIOUS
  <2>3. Leaves(c, 0, new) /\ 0 = Len(stack[c]) /\ 0 \in Nat
    BY <1>1, <1>2, <2>1, <2>2, LeavesNothing DEF Dispatching, At
  <2>4. /\ eo' \in [Eos -> EoRecords]
        /\ eo'[e].State = eo[e].State /\ eo'[e].Context = eo[e].Context
        /\ eo'[e].Pending = eo[e].Pending \ {c}
        /\ \A d \in Eos : d # e => eo'[d] = eo[d]
    BY <1>1, <2>1, EoPendingType
  <2>5. TypeInv' /\ \A d \in Eos : d # e => KeepsEo(d)
    BY <1>1, <1>2, <1>5, <2>1, <2>4 DEF TypeInv, KeepsEo
  <2>6. eo[e].State \in {"LocalStart", "LocalStop"}
    BY <1>2
  <2> QED BY <1>2, <1>5, <2>3, <2>4, <2>5, <2>6, PendingStep
<1> QED BY <1>6, <1>7

LEMMA EoLocalStopStep ==
    ASSUME SInv, NEW c \in Cores, NEW e \in Eos, EoLocalStop(c, e)
    PROVE  SInv'
<1>1. TypeInv /\ TableInv /\ FramesInv
  BY DEF SInv
<1>2. /\ Dispatching(c) /\ eo[e].State = "LocalStop" /\ c \in eo[e].Pending
      /\ table' = table /\ fifo' = fifo /\ notifs' = notifs /\ live' = live /\ allow' = allow /\ failed' = failed
  BY DEF EoLocalStop
<1>3. PICK w \in Workers : w = eo[e].Context /\ table[w].Eo = e
  BY <1>1, <1>2 DEF TableInv, EoOK
<1>4. table[w].State = "Terminating"
  BY <1>1, <1>2, <1>3, Distinct DEF TableInv, EntryOK, FitsEntry
<1>5. table' \in [Workers -> Contexts] /\ live' \subseteq Messages /\ \A x \in Workers : KeepsEntry(x)
  BY <1>1, <1>2 DEF TypeInv, KeepsEntry
<1>6. CASE c \in table[w].CoreMask
  <2>1. stack' = Call(c, "LocalStop", w, e, FALSE) /\ eo' = eo
    BY <1>3, <1>6 DEF EoLocalStop
  <2>2. FrameOK(c, Frame("LocalStop", w, e, FALSE))
    BY <1>2, <1>3, <1>4, <1>6 DEF Frame, FrameOK, Has, Awaits, Hosts
  <2>3. eo' \in [Eos -> EoRecords] /\ \A d \in Eos : KeepsEo(d)
    BY <1>1, <2>1 DEF TypeInv, KeepsEo
  <2> QED BY <1>2, <1>5, <2>1, <2>2, <2>3, DispatchStep
<1>7. CASE c \notin table[w].CoreMask
  <2>1. stack' = stack /\ eo' = [eo EXCEPT ![e].Pending = @ \ {c}]
    BY <1>3, <1>7 DEF EoLocalStop
  <2>2. PICK new : new = << >>
    OBVIOUS
  <2>3. Leaves(c, 0, new) /\ 0 = Len(stack[c]) /\ 0 \in Nat
    BY <1>1, <1>2, <2>1, <2>2, LeavesNothing DEF Dispatching, At
  <2>4. /\ eo' \in [Eos -> EoRecords]
        /\ eo'[e].State = eo[e].State /\ eo'[e].Context = eo[e].Context
        /\ eo'[e].Pending = eo[e].Pending \ {c}
        /\ \A d \in Eos : d # e => eo'[d] = eo[d]
    BY <1>1, <2>1, EoPendingType
  <2>5. TypeInv' /\ \A d \in Eos : d # e => KeepsEo(d)
    BY <1>1, <1>2, <1>5, <2>1, <2>4 DEF TypeInv, KeepsEo
  <2>6. eo[e].State \in {"LocalStart", "LocalStop"}
    BY <1>2
  <2> QED BY <1>2, <1>5, <2>3, <2>4, <2>5, <2>6, PendingStep
<1> QED BY <1>6, <1>7

LEMMA ReceiveStep ==
    ASSUME SInv, QuietInv, NEW c \in Cores, NEW e \in Eos, Receive(c, e)
    PROVE  SInv'
<1>1. TypeInv /\ TableInv /\ FramesInv /\ failed = {}
  BY DEF SInv
<1>2. /\ Dispatching(c) /\ eo[e].State = "Running" /\ eo[e].Queue # << >>
      /\ table' = table /\ fifo' = fifo /\ notifs' = notifs /\ allow' = allow
      /\ live' = live \ {Head(eo[e].Queue)} /\ eo' = [eo EXCEPT ![e].Queue = Tail(@)]
  BY DEF Receive
<1>3. PICK w \in Workers : w = eo[e].Context /\ table[w].Eo = e
  BY <1>1, <1>2 DEF TableInv, EoOK
<1>4. table[w].State = "Active"
  <2>1. table[w].State \in WorkerStates /\ e # NoEo /\ EntryOK(w) /\ QuietEntry(w)
    BY <1>1, Distinct DEF TypeInv, Contexts, TableInv, QuietInv
  <2> QED BY <1>2, <1>3, <2>1 DEF EntryOK, FitsEntry, WorkerStates, QuietEntry
<1>5. c \in table[w].CoreMask /\ stack' = Call(c, "Receive", w, e, TRUE) /\ failed' = failed
  BY <1>3, <1>4 DEF Receive, Check
<1>6. FrameOK(c, Frame("Receive", w, e, TRUE))
  BY <1>2, <1>3, <1>4, <1>5 DEF Frame, FrameOK, Has, Hosts
<1>7. /\ eo' \in [Eos -> EoRecords]
      /\ \A d \in Eos : KeepsEo(d)
  <2>1. PICK q : q = Tail(eo[e].Queue)
    OBVIOUS
  <2>2. q \in Seq(Messages)
    <3>1. eo[e].Queue \in Seq(Messages)
      BY <1>1 DEF TypeInv, EoRecords
    <3> QED BY <1>2, <2>1, <3>1
  <2>3. eo' = [eo EXCEPT ![e].Queue = q]
    BY <1>2, <2>1
  <2> QED BY <1>1, <2>2, <2>3, EoQueueType DEF KeepsEo
<1>8. table' \in [Workers -> Contexts] /\ live' \subseteq Messages /\ \A x \in Workers : KeepsEntry(x)
  BY <1>1, <1>2 DEF TypeInv, KeepsEntry
<1> QED BY <1>2, <1>5, <1>6, <1>7, <1>8, DispatchStep

(* The last local stop is done: no other frame works on this worker.        *)
LEMMA EoStopStartStep ==
    ASSUME SInv, NEW c \in Cores, NEW e \in Eos, EoStopStart(c, e)
    PROVE  SInv'
<1>1. TypeInv /\ TableInv /\ FramesInv /\ failed = {}
  BY DEF SInv
<1>2. /\ Dispatching(c) /\ eo[e].State = "LocalStop" /\ eo[e].Pending = {}
      /\ eo' = [eo EXCEPT ![e].State = "Stop"]
      /\ table' = table /\ fifo' = fifo /\ notifs' = notifs /\ live' = live /\ allow' = allow /\ failed' = failed
  BY DEF EoStopStart
<1>3. PICK w \in Workers : w = eo[e].Context /\ table[w].Eo = e
  BY <1>1, <1>2 DEF TableInv, EoOK
<1>4. table[w].State = "Terminating" /\ e # NoEo /\ table[w].WorkerId = w
  <2>1. table[w].State \in WorkerStates /\ e # NoEo /\ EntryOK(w)
    BY <1>1, Distinct DEF TypeInv, Contexts, TableInv
  <2> QED BY <1>2, <1>3, <2>1 DEF EntryOK, FitsEntry, WorkerStates
<1>5. PICK f : f = Frame("Stop", w, e, FALSE)
  OBVIOUS
<1>6. f.at = "Stop" /\ f.w = w /\ f.eo = e
  BY <1>5 DEF Frame
<1>7. stack' \in [Cores -> Seq(Frames)] /\ Moves(c, 0, <<f>>)
  <2>1. "Stop" \in Places /\ e \in Eos \cup {NoEo} /\ stack' = Call(c, "Stop", w, e, FALSE)
    BY <1>3 DEF Places, Callbacks, EoStopStart
  <2> QED BY <1>1, <1>5, <2>1, CallMoves
<1>8. /\ eo' \in [Eos -> EoRecords]
      /\ eo'[e].State = "Stop" /\ eo'[e].Context = w
      /\ \A d \in Eos : d # e => eo'[d] = eo[d]
  <2>1. "Stop" \in EoStates
    BY DEF EoStates
  <2> QED BY <1>1, <1>2, <1>3, <2>1, EoStateType
<1>9. TypeInv'
  BY <1>1, <1>2, <1>7, <1>8 DEF TypeInv
<1>10. stack[c] = << >> /\ Len(stack[c]) = 0 /\ ~ At(c, "DeleteEo") /\ 0 <= Len(stack[c]) /\ 0 \in Nat
  BY <1>2 DEF Dispatching, At
<1>11. Fits(c, <<f>>)
  <2>1. 0 - 0 + 1 <= MaxDepth
    BY WorkersAssumption
  <2> QED BY <1>1, <1>6, <1>7, <1>10, <2>1, SingleFits
<1>12. Touches(w, e) /\ e \in Eos \cup {NoEo}
  <2>1. \A x \in Workers : x # w => table[x].Eo # e
    BY <1>1, <1>3, <1>4, OwnEo
  <2> QED BY <1>2, <1>8, <2>1 DEF Touches, KeepsEntry, KeepsEo
<1>13. ASSUME NEW q \in Cores, NEW g, Stays(c, 0, q, g)
       PROVE  /\ ~ Works(w, g)
              /\ g.at = "DeleteEo" => g.eo # e /\ table'[w].Eo # g.eo
              /\ ~ Clash(f, g) /\ ~ Clash(g, f)
  <2>1. g \in Frames /\ FrameOK(q, g)
    BY <1>1, <1>10, <1>13, Stayers
  <2>2. ~ Works(w, g)
    BY <1>2, <1>3, <1>4, <2>1 DEF Works, FrameOK, Has, Awaits, Frames, Callbacks, DeploySteps
  <2>3. ~ Clash(f, g) /\ ~ Clash(g, f)
    BY <1>2, <1>6, <2>1 DEF Clash, DeploySteps, FrameOK
  <2>4. g.at = "DeleteEo" => g.eo # e /\ table'[w].Eo # g.eo
    BY <1>2, <1>3, <2>1 DEF FrameOK
  <2> QED BY <2>2, <2>3, <2>4
<1>14. FrameOK(c, f)' /\ EntryOK(w)' /\ EoOK(e)' /\ w \notin notifs
  <2>1. FrameOK(c, f)'
    BY <1>2, <1>3, <1>4, <1>6, <1>8 DEF FrameOK, Has
  <2>2. EntryOK(w)' /\ EoOK(e)'
    BY <1>2, <1>3, <1>4, <1>8 DEF EntryOK, EoOK, FitsEntry
  <2>3. w \notin notifs
    BY <1>1, <1>4 DEF TableInv, NotifOK
  <2> QED BY <2>1, <2>2, <2>3
<1>15. \A x \in notifs' : x \in notifs
  BY <1>2
<1>16. \A q \in Cores : \A g : Stays(c, 0, q, g) =>
           /\ Works(w, g) => FrameOK(q, g)'
           /\ g.at = "DeleteEo" => g.eo # e /\ table'[w].Eo # g.eo
           /\ ~ Clash(f, g) /\ ~ Clash(g, f)
  BY <1>13
<1>17. TableInv' /\ FramesInv'
  BY <1>1, <1>7, <1>9, <1>10, <1>11, <1>12, <1>14, <1>15, <1>16, StepOne
<1>18. RingInv(fifo, DynamicInUse)'
  <2>1. PICK new : new = <<f>>
    OBVIOUS
  <2>2. Fits(c, new) /\ Moves(c, 0, new) /\ NoneAllocated(c, 0, new)
    <3>1. \A i \in 1 .. Len(new) : new[i] = f
      BY <2>1, SingleNew
    <3> QED BY <1>6, <1>7, <1>11, <2>1, <3>1 DEF NoneAllocated
  <2> QED BY <1>2, <1>9, <2>2, RingSame
<1> QED BY <1>1, <1>2, <1>9, <1>17, <1>18 DEF SInv

(* The last local start is done: no frame works on this worker.             *)
LEMMA EoStartDoneStep ==
    ASSUME SInv, NEW e \in Eos, EoStartDone(e)
    PROVE  SInv'
<1>1. TypeInv /\ TableInv /\ FramesInv /\ failed = {}
  BY DEF SInv
<1>2. /\ eo[e].State = "LocalStart" /\ eo[e].Pending = {}
      /\ eo' = [eo EXCEPT ![e].State = "Running"] /\ notifs' = notifs \cup {eo[e].Context}
      /\ table' = table /\ fifo' = fifo /\ stack' = stack /\ live' = live /\ allow' = allow /\ failed' = failed
  BY DEF EoStartDone
<1>3. PICK w \in Workers : w = eo[e].Context /\ table[w].Eo = e
  BY <1>1, <1>2 DEF TableInv, EoOK
<1>4. table[w].State = "Deploying" /\ e # NoEo /\ table[w].WorkerId = w
  <2>1. table[w].State \in WorkerStates /\ e # NoEo /\ EntryOK(w)
    BY <1>1, Distinct DEF TypeInv, Contexts, TableInv
  <2> QED BY <1>2, <1>3, <2>1 DEF EntryOK, FitsEntry, WorkerStates
<1>5. /\ eo' \in [Eos -> EoRecords]
      /\ eo'[e].State = "Running" /\ eo'[e].Context = w
      /\ \A d \in Eos : d # e => eo'[d] = eo[d]
  <2>1. "Running" \in EoStates
    BY DEF EoStates
  <2> QED BY <1>1, <1>2, <1>3, <2>1, EoStateType
<1>6. TypeInv' /\ \A x \in notifs' : x # w => x \in notifs
  BY <1>1, <1>2, <1>3, <1>5 DEF TypeInv
<1>7. Touches(w, e) /\ e \in Eos \cup {NoEo}
  <2>1. \A x \in Workers : x # w => table[x].Eo # e
    BY <1>1, <1>3, <1>4, OwnEo
  <2> QED BY <1>2, <1>5, <2>1 DEF Touches, KeepsEntry, KeepsEo
<1>8. ASSUME NEW q \in Cores, NEW g, Stays(q, 0, q, g)
      PROVE  ~ Works(w, g) /\ (g.at = "DeleteEo" => g.eo # e /\ table'[w].Eo # g.eo)
  <2>1. g \in Frames /\ FrameOK(q, g)
    BY <1>1, <1>8, FrameTypes DEF Stays, FramesInv
  <2>2. ~ Works(w, g)
    BY <1>2, <1>3, <1>4, <2>1 DEF Works, FrameOK, Has, Awaits, Frames, Callbacks, DeploySteps
  <2> QED BY <1>2, <1>3, <2>1, <2>2 DEF FrameOK
<1>9. EntryOK(w)' /\ EoOK(e)' /\ NotifOK(w)'
  BY <1>2, <1>3, <1>4, <1>5 DEF EntryOK, EoOK, FitsEntry, NotifOK
<1>10. \A q \in Cores : \A g : Stays(q, 0, q, g) =>
           /\ Works(w, g) => FrameOK(q, g)'
           /\ g.at = "DeleteEo" => g.eo # e /\ table'[w].Eo # g.eo
  BY <1>8
<1>11. TableInv' /\ FramesInv'
  BY <1>1, <1>2, <1>6, <1>7, <1>9, <1>10, StepStill
<1>12. RingInv(fifo, DynamicInUse)'
  <2>1. \A x \in Ids : AllocatedBy(x)' <=> AllocatedBy(x)
    BY <1>2 DEF AllocatedBy
  <2> QED BY <1>2, <1>6, <2>1, RingSameIds
<1> QED BY <1>1, <1>2, <1>6, <1>11, <1>12 DEF SInv

LEMMA DropEventStep ==
    ASSUME SInv, NEW e \in Eos, DropEvent(e)
    PROVE  SInv'
<1>1. TypeInv /\ TableInv /\ FramesInv /\ failed = {}
  BY DEF SInv
<1>2. /\ eo[e].State \in {"LocalStop", "Stop"} /\ eo[e].Queue # << >>
      /\ live' = live \ {Head(eo[e].Queue)} /\ eo' = [eo EXCEPT ![e].Queue = Tail(@)]
      /\ table' = table /\ fifo' = fifo /\ notifs' = notifs /\ stack' = stack /\ allow' = allow /\ failed' = failed
  BY DEF DropEvent
<1>3. eo' \in [Eos -> EoRecords] /\ \A d \in Eos : KeepsEo(d)
  <2>1. PICK q : q = Tail(eo[e].Queue)
    OBVIOUS
  <2>2. q \in Seq(Messages)
    <3>1. eo[e].Queue \in Seq(Messages)
      BY <1>1 DEF TypeInv, EoRecords
    <3> QED BY <1>2, <2>1, <3>1
  <2>3. eo' = [eo EXCEPT ![e].Queue = q]
    BY <1>2, <2>1
  <2> QED BY <1>1, <2>2, <2>3, EoQueueType DEF KeepsEo
<1>4. TypeInv' /\ \A x \in Workers : KeepsEntry(x)
  BY <1>1, <1>2, <1>3 DEF TypeInv, KeepsEntry
<1>5. PICK w \in Workers : w = eo[e].Context
  BY <1>1, <1>2 DEF TableInv, EoOK
<1>6. Touches(w, NoEo) /\ NoEo \in Eos \cup {NoEo}
  BY <1>2, <1>3, <1>4 DEF Touches
<1>7. ASSUME NEW q \in Cores, NEW g, Stays(q, 0, q, g)
      PROVE  FrameOK(q, g)' /\ (g.at = "DeleteEo" => g.eo # NoEo /\ table'[w].Eo # g.eo)
  <2>1. g \in Frames /\ FrameOK(q, g)
    BY <1>1, <1>7, FrameTypes DEF Stays, FramesInv
  <2>2. FrameOK(q, g)'
    BY <1>1, <1>3, <1>4, <2>1, KeptFrame
  <2> QED BY <1>1, <1>2, <2>1, <2>2, Distinct DEF FrameOK
<1>8. EntryOK(w)' /\ (w \in notifs' => NotifOK(w)')
  <2>1. KeepsEntry(w) /\ EntryOK(w) /\ (w \in notifs => NotifOK(w))
    BY <1>1, <1>4 DEF TableInv
  <2>2. table[w].Eo # NoEo => KeepsEo(table[w].Eo)
    BY <1>1, <1>3, Distinct
  <2> QED BY <1>2, <2>1, <2>2 DEF EntryOK, NotifOK, KeepsEntry, KeepsEo
<1>9. \A x \in notifs' : x # w => x \in notifs
  BY <1>2
<1>10. \A q \in Cores : \A g : Stays(q, 0, q, g) =>
           /\ Works(w, g) => FrameOK(q, g)'
           /\ g.at = "DeleteEo" => g.eo # NoEo /\ table'[w].Eo # g.eo
  BY <1>7
<1>11. TableInv' /\ FramesInv'
  BY <1>1, <1>2, <1>4, <1>6, <1>8, <1>9, <1>10, StepStill
<1>12. RingInv(fifo, DynamicInUse)'
  <2>1. \A x \in Ids : AllocatedBy(x)' <=> AllocatedBy(x)
    BY <1>2 DEF AllocatedBy
  <2> QED BY <1>2, <1>4, <2>1, RingSameIds
<1> QED BY <1>1, <1>2, <1>4, <1>11, <1>12 DEF SInv

-----------------------------------------------------------------------------
(***************************************************************************)
(* Messages are sent and flushed                                           *)
(***************************************************************************)
LEMMA SendMessageStep ==
    ASSUME SInv, NEW m \in Messages, NEW w \in Workers, SendMessage(m, w)
    PROVE  SInv'
<1>1. TypeInv /\ TableInv /\ FramesInv /\ failed = {}
  BY DEF SInv
<1>2. /\ live' = live \cup {m}
      /\ fifo' = fifo /\ notifs' = notifs /\ stack' = stack /\ allow' = allow /\ failed' = failed
  BY DEF SendMessage
<1>3. PICK c \in Cores : UserCode(c)
  BY DEF SendMessage
<1>4. PICK new : new = << >>
  OBVIOUS
<1>5. Leaves(c, 0, new) /\ 0 <= Len(stack[c]) /\ 0 \in Nat
  BY <1>1, <1>2, <1>3, <1>4, LeavesNothing, NotDeleting, FrameTypes
<1>6. /\ table' \in [Workers -> Contexts] /\ \A x \in Workers : KeepsEntry(x)
      /\ eo' \in [Eos -> EoRecords] /\ \A d \in Eos : KeepsEo(d)
  <2>1. CASE table[w].State = "Active"
    <3>1. table' = table /\ eo' = Enqueue(table[w].Eo, <<m>>)
      BY <2>1 DEF SendMessage
    <3>2. PICK e \in Eos : table[w].Eo = e
      BY <1>1, <2>1, Distinct DEF TableInv, EntryOK
    <3>3. PICK q : q = eo[e].Queue \o <<m>>
      OBVIOUS
    <3>4. q \in Seq(Messages)
      <4>1. eo[e].Queue \in Seq(Messages)
        BY <1>1 DEF TypeInv, EoRecords
      <4> QED BY <3>3, <4>1
    <3>5. eo' = [eo EXCEPT ![e].Queue = q]
      BY <3>1, <3>2, <3>3 DEF Enqueue
    <3> QED BY <1>1, <3>1, <3>4, <3>5, EoQueueType DEF KeepsEo, KeepsEntry, TypeInv
  <2>2. CASE table[w].State # "Active"
    <3>1. /\ eo' = eo /\ Len(table[w].MessageBuffer) < BufferLength
          /\ table' = [table EXCEPT ![w].MessageBuffer = Append(@, m)]
      BY <2>2 DEF SendMessage
    <3>2. PICK b : b = Append(table[w].MessageBuffer, m)
      OBVIOUS
    <3>3. b \in Buffers
      <4>1. table[w].MessageBuffer \in Buffers
        BY <1>1 DEF TypeInv, Contexts
      <4> QED BY <3>1, <3>2, <4>1, BuffersAre
    <3>4. table' = [table EXCEPT ![w].MessageBuffer = b] /\ table \in [Workers -> Contexts]
      BY <1>1, <3>1, <3>2 DEF TypeInv
    <3>5. table' \in [Workers -> Contexts] /\ \A x \in Workers : KeepsEntry(x)
      BY <3>3, <3>4 DEF Contexts, KeepsEntry
    <3> QED BY <1>1, <3>1, <3>5 DEF TypeInv, KeepsEo
  <2> QED BY <2>1, <2>2
<1>7. TypeInv'
  BY <1>1, <1>2, <1>6 DEF TypeInv
<1> QED BY <1>2, <1>5, <1>6, <1>7, QuietStep

(* Frames find what they rely on as long as table and EOs are the same. *)
LEMMA SameFrames ==
    ASSUME FramesInv, UNCHANGED <<stack, table, eo>>
    PROVE  FramesInv'
<1>1. \A c \in Cores : Shape(stack'[c])
  BY DEF FramesInv
<1>2. ASSUME NEW c \in Cores, NEW i \in 1 .. Len(stack'[c])
      PROVE  FrameOK(c, stack[c][i])'
  <2>1. PICK f : f = stack[c][i]
    OBVIOUS
  <2>2. FrameOK(c, f)
    BY <2>1 DEF FramesInv
  <2>3. FrameOK(c, f)'
    BY <2>2 DEF FrameOK, Has, Awaits, Hosts
  <2>4. f = stack'[c][i]
    BY <2>1
  <2> QED BY <2>3, <2>4 DEF FrameOK, Has, Awaits, Hosts
<1>3. Apart'
  BY DEF FramesInv, Apart
<1> QED BY <1>1, <1>2, <1>3 DEF FramesInv

LEMMA DisableStep ==
    ASSUME SInv, NEW c \in Cores, DisableWorkerDeployment(c)
    PROVE  SInv'
<1>1. TypeInv /\ TableInv /\ FramesInv
  BY DEF SInv
<1>2. /\ table' = table /\ fifo' = fifo /\ eo' = eo /\ notifs' = notifs /\ stack' = stack
      /\ live' = live /\ failed' = failed /\ allow' = allow \ {c} /\ stack[c] = << >>
  BY DEF DisableWorkerDeployment, Dispatching
<1>3. TypeInv'
  BY <1>1, <1>2 DEF TypeInv
<1>4. TableInv'
  BY <1>1, <1>2 DEF TableInv, EntryOK, EoOK, NotifOK, Doomed, At, Top
<1>5. FramesInv'
  BY <1>1, <1>2, SameFrames
<1>6. DynamicInUse' = DynamicInUse
  BY <1>2 DEF DynamicInUse
<1> QED BY <1>2, <1>3, <1>4, <1>5, <1>6 DEF SInv

(* Induction over the natural numbers, for a set. *)
LEMMA SetInduction ==
    ASSUME NEW P, 0 \in P, \A n \in P : n \in Nat => n + 1 \in P
    PROVE  Nat \subseteq P
<1> DEFINE T == Nat \ P
           R == OpToRel(<, Nat)
<1> SUFFICES ASSUME T # {} PROVE FALSE
  OBVIOUS
<1>1. IsWellFoundedOn(R, Nat) /\ T \subseteq Nat
  BY NatLessThanWellFounded
<1> HIDE DEF R
<1>2. PICK x \in T : \A y \in T : ~ (<<y, x>> \in R)
  BY <1>1, WFMin
<1>3. \A y, z \in Nat : y < z => <<y, z>> \in R
  BY DEF R, OpToRel
<1>4. x - 1 \in T /\ x \in Nat
  <2>1. x \in Nat /\ x \notin P /\ x # 0
    OBVIOUS
  <2>2. x - 1 \in Nat /\ (x - 1) + 1 = x
    BY <2>1
  <2>3. x - 1 \notin P
    BY <2>1, <2>2
  <2> QED BY <2>1, <2>2, <2>3
<1>5. <<x - 1, x>> \in R
  BY <1>3, <1>4
<1> QED BY <1>2, <1>4, <1>5

(* Kept is a recursive function: there is one. *)
KeptUpTo(g, s, keep, n) ==
    IF n = 0 THEN << >> ELSE IF s[n] \in keep THEN Append(g[n - 1], s[n]) ELSE g[n - 1]

LEMMA KeptExists ==
    ASSUME NEW X, NEW s \in Seq(X), NEW keep
    PROVE  \E g : /\ g = [n \in 0 .. Len(s) |-> KeptUpTo(g, s, keep, n)]
                  /\ Kept(s, keep) = g[Len(s)]
<1> DEFINE Good(g, m) == DOMAIN g = 0 .. m /\ \A n \in 0 .. m : g[n] = KeptUpTo(g, s, keep, n)
           P == {m \in Nat : \E g : Good(g, m)}
<1>1. 0 \in P
  <2> DEFINE g == [n \in 0 .. 0 |-> << >>]
  <2>1. Good(g, 0)
    BY DEF KeptUpTo
  <2> QED BY <2>1
<1>2. ASSUME NEW m \in P PROVE m + 1 \in P
  <2>1. PICK g : Good(g, m)
    OBVIOUS
  <2> DEFINE h == [n \in 0 .. m + 1 |-> IF n <= m THEN g[n] ELSE KeptUpTo(g, s, keep, m + 1)]
  <2>2. DOMAIN h = 0 .. m + 1
    OBVIOUS
  <2>3. ASSUME NEW n \in 0 .. m + 1 PROVE h[n] = KeptUpTo(h, s, keep, n)
    <3>1. CASE n <= m
      BY <2>1, <3>1 DEF KeptUpTo
    <3>2. CASE n = m + 1
      BY <2>1, <3>2 DEF KeptUpTo
    <3> QED BY <3>1, <3>2
  <2> QED BY <2>2, <2>3
<1>3. Len(s) \in P
  <2>1. Len(s) \in Nat
    OBVIOUS
  <2> QED BY <1>1, <1>2, <2>1, SetInduction
<1>4. PICK g : Good(g, Len(s))
  BY <1>3
<1>5. g = [n \in 0 .. Len(s) |-> KeptUpTo(g, s, keep, n)]
  BY <1>4
<1> DEFINE f == CHOOSE f : f = [n \in 0 .. Len(s) |-> KeptUpTo(f, s, keep, n)]
<1>6. f = [n \in 0 .. Len(s) |-> KeptUpTo(f, s, keep, n)]
  BY <1>5
<1>7. Kept(s, keep) = f[Len(s)]
  BY DEF Kept, KeptUpTo
<1> QED BY <1>6, <1>7

(* What Kept keeps: the elements of keep that are in s, each as often as    *)
(* before or less.                                                          *)
LEMMA AppendIn ==
    ASSUME NEW X, NEW s \in Seq(X), NEW x \in X
    PROVE  In(Append(s, x)) = In(s) \cup {x}
<1> DEFINE t == Append(s, x)
<1>1. Len(t) = Len(s) + 1 /\ Len(s) \in Nat /\ t[Len(s) + 1] = x /\ \A i \in 1 .. Len(s) : t[i] = s[i]
  OBVIOUS
<1> HIDE DEF t
<1>2. In(t) = In(s) \cup {x}
  BY <1>1 DEF In
<1> QED BY <1>2 DEF t

LEMMA AppendOnce ==
    ASSUME NEW X, NEW s \in Seq(X), NEW x \in X, Once(s), x \notin In(s)
    PROVE  Once(Append(s, x))
<1> DEFINE t == Append(s, x)
<1>1. Len(t) = Len(s) + 1 /\ Len(s) \in Nat /\ t[Len(s) + 1] = x /\ \A i \in 1 .. Len(s) : t[i] = s[i]
  OBVIOUS
<1> HIDE DEF t
<1>2. Once(t)
  BY <1>1 DEF In, Once
<1> QED BY <1>2 DEF t

LEMMA KeptIs ==
    ASSUME NEW X, NEW s \in Seq(X), NEW keep
    PROVE  /\ Kept(s, keep) \in Seq(X)
           /\ In(Kept(s, keep)) = In(s) \cap keep
           /\ Once(s) => Once(Kept(s, keep))
<1>1. PICK g : g = [n \in 0 .. Len(s) |-> KeptUpTo(g, s, keep, n)] /\ Kept(s, keep) = g[Len(s)]
  BY KeptExists
<1> DEFINE Prefix(n) == {s[i] : i \in 1 .. n}
           Good(n) == /\ g[n] \in Seq(X)
                      /\ In(g[n]) = Prefix(n) \cap keep
                      /\ Once(s) => Once(g[n])
           P == {n \in Nat : n <= Len(s) => Good(n)}
<1>2. 0 \in P
  <2>1. g[0] = << >>
    BY <1>1 DEF KeptUpTo
  <2>2. In(g[0]) = {} /\ Once(g[0]) /\ g[0] \in Seq(X)
    BY <2>1 DEF In, Once
  <2>3. Prefix(0) = {}
    OBVIOUS
  <2> QED BY <2>2, <2>3
<1>3. ASSUME NEW n \in P, n + 1 <= Len(s) PROVE Good(n + 1)
  <2>1. n \in Nat /\ Good(n) /\ s[n + 1] \in X /\ n + 1 \in 0 .. Len(s) /\ n + 1 # 0 /\ (n + 1) - 1 = n
    BY <1>3
  <2>2. g[n + 1] = IF s[n + 1] \in keep THEN Append(g[n], s[n + 1]) ELSE g[n]
    BY <1>1, <2>1 DEF KeptUpTo
  <2>3. Prefix(n + 1) = Prefix(n) \cup {s[n + 1]}
    BY <2>1
  <2>4. Once(s) => s[n + 1] \notin Prefix(n)
    BY <2>1 DEF Once
  <2>5. CASE s[n + 1] \in keep
    <3>1. g[n + 1] = Append(g[n], s[n + 1])
      BY <2>2, <2>5
    <3>2. ASSUME Once(s) PROVE Once(g[n + 1])
      <4>1. PICK t \in Seq(X) : t = g[n]
        BY <2>1
      <4>2. Once(t) /\ s[n + 1] \notin In(t) /\ s[n + 1] \in X
        BY <2>1, <2>4, <3>2, <4>1
      <4>3. Once(Append(t, s[n + 1]))
        BY <4>2, AppendOnce
      <4> QED BY <3>1, <4>1, <4>3
    <3>3. In(g[n + 1]) = In(g[n]) \cup {s[n + 1]} /\ g[n + 1] \in Seq(X)
      BY <2>1, <3>1, AppendIn
    <3> QED BY <2>1, <2>3, <2>5, <3>2, <3>3
  <2>6. CASE s[n + 1] \notin keep
    BY <2>1, <2>2, <2>3, <2>6
  <2> QED BY <2>5, <2>6
<1>4. \A n \in P : n \in Nat => n + 1 \in P
  <2> SUFFICES ASSUME NEW n \in P, n \in Nat PROVE n + 1 \in P
    OBVIOUS
  <2>1. n + 1 <= Len(s) => Good(n + 1)
    BY <1>3
  <2> HIDE DEF Good
  <2> QED BY <2>1
<1>5. Len(s) \in P /\ Len(s) \in Nat
  <2>1. Nat \subseteq P
    <3> HIDE DEF P
    <3>1. PICK Q : Q = P
      OBVIOUS
    <3>2. 0 \in Q /\ \A n \in Q : n \in Nat => n + 1 \in Q
      BY <1>2, <1>4, <3>1
    <3>3. Nat \subseteq Q
      BY <3>2, SetInduction
    <3> QED BY <3>1, <3>3
  <2>2. Len(s) \in Nat
    OBVIOUS
  <2> HIDE DEF P
  <2> QED BY <2>1, <2>2
<1>6. Good(Len(s))
  BY <1>5
<1>7. Prefix(Len(s)) = In(s)
  BY DEF In
<1> QED BY <1>1, <1>6, <1>7

LEMMA FlushedType ==
    ASSUME TypeInv, NEW w \in Workers, NEW state \in WorkerStates,
           table' = [table EXCEPT ![w].State = state, ![w].MessageBuffer = << >>]
    PROVE  /\ table' \in [Workers -> Contexts]
           /\ table'[w].State = state /\ table'[w].WorkerId = table[w].WorkerId
           /\ table'[w].Eo = table[w].Eo /\ table'[w].CoreMask = table[w].CoreMask
           /\ table'[w].MessageBuffer = << >>
           /\ table'[w].TerminationRequested = table[w].TerminationRequested
           /\ \A x \in Workers : x # w => table'[x] = table[x]
<1>1. table \in [Workers -> Contexts]
  BY DEF TypeInv
<1>2. PICK b : b = << >> /\ b \in Buffers
  BY BuffersAre
<1>3. PICK ctx \in Contexts : ctx = table[w]
  BY <1>1
<1>4. PICK r : r = [ctx EXCEPT !.State = state, !.MessageBuffer = b]
  OBVIOUS
<1>5. /\ r \in Contexts /\ r.State = state /\ r.MessageBuffer = b /\ r.WorkerId = ctx.WorkerId
      /\ r.Eo = ctx.Eo /\ r.CoreMask = ctx.CoreMask /\ r.TerminationRequested = ctx.TerminationRequested
  BY <1>2, <1>4 DEF Contexts
<1>6. table' = [table EXCEPT ![w] = r]
  BY <1>1, <1>2, <1>3, <1>4
<1> QED BY <1>1, <1>2, <1>3, <1>5, <1>6

(* The daemon knows that the deployment has succeeded. *)
LEMMA Notified ==
    ASSUME SInv, NEW w \in Workers, CompleteWorkerDeployment(w)
    PROVE  /\ table[w].State = "Deploying" /\ table[w].Eo \in Eos /\ eo[table[w].Eo].State = "Running"
           /\ eo[table[w].Eo].Context = w /\ table[w].WorkerId = w
           /\ fifo' = fifo /\ stack' = stack /\ allow' = allow /\ failed' = failed
           /\ notifs' = notifs \ {w}
           /\ table[w].MessageBuffer \in Seq(Messages)
<1>1. TypeInv /\ TableInv /\ w \in notifs
  BY DEF SInv, CompleteWorkerDeployment
<1>2. table[w].State = "Deploying" /\ table[w].Eo # NoEo /\ eo[table[w].Eo].State = "Running" /\ EntryOK(w)
  BY <1>1 DEF TableInv, NotifOK
<1>3. failed' = failed
  BY <1>2 DEF CompleteWorkerDeployment, Check
<1>4. table[w].MessageBuffer \in Buffers
  BY <1>1 DEF TypeInv, Contexts
<1> QED BY <1>1, <1>2, <1>3, <1>4, Distinct, BuffersAre DEF CompleteWorkerDeployment, EntryOK

(* The daemon sends what it keeps of the buffer. *)
LEMMA Flushed ==
    ASSUME SInv, NEW w \in Workers, CompleteWorkerDeployment(w), ~ table[w].TerminationRequested
    PROVE  \E sent \in SUBSET In(table[w].MessageBuffer), q \in Seq(Messages) :
              /\ "Send" \notin Failures => sent = In(table[w].MessageBuffer)
              /\ q = eo[table[w].Eo].Queue \o Kept(table[w].MessageBuffer, sent)
              /\ live' = live \ (In(table[w].MessageBuffer) \ sent)
              /\ eo' = [eo EXCEPT ![table[w].Eo].Queue = q]
              /\ table' = [table EXCEPT ![w].State = "Active", ![w].MessageBuffer = << >>]
<1>1. PICK b \in Seq(Messages) : b = table[w].MessageBuffer
  BY Notified
<1>2. PICK e \in Eos : e = table[w].Eo
  BY Notified
<1>3. PICK sent \in IF "Send" \in Failures THEN SUBSET In(b) ELSE {In(b)} :
         /\ eo' = Enqueue(e, Kept(b, sent))
         /\ live' = live \ (In(b) \ sent)
         /\ table' = [table EXCEPT ![w].State = "Active", ![w].MessageBuffer = << >>]
  BY <1>1, <1>2 DEF CompleteWorkerDeployment
<1>4. PICK k \in Seq(Messages) : k = Kept(b, sent)
  BY KeptIs
<1>5. PICK q : q = eo[e].Queue \o k
  OBVIOUS
<1>6. q \in Seq(Messages)
  <2>1. eo[e].Queue \in Seq(Messages)
    BY DEF SInv, TypeInv, EoRecords
  <2> QED BY <1>4, <1>5, <2>1
<1>7. eo' = [eo EXCEPT ![e].Queue = q]
  BY <1>3, <1>4, <1>5 DEF Enqueue
<1>8. sent \in SUBSET In(b) /\ ("Send" \notin Failures => sent = In(b))
  BY <1>3
<1> QED BY <1>1, <1>2, <1>3, <1>4, <1>5, <1>6, <1>7, <1>8

LEMMA CompleteStep ==
    ASSUME SInv, NEW w \in Workers, CompleteWorkerDeployment(w)
    PROVE  SInv'
<1>1. TypeInv /\ TableInv /\ FramesInv /\ failed = {}
  BY DEF SInv
<1>2. /\ table[w].State = "Deploying" /\ table[w].WorkerId = w
      /\ fifo' = fifo /\ stack' = stack /\ allow' = allow /\ failed' = failed
      /\ notifs' = notifs \ {w}
  BY Notified
<1>3. PICK e \in Eos : e = table[w].Eo /\ eo[e].State = "Running" /\ eo[e].Context = w
  BY Notified
<1>4. PICK c \in Cores : Dispatching(c)
  BY DEF CompleteWorkerDeployment
<1>5. PICK new : new = << >>
  OBVIOUS
<1>6. Leaves(c, 0, new) /\ 0 <= Len(stack[c]) /\ 0 \in Nat
  <2>1. ~ At(c, "DeleteEo")
    BY <1>4 DEF Dispatching, At
  <2> QED BY <1>1, <1>2, <1>5, <2>1, LeavesNothing, FrameTypes
<1>7. \A x \in notifs' : x \in notifs
  BY <1>2
<1>8. w \notin notifs' /\ notifs' \subseteq Workers
  BY <1>1, <1>2 DEF TypeInv
<1>9. CASE table[w].TerminationRequested
  <2>1. /\ live' = live \ In(table[w].MessageBuffer)
        /\ table' = [table EXCEPT ![w].State = "Terminating", ![w].MessageBuffer = << >>]
        /\ eo' = EoStop(w)
    BY <1>9 DEF CompleteWorkerDeployment
  <2>2. /\ table' \in [Workers -> Contexts]
        /\ table'[w].State = "Terminating" /\ table'[w].WorkerId = table[w].WorkerId
        /\ table'[w].Eo = e /\ table'[w].CoreMask = table[w].CoreMask
        /\ \A x \in Workers : x # w => table'[x] = table[x]
    <3>1. "Terminating" \in WorkerStates
      BY DEF WorkerStates
    <3> QED BY <1>1, <1>3, <2>1, <3>1, FlushedType
  <2>3. /\ eo' \in [Eos -> EoRecords]
        /\ eo'[e].State = "LocalStop" /\ eo'[e].Context = eo[e].Context /\ eo'[e].Pending = Cores
        /\ \A d \in Eos : d # e => eo'[d] = eo[d]
    <3>1. "LocalStop" \in EoStates
      BY DEF EoStates
    <3>2. eo' = [eo EXCEPT ![e] = [@ EXCEPT !.State = "LocalStop", !.Pending = Cores]]
      BY <1>3, <2>1 DEF EoStop
    <3> QED BY <1>1, <3>1, <3>2, EoPhaseType
  <2>4. TypeInv'
    BY <1>1, <1>2, <1>8, <2>1, <2>2, <2>3 DEF TypeInv
  <2>5. /\ \A x \in Workers : x # w => KeepsEntry(x)
        /\ \A d \in Eos : d # e => KeepsEo(d)
    BY <2>2, <2>3 DEF KeepsEntry, KeepsEo
  <2> QED BY <1>2, <1>3, <1>6, <1>7, <1>8, <2>2, <2>3, <2>4, <2>5, StopStep
<1>10. CASE ~ table[w].TerminationRequested
  <2>1. PICK sent \in SUBSET In(table[w].MessageBuffer), q \in Seq(Messages) :
              /\ live' = live \ (In(table[w].MessageBuffer) \ sent)
              /\ eo' = [eo EXCEPT ![e].Queue = q]
              /\ table' = [table EXCEPT ![w].State = "Active", ![w].MessageBuffer = << >>]
    BY <1>3, <1>10, Flushed
  <2>2. /\ table' \in [Workers -> Contexts]
        /\ table'[w].State = "Active" /\ table'[w].WorkerId = w /\ table'[w].Eo = e
        /\ \A x \in Workers : x # w => table'[x] = table[x]
    <3>1. "Active" \in WorkerStates
      BY DEF WorkerStates
    <3> QED BY <1>1, <1>2, <1>3, <2>1, <3>1, FlushedType
  <2>3. /\ eo' \in [Eos -> EoRecords]
        /\ \A d \in Eos : KeepsEo(d)
    BY <1>1, <2>1, EoQueueType DEF KeepsEo
  <2>4. TypeInv'
    BY <1>1, <1>2, <1>8, <2>1, <2>2, <2>3 DEF TypeInv
  <2>5. Touches(w, NoEo) /\ NoEo \in Eos \cup {NoEo}
    BY <1>3, <2>2, <2>3 DEF Touches, KeepsEntry
  <2>6. EntryOK(w)'
    <3>1. e # NoEo
      BY <1>1, Distinct
    <3> QED BY <1>2, <1>3, <2>2, <2>3, <3>1 DEF EntryOK, FitsEntry, KeepsEo
  <2>7. ASSUME NEW x \in Cores, NEW g, Stays(c, 0, x, g)
        PROVE  ~ Works(w, g) /\ (g.at = "DeleteEo" => g.eo # NoEo /\ table'[w].Eo # g.eo)
    <3>1. g \in Frames /\ FrameOK(x, g)
      BY <1>1, <1>6, <2>7, Stayers
    <3>2. ~ Works(w, g)
      BY <1>1, <1>2, <1>3, <3>1, Distinct DEF Works, FrameOK, Has, Awaits, Frames, Callbacks, DeploySteps
    <3> QED BY <1>1, <1>3, <2>2, <3>1, <3>2, Distinct DEF FrameOK
  <2>8. \A x \in Cores : \A g : Stays(c, 0, x, g) =>
               /\ Works(w, g) => FrameOK(x, g)'
               /\ g.at = "DeleteEo" => g.eo # NoEo /\ table'[w].Eo # g.eo
    BY <2>7
  <2>9. TableInv' /\ FramesInv'
    BY <1>1, <1>6, <1>7, <1>8, <2>4, <2>5, <2>6, <2>8, LeaveStep
  <2>10. RingInv(fifo, DynamicInUse)'
    <3>1. \A x \in Ids : AllocatedBy(x)' <=> AllocatedBy(x)
      BY <1>2 DEF AllocatedBy
    <3>2. \A x \in Workers : table'[x].State = "Inactive" <=> table[x].State = "Inactive"
      BY <1>2, <2>2
    <3> QED BY <1>2, <2>4, <3>1, <3>2, RingSameIds
  <2> QED BY <1>1, <1>2, <2>4, <2>9, <2>10 DEF SInv
<1> QED BY <1>9, <1>10

-----------------------------------------------------------------------------
LEMMA InitSInv ==
    ASSUME Init
    PROVE  SInv /\ QuietInv
<1>1. TypeInv
  <2>1. table \in [Workers -> Contexts]
    BY ResetType DEF Init
  <2>2. eo \in [Eos -> EoRecords]
    BY NoEoRecordType DEF Init
  <2>3. stack \in [Cores -> Seq(Frames)]
    BY DEF Init
  <2> QED BY <2>1, <2>2, <2>3 DEF Init, TypeInv
<1>2. /\ \A w \in Workers : /\ table[w].State = "Inactive" /\ table[w].Eo = NoEo
                            /\ table[w].MessageBuffer = << >> /\ ~ table[w].TerminationRequested
      /\ \A e \in Eos : eo[e].State = "Undef" /\ eo[e].Queue = << >>
      /\ notifs = {} /\ \A c \in Cores : stack[c] = << >>
      /\ failed = {} /\ fifo = FifoInit
  BY DEF Init, ResetContext, NoEoRecord
<1>3. TableInv /\ QuietInv
  BY <1>2 DEF TableInv, EntryOK, EoOK, QuietInv, QuietEntry, QuietEo
<1>4. FramesInv
  <2>1. \A c \in Cores : Len(stack[c]) = 0
    BY <1>2
  <2>2. Apart
    BY <2>1 DEF Apart
  <2>3. \A c \in Cores : Shape(stack[c])
    BY <2>1, WorkersAssumption DEF Shape
  <2> QED BY <2>1, <2>2, <2>3 DEF FramesInv
<1>5. DynamicInUse = {}
  <2>1. \A c \in Cores : Len(stack[c]) = 0
    BY <1>2
  <2> QED BY <1>2, <2>1, IdsAre DEF DynamicInUse
<1> QED BY <1>1, <1>2, <1>3, <1>4, <1>5, FifoInitRing DEF SInv

LEMMA StutterSInv ==
    ASSUME SInv, UNCHANGED vars
    PROVE  SInv'
<1>1. TypeInv' /\ failed' = {}
  BY DEF SInv, vars, TypeInv
<1>2. TableInv'
  BY DEF SInv, vars, TableInv, EntryOK, EoOK, NotifOK, Doomed, At, Top
<1>3. FramesInv'
  <2>1. FramesInv /\ stack' = stack /\ table' = table /\ eo' = eo
    BY DEF SInv, vars
  <2> QED BY <2>1, SameFrames
<1>4. RingInv(fifo, DynamicInUse)'
  <2>1. DynamicInUse' = DynamicInUse
    BY DEF vars, DynamicInUse
  <2> QED BY <2>1 DEF SInv, vars
<1> QED BY <1>1, <1>2, <1>3, <1>4 DEF SInv

LEMMA NextSInv ==
    ASSUME SInv, QuietInv, Next
    PROVE  SInv'
<1>1. ASSUME NEW c \in Cores, PlatformStep(c) PROVE SInv'
  <2>1. ASSUME NEW e \in Eos, DeployNoQueue(c, e) PROVE SInv'
    BY <2>1, DeployNoQueueStep
  <2>2. ASSUME NEW e \in Eos, NEW mask \in CoreMasks, NEW name \in Names, DeployStart(c, e, mask, name)
        PROVE  SInv'
    BY <2>2, DeployStartStep
  <2> QED BY <1>1, <2>1, <2>2, ReserveDynamicStep, DeployNoEoStep, DeployRollBackStep, DeleteEoStep,
             DeployReturnStep, EoStopReleaseStep DEF PlatformStep
<1>2. ASSUME NEW c \in Cores, CallbackReturns(c) \/ StartFails(c) PROVE SInv'
  BY <1>2, CallbackReturnsStep, StartFailsStep
<1>3. ASSUME NEW e \in Eos, EmStep(e) PROVE SInv'
  BY <1>3, EoStartDoneStep, DropEventStep, EoLocalStartStep, ReceiveStep, EoLocalStopStep, EoStopStartStep
     DEF EmStep
<1>4. ASSUME NEW w \in Workers, CompleteWorkerDeployment(w) PROVE SInv'
  BY <1>4, CompleteStep
<1>5. ASSUME UserStep PROVE SInv'
  <2>1. ASSUME NEW c \in Cores, NEW w \in Workers, DeployStatic(c, w) PROVE SInv'
    BY <2>1, DeployStaticStep
  <2>2. ASSUME NEW w \in Workers, NEW m \in Messages, SendMessage(m, w) PROVE SInv'
    BY <2>2, SendMessageStep
  <2> QED BY <1>5, <2>1, <2>2, DeployDynamicStep, TerminateSelfStep, DisableStep, TerminateWorkerStep
             DEF UserStep
<1> QED BY <1>1, <1>2, <1>3, <1>4, <1>5 DEF Next

-----------------------------------------------------------------------------
(***************************************************************************)
(* What a step does to the state of workers and to messages                *)
(***************************************************************************)
Early == {"Undef", "Created", "Start", "LocalStart"}

KeepsRow(x) ==
    /\ table'[x].State = table[x].State
    /\ table'[x].TerminationRequested = table[x].TerminationRequested
    /\ table'[x].MessageBuffer = table[x].MessageBuffer
    /\ table[x].State # "Deploying" => table'[x].Eo = table[x].Eo
KeepsQueue(d) == eo'[d].Queue = eo[d].Queue
KeepsAllBut(w) ==
    (\A x \in Workers : x # w => KeepsRow(x)) /\ (\A d \in Eos : KeepsQueue(d))
QueuesBut(e) ==
    (\A x \in Workers : KeepsRow(x)) /\ (\A d \in Eos : d # e => KeepsQueue(d))

(* An EO starts with an empty queue, and an entry gets one that starts. *)
StartsEmpty ==
    /\ \A d \in Eos : eo'[d].State \in Early => eo[d].State \in Early \/ eo'[d].Queue = << >>
    /\ \A x \in Workers : table'[x].State = "Deploying" /\ table'[x].Eo # NoEo =>
          \/ table[x].State = "Deploying" /\ table'[x].Eo = table[x].Eo
          \/ eo'[table'[x].Eo].State \in Early

Silent == (\A x \in Workers : KeepsRow(x)) /\ (\A d \in Eos : KeepsQueue(d)) /\ live' = live
Opens(w) ==
    /\ KeepsAllBut(w) /\ live' = live
    /\ table[w].State = "Inactive" /\ table'[w].State = "Deploying"
    /\ table'[w].TerminationRequested = table[w].TerminationRequested
    /\ table'[w].MessageBuffer = table[w].MessageBuffer
Resets(w) ==
    /\ KeepsAllBut(w) /\ live' = live
    /\ table[w].State \in {"Deploying", "Terminating"} /\ table'[w].State = "Inactive"
    /\ ~ table'[w].TerminationRequested /\ table'[w].MessageBuffer = << >>
Closes(w) ==
    /\ KeepsAllBut(w) /\ live' = live
    /\ table[w].State = "Active" /\ table'[w].State = "Terminating"
    /\ table'[w].TerminationRequested = table[w].TerminationRequested
    /\ table'[w].MessageBuffer = table[w].MessageBuffer
Requests(w) ==
    /\ KeepsAllBut(w) /\ live' = live
    /\ table[w].State = "Deploying" /\ table'[w].State = "Deploying"
    /\ table'[w].TerminationRequested
    /\ table'[w].MessageBuffer = table[w].MessageBuffer
Collects(w, m) ==
    /\ KeepsAllBut(w) /\ m \notin live /\ live' = live \cup {m}
    /\ table[w].State = "Deploying" /\ table'[w].State = "Deploying"
    /\ table'[w].TerminationRequested = table[w].TerminationRequested
    /\ Len(table[w].MessageBuffer) < BufferLength
    /\ table'[w].MessageBuffer = Append(table[w].MessageBuffer, m)
Drops(w) ==
    /\ KeepsAllBut(w) /\ live' = live \ In(table[w].MessageBuffer)
    /\ table[w].State = "Deploying" /\ table'[w].State = "Terminating"
    /\ table[w].TerminationRequested /\ table'[w].TerminationRequested
    /\ table'[w].MessageBuffer = << >>
Flushes(w, e, sent) ==
    /\ \A x \in Workers : x # w => KeepsRow(x)
    /\ \A d \in Eos : d # e => KeepsQueue(d)
    /\ table[w].Eo = e /\ table'[w].Eo = e
    /\ table[w].State = "Deploying" /\ table'[w].State = "Active"
    /\ ~ table[w].TerminationRequested /\ ~ table'[w].TerminationRequested
    /\ table'[w].MessageBuffer = << >>
    /\ sent \subseteq In(table[w].MessageBuffer)
    /\ live' = live \ (In(table[w].MessageBuffer) \ sent)
    /\ eo'[e].Queue = eo[e].Queue \o Kept(table[w].MessageBuffer, sent)
Sends(w, e, m) ==
    /\ QueuesBut(e) /\ m \notin live /\ live' = live \cup {m}
    /\ table[w].State = "Active" /\ table[w].Eo = e
    /\ eo'[e].Queue = Append(eo[e].Queue, m)
Takes(e) ==
    /\ QueuesBut(e) /\ live' = live \ {Head(eo[e].Queue)}
    /\ eo[e].Queue # << >> /\ eo'[e].Queue = Tail(eo[e].Queue)
Deletes(e) ==
    /\ QueuesBut(e) /\ live' = live \ In(eo[e].Queue)
    /\ \A x \in Workers : table[x].Eo # e
    /\ eo'[e].Queue = << >>

Effect ==
    /\ StartsEmpty
    /\ \/ Silent
       \/ \E w \in Workers : Opens(w) \/ Resets(w) \/ Closes(w) \/ Requests(w) \/ Drops(w)
       \/ \E w \in Workers, m \in Messages : Collects(w, m)
       \/ \E w \in Workers, e \in Eos, sent \in SUBSET Messages : Flushes(w, e, sent)
       \/ \E w \in Workers, e \in Eos, m \in Messages : Sends(w, e, m)
       \/ \E e \in Eos : Takes(e) \/ Deletes(e)

(* Steps of which neither messages nor the states of workers notice.        *)
LEMMA SilentIs ==
    ASSUME \A x \in Workers : KeepsRow(x) /\ table'[x].Eo = table[x].Eo, \A d \in Eos : KeepsQueue(d),
           \A d \in Eos : eo'[d].State \in Early => eo[d].State \in Early, live' = live
    PROVE  Effect
BY DEF Effect, StartsEmpty, Silent, KeepsRow

LEMMA EndCallbackKeeps ==
    ASSUME NEW c \in Cores, NEW eos \in [Eos -> EoRecords],
           Top(c).at = "Start" => Top(c).eo \in Eos /\ eos[Top(c).eo].State = "Start",
           eo' = EndCallback(c, eos)
    PROVE  \A d \in Eos : /\ eo'[d].Queue = eos[d].Queue
                          /\ eo'[d].State \in Early => eos[d].State \in Early
<1>1. PICK e : e = Top(c).eo
  OBVIOUS
<1>2. CASE Top(c).at = "Start"
  <2>1. e \in Eos /\ eos[e].State = "Start"
    BY <1>1, <1>2
  <2>2. PICK g \in EoRecords : g = eos[e]
    BY <2>1
  <2>3. PICK r : r = [g EXCEPT !.State = "LocalStart", !.Pending = Cores]
    OBVIOUS
  <2>4. r.Queue = g.Queue
    BY <2>3 DEF EoRecords
  <2>5. eo' = [eos EXCEPT ![e] = r]
    BY <1>1, <1>2, <2>2, <2>3 DEF EndCallback
  <2> QED BY <2>1, <2>2, <2>4, <2>5 DEF Early
<1>3. CASE Top(c).at # "Start" /\ Top(c).at \in {"LocalStart", "LocalStop"}
  <2>1. eo' = [eos EXCEPT ![e].Pending = @ \ {c}]
    BY <1>1, <1>3 DEF EndCallback
  <2> QED BY <2>1 DEF EoRecords
<1>4. CASE Top(c).at \notin {"Start", "LocalStart", "LocalStop"}
  <2>1. eo' = eos
    BY <1>4 DEF EndCallback
  <2> QED BY <2>1
<1> QED BY <1>2, <1>3, <1>4

LEMMA StartFrame ==
    ASSUME SInv, NEW c \in Cores, At(c, "Start")
    PROVE  Top(c).eo \in Eos /\ eo[Top(c).eo].State = "Start"
<1>1. PICK t : t = Top(c)
  OBVIOUS
<1>2. FrameOK(c, t) /\ t.at = "Start"
  BY <1>1, TopIs DEF SInv, At
<1> QED BY <1>1, <1>2 DEF FrameOK, Has

LEMMA SilentSteps ==
    ASSUME SInv,
           \/ UNCHANGED vars
           \/ \E c \in Cores : DeployDynamic(c) \/ DeployReturn(c) \/ DisableWorkerDeployment(c)
           \/ \E c \in Cores : StartFails(c) \/ CallbackReturns(c)
           \/ \E e \in Eos : EoStartDone(e)
           \/ \E c \in Cores, e \in Eos : EoLocalStart(c, e) \/ EoLocalStop(c, e) \/ EoStopStart(c, e)
    PROVE  Effect
<1>1. TypeInv /\ eo \in [Eos -> EoRecords] /\ FramesInv
  BY DEF SInv, TypeInv
<1>2. table' = table /\ live' = live
  BY DEF vars, DeployDynamic, DeployReturn, DisableWorkerDeployment, StartFails, CallbackReturns,
         EoStartDone, EoLocalStart, EoLocalStop, EoStopStart
<1>3. ASSUME eo' = eo PROVE Effect
  BY <1>2, <1>3, SilentIs DEF KeepsRow, KeepsQueue
<1>4. ASSUME NEW e \in Eos, NEW state \in EoStates, eo' = [eo EXCEPT ![e].State = state],
             state \in Early => eo[e].State \in Early
      PROVE  Effect
  <2>1. /\ eo'[e].State = state /\ eo'[e].Queue = eo[e].Queue
        /\ \A d \in Eos : d # e => eo'[d] = eo[d]
    BY <1>1, <1>4, EoStateType
  <2> QED BY <1>2, <1>4, <2>1, SilentIs DEF KeepsRow, KeepsQueue
<1>5. ASSUME NEW c \in Cores, NEW e \in Eos, EoLocalStart(c, e) \/ EoLocalStop(c, e)
      PROVE  Effect
  <2>1. eo' = eo \/ eo' = [eo EXCEPT ![e].Pending = @ \ {c}]
    BY <1>5 DEF EoLocalStart, EoLocalStop
  <2>2. CASE eo' = [eo EXCEPT ![e].Pending = @ \ {c}]
    <3>1. /\ eo'[e].State = eo[e].State /\ eo'[e].Queue = eo[e].Queue
          /\ \A d \in Eos : d # e => eo'[d] = eo[d]
      BY <1>1, <2>2, EoPendingType
    <3> QED BY <1>2, <3>1, SilentIs DEF KeepsRow, KeepsQueue
  <2> QED BY <1>3, <2>1, <2>2
<1>6. ASSUME NEW c \in Cores, NEW e \in Eos, EoStopStart(c, e)
      PROVE  Effect
  <2>1. eo' = [eo EXCEPT ![e].State = "Stop"] /\ "Stop" \in EoStates /\ "Stop" \notin Early
    BY <1>6 DEF EoStopStart, EoStates, Early
  <2> QED BY <1>4, <2>1
<1>7. ASSUME NEW e \in Eos, EoStartDone(e)
      PROVE  Effect
  <2>1. eo' = [eo EXCEPT ![e].State = "Running"] /\ "Running" \in EoStates /\ "Running" \notin Early
    BY <1>7 DEF EoStartDone, EoStates, Early
  <2> QED BY <1>4, <2>1
<1>8. ASSUME NEW c \in Cores, StartFails(c)
      PROVE  Effect
  <2>1. At(c, "Start") /\ eo' = [eo EXCEPT ![Top(c).eo].State = "Created"]
    BY <1>8 DEF StartFails
  <2>2. Top(c).eo \in Eos /\ eo[Top(c).eo].State \in Early
    BY <2>1, StartFrame DEF Early
  <2>3. "Created" \in EoStates
    BY DEF EoStates
  <2> QED BY <1>4, <2>1, <2>2, <2>3
<1>9. ASSUME NEW c \in Cores, CallbackReturns(c)
      PROVE  Effect
  <2>1. eo' = EndCallback(c, eo) /\ (Top(c).at = "Start" => At(c, "Start"))
    BY <1>9 DEF CallbackReturns, Dispatching, At
  <2>2. Top(c).at = "Start" => Top(c).eo \in Eos /\ eo[Top(c).eo].State = "Start"
    BY <2>1, StartFrame
  <2>3. \A d \in Eos : /\ eo'[d].Queue = eo[d].Queue
                       /\ eo'[d].State \in Early => eo[d].State \in Early
    BY <1>1, <2>1, <2>2, EndCallbackKeeps
  <2> QED BY <1>2, <2>3, SilentIs DEF KeepsRow, KeepsQueue
<1>10. ASSUME \/ UNCHANGED vars
              \/ \E c \in Cores : DeployDynamic(c) \/ DeployReturn(c) \/ DisableWorkerDeployment(c)
       PROVE  Effect
  BY <1>3, <1>10 DEF vars, DeployDynamic, DeployReturn, DisableWorkerDeployment
<1> QED BY <1>5, <1>6, <1>7, <1>8, <1>9, <1>10

(* What the assignments to an entry keep of it. *)
LEMMA RowAssigned ==
    ASSUME TypeInv, NEW w \in Workers, NEW r, table' = [table EXCEPT ![w] = r]
    PROVE  table'[w] = r /\ \A x \in Workers : x # w => table'[x] = table[x]
BY DEF TypeInv

LEMMA OpensIs ==
    ASSUME SInv, NEW w \in Workers, table[w].State = "Inactive", eo' = eo, live' = live,
           table' = [table EXCEPT ![w].State = "Deploying", ![w].WorkerId = w]
    PROVE  Effect
<1>1. TypeInv /\ table \in [Workers -> Contexts] /\ table[w].Eo = NoEo
  BY DEF SInv, TypeInv, TableInv, EntryOK
<1>2. PICK ctx \in Contexts : ctx = table[w]
  BY <1>1
<1>3. PICK r : r = [ctx EXCEPT !.State = "Deploying", !.WorkerId = w]
  OBVIOUS
<1>4. /\ r.State = "Deploying" /\ r.Eo = NoEo
      /\ r.TerminationRequested = ctx.TerminationRequested /\ r.MessageBuffer = ctx.MessageBuffer
  BY <1>1, <1>2, <1>3 DEF Contexts
<1>5. table' = [table EXCEPT ![w] = r]
  BY <1>1, <1>2, <1>3
<1>6. table'[w] = r /\ \A x \in Workers : x # w => table'[x] = table[x]
  BY <1>1, <1>5, RowAssigned
<1>7. Opens(w)
  BY <1>2, <1>4, <1>6 DEF Opens, KeepsAllBut, KeepsRow, KeepsQueue
<1>8. StartsEmpty
  BY <1>4, <1>6 DEF StartsEmpty
<1> QED BY <1>7, <1>8 DEF Effect

LEMMA ResetRow == ResetContext.State = "Inactive" /\ ResetContext.Eo = NoEo
                  /\ ResetContext.TerminationRequested = FALSE /\ ResetContext.MessageBuffer = << >>
BY DEF ResetContext

LEMMA ResetsIs ==
    ASSUME SInv, NEW w \in Workers, table[w].State \in {"Deploying", "Terminating"}, live' = live,
           ReleaseWorkerContext(w), \A d \in Eos : KeepsQueue(d),
           \A d \in Eos : eo'[d].State \in Early => eo[d].State \in Early
    PROVE  Effect
<1>1. TypeInv
  BY DEF SInv
<1>2. PICK r : r = ResetContext
  OBVIOUS
<1>3. r.State = "Inactive" /\ r.TerminationRequested = FALSE /\ r.MessageBuffer = << >>
  BY <1>2, ResetRow
<1>4. table' = [table EXCEPT ![w] = r]
  BY <1>2 DEF ReleaseWorkerContext
<1>5. table'[w] = r /\ \A x \in Workers : x # w => table'[x] = table[x]
  BY <1>1, <1>4, RowAssigned
<1>6. Resets(w)
  BY <1>3, <1>5 DEF Resets, KeepsAllBut, KeepsRow
<1>7. StartsEmpty
  BY <1>3, <1>5 DEF StartsEmpty
<1> QED BY <1>6, <1>7 DEF Effect

LEMMA TopDeploys ==
    ASSUME SInv, NEW c \in Cores, At(c, "Reserved") \/ At(c, "RollBack") \/ At(c, "Stop")
    PROVE  /\ Top(c).w \in Workers
           /\ table[Top(c).w].State \in {"Deploying", "Terminating"}
           /\ Top(c).at = "Reserved" => table[Top(c).w].State = "Deploying"
<1>1. PICK t : t = Top(c)
  OBVIOUS
<1>2. FrameOK(c, t) /\ t \in Frames /\ t.at \in {"Reserved", "RollBack", "Stop"}
  BY <1>1, TopIs DEF SInv, At
<1> QED BY <1>1, <1>2 DEF FrameOK, Has, Frames

LEMMA ReleaseSteps ==
    ASSUME SInv, QuietInv, NEW c \in Cores,
           DeployNoEo(c) \/ DeployRollBack(c) \/ EoStopRelease(c) \/ \E e \in Eos : DeployNoQueue(c, e)
    PROVE  Effect
<1>1. PICK w \in Workers : w = Top(c).w /\ table[w].State \in {"Deploying", "Terminating"}
  BY TopDeploys DEF DeployNoEo, DeployRollBack, EoStopRelease, DeployNoQueue
<1>2. ReleaseWorkerContext(w) /\ live' = live
  BY <1>1 DEF DeployNoEo, DeployRollBack, EoStopRelease, DeployNoQueue
<1>3. CASE eo' = eo
  BY <1>1, <1>2, <1>3, ResetsIs DEF KeepsQueue
<1>4. ASSUME NEW e \in Eos, DeployNoQueue(c, e)
      PROVE  Effect
  <2>1. PICK name \in Names :
           eo' = [eo EXCEPT ![e] = [NoEoRecord EXCEPT !.State = "Created", !.Context = w, !.Name = name]]
    BY <1>1, <1>4 DEF DeployNoQueue
  <2>2. PICK r : r = CreatedEo("Created", w, name)
    OBVIOUS
  <2>3. r.Queue = << >>
    BY <2>2, NewEo DEF EoStates
  <2>4. eo' = [eo EXCEPT ![e] = r] /\ eo \in [Eos -> EoRecords]
    BY <2>1, <2>2 DEF CreatedEo, SInv, TypeInv
  <2>5. eo[e].State \in Early /\ eo[e].Queue = << >>
    BY <1>4 DEF DeployNoQueue, QuietInv, QuietEo, Early
  <2>6. /\ \A d \in Eos : KeepsQueue(d)
        /\ \A d \in Eos : eo'[d].State \in Early => eo[d].State \in Early
    BY <2>3, <2>4, <2>5 DEF KeepsQueue
  <2> QED BY <1>1, <1>2, <2>6, ResetsIs
<1> QED BY <1>3, <1>4 DEF DeployNoEo, DeployRollBack, EoStopRelease

LEMMA OpeningSteps ==
    ASSUME SInv, NEW c \in Cores, ReserveDynamic(c) \/ \E w \in Workers : DeployStatic(c, w)
    PROVE  Effect
<1>1. CASE ReserveDynamic(c)
  <2>1. PICK t : t = Top(c)
    OBVIOUS
  <2>2. FrameOK(c, t) /\ t \in Frames /\ t.at = "Allocated"
    BY <1>1, <2>1, TopIs DEF SInv, ReserveDynamic, At
  <2>3. PICK w \in Workers : w = Top(c).w
    BY <2>1, <2>2 DEF Frames
  <2>4. table[w].State = "Inactive"
    BY <2>1, <2>2, <2>3 DEF FrameOK
  <2>5. /\ table' = [table EXCEPT ![w].State = "Deploying", ![w].WorkerId = w]
        /\ eo' = eo /\ live' = live
    BY <1>1, <2>3 DEF ReserveDynamic
  <2> QED BY <2>4, <2>5, OpensIs
<1>2. ASSUME NEW w \in Workers, DeployStatic(c, w) PROVE Effect
  BY <1>2, OpensIs DEF DeployStatic
<1> QED BY <1>1, <1>2

LEMMA DeployStartEffect ==
    ASSUME SInv, QuietInv, NEW c \in Cores, NEW e \in Eos, NEW mask \in CoreMasks, NEW name \in Names,
           DeployStart(c, e, mask, name)
    PROVE  Effect
<1>1. PICK w \in Workers : w = Top(c).w /\ table[w].State = "Deploying"
  <2>1. At(c, "Reserved")
    BY DEF DeployStart
  <2> QED BY <2>1, TopDeploys DEF At
<1>2. /\ table' = [table EXCEPT ![w].CoreMask = mask, ![w].Name = name, ![w].Eo = e]
      /\ eo' = [eo EXCEPT ![e] = [NoEoRecord EXCEPT !.State = "Start", !.Context = w, !.Name = name]]
      /\ live' = live /\ eo[e].State = "Undef"
  BY <1>1 DEF DeployStart
<1>3. TypeInv /\ table \in [Workers -> Contexts] /\ eo \in [Eos -> EoRecords]
  BY DEF SInv, TypeInv
<1>4. PICK ctx \in Contexts : ctx = table[w]
  BY <1>3
<1>5. PICK r : r = [ctx EXCEPT !.CoreMask = mask, !.Name = name, !.Eo = e]
  OBVIOUS
<1>6. /\ r.State = ctx.State /\ r.Eo = e
      /\ r.TerminationRequested = ctx.TerminationRequested /\ r.MessageBuffer = ctx.MessageBuffer
  BY <1>4, <1>5 DEF Contexts
<1>7. table' = [table EXCEPT ![w] = r]
  BY <1>2, <1>3, <1>4, <1>5
<1>8. table'[w] = r /\ \A x \in Workers : x # w => table'[x] = table[x]
  BY <1>3, <1>7, RowAssigned
<1>9. PICK g : g = CreatedEo("Start", w, name)
  OBVIOUS
<1>10. g.State = "Start" /\ g.Queue = << >>
  BY <1>9, NewEo DEF EoStates
<1>11. eo' = [eo EXCEPT ![e] = g]
  BY <1>2, <1>9 DEF CreatedEo
<1>12. eo[e].Queue = << >>
  BY <1>2 DEF QuietInv, QuietEo
<1>13. Silent
  <2>1. \A x \in Workers : KeepsRow(x)
    BY <1>1, <1>4, <1>6, <1>8 DEF KeepsRow
  <2>2. \A d \in Eos : KeepsQueue(d)
    BY <1>3, <1>10, <1>11, <1>12 DEF KeepsQueue
  <2> QED BY <1>2, <2>1, <2>2 DEF Silent
<1>14. StartsEmpty
  BY <1>1, <1>3, <1>6, <1>8, <1>10, <1>11 DEF StartsEmpty, Early
<1> QED BY <1>13, <1>14 DEF Effect

LEMMA DeleteEoEffect ==
    ASSUME SInv, NEW c \in Cores, DeleteEo(c)
    PROVE  Effect
<1>1. PICK t : t = Top(c)
  OBVIOUS
<1>2. FrameOK(c, t) /\ t.at = "DeleteEo"
  BY <1>1, TopIs DEF SInv, DeleteEo, At
<1>3. PICK e \in Eos : e = Top(c).eo /\ \A x \in Workers : table[x].Eo # e
  BY <1>1, <1>2 DEF FrameOK
<1>4. live' = live \ In(eo[e].Queue) /\ eo' = [eo EXCEPT ![e] = NoEoRecord] /\ table' = table
  BY <1>3 DEF DeleteEo
<1>5. eo \in [Eos -> EoRecords] /\ NoEoRecord.Queue = << >>
  BY DEF SInv, TypeInv, NoEoRecord
<1>6. eo'[e].Queue = << >> /\ \A d \in Eos : d # e => eo'[d] = eo[d]
  BY <1>4, <1>5
<1>7. Deletes(e)
  BY <1>3, <1>4, <1>6 DEF Deletes, QueuesBut, KeepsRow, KeepsQueue
<1>8. StartsEmpty
  BY <1>4, <1>6 DEF StartsEmpty
<1> QED BY <1>7, <1>8 DEF Effect

LEMMA TakingSteps ==
    ASSUME SInv, NEW e \in Eos, DropEvent(e) \/ \E c \in Cores : Receive(c, e)
    PROVE  Effect
<1>1. /\ eo[e].Queue # << >> /\ live' = live \ {Head(eo[e].Queue)} /\ table' = table
      /\ eo' = [eo EXCEPT ![e].Queue = Tail(@)]
  BY DEF DropEvent, Receive
<1>2. PICK q : q = Tail(eo[e].Queue)
  OBVIOUS
<1>3. eo[e].Queue \in Seq(Messages) /\ TypeInv
  BY DEF SInv, TypeInv, EoRecords
<1>4. q \in Seq(Messages)
  BY <1>1, <1>2, <1>3
<1>5. eo' = [eo EXCEPT ![e].Queue = q]
  BY <1>1, <1>2
<1>6. eo'[e].Queue = q /\ eo'[e].State = eo[e].State /\ \A d \in Eos : d # e => eo'[d] = eo[d]
  BY <1>3, <1>4, <1>5, EoQueueType
<1>7. Takes(e)
  BY <1>1, <1>2, <1>6 DEF Takes, QueuesBut, KeepsRow, KeepsQueue
<1>8. StartsEmpty
  BY <1>1, <1>6 DEF StartsEmpty
<1> QED BY <1>7, <1>8 DEF Effect

LEMMA ClosesIs ==
    ASSUME SInv, NEW w \in Workers, table[w].State = "Active", live' = live,
           table' = [table EXCEPT ![w].State = "Terminating"], \A d \in Eos : KeepsQueue(d),
           \A d \in Eos : eo'[d].State \in Early => eo[d].State \in Early
    PROVE  Effect
<1>1. TypeInv /\ table \in [Workers -> Contexts]
  BY DEF SInv, TypeInv
<1>2. PICK ctx \in Contexts : ctx = table[w]
  BY <1>1
<1>3. PICK r : r = [ctx EXCEPT !.State = "Terminating"]
  OBVIOUS
<1>4. /\ r.State = "Terminating" /\ r.Eo = ctx.Eo
      /\ r.TerminationRequested = ctx.TerminationRequested /\ r.MessageBuffer = ctx.MessageBuffer
  BY <1>3 DEF Contexts
<1>5. table' = [table EXCEPT ![w] = r]
  BY <1>1, <1>2, <1>3
<1>6. table'[w] = r /\ \A x \in Workers : x # w => table'[x] = table[x]
  BY <1>1, <1>5, RowAssigned
<1>7. Closes(w)
  BY <1>2, <1>4, <1>6 DEF Closes, KeepsAllBut, KeepsRow
<1>8. StartsEmpty
  BY <1>4, <1>6 DEF StartsEmpty
<1> QED BY <1>7, <1>8 DEF Effect

LEMMA RequestsIs ==
    ASSUME SInv, NEW w \in Workers, table[w].State = "Deploying", live' = live,
           table' = [table EXCEPT ![w].TerminationRequested = TRUE], \A d \in Eos : KeepsQueue(d),
           \A d \in Eos : eo'[d].State \in Early => eo[d].State \in Early
    PROVE  Effect
<1>1. TypeInv /\ table \in [Workers -> Contexts]
  BY DEF SInv, TypeInv
<1>2. PICK ctx \in Contexts : ctx = table[w]
  BY <1>1
<1>3. PICK r : r = [ctx EXCEPT !.TerminationRequested = TRUE]
  OBVIOUS
<1>4. /\ r.State = ctx.State /\ r.Eo = ctx.Eo
      /\ r.TerminationRequested = TRUE /\ r.MessageBuffer = ctx.MessageBuffer
  BY <1>3 DEF Contexts
<1>5. table' = [table EXCEPT ![w] = r]
  BY <1>1, <1>2, <1>3
<1>6. table'[w] = r /\ \A x \in Workers : x # w => table'[x] = table[x]
  BY <1>1, <1>5, RowAssigned
<1>7. Requests(w)
  BY <1>2, <1>4, <1>6 DEF Requests, KeepsAllBut, KeepsRow
<1>8. StartsEmpty
  BY <1>2, <1>4, <1>6 DEF StartsEmpty
<1> QED BY <1>7, <1>8 DEF Effect

(* EM is told to stop an EO. *)
LEMMA EoStopKeeps ==
    ASSUME TypeInv, NEW w \in Workers, table[w].Eo \in Eos
    PROVE  /\ EoStop(w) \in [Eos -> EoRecords]
           /\ \A d \in Eos : /\ EoStop(w)[d].Queue = eo[d].Queue
                             /\ EoStop(w)[d].State \in Early => eo[d].State \in Early
<1>1. PICK e \in Eos : e = table[w].Eo
  OBVIOUS
<1>2. eo \in [Eos -> EoRecords]
  BY DEF TypeInv
<1>3. PICK g \in EoRecords : g = eo[e]
  BY <1>2
<1>4. PICK r : r = [g EXCEPT !.State = "LocalStop", !.Pending = Cores]
  OBVIOUS
<1>5. r \in EoRecords /\ r.Queue = g.Queue /\ r.State = "LocalStop"
  <2>1. "LocalStop" \in EoStates
    BY DEF EoStates
  <2> QED BY <1>4, <2>1 DEF EoRecords
<1>6. EoStop(w) = [eo EXCEPT ![e] = r]
  BY <1>1, <1>3, <1>4 DEF EoStop
<1>7. "LocalStop" \notin Early
  BY DEF Early
<1> QED BY <1>2, <1>3, <1>5, <1>6, <1>7

LEMMA TerminateWorkerEffect ==
    ASSUME SInv, NEW w \in Workers, TerminateWorker(w)
    PROVE  Effect
<1>1. CASE TerminateActive(w)
  <2>1. /\ table[w].State = "Active" /\ table' = [table EXCEPT ![w].State = "Terminating"]
        /\ eo' = EoStop(w) /\ live' = live
    BY <1>1 DEF TerminateActive, TerminateWorker
  <2>2. table[w].Eo \in Eos /\ TypeInv
    BY <2>1, Distinct DEF SInv, TableInv, EntryOK
  <2>3. \A d \in Eos : eo'[d].Queue = eo[d].Queue /\ (eo'[d].State \in Early => eo[d].State \in Early)
    BY <2>1, <2>2, EoStopKeeps
  <2> QED BY <2>1, <2>3, ClosesIs DEF KeepsQueue
<1>2. CASE TerminateDeploying(w)
  BY <1>2, RequestsIs DEF TerminateDeploying, TerminateWorker, KeepsQueue
<1> QED BY <1>1, <1>2 DEF TerminateWorker

LEMMA TerminateSelfEffect ==
    ASSUME SInv, NEW c \in Cores, TerminateSelf(c)
    PROVE  Effect
<1>1. PICK t : t = Top(c)
  OBVIOUS
<1>2. /\ TypeInv /\ stack[c] # << >> /\ Top(c).at \in {"Start", "LocalStart", "Receive"}
      /\ live' = live
  BY DEF SInv, TerminateSelf, Dispatching
<1>3. FrameOK(c, t) /\ t \in Frames
  BY <1>1, <1>2, TopIs DEF SInv
<1>4. PICK w \in Workers : /\ w = Top(c).w /\ table[w].Eo \in Eos
                           /\ Top(c).at = "Start" => table[w].State = "Deploying"
                           /\ table[w].State \in {"Deploying", "Active", "Terminating"}
  BY <1>1, <1>2, <1>3 DEF FrameOK, Has, Frames
<1>5. Top(c).at = "Start" => Top(c).eo \in Eos /\ eo[Top(c).eo].State = "Start"
  BY <1>2, StartFrame DEF At
<1>6. ASSUME NEW eos \in [Eos -> EoRecords], eos = eo \/ (eos = EoStop(w) /\ Top(c).at # "Start"),
             eo' = EndCallback(c, eos)
      PROVE  /\ \A d \in Eos : KeepsQueue(d)
             /\ \A d \in Eos : eo'[d].State \in Early => eo[d].State \in Early
  <2>1. \A d \in Eos : /\ eo'[d].Queue = eos[d].Queue
                       /\ eo'[d].State \in Early => eos[d].State \in Early
    BY <1>5, <1>6, EndCallbackKeeps
  <2>2. \A d \in Eos : eos[d].Queue = eo[d].Queue /\ (eos[d].State \in Early => eo[d].State \in Early)
    BY <1>2, <1>4, <1>6, EoStopKeeps
  <2> QED BY <2>1, <2>2 DEF KeepsQueue
<1>7. CASE table[w].State = "Active"
  <2>1. table' = [table EXCEPT ![w].State = "Terminating"] /\ eo' = EndCallback(c, EoStop(w))
    BY <1>4, <1>7 DEF TerminateSelf
  <2>2. EoStop(w) \in [Eos -> EoRecords]
    BY <1>2, <1>4, EoStopKeeps
  <2>3. /\ \A d \in Eos : KeepsQueue(d)
        /\ \A d \in Eos : eo'[d].State \in Early => eo[d].State \in Early
    <3>1. Top(c).at # "Start"
      BY <1>4, <1>7
    <3> QED BY <1>6, <2>1, <2>2, <3>1
  <2> QED BY <1>2, <1>7, <2>1, <2>3, ClosesIs
<1>8. CASE table[w].State # "Active"
  <2>1. eo' = EndCallback(c, eo) /\ eo \in [Eos -> EoRecords]
    BY <1>2, <1>4, <1>8 DEF TerminateSelf, TypeInv
  <2>2. /\ \A d \in Eos : KeepsQueue(d)
        /\ \A d \in Eos : eo'[d].State \in Early => eo[d].State \in Early
    BY <1>6, <2>1
  <2>3. CASE table[w].State = "Deploying"
    <3>1. table' = [table EXCEPT ![w].TerminationRequested = TRUE]
      BY <1>4, <2>3 DEF TerminateSelf
    <3> QED BY <1>2, <2>2, <2>3, <3>1, RequestsIs
  <2>4. CASE table[w].State = "Terminating"
    <3>1. table' = table
      BY <1>4, <2>4 DEF TerminateSelf
    <3> QED BY <1>2, <2>2, <3>1, SilentIs DEF KeepsRow
  <2> QED BY <1>4, <1>8, <2>3, <2>4
<1> QED BY <1>7, <1>8

LEMMA SendMessageEffect ==
    ASSUME SInv, NEW m \in Messages, NEW w \in Workers, SendMessage(m, w)
    PROVE  Effect
<1>1. TypeInv /\ table \in [Workers -> Contexts] /\ m \notin live /\ live' = live \cup {m}
  BY DEF SInv, TypeInv, SendMessage
<1>2. CASE table[w].State = "Active"
  <2>1. table' = table /\ eo' = Enqueue(table[w].Eo, <<m>>)
    BY <1>2 DEF SendMessage
  <2>2. PICK e \in Eos : table[w].Eo = e
    BY <1>1, <1>2, Distinct DEF SInv, TableInv, EntryOK
  <2>3. PICK old \in Seq(Messages) : old = eo[e].Queue
    BY <1>1 DEF TypeInv, EoRecords
  <2>4. PICK q : q = Append(old, m)
    OBVIOUS
  <2>5. q \in Seq(Messages) /\ q = old \o <<m>>
    BY <2>4
  <2>6. eo' = [eo EXCEPT ![e].Queue = q]
    BY <2>1, <2>2, <2>3, <2>5 DEF Enqueue
  <2>7. eo'[e].Queue = q /\ eo'[e].State = eo[e].State /\ \A d \in Eos : d # e => eo'[d] = eo[d]
    BY <1>1, <2>5, <2>6, EoQueueType
  <2>8. Sends(w, e, m)
    BY <1>1, <1>2, <2>1, <2>2, <2>3, <2>4, <2>7 DEF Sends, QueuesBut, KeepsRow, KeepsQueue
  <2>9. StartsEmpty
    BY <2>1, <2>7 DEF StartsEmpty
  <2> QED BY <2>8, <2>9 DEF Effect
<1>3. CASE table[w].State # "Active"
  <2>1. /\ eo' = eo /\ Len(table[w].MessageBuffer) < BufferLength /\ table[w].State = "Deploying"
        /\ table' = [table EXCEPT ![w].MessageBuffer = Append(@, m)]
    BY <1>3 DEF SendMessage
  <2>2. PICK ctx \in Contexts : ctx = table[w]
    BY <1>1
  <2>3. PICK b : b = Append(ctx.MessageBuffer, m)
    OBVIOUS
  <2>4. PICK r : r = [ctx EXCEPT !.MessageBuffer = b]
    OBVIOUS
  <2>5. /\ r.State = ctx.State /\ r.Eo = ctx.Eo
        /\ r.TerminationRequested = ctx.TerminationRequested /\ r.MessageBuffer = b
    BY <2>4 DEF Contexts
  <2>6. table' = [table EXCEPT ![w] = r]
    BY <1>1, <2>1, <2>2, <2>3, <2>4
  <2>7. table'[w] = r /\ \A x \in Workers : x # w => table'[x] = table[x]
    BY <1>1, <2>6, RowAssigned
  <2>8. Collects(w, m)
    BY <1>1, <2>1, <2>2, <2>3, <2>5, <2>7 DEF Collects, KeepsAllBut, KeepsRow, KeepsQueue
  <2>9. StartsEmpty
    BY <2>1, <2>2, <2>5, <2>7 DEF StartsEmpty
  <2> QED BY <2>8, <2>9 DEF Effect
<1> QED BY <1>2, <1>3

LEMMA CompleteEffect ==
    ASSUME SInv, NEW w \in Workers, CompleteWorkerDeployment(w)
    PROVE  Effect
<1>1. TypeInv /\ table[w].State = "Deploying" /\ table[w].MessageBuffer \in Seq(Messages)
  BY Notified DEF SInv
<1>2. PICK e \in Eos : e = table[w].Eo
  BY Notified
<1>3. CASE table[w].TerminationRequested
  <2>1. /\ live' = live \ In(table[w].MessageBuffer)
        /\ table' = [table EXCEPT ![w].State = "Terminating", ![w].MessageBuffer = << >>]
        /\ eo' = EoStop(w)
    BY <1>3 DEF CompleteWorkerDeployment
  <2>2. \A d \in Eos : eo'[d].Queue = eo[d].Queue /\ (eo'[d].State \in Early => eo[d].State \in Early)
    BY <1>1, <1>2, <2>1, EoStopKeeps
  <2>3. /\ table'[w].State = "Terminating" /\ table'[w].MessageBuffer = << >>
        /\ table'[w].TerminationRequested = table[w].TerminationRequested
        /\ \A x \in Workers : x # w => table'[x] = table[x]
    BY <1>1, <2>1, FlushedType DEF WorkerStates
  <2>4. Drops(w)
    BY <1>1, <1>3, <2>1, <2>2, <2>3 DEF Drops, KeepsAllBut, KeepsRow, KeepsQueue
  <2>5. StartsEmpty
    BY <2>2, <2>3 DEF StartsEmpty
  <2> QED BY <2>4, <2>5 DEF Effect
<1>4. CASE ~ table[w].TerminationRequested
  <2>1. PICK sent \in SUBSET In(table[w].MessageBuffer), q \in Seq(Messages) :
              /\ q = eo[e].Queue \o Kept(table[w].MessageBuffer, sent)
              /\ live' = live \ (In(table[w].MessageBuffer) \ sent)
              /\ eo' = [eo EXCEPT ![e].Queue = q]
              /\ table' = [table EXCEPT ![w].State = "Active", ![w].MessageBuffer = << >>]
    BY <1>2, <1>4, Flushed
  <2>2. /\ table'[w].State = "Active" /\ table'[w].MessageBuffer = << >> /\ table'[w].Eo = e
        /\ table'[w].TerminationRequested = table[w].TerminationRequested
        /\ \A x \in Workers : x # w => table'[x] = table[x]
    BY <1>1, <1>2, <2>1, FlushedType DEF WorkerStates
  <2>3. eo'[e].Queue = q /\ eo'[e].State = eo[e].State /\ \A d \in Eos : d # e => eo'[d] = eo[d]
    BY <1>1, <2>1, EoQueueType
  <2>4. Flushes(w, e, sent)
    BY <1>1, <1>2, <1>4, <2>1, <2>2, <2>3 DEF Flushes, KeepsRow, KeepsQueue
  <2>5. StartsEmpty
    BY <2>2, <2>3 DEF StartsEmpty
  <2>6. sent \in SUBSET Messages
    BY <1>1, <2>1 DEF In
  <2> QED BY <2>4, <2>5, <2>6 DEF Effect
<1> QED BY <1>3, <1>4

(* Every step has an effect of one of these kinds. *)
LEMMA NextEffect ==
    ASSUME SInv, QuietInv, [Next]_vars
    PROVE  Effect
<1>1. ASSUME NEW c \in Cores, PlatformStep(c) PROVE Effect
  BY <1>1, OpeningSteps, ReleaseSteps, DeleteEoEffect, SilentSteps, DeployStartEffect DEF PlatformStep
<1>2. ASSUME NEW c \in Cores, CallbackReturns(c) \/ StartFails(c) PROVE Effect
  BY <1>2, SilentSteps
<1>3. ASSUME NEW e \in Eos, EmStep(e) PROVE Effect
  BY <1>3, SilentSteps, TakingSteps DEF EmStep
<1>4. ASSUME NEW w \in Workers, CompleteWorkerDeployment(w) PROVE Effect
  BY <1>4, CompleteEffect
<1>5. ASSUME UserStep PROVE Effect
  <2>1. ASSUME NEW w \in Workers, NEW m \in Messages, SendMessage(m, w) PROVE Effect
    BY <2>1, SendMessageEffect
  <2> QED BY <1>5, <2>1, SilentSteps, OpeningSteps, TerminateSelfEffect, TerminateWorkerEffect DEF UserStep
<1>6. CASE UNCHANGED vars
  BY <1>6, SilentSteps
<1> QED BY <1>1, <1>2, <1>3, <1>4, <1>5, <1>6 DEF Next

(* The queues stay empty until the worker is up. *)
LEMMA NextQuiet ==
    ASSUME SInv, SInv', QuietInv, Effect
    PROVE  QuietInv'
<1>1. ASSUME NEW d \in Eos, eo[d].Queue = << >>, eo'[d].Queue # << >>
      PROVE  \E w \in Workers : table'[w].Eo = d /\ table'[w].State = "Active"
  <2>1. \/ \E w \in Workers, sent \in SUBSET Messages : Flushes(w, d, sent)
        \/ \E w \in Workers, m \in Messages : Sends(w, d, m)
    BY <1>1 DEF Effect, Silent, Opens, Resets, Closes, Requests, Drops, Collects, Flushes, Sends, Takes, Deletes,
             KeepsAllBut, QueuesBut, KeepsQueue
  <2> QED BY <2>1 DEF Flushes, Sends, QueuesBut, KeepsRow
<1>2. ASSUME NEW d \in Eos PROVE QuietEo(d)'
  <2> SUFFICES ASSUME eo'[d].State \in Early, eo'[d].Queue # << >> PROVE FALSE
    BY DEF QuietEo, Early
  <2>1. eo[d].State \in Early
    BY DEF Effect, StartsEmpty
  <2>2. eo[d].Queue = << >>
    BY <2>1 DEF QuietInv, QuietEo, Early
  <2>3. PICK w \in Workers : table'[w].Eo = d /\ table'[w].State = "Active"
    BY <1>1, <2>2
  <2>4. EntryOK(w)' /\ d # NoEo
    BY WorkersAssumption DEF SInv, TableInv
  <2> QED BY <2>3, <2>4 DEF EntryOK, FitsEntry, Early
<1>3. ASSUME NEW x \in Workers
      PROVE  \/ KeepsRow(x) \/ Opens(x) \/ Resets(x) \/ Closes(x)
             \/ table'[x].State = "Deploying"
             \/ table'[x].State \in {"Active", "Terminating"} /\ table'[x].MessageBuffer = << >>
  BY DEF Effect, Silent, Opens, Resets, Closes, Requests, Drops, Collects, Flushes, Sends, Takes, Deletes,
         KeepsAllBut, QueuesBut
<1>4. ASSUME NEW x \in Workers PROVE QuietEntry(x)'
  <2>0. QuietEntry(x)
    BY DEF QuietInv
  <2>1. table'[x].State # "Deploying" => table'[x].MessageBuffer = << >>
    BY <1>3, <2>0 DEF QuietEntry, KeepsRow, Opens, Resets, Closes
  <2>2. table'[x].State = "Inactive" => ~ table'[x].TerminationRequested
    BY <1>3, <2>0 DEF QuietEntry, KeepsRow, Opens, Resets, Closes
  <2>3. ASSUME table'[x].State = "Deploying", table'[x].Eo # NoEo PROVE eo'[table'[x].Eo].Queue = << >>
    <3>1. PICK d : d = table'[x].Eo
      OBVIOUS
    <3>2. d \in Eos
      BY <2>3, <3>1 DEF SInv, TypeInv, Contexts
    <3>3. CASE eo'[d].State \in Early
      BY <1>2, <3>1, <3>2, <3>3 DEF QuietEo, Early
    <3>4. CASE table[x].State = "Deploying" /\ table[x].Eo = d
      <4> SUFFICES ASSUME eo'[d].Queue # << >> PROVE FALSE
        BY <3>1
      <4>1. eo[d].Queue = << >>
        BY <2>0, <2>3, <3>1, <3>4 DEF QuietEntry
      <4>2. PICK w \in Workers : table'[w].Eo = d /\ table'[w].State = "Active"
        BY <1>1, <3>2, <4>1
      <4>3. EntryOK(w)' /\ EntryOK(x)'
        BY DEF SInv, TableInv
      <4>4. eo'[d].Context = w /\ eo'[d].Context = x
        BY <2>3, <3>1, <4>2, <4>3 DEF EntryOK
      <4> QED BY <2>3, <4>2, <4>4
    <3> QED BY <2>3, <3>1, <3>3, <3>4 DEF Effect, StartsEmpty
  <2> QED BY <2>1, <2>2, <2>3 DEF QuietEntry
<1> QED BY <1>2, <1>4 DEF QuietInv

-----------------------------------------------------------------------------
(***************************************************************************)
(* No assertion fails and contexts outlive their users                     *)
(***************************************************************************)
LEMMA Inductive == Spec => [](SInv /\ QuietInv)
<1>1. Init => SInv /\ QuietInv
  BY InitSInv
<1>2. SInv /\ QuietInv /\ [Next]_vars => SInv' /\ QuietInv'
  <2> SUFFICES ASSUME SInv, QuietInv, [Next]_vars PROVE SInv' /\ QuietInv'
    OBVIOUS
  <2>1. SInv'
    BY NextSInv, StutterSInv
  <2> QED BY <2>1, NextEffect, NextQuiet
<1> QED BY <1>1, <1>2, PTL DEF Spec

(* Whatever steps of deployments and terminations interleave, none of the   *)
(* assertions of the worker table, of DeployWorker, TerminateWorker and of  *)
(* the completion daemon fails, and EM never refuses to stop or to delete   *)
(* an execution object.                                                     *)
THEOREM AssertionsHold == Spec => []NoFatal
<1>1. SInv => NoFatal
  BY DEF SInv, NoFatal
<1> QED BY <1>1, Inductive, PTL

(* While any core is in a callback of a worker, or in the DeployWorker call *)
(* that started it, the table entry is still that of the worker and its EO. *)
THEOREM ContextsOutliveUsers == Spec => []ContextOutlivesUsers
<1>1. SInv => ContextOutlivesUsers
  <2> SUFFICES ASSUME SInv, NEW c \in Cores, NEW i \in 1 .. Len(stack[c]), NEW f, f = stack[c][i],
                      f.at \notin {"Allocated", "DeleteEo", "Crashed"}
               PROVE  /\ table[f.w].WorkerId = f.w /\ table[f.w].Eo = f.eo
                      /\ table[f.w].State \in Admits(f.at)
                      /\ f.at \in {"LocalStart", "Receive", "LocalStop"} => c \in table[f.w].CoreMask
    BY DEF ContextOutlivesUsers
  <2>1. f \in Frames /\ FrameOK(c, f)
    BY FrameTypes DEF SInv, FramesInv
  <2>2. EntryOK(f.w)
    BY <2>1 DEF Frames, SInv, TableInv
  <2>3. table[f.w].Eo = f.eo /\ table[f.w].State \in Admits(f.at)
    BY <2>1 DEF FrameOK, Has, Admits, Frames, Callbacks, DeploySteps
  <2>4. f.at \in {"LocalStart", "Receive", "LocalStop"} => c \in table[f.w].CoreMask
    BY <2>1 DEF FrameOK, Hosts
  <2>5. table[f.w].WorkerId = f.w
    BY <2>2, <2>3 DEF EntryOK, Admits
  <2> QED BY <2>3, <2>4, <2>5
<1> QED BY <1>1, Inductive, PTL

-----------------------------------------------------------------------------
(***************************************************************************)
(* Messages                                                                *)
(***************************************************************************)
LEMMA EmptyIn == In(<< >>) = {} /\ Once(<< >>)
BY DEF In, Once

LEMMA TailIn ==
    ASSUME NEW X, NEW s \in Seq(X), s # << >>, Once(s)
    PROVE  In(Tail(s)) = In(s) \ {Head(s)} /\ Once(Tail(s)) /\ Head(s) \in In(s)
<1>1. /\ Len(s) \in Nat /\ Len(s) > 0 /\ Head(s) = s[1]
  OBVIOUS
<1>2. PICK t : t = Tail(s)
  OBVIOUS
<1>3. Len(t) = Len(s) - 1 /\ \A i \in 1 .. Len(t) : t[i] = s[i + 1]
  BY <1>1, <1>2
<1>4. Once(t)
  <2> SUFFICES ASSUME NEW i \in 1 .. Len(t), NEW j \in 1 .. Len(t), t[i] = t[j] PROVE i = j
    BY DEF Once
  <2>1. i + 1 \in 1 .. Len(s) /\ j + 1 \in 1 .. Len(s) /\ s[i + 1] = s[j + 1]
    BY <1>1, <1>3
  <2>2. i + 1 = j + 1
    BY <2>1 DEF Once
  <2> QED BY <2>2
<1>5. ASSUME NEW x \in In(t) PROVE x \in In(s) \ {s[1]}
  <2>1. PICK i \in 1 .. Len(t) : x = t[i]
    BY <1>5 DEF In
  <2>2. i + 1 \in 1 .. Len(s) /\ 1 \in 1 .. Len(s) /\ x = s[i + 1] /\ i + 1 # 1
    BY <1>1, <1>3, <2>1
  <2> QED BY <2>2 DEF In, Once
<1>6. ASSUME NEW x \in In(s), x # s[1] PROVE x \in In(t)
  <2>1. PICK i \in 1 .. Len(s) : x = s[i]
    BY <1>6 DEF In
  <2>2. i - 1 \in 1 .. Len(t) /\ (i - 1) + 1 = i
    BY <1>1, <1>3, <1>6, <2>1
  <2>3. t[i - 1] = x
    BY <1>3, <2>1, <2>2
  <2> QED BY <2>2, <2>3 DEF In
<1>7. s[1] \in In(s)
  BY <1>1 DEF In
<1> QED BY <1>1, <1>2, <1>4, <1>5, <1>6, <1>7

(* Messages stay where they are, or move between the buffer of w and the    *)
(* queue of e, or come from outside (N) or go there.                        *)
LEMMA MailMove ==
    ASSUME MailInv, NEW w \in Workers, NEW e,
           \A x \in Workers : x # w => Box(x)' = Box(x),
           \A d \in Eos : d # e => Queue(d)' = Queue(d),
           NEW N, N \cap live = {},
           NEW b, b = Box(w)', NEW q, q = Queue(e)', Once(b), Once(q),
           In(b) \cup In(q) \subseteq In(Box(w)) \cup In(Queue(e)) \cup N,
           In(b) \cap In(q) = {}, In(b) \cup In(q) \subseteq live',
           live \ (In(Box(w)) \cup In(Queue(e))) \subseteq live'
    PROVE  MailInv'
<1>0. /\ \A x \in Workers : Once(Box(x)) /\ In(Box(x)) \subseteq live
      /\ \A d \in Eos : Once(Queue(d)) /\ In(Queue(d)) \subseteq live
      /\ \A x, y \in Workers : x # y => In(Box(x)) \cap In(Box(y)) = {}
      /\ \A d, f \in Eos : d # f => In(Queue(d)) \cap In(Queue(f)) = {}
      /\ \A x \in Workers, d \in Eos : In(Box(x)) \cap In(Queue(d)) = {}
  BY DEF MailInv, Holds
<1>1. e \notin Eos => In(Queue(e)) = {}
  BY EmptyIn DEF Queue
<1>2. ASSUME NEW x \in Workers, x # w
      PROVE  /\ Once(Box(x)') /\ In(Box(x)') \subseteq live'
             /\ In(Box(x)') \cap (In(b) \cup In(q)) = {}
  <2>1. PICK k : k = Box(x)
    OBVIOUS
  <2>2. Box(x)' = k /\ Once(k) /\ In(k) \subseteq live
    BY <1>0, <1>2, <2>1
  <2>3. In(k) \cap In(Box(w)) = {} /\ In(k) \cap In(Queue(e)) = {}
    BY <1>0, <1>1, <1>2, <2>1
  <2> QED BY <2>2, <2>3
<1>3. ASSUME NEW d \in Eos, d # e
      PROVE  /\ Once(Queue(d)') /\ In(Queue(d)') \subseteq live'
             /\ In(Queue(d)') \cap (In(b) \cup In(q)) = {}
  <2>1. PICK k : k = Queue(d)
    OBVIOUS
  <2>2. Queue(d)' = k /\ Once(k) /\ In(k) \subseteq live
    BY <1>0, <1>3, <2>1
  <2>3. In(k) \cap In(Box(w)) = {} /\ In(k) \cap In(Queue(e)) = {}
    BY <1>0, <1>1, <1>3, <2>1
  <2> QED BY <2>2, <2>3
<1>4. \A x \in Workers : Holds(Box(x))'
  BY <1>2 DEF Holds
<1>5. \A d \in Eos : Holds(Queue(d))'
  BY <1>3 DEF Holds
<1>6. \A x, y \in Workers : x # y => In(Box(x)') \cap In(Box(y)') = {}
  <2> SUFFICES ASSUME NEW x \in Workers, NEW y \in Workers, x # y PROVE In(Box(x)') \cap In(Box(y)') = {}
    OBVIOUS
  <2>1. CASE x # w /\ y # w
    <3>1. Box(x)' = Box(x) /\ Box(y)' = Box(y)
      BY <2>1
    <3> QED BY <1>0, <3>1
  <2>2. CASE x = w
    BY <1>2, <2>2
  <2>3. CASE y = w
    BY <1>2, <2>3
  <2> QED BY <2>1, <2>2, <2>3
<1>7. \A d, f \in Eos : d # f => In(Queue(d)') \cap In(Queue(f)') = {}
  <2> SUFFICES ASSUME NEW d \in Eos, NEW f \in Eos, d # f PROVE In(Queue(d)') \cap In(Queue(f)') = {}
    OBVIOUS
  <2>1. CASE d # e /\ f # e
    <3>1. Queue(d)' = Queue(d) /\ Queue(f)' = Queue(f)
      BY <2>1
    <3> QED BY <1>0, <3>1
  <2>2. CASE d = e
    BY <1>3, <2>2
  <2>3. CASE f = e
    BY <1>3, <2>3
  <2> QED BY <2>1, <2>2, <2>3
<1>8. \A x \in Workers, d \in Eos : In(Box(x)') \cap In(Queue(d)') = {}
  <2> SUFFICES ASSUME NEW x \in Workers, NEW d \in Eos PROVE In(Box(x)') \cap In(Queue(d)') = {}
    OBVIOUS
  <2>1. CASE x # w /\ d # e
    <3>1. Box(x)' = Box(x) /\ Queue(d)' = Queue(d)
      BY <2>1
    <3> QED BY <1>0, <3>1
  <2>2. CASE x = w /\ d # e
    BY <1>3, <2>2
  <2>3. CASE x # w /\ d = e
    BY <1>2, <2>3
  <2>4. CASE x = w /\ d = e
    BY <2>4
  <2> QED BY <2>1, <2>2, <2>3, <2>4
<1> QED BY <1>4, <1>5, <1>6, <1>7, <1>8 DEF MailInv

LEMMA BoxesAre ==
    ASSUME SInv
    PROVE  /\ \A w \in Workers : Box(w) \in Seq(Messages)
           /\ \A e \in Eos : Queue(e) \in Seq(Messages) /\ Queue(e) = eo[e].Queue
           /\ NoEo \notin Eos /\ Queue(NoEo) = << >> /\ 0 \in Workers
<1>1. TypeInv
  BY DEF SInv
<1>2. 0 \in Workers
  BY IdAssumption DEF Workers
<1>3. \A w \in Workers : Box(w) \in Buffers
  BY <1>1 DEF TypeInv, Contexts, Box
<1>4. \A e \in Eos : eo[e].Queue \in Seq(Messages)
  BY <1>1 DEF TypeInv, EoRecords
<1> QED BY <1>2, <1>3, <1>4, BuffersAre, WorkersAssumption DEF Queue

(* The buffer of w changes, or is emptied. *)
LEMMA MailKeep ==
    ASSUME SInv, MailInv, NEW w \in Workers, KeepsAllBut(w), live \ In(Box(w)) \subseteq live',
           \/ table'[w].MessageBuffer = Box(w) /\ live' = live
           \/ table'[w].MessageBuffer = << >>
    PROVE  MailInv'
<1>1. PICK b : b = Box(w)'
  OBVIOUS
<1>2. PICK q : q = Queue(NoEo)'
  OBVIOUS
<1>3. q = << >> /\ In(q) = {} /\ Once(q) /\ Queue(NoEo) = << >>
  BY <1>2, BoxesAre, EmptyIn DEF Queue
<1>4. Once(b) /\ In(b) \subseteq In(Box(w)) /\ In(b) \subseteq live'
  BY <1>1, EmptyIn DEF Box, MailInv, Holds
<1>5. \A x \in Workers : x # w => Box(x)' = Box(x)
  BY DEF KeepsAllBut, KeepsRow, Box
<1>6. \A d \in Eos : d # NoEo => Queue(d)' = Queue(d)
  BY DEF KeepsAllBut, KeepsQueue, Queue
<1>7. PICK N : N = {}
  OBVIOUS
<1>8. /\ N \cap live = {} /\ In(b) \cup In(q) \subseteq In(Box(w)) \cup In(Queue(NoEo)) \cup N
      /\ In(b) \cap In(q) = {} /\ In(b) \cup In(q) \subseteq live'
      /\ live \ (In(Box(w)) \cup In(Queue(NoEo))) \subseteq live'
  BY <1>3, <1>4, <1>7
<1> QED BY <1>1, <1>2, <1>3, <1>4, <1>5, <1>6, <1>8, MailMove

LEMMA CollectsMail ==
    ASSUME SInv, MailInv, NEW w \in Workers, NEW m \in Messages, Collects(w, m)
    PROVE  MailInv'
<1>1. PICK b : b = Box(w)'
  OBVIOUS
<1>2. PICK q : q = Queue(NoEo)'
  OBVIOUS
<1>3. q = << >> /\ In(q) = {} /\ Once(q) /\ Queue(NoEo) = << >> /\ In(Queue(NoEo)) = {}
  BY <1>2, BoxesAre, EmptyIn DEF Queue
<1>4. PICK old \in Seq(Messages) : old = Box(w)
  BY BoxesAre
<1>5. b = Append(old, m) /\ live' = live \cup {m} /\ m \notin live
  BY <1>1, <1>4 DEF Box, Collects
<1>6. Once(old) /\ In(old) \subseteq live
  BY <1>4 DEF MailInv, Holds
<1>7. Once(b) /\ In(b) = In(old) \cup {m}
  BY <1>5, <1>6, AppendOnce, AppendIn
<1>8. \A x \in Workers : x # w => Box(x)' = Box(x)
  BY DEF Collects, KeepsAllBut, KeepsRow, Box
<1>9. \A d \in Eos : d # NoEo => Queue(d)' = Queue(d)
  BY DEF Collects, KeepsAllBut, KeepsQueue, Queue
<1>10. PICK N : N = {m}
  OBVIOUS
<1>11. /\ N \cap live = {} /\ In(b) \cup In(q) \subseteq In(Box(w)) \cup In(Queue(NoEo)) \cup N
       /\ In(b) \cap In(q) = {} /\ In(b) \cup In(q) \subseteq live'
       /\ live \ (In(Box(w)) \cup In(Queue(NoEo))) \subseteq live'
  BY <1>3, <1>4, <1>5, <1>6, <1>7, <1>10
<1> QED BY <1>1, <1>2, <1>3, <1>7, <1>8, <1>9, <1>11, MailMove

LEMMA FlushesMail ==
    ASSUME SInv, QuietInv, MailInv, NEW w \in Workers, NEW e \in Eos, NEW sent, Flushes(w, e, sent)
    PROVE  MailInv'
<1>1. PICK b : b = Box(w)'
  OBVIOUS
<1>2. PICK q : q = Queue(e)'
  OBVIOUS
<1>3. b = << >> /\ In(b) = {} /\ Once(b)
  BY <1>1, EmptyIn DEF Box, Flushes
<1>4. PICK old \in Seq(Messages) : old = Box(w)
  BY BoxesAre
<1>5. eo[e].Queue = << >>
  BY BoxesAre DEF Flushes, QuietInv, QuietEntry
<1>6. PICK k \in Seq(Messages) : k = Kept(old, sent) /\ In(k) = In(old) \cap sent /\ (Once(old) => Once(k))
  BY KeptIs
<1>7. q = k
  <2>1. q = << >> \o k
    BY <1>2, <1>4, <1>5, <1>6 DEF Flushes, Queue, Box
  <2> QED BY <2>1
<1>8. Once(old) /\ In(old) \subseteq live
  BY <1>4 DEF MailInv, Holds
<1>9. live' = live \ (In(old) \ sent)
  BY <1>4 DEF Flushes, Box
<1>10. \A x \in Workers : x # w => Box(x)' = Box(x)
  BY DEF Flushes, KeepsRow, Box
<1>11. \A d \in Eos : d # e => Queue(d)' = Queue(d)
  BY DEF Flushes, KeepsQueue, Queue
<1>12. PICK N : N = {}
  OBVIOUS
<1>13. /\ N \cap live = {} /\ In(b) \cup In(q) \subseteq In(Box(w)) \cup In(Queue(e)) \cup N
       /\ In(b) \cap In(q) = {} /\ In(b) \cup In(q) \subseteq live' /\ Once(q)
       /\ live \ (In(Box(w)) \cup In(Queue(e))) \subseteq live'
  BY <1>3, <1>4, <1>6, <1>7, <1>8, <1>9, <1>12
<1> QED BY <1>1, <1>2, <1>3, <1>10, <1>11, <1>13, MailMove

(* The queue of e changes. *)
LEMMA QueueMail ==
    ASSUME SInv, MailInv, NEW e \in Eos, QueuesBut(e), NEW q, q = eo'[e].Queue, Once(q),
           NEW N, N \cap live = {}, In(q) \subseteq In(Queue(e)) \cup N, In(q) \subseteq live',
           live \ In(Queue(e)) \subseteq live'
    PROVE  MailInv'
<1>1. PICK w \in Workers : TRUE
  BY BoxesAre
<1>2. PICK b : b = Box(w)'
  OBVIOUS
<1>3. b = Box(w) /\ Once(b) /\ In(b) \subseteq live /\ In(b) \cap In(Queue(e)) = {}
  BY <1>2 DEF QueuesBut, KeepsRow, Box, MailInv, Holds
<1>4. q = Queue(e)'
  BY DEF Queue
<1>5. \A x \in Workers : x # w => Box(x)' = Box(x)
  BY DEF QueuesBut, KeepsRow, Box
<1>6. \A d \in Eos : d # e => Queue(d)' = Queue(d)
  BY DEF QueuesBut, KeepsQueue, Queue
<1>7. /\ In(b) \cup In(q) \subseteq In(Box(w)) \cup In(Queue(e)) \cup N
      /\ In(b) \cap In(q) = {} /\ In(b) \cup In(q) \subseteq live'
      /\ live \ (In(Box(w)) \cup In(Queue(e))) \subseteq live'
  BY <1>3
<1> QED BY <1>2, <1>3, <1>4, <1>5, <1>6, <1>7, MailMove

LEMMA NextMail ==
    ASSUME SInv, QuietInv, MailInv, Effect
    PROVE  MailInv'
<1>1. CASE Silent
  <2>1. /\ \A w \in Workers : Box(w)' = Box(w)
        /\ \A e \in Eos : Queue(e)' = Queue(e)
        /\ live' = live
    BY <1>1 DEF Silent, KeepsRow, KeepsQueue, Box, Queue
  <2> QED BY <2>1 DEF MailInv, Holds
<1>2. ASSUME NEW w \in Workers, Opens(w) \/ Resets(w) \/ Closes(w) \/ Requests(w) \/ Drops(w)
      PROVE  MailInv'
  <2>1. /\ KeepsAllBut(w) /\ live \ In(Box(w)) \subseteq live'
        /\ \/ table'[w].MessageBuffer = Box(w) /\ live' = live
           \/ table'[w].MessageBuffer = << >>
    BY <1>2 DEF Opens, Resets, Closes, Requests, Drops, Box
  <2> QED BY <2>1, MailKeep
<1>3. ASSUME NEW w \in Workers, NEW e \in Eos, NEW m \in Messages, Sends(w, e, m)
      PROVE  MailInv'
  <2>1. PICK old \in Seq(Messages) : old = Queue(e) /\ old = eo[e].Queue
    BY BoxesAre
  <2>2. PICK q : q = eo'[e].Queue
    OBVIOUS
  <2>3. QueuesBut(e) /\ q = Append(old, m) /\ m \notin live /\ live' = live \cup {m}
    BY <1>3, <2>1, <2>2 DEF Sends
  <2>4. Once(old) /\ In(old) \subseteq live
    BY <2>1 DEF MailInv, Holds
  <2>5. Once(q) /\ In(q) = In(old) \cup {m}
    BY <2>3, <2>4, AppendOnce, AppendIn
  <2>6. PICK N : N = {m}
    OBVIOUS
  <2>7. /\ N \cap live = {} /\ In(q) \subseteq In(Queue(e)) \cup N /\ In(q) \subseteq live'
        /\ live \ In(Queue(e)) \subseteq live'
    BY <2>1, <2>3, <2>4, <2>5, <2>6
  <2> QED BY <2>2, <2>3, <2>5, <2>7, QueueMail
<1>4. ASSUME NEW e \in Eos, Takes(e) \/ Deletes(e)
      PROVE  MailInv'
  <2>1. PICK old \in Seq(Messages) : old = Queue(e) /\ old = eo[e].Queue
    BY BoxesAre
  <2>2. PICK q : q = eo'[e].Queue
    OBVIOUS
  <2>3. Once(old) /\ In(old) \subseteq live
    BY <2>1 DEF MailInv, Holds
  <2>4. /\ QueuesBut(e) /\ Once(q) /\ In(q) \subseteq In(old) /\ In(q) \subseteq live'
        /\ live \ In(old) \subseteq live'
    <3>1. CASE Takes(e)
      <4>1. /\ q = Tail(old) /\ old # << >> /\ live' = live \ {Head(old)} /\ QueuesBut(e)
        BY <2>1, <2>2, <3>1 DEF Takes
      <4>2. Once(q) /\ In(q) = In(old) \ {Head(old)} /\ Head(old) \in In(old)
        BY <2>3, <4>1, TailIn
      <4> QED BY <2>3, <4>1, <4>2
    <3>2. CASE Deletes(e)
      <4>1. q = << >> /\ live' = live \ In(old) /\ QueuesBut(e)
        BY <2>1, <2>2, <3>2 DEF Deletes
      <4>2. Once(q) /\ In(q) = {}
        BY <4>1, EmptyIn
      <4> QED BY <4>1, <4>2
    <3> QED BY <1>4, <3>1, <3>2
  <2>5. PICK N : N = {}
    OBVIOUS
  <2>6. /\ N \cap live = {} /\ In(q) \subseteq In(Queue(e)) \cup N
        /\ live \ In(Queue(e)) \subseteq live'
    BY <2>1, <2>4, <2>5
  <2> QED BY <2>2, <2>4, <2>6, QueueMail
<1> QED BY <1>1, <1>2, <1>3, <1>4, CollectsMail, FlushesMail DEF Effect

LEMMA InitMail ==
    ASSUME Init
    PROVE  MailInv
<1>1. \A w \in Workers : Box(w) = << >>
  BY DEF Init, Box, ResetContext
<1>2. \A e \in Eos : Queue(e) = << >>
  BY DEF Init, Queue, NoEoRecord
<1> QED BY <1>1, <1>2, EmptyIn DEF MailInv, Holds

LEMMA InductiveMail == Spec => [](SInv /\ QuietInv /\ MailInv)
<1>1. Init => MailInv
  BY InitMail
<1>2. SInv /\ QuietInv /\ MailInv /\ [Next]_vars => MailInv'
  BY NextEffect, NextMail
<1> QED BY <1>1, <1>2, Inductive, PTL DEF Spec

(* A message has one holder at most, and none once it has been freed.       *)
LEMMA OneHolder ==
    ASSUME SInv, MailInv
    PROVE  NoMessageTwice
<1> SUFFICES ASSUME NEW m \in Messages PROVE Holders(m) <= (IF m \in live THEN 1 ELSE 0)
  BY DEF NoMessageTwice
<1> DEFINE A == {p \in Workers \X (1 .. BufferLength) :
                   p[2] <= Len(table[p[1]].MessageBuffer) /\ table[p[1]].MessageBuffer[p[2]] = m}
           B == {p \in Eos \X (1 .. Cardinality(Messages)) :
                   p[2] <= Len(eo[p[1]].Queue) /\ eo[p[1]].Queue[p[2]] = m}
<1>0. /\ \A x \in Workers : Once(Box(x)) /\ In(Box(x)) \subseteq live
      /\ \A d \in Eos : Once(Queue(d)) /\ In(Queue(d)) \subseteq live
      /\ \A x, y \in Workers : x # y => In(Box(x)) \cap In(Box(y)) = {}
      /\ \A d, f \in Eos : d # f => In(Queue(d)) \cap In(Queue(f)) = {}
      /\ \A x \in Workers, d \in Eos : In(Box(x)) \cap In(Queue(d)) = {}
  BY DEF MailInv, Holds
<1>1. ASSUME NEW p \in A
      PROVE  p[1] \in Workers /\ p[2] \in 1 .. Len(Box(p[1])) /\ Box(p[1])[p[2]] = m
             /\ p = <<p[1], p[2]>> /\ m \in In(Box(p[1]))
  <2>1. /\ p[1] \in Workers /\ p[2] \in 1 .. BufferLength /\ p = <<p[1], p[2]>>
        /\ p[2] <= Len(Box(p[1])) /\ Box(p[1])[p[2]] = m
    BY DEF Box
  <2>2. Len(Box(p[1])) \in Nat
    BY <2>1, BoxesAre
  <2>3. p[2] \in 1 .. Len(Box(p[1]))
    BY <2>1, <2>2, WorkersAssumption
  <2> QED BY <2>1, <2>3 DEF In
<1>2. ASSUME NEW p \in B
      PROVE  p[1] \in Eos /\ p[2] \in 1 .. Len(Queue(p[1])) /\ Queue(p[1])[p[2]] = m
             /\ p = <<p[1], p[2]>> /\ m \in In(Queue(p[1]))
  <2>1. /\ p[1] \in Eos /\ p[2] \in 1 .. Cardinality(Messages) /\ p = <<p[1], p[2]>>
        /\ p[2] <= Len(Queue(p[1])) /\ Queue(p[1])[p[2]] = m
    BY DEF Queue
  <2>2. Len(Queue(p[1])) \in Nat
    BY <2>1, BoxesAre
  <2>3. p[2] \in 1 .. Len(Queue(p[1]))
    BY <2>1, <2>2
  <2> QED BY <2>1, <2>3 DEF In
<1>3. \A p, r \in A : p = r
  <2> SUFFICES ASSUME NEW p \in A, NEW r \in A PROVE p = r
    OBVIOUS
  <2>1. p[1] = r[1]
    BY <1>0, <1>1
  <2>2. p[2] = r[2]
    BY <1>0, <1>1, <2>1 DEF Once
  <2> QED BY <1>1, <2>1, <2>2
<1>4. \A p, r \in B : p = r
  <2> SUFFICES ASSUME NEW p \in B, NEW r \in B PROVE p = r
    OBVIOUS
  <2>1. p[1] = r[1]
    BY <1>0, <1>2
  <2>2. p[2] = r[2]
    BY <1>0, <1>2, <2>1 DEF Once
  <2> QED BY <1>2, <2>1, <2>2
<1>5. m \notin live => A = {} /\ B = {}
  BY <1>0, <1>1, <1>2
<1>6. A = {} \/ B = {}
  BY <1>0, <1>1, <1>2
<1>7. Holders(m) = Cardinality(A) + Cardinality(B)
  BY DEF Holders
<1> HIDE DEF A, B
<1>8. Cardinality(A) = (IF A = {} THEN 0 ELSE 1)
  <2>1. ASSUME NEW p \in A PROVE A = {p}
    BY <1>3
  <2> QED BY <2>1, FS_EmptySet, FS_Singleton
<1>9. Cardinality(B) = (IF B = {} THEN 0 ELSE 1)
  <2>1. ASSUME NEW p \in B PROVE B = {p}
    BY <1>4
  <2> QED BY <2>1, FS_EmptySet, FS_Singleton
<1> QED BY <1>5, <1>6, <1>7, <1>8, <1>9

LEMMA NoneLeaks ==
    ASSUME SInv
    PROVE  NoEoLeak
<1> SUFFICES ASSUME NEW e \in Eos, eo[e].State # "Undef",
                    ~ (eo[e].Context \in Workers /\ table[eo[e].Context].Eo = e)
             PROVE  Cardinality({c \in Cores : At(c, "DeleteEo") /\ Top(c).eo = e}) = 1
  BY DEF NoEoLeak
<1>1. EoOK(e) /\ TypeInv /\ FramesInv /\ eo[e].State \in EoStates
  BY DEF SInv, TableInv, TypeInv, EoRecords
<1>2. PICK c \in Cores : At(c, "DeleteEo") /\ Top(c).eo = e
  BY <1>1 DEF EoOK, EoStates, Doomed
<1>3. ASSUME NEW d \in Cores, At(d, "DeleteEo"), Top(d).eo = e PROVE d = c
  <2>1. /\ stack[c] # << >> /\ stack[d] # << >>
        /\ Top(c).at = "DeleteEo" /\ Top(d).at = "DeleteEo"
    BY <1>2, <1>3 DEF At
  <2>2. /\ 1 \in 1 .. Len(stack[c]) /\ 1 \in 1 .. Len(stack[d])
        /\ Top(c) = stack[c][1] /\ Top(d) = stack[d][1]
    BY <1>1, <2>1, TopIs
  <2>3. Clash(stack[c][1], stack[d][1])
    BY <1>2, <1>3, <2>1, <2>2 DEF Clash
  <2> QED BY <1>1, <2>2, <2>3 DEF FramesInv, Apart
<1>4. {d \in Cores : At(d, "DeleteEo") /\ Top(d).eo = e} = {c}
  BY <1>2, <1>3
<1> QED BY <1>4, FS_Singleton

LEMMA Typed ==
    ASSUME SInv
    PROVE  TypeOK
<1>1. /\ TypeInv /\ FramesInv /\ RingInv(fifo, DynamicInUse)
  BY DEF SInv
<1>2. fifo \in Fifos
  BY <1>1 DEF RingInv
<1>3. \A c \in Cores : stack[c] \in Seq(Frames) /\ Len(stack[c]) <= MaxDepth
  BY <1>1 DEF TypeInv, FramesInv, Shape
<1>4. \A e \in Eos : eo[e] \in EoRecords
  BY <1>1 DEF TypeInv
<1>5. \A e \in Eos :
          /\ eo[e].State \in EoStates
          /\ eo[e].Context \in Workers \cup {NoId}
          /\ eo[e].Name \in Names \cup {NoName}
          /\ eo[e].Pending \subseteq Cores
          /\ eo[e].Queue \in Seq(Messages)
  BY <1>4 DEF EoRecords
<1> QED BY <1>1, <1>2, <1>3, <1>5 DEF TypeOK, TypeInv

(* Whatever step of a deployment fails, and whoever terminates the worker   *)
(* meanwhile: the ring of dynamic IDs holds exactly those that are not in   *)
(* use, every execution object is that of an entry or about to be deleted   *)
(* by one core, and no message is in two places or used after it was freed. *)
THEOREM OneOwnerEach == Spec => []ResourcesAccounted
<1>1. SInv /\ QuietInv /\ MailInv => ResourcesAccounted
  <2> SUFFICES ASSUME SInv, MailInv PROVE ResourcesAccounted
    OBVIOUS
  <2>1. TableMatchesRing
    BY DEF SInv, TableMatchesRing
  <2> QED BY <2>1, Typed, NoneLeaks, OneHolder DEF ResourcesAccounted
<1> QED BY <1>1, InductiveMail, PTL

LEMMA HeldIs ==
    ASSUME SInv, NEW m
    PROVE  m \in Held <=> (\E w \in Workers : m \in In(Box(w))) \/ \E e \in Eos : m \in In(Queue(e))
BY BoxesAre DEF Held, Box

(* A message that nobody holds any more was delivered or destroyed, unless  *)
(* it was buffered for a worker whose deployment has just been rolled back: *)
(* this is the only way in which the platform loses a message.              *)
THEOREM LossOnlyOnRollBack == Spec => OnlyRollBackLosesMessages
<1> DEFINE Lost(w) == table[w].State = "Deploying" /\ table'[w].State = "Inactive"
           Lose == live \cap live' \cap (Held \ Held')
                     \subseteq UNION {In(table[w].MessageBuffer) :
                                   w \in {x \in Workers : /\ table[x].State = "Deploying"
                                                          /\ table'[x].State = "Inactive"}}
<1>1. SInv /\ QuietInv /\ MailInv /\ Effect => Lose
  <2> SUFFICES ASSUME SInv, QuietInv, MailInv, Effect, NEW m \in live \cap live' \cap (Held \ Held')
               PROVE  \E w \in Workers : Lost(w) /\ m \in In(Box(w))
    BY DEF Box
  <2>1. /\ \A w \in Workers : m \notin In(table'[w].MessageBuffer)
        /\ \A e \in Eos : m \notin In(eo'[e].Queue)
    BY DEF Held
  <2>2. ASSUME NEW w \in Workers, m \in In(Box(w)) PROVE Lost(w)
    <3>1. PICK old \in Seq(Messages) : old = Box(w) /\ m \in In(old)
      BY <2>2, BoxesAre
    <3>2. table'[w].MessageBuffer # old
      BY <2>1, <3>1
    <3>3. \/ Resets(w) \/ Drops(w) \/ \E x \in Messages : Collects(w, x)
          \/ \E e \in Eos, sent \in SUBSET Messages : Flushes(w, e, sent)
      BY ZenonT(40), <3>1, <3>2 DEF Effect, Silent, Opens, Resets, Closes, Requests, Drops, Collects, Flushes, Sends, Takes,
             Deletes, KeepsAllBut, QueuesBut, KeepsRow, Box
    <3>4. CASE Resets(w)
      <4>1. table[w].State # "Terminating"
        BY <2>2, EmptyIn DEF QuietInv, QuietEntry, Box
      <4> QED BY <3>4, <4>1 DEF Resets
    <3>5. ~ Drops(w)
      BY <2>2 DEF Drops, Box
    <3>6. ASSUME NEW x \in Messages, Collects(w, x) PROVE FALSE
      <4>1. In(table'[w].MessageBuffer) = In(old) \cup {x}
        BY <3>1, <3>6, AppendIn DEF Collects, Box
      <4> QED BY <2>1, <3>1, <4>1
    <3>7. ASSUME NEW e \in Eos, NEW sent \in SUBSET Messages, Flushes(w, e, sent) PROVE FALSE
      <4>1. eo[e].Queue = << >> /\ m \in sent
        BY <2>2, <3>7, BoxesAre DEF Flushes, QuietInv, QuietEntry, Box
      <4>2. PICK k \in Seq(Messages) : k = Kept(old, sent) /\ In(k) = In(old) \cap sent
        BY KeptIs
      <4>3. eo'[e].Queue = k
        <5>1. eo'[e].Queue = << >> \o k
          BY <3>1, <3>7, <4>1, <4>2 DEF Flushes, Box
        <5> QED BY <5>1
      <4> QED BY <2>1, <3>1, <4>1, <4>2, <4>3
    <3> QED BY <3>3, <3>4, <3>5, <3>6, <3>7
  <2>3. ASSUME NEW e \in Eos PROVE m \notin In(Queue(e))
    <3> SUFFICES ASSUME m \in In(Queue(e)) PROVE FALSE
      OBVIOUS
    <3>1. PICK old \in Seq(Messages) : old = Queue(e) /\ old = eo[e].Queue
      BY BoxesAre
    <3>2. eo'[e].Queue # old
      BY <2>1, <3>1
    <3>3. \/ Takes(e) \/ Deletes(e) \/ \E w \in Workers, x \in Messages : Sends(w, e, x)
          \/ \E w \in Workers, sent \in SUBSET Messages : Flushes(w, e, sent)
      BY <3>1, <3>2 DEF Effect, Silent, Opens, Resets, Closes, Requests, Drops, Collects, Flushes, Sends, Takes,
             Deletes, KeepsAllBut, QueuesBut, KeepsQueue
    <3>4. CASE Takes(e)
      <4>1. Once(old)
        BY <3>1 DEF MailInv, Holds
      <4>2. eo'[e].Queue = Tail(old) /\ old # << >> /\ live' = live \ {Head(old)}
        BY <3>1, <3>4 DEF Takes
      <4>3. In(Tail(old)) = In(old) \ {Head(old)}
        BY <4>1, <4>2, TailIn
      <4> QED BY <2>1, <3>1, <4>2, <4>3
    <3>5. ~ Deletes(e)
      BY <3>1 DEF Deletes
    <3>6. ASSUME NEW w \in Workers, NEW x \in Messages, Sends(w, e, x) PROVE FALSE
      <4>1. In(eo'[e].Queue) = In(old) \cup {x}
        BY <3>1, <3>6, AppendIn DEF Sends
      <4> QED BY <2>1, <3>1, <4>1
    <3>7. ASSUME NEW w \in Workers, NEW sent \in SUBSET Messages, Flushes(w, e, sent) PROVE FALSE
      <4>1. old = << >>
        BY <3>1, <3>7, BoxesAre DEF Flushes, QuietInv, QuietEntry
      <4> QED BY <3>1, <4>1, EmptyIn
    <3> QED BY <3>3, <3>4, <3>5, <3>6, <3>7
  <2> QED BY <2>2, <2>3, HeldIs
<1>2. SInv /\ QuietInv /\ MailInv /\ [Next]_vars => [Lose]_vars
  BY <1>1, NextEffect
<1> QED BY <1>2, InductiveMail, PTL DEF Spec, OnlyRollBackLosesMessages

-----------------------------------------------------------------------------
(***************************************************************************)
(* The table and the event machine implement the mailboxes                 *)
(***************************************************************************)
Dying == {w \in Workers : table[w].TerminationRequested}
KeepsMailOf(x) ==
    KeepsRow(x) /\ (table[x].State = "Active" => eo'[table[x].Eo].Queue = eo[table[x].Eo].Queue)

(* What users see of worker w. *)
LEMMA StatusIs ==
    ASSUME SInv, NEW w \in Workers
    PROVE  /\ table[w].State = "Inactive" => Status[w] = "Down" /\ Mail[w] = << >>
           /\ table[w].State = "Deploying" => Status[w] = "Opening" /\ Mail[w] = Box(w)
           /\ table[w].State = "Active" => /\ table[w].Eo \in Eos
                                           /\ Status[w] = "Open" /\ Mail[w] = eo[table[w].Eo].Queue
           /\ table[w].State = "Terminating" => Status[w] = "Closing" /\ Mail[w] = << >>
           /\ table[w].State \in WorkerStates
<1>1. table[w].State \in WorkerStates /\ table[w].Eo \in Eos \cup {NoEo}
  BY DEF SInv, TypeInv, Contexts
<1>2. table[w].State = "Active" => table[w].Eo \in Eos
  BY <1>1 DEF SInv, TableInv, EntryOK
<1> QED BY <1>1, <1>2 DEF Status, Mail, Box, WorkerStates

(* A step after which only worker w looks different. *)
LEMMA ServiceMove ==
    ASSUME SInv, NEW w \in Workers, \A x \in Workers : x # w => KeepsMailOf(x)
    PROVE  /\ Status' = [Status EXCEPT ![w] = Status'[w]]
           /\ Mail' = [Mail EXCEPT ![w] = Mail'[w]]
           /\ \A x \in Workers : x # w => (x \in Dying' <=> x \in Dying)
<1>1. ASSUME NEW x \in Workers, x # w
      PROVE  Status'[x] = Status[x] /\ Mail'[x] = Mail[x] /\ (x \in Dying' <=> x \in Dying)
  <2>1. KeepsMailOf(x)
    BY <1>1
  <2>2. table[x].State # "Deploying" => table'[x].Eo = table[x].Eo
    BY <2>1 DEF KeepsMailOf, KeepsRow
  <2>3. Status'[x] = Status[x] /\ (x \in Dying' <=> x \in Dying)
    BY <2>1 DEF KeepsMailOf, KeepsRow, Status, Dying
  <2>4. Mail'[x] = Mail[x]
    BY <2>1, <2>2 DEF KeepsMailOf, KeepsRow, Mail
  <2> QED BY <2>3, <2>4
<1>2. Status' = [Status EXCEPT ![w] = Status'[w]]
  <2>1. PICK s : s = Status /\ s = [x \in Workers |-> s[x]]
    BY DEF Status
  <2>2. PICK t : t = Status' /\ t = [x \in Workers |-> t[x]]
    BY DEF Status
  <2>3. \A x \in Workers : x # w => t[x] = s[x]
    BY <1>1, <2>1, <2>2
  <2>4. t = [s EXCEPT ![w] = t[w]]
    BY <2>1, <2>2, <2>3
  <2> QED BY <2>1, <2>2, <2>4
<1>3. Mail' = [Mail EXCEPT ![w] = Mail'[w]]
  BY <1>1 DEF Mail
<1> QED BY <1>1, <1>2, <1>3

(* An EO belongs to one worker. *)
LEMMA OtherQueues ==
    ASSUME SInv, NEW w \in Workers, NEW x \in Workers, x # w,
           table[w].Eo \in Eos, table[x].Eo \in Eos
    PROVE  table[x].Eo # table[w].Eo
<1>1. EntryOK(w) /\ EntryOK(x)
  BY DEF SInv, TableInv
<1>2. eo[table[w].Eo].Context = w /\ eo[table[x].Eo].Context = x
  BY <1>1, WorkersAssumption DEF EntryOK
<1> QED BY <1>2

LEMMA StepAllBut ==
    ASSUME SInv, NEW w \in Workers, KeepsAllBut(w)
    PROVE  \A x \in Workers : x # w => KeepsMailOf(x)
BY StatusIs DEF KeepsAllBut, KeepsMailOf, KeepsQueue

LEMMA StepOneQueue ==
    ASSUME SInv, NEW w \in Workers, NEW e \in Eos, table[w].Eo = e,
           \A x \in Workers : x # w => KeepsRow(x), \A d \in Eos : d # e => KeepsQueue(d)
    PROVE  \A x \in Workers : x # w => KeepsMailOf(x)
BY StatusIs, OtherQueues DEF KeepsMailOf, KeepsQueue

(* When no worker's mail and state change, the service stutters. *)
LEMMA ServiceStutters ==
    ASSUME SInv, \A x \in Workers : KeepsMailOf(x)
    PROVE  Status' = Status /\ Mail' = Mail /\ Dying' = Dying
<1>1. PICK w \in Workers : TRUE
  BY BoxesAre
<1>2. table[w].State # "Deploying" => table'[w].Eo = table[w].Eo
  BY DEF KeepsMailOf, KeepsRow
<1>3. Status'[w] = Status[w] /\ (w \in Dying' <=> w \in Dying)
  BY DEF KeepsMailOf, KeepsRow, Status, Dying
<1>4. Mail'[w] = Mail[w]
  BY <1>2 DEF KeepsMailOf, KeepsRow, Mail
<1>5. /\ Status' = [Status EXCEPT ![w] = Status'[w]]
      /\ Mail' = [Mail EXCEPT ![w] = Mail'[w]]
      /\ \A x \in Workers : x # w => (x \in Dying' <=> x \in Dying)
  BY ServiceMove
<1>6. DOMAIN Status = Workers /\ DOMAIN Mail = Workers
  BY DEF Status, Mail
<1>7. Status' = Status /\ Mail' = Mail
  <2>1. PICK s : s = Status /\ s = [x \in Workers |-> s[x]]
    BY DEF Status
  <2>2. PICK t : t = Mail /\ t = [x \in Workers |-> t[x]]
    BY DEF Mail
  <2>3. [s EXCEPT ![w] = s[w]] = s /\ [t EXCEPT ![w] = t[w]] = t
    BY <2>1, <2>2
  <2> QED BY <1>3, <1>4, <1>5, <2>1, <2>2, <2>3
<1>8. Dying \subseteq Workers /\ Dying' \subseteq Workers
  BY DEF Dying
<1> QED BY <1>3, <1>5, <1>7, <1>8

(* What a step of the service is, in terms of what users see of worker w.   *)
LEMMA ServiceStep ==
    ASSUME SInv, SInv', QuietInv, QuietInv', NEW w \in Workers,
           \A x \in Workers : x # w => KeepsMailOf(x),
           \/ Opens(w) \/ Resets(w) \/ Closes(w) \/ Requests(w) \/ Drops(w)
           \/ \E m \in Messages : Collects(w, m)
           \/ \E e \in Eos, sent \in SUBSET Messages : Flushes(w, e, sent)
           \/ \E e \in Eos, m \in Messages : Sends(w, e, m)
           \/ table[w].State = "Active" /\ Takes(table[w].Eo)
    PROVE  Service!Next
<1> DEFINE st == Status'[w]
           ma == Mail'[w]
<1>1. /\ Status' = [Status EXCEPT ![w] = st]
      /\ Mail' = [Mail EXCEPT ![w] = ma]
      /\ \A x \in Workers : x # w => (x \in Dying' <=> x \in Dying)
      /\ Dying \subseteq Workers /\ Dying' \subseteq Workers
  BY ServiceMove DEF Dying
<1>2. DOMAIN Status = Workers /\ DOMAIN Mail = Workers
  BY DEF Status, Mail
<1>3. (w \in Dying <=> table[w].TerminationRequested) /\ (w \in Dying' <=> table'[w].TerminationRequested)
  BY DEF Dying
<1>4. /\ w \notin Dying' => Dying' = Dying \ {w}
      /\ w \in Dying' => Dying' = Dying \cup {w}
      /\ (w \in Dying' <=> w \in Dying) => Dying' = Dying
  BY <1>1
<1>5. QuietEntry(w) /\ QuietEntry(w)'
  BY DEF QuietInv
<1>6. /\ [Status EXCEPT ![w] = Status[w]] = Status
      /\ [Mail EXCEPT ![w] = Mail[w]] = Mail
  <2>1. PICK s : s = Status /\ s = [x \in Workers |-> s[x]]
    BY DEF Status
  <2>2. PICK t : t = Mail /\ t = [x \in Workers |-> t[x]]
    BY DEF Mail
  <2>3. [s EXCEPT ![w] = s[w]] = s /\ [t EXCEPT ![w] = t[w]] = t
    BY <2>1, <2>2
  <2> QED BY <2>1, <2>2, <2>3
<1>7. /\ table'[w].State = "Inactive" => st = "Down" /\ ma = << >>
      /\ table'[w].State = "Deploying" => st = "Opening" /\ ma = table'[w].MessageBuffer
      /\ table'[w].State = "Active" => st = "Open" /\ ma = eo'[table'[w].Eo].Queue
      /\ table'[w].State = "Terminating" => st = "Closing" /\ ma = << >>
  BY DEF Status, Mail
<1> DEFINE doom == {x \in Workers : table[x].TerminationRequested}
<1>8. doom = Dying /\ doom' = Dying'
  BY DEF Dying
<1> HIDE DEF st, ma, doom
<1>9. ASSUME Opens(w) PROVE Service!Deploy(w)
  <2>1. Mail[w] = << >> /\ ma = << >> /\ Status[w] = "Down" /\ st = "Opening" /\ Dying' = Dying
    BY <1>3, <1>4, <1>5, <1>7, <1>9, StatusIs DEF Opens, QuietEntry
  <2>2. Mail' = Mail
    BY <1>1, <1>6, <2>1
  <2> QED BY <1>1, <1>8, <2>1, <2>2 DEF Service!Deploy, doom
<1>10. ASSUME Resets(w) PROVE Service!Fail(w) \/ Service!Remove(w)
  <2>1. st = "Down" /\ ma = << >> /\ Dying' = Dying \ {w}
    BY <1>3, <1>4, <1>7, <1>10 DEF Resets
  <2>2. CASE table[w].State = "Deploying"
    <3>1. Status[w] = "Opening"
      BY <2>2, StatusIs
    <3> QED BY <1>1, <1>8, <2>1, <3>1 DEF Service!Fail, doom
  <2>3. CASE table[w].State = "Terminating"
    <3>1. Status[w] = "Closing" /\ Mail[w] = << >>
      BY <2>3, StatusIs
    <3>2. Mail' = Mail
      BY <1>1, <1>6, <2>1, <3>1
    <3> QED BY <1>1, <1>8, <2>1, <3>1, <3>2 DEF Service!Remove, doom
  <2> QED BY <1>10, <2>2, <2>3 DEF Resets
<1>11. ASSUME Closes(w) \/ Drops(w) PROVE Service!Close(w)
  <2>1. st = "Closing" /\ ma = << >> /\ Dying' = Dying
    BY <1>3, <1>4, <1>7, <1>11 DEF Closes, Drops
  <2>2. Status[w] = "Open" \/ (Status[w] = "Opening" /\ w \in Dying)
    <3>1. CASE Closes(w)
      <4>1. table[w].State = "Active"
        BY <3>1 DEF Closes
      <4>2. Status[w] = "Open"
        BY <4>1, StatusIs
      <4> QED BY <4>2
    <3>2. CASE Drops(w)
      BY <1>3, <3>2, StatusIs DEF Drops
    <3> QED BY <1>11, <3>1, <3>2
  <2> QED BY <1>1, <1>8, <2>1, <2>2 DEF Service!Close, doom
<1>12. ASSUME Requests(w) PROVE Service!Doom(w)
  <2>1. Status[w] = "Opening" /\ st = "Opening" /\ ma = Mail[w] /\ Dying' = Dying \cup {w}
    BY <1>3, <1>4, <1>7, <1>12, StatusIs DEF Requests, Box
  <2>2. Status' = Status /\ Mail' = Mail
    BY <1>1, <1>6, <2>1
  <2> QED BY <1>8, <2>1, <2>2 DEF Service!Doom, doom
<1>13. ASSUME NEW m \in Messages, Collects(w, m) PROVE Service!Send(w)
  <2>1. /\ Status[w] = "Opening" /\ st = "Opening" /\ ma = Append(Mail[w], m)
        /\ Len(Mail[w]) < BufferLength /\ Dying' = Dying
    BY <1>3, <1>4, <1>7, <1>13, StatusIs DEF Collects, Box
  <2>2. Status' = Status /\ Mail' = [Mail EXCEPT ![w] = Append(@, m)]
    BY <1>1, <1>6, <2>1
  <2> QED BY <1>8, <2>1, <2>2 DEF Service!Send, doom
<1>14. ASSUME NEW e \in Eos, NEW m \in Messages, Sends(w, e, m) PROVE Service!Send(w)
  <2>1. table'[w].State = "Active" /\ table'[w].Eo = e /\ Dying' = Dying
    BY <1>3, <1>4, <1>14 DEF Sends, QueuesBut, KeepsRow
  <2>2. Status[w] = "Open" /\ st = "Open" /\ ma = Append(Mail[w], m)
    BY <1>7, <1>14, <2>1, StatusIs DEF Sends
  <2>3. Status' = Status /\ Mail' = [Mail EXCEPT ![w] = Append(@, m)]
    BY <1>1, <1>6, <2>2
  <2> QED BY <1>8, <2>1, <2>2, <2>3 DEF Service!Send, doom
<1>15. ASSUME table[w].State = "Active", Takes(table[w].Eo) PROVE Service!Deliver(w)
  <2>1. table'[w].State = "Active" /\ table'[w].Eo = table[w].Eo /\ Dying' = Dying
    BY <1>3, <1>4, <1>15 DEF Takes, QueuesBut, KeepsRow
  <2>2. Status[w] = "Open" /\ st = "Open" /\ Mail[w] # << >> /\ ma = Tail(Mail[w])
    BY <1>7, <1>15, <2>1, StatusIs DEF Takes
  <2>3. Status' = Status /\ Mail' = [Mail EXCEPT ![w] = Tail(@)]
    BY <1>1, <1>6, <2>2
  <2> QED BY <1>8, <2>1, <2>2, <2>3 DEF Service!Deliver, doom
<1>16. ASSUME NEW e \in Eos, NEW sent \in SUBSET Messages, Flushes(w, e, sent) PROVE Service!Open(w)
  <2>1. /\ Status[w] = "Opening" /\ Mail[w] = Box(w) /\ st = "Open" /\ ma = eo'[e].Queue
        /\ Dying' = Dying /\ w \notin Dying
    BY <1>3, <1>4, <1>7, <1>16, StatusIs DEF Flushes
  <2>2. eo[e].Queue = << >>
    BY <1>5, <1>16, BoxesAre DEF Flushes, QuietEntry
  <2>3. PICK old \in Seq(Messages) : old = Box(w)
    BY BoxesAre
  <2>4. PICK k \in Seq(Messages) : k = Kept(old, sent)
    BY KeptIs
  <2>5. ma = << >> \o k
    BY <1>16, <2>1, <2>2, <2>3, <2>4 DEF Flushes, Box
  <2>6. k = Service!Kept(Mail[w], sent)
    BY <2>1, <2>3, <2>4 DEF Kept, Service!Kept
  <2>7. Mail' = [Mail EXCEPT ![w] = Service!Kept(@, sent)]
    BY <1>1, <2>4, <2>5, <2>6
  <2> QED BY <1>1, <1>8, <2>1, <2>7 DEF Service!Open, doom
<1> QED BY <1>9, <1>10, <1>11, <1>12, <1>13, <1>14, <1>15, <1>16 DEF Service!Next

(* A worker table with its event machine is a set of mailboxes: what is     *)
(* collected during deployment is delivered before what is sent later and   *)
(* in its order, and a worker whose termination is requested before it is   *)
(* up never runs its body.                                                  *)
THEOREM WorkersImplementService == Spec => ImplementsWorkerService
<1> DEFINE doom == {x \in Workers : table[x].TerminationRequested}
<1>1. Init => Service!Init
  <2> SUFFICES ASSUME Init PROVE Service!Init
    OBVIOUS
  <2>1. \A w \in Workers : table[w] = ResetContext
    BY DEF Init
  <2>2. Status = [w \in Workers |-> "Down"] /\ Mail = [w \in Workers |-> << >>] /\ doom = {}
    BY <2>1 DEF Status, Mail, ResetContext
  <2> QED BY <2>2 DEF Service!Init
<1>2. SInv /\ SInv' /\ QuietInv /\ QuietInv' /\ Effect => [Service!Next]_(Service!svars)
  <2> SUFFICES ASSUME SInv, SInv', QuietInv, QuietInv', Effect
               PROVE  Service!Next \/ UNCHANGED <<Status, doom, Mail>>
    BY DEF Service!svars
  <2>0. doom = Dying /\ doom' = Dying'
    BY DEF Dying
  <2>1. ASSUME \A x \in Workers : KeepsMailOf(x) PROVE UNCHANGED <<Status, doom, Mail>>
    BY <2>0, <2>1, ServiceStutters
  <2> HIDE DEF doom
  <2>2. CASE Silent
    <3>1. \A x \in Workers : KeepsMailOf(x)
      BY <2>2, StatusIs DEF Silent, KeepsMailOf, KeepsQueue
    <3> QED BY <2>1, <3>1
  <2>3. ASSUME NEW w \in Workers,
               \/ Opens(w) \/ Resets(w) \/ Closes(w) \/ Requests(w) \/ Drops(w)
               \/ \E m \in Messages : Collects(w, m)
        PROVE  Service!Next
    <3>1. KeepsAllBut(w)
      BY <2>3 DEF Opens, Resets, Closes, Requests, Drops, Collects
    <3> QED BY <2>3, <3>1, StepAllBut, ServiceStep
  <2>4. ASSUME NEW w \in Workers, NEW e \in Eos, NEW sent \in SUBSET Messages, Flushes(w, e, sent)
        PROVE  Service!Next
    <3>1. \A x \in Workers : x # w => KeepsMailOf(x)
      BY <2>4, StepOneQueue DEF Flushes
    <3> QED BY <2>4, <3>1, ServiceStep
  <2>5. ASSUME NEW w \in Workers, NEW e \in Eos, NEW m \in Messages, Sends(w, e, m)
        PROVE  Service!Next
    <3>1. \A x \in Workers : x # w => KeepsMailOf(x)
      BY <2>5, StepOneQueue DEF Sends, QueuesBut
    <3> QED BY <2>5, <3>1, ServiceStep
  <2>6. ASSUME NEW e \in Eos, Takes(e) \/ Deletes(e), \A x \in Workers : table[x].Eo # e
        PROVE  UNCHANGED <<Status, doom, Mail>>
    <3>1. \A x \in Workers : KeepsMailOf(x)
      BY <2>6, StatusIs DEF Takes, Deletes, QueuesBut, KeepsMailOf, KeepsQueue
    <3> QED BY <2>1, <3>1
  <2>7. ASSUME NEW e \in Eos, Takes(e), NEW w \in Workers, table[w].Eo = e
        PROVE  Service!Next \/ UNCHANGED <<Status, doom, Mail>>
    <3>1. \A x \in Workers : x # w => KeepsMailOf(x)
      BY <2>7, StepOneQueue DEF Takes, QueuesBut
    <3>2. CASE table[w].State = "Active"
      BY <2>7, <3>1, <3>2, ServiceStep
    <3>3. CASE table[w].State # "Active"
      <4>1. KeepsMailOf(w)
        BY <2>7, <3>3 DEF Takes, QueuesBut, KeepsMailOf
      <4> QED BY <2>1, <3>1, <4>1
    <3> QED BY <3>2, <3>3
  <2> QED BY <2>2, <2>3, <2>4, <2>5, <2>6, <2>7 DEF Effect, Deletes
<1>3. SInv /\ SInv' /\ QuietInv /\ QuietInv' /\ [Next]_vars => [Service!Next]_(Service!svars)
  BY <1>2, NextEffect
<1> QED BY <1>1, <1>3, Inductive, PTL DEF Spec, ImplementsWorkerService, Service!Spec
=============================================================================
