-------------------------------- MODULE Mring -------------------------------
(***************************************************************************)
(* src/drivers: a kernel module that creates one ring buffer per core and  *)
(* maps it into user space (kernel/mring.c), and the library that reads    *)
(* from it (user/mring.c).  The two share a control page with a read and a *)
(* write index and no lock.                                                *)
(*                                                                         *)
(* The reader of ring r is the process pinned to core r.  It uses the      *)
(* library as mring.h asks: read_begin and read_end in pairs, and no more  *)
(* bytes taken than were offered.  Bytes have no value here; "spoiled"     *)
(* records which unread ones have been written to again.                   *)
(***************************************************************************)
EXTENDS Naturals, FiniteSets

CONSTANTS NumRings,   (* nr_cpu_ids                                     *)
          Readers,    (* cores whose process reads its ring             *)
          Size,       (* bytes of a ring, PAGE_SIZE << order            *)
          Bursts      (* values the parameter burst may be given        *)

Rings == 0 .. NumRings - 1
Offsets == 0 .. Size - 1

ASSUME MringAssumption ==
    /\ NumRings \in Nat \ {0}
    /\ Readers \subseteq Rings
    /\ Size \in Nat \ {0}
    /\ Bursts \subseteq Nat

VARIABLES
    module,    (* state of the kernel module                                *)
    kern,      (* resources the module holds                                *)
    ctrl,      (* shared control page of each ring                          *)
    safeWrite, (* safe_write_index, the kernel's own copy                   *)
    producer,  (* timer callback of each ring: where it is, what it read    *)
    owed,      (* bytes published and not yet read                          *)
    spoiled,   (* offsets of unread bytes overwritten after publication     *)
    user,      (* library handle of each reader                             *)
    orphans    (* readers that had a device open when mring_init failed     *)

ring == <<ctrl, safeWrite, producer, owed, spoiled>>
vars == <<module, kern, ring, user, orphans>>

(***************************************************************************)
(* Resources of the module, in the order in which mring_init and, for each *)
(* ring, mring_create obtain them                                          *)
(***************************************************************************)
ModuleParts == <<"mrings", "class", "buff_major", "ctrl_major">>
RingParts == <<"shared_ctrl", "shared_buff", "buff_device", "ctrl_device">>
Part(name) == [ring |-> NumRings, name |-> name]
PartOf(r, name) == [ring |-> r, name |-> name]
InitOrder ==
    [i \in 1 .. 4 * (NumRings + 1) |->
        IF i <= 4 THEN Part(ModuleParts[i])
        ELSE PartOf((i - 5) \div 4, RingParts[((i - 5) % 4) + 1])]
Resources == {InitOrder[i] : i \in DOMAIN InitOrder}
NextPart == InitOrder[Cardinality(kern) + 1]

Producers == [pc : {"off", "armed", "looked", "filled"}, read : Offsets, burst : Nat]
OpenSteps == {"ctrl_open", "ctrl_map", "area", "buff_open", "first", "second"}
Mappings == {"ctrl", "area1", "area2", "first", "second"}
Handles ==
    [pc : {"closed", "open", "reading"} \cup OpenSteps, heap : BOOLEAN,
     fds : SUBSET {"ctrl", "buff"}, maps : SUBSET Mappings, leaked : BOOLEAN,
     readable : Offsets]
NoHandle == [pc |-> "closed", heap |-> FALSE, fds |-> {}, maps |-> {},
             leaked |-> FALSE, readable |-> 0]

(* Fields that mring_create gives a ring *)
NewCtrl == [read |-> 0, write |-> 0]
NoCallback == [pc |-> "off", read |-> 0, burst |-> 0]

Init ==
    /\ module = "unloaded"
    /\ kern = {}
    /\ ctrl = [r \in Rings |-> NewCtrl]
    /\ safeWrite = [r \in Rings |-> 0]
    /\ producer = [r \in Rings |-> NoCallback]
    /\ owed = [r \in Rings |-> 0]
    /\ spoiled = [r \in Rings |-> {}]
    /\ user = [p \in Readers |-> NoHandle]
    /\ orphans = {}

(***************************************************************************)
(* Loading and unloading the module                                        *)
(***************************************************************************)

(* A reader uses the module: an open file, or a mapping, which keeps the    *)
(* file.  The kernel counts both because the operations name their owner.   *)
Uses(p) == user[p].fds # {} \/ user[p].maps \cap {"ctrl", "first", "second"} # {}
              \/ user[p].leaked
(* A slip: file_operations without an owner. *)
NoOwnerInUse == {}
InUse == {p \in Readers : Uses(p)}

LoadModule ==
    /\ module = "unloaded"
    /\ module' = "initializing"
    /\ UNCHANGED <<kern, ring, user, orphans>>

(* One allocation or registration of mring_init succeeds.  With the         *)
(* control page a ring starts afresh.                                       *)
InitStep ==
    /\ module = "initializing"
    /\ kern # Resources
    /\ kern' = kern \cup {NextPart}
    /\ IF NextPart.name = "shared_ctrl"
       THEN /\ ctrl' = [ctrl EXCEPT ![NextPart.ring] = NewCtrl]
            /\ safeWrite' = [safeWrite EXCEPT ![NextPart.ring] = 0]
            /\ owed' = [owed EXCEPT ![NextPart.ring] = 0]
            /\ spoiled' = [spoiled EXCEPT ![NextPart.ring] = {}]
       ELSE UNCHANGED <<ctrl, safeWrite, owed, spoiled>>
    /\ UNCHANGED <<module, producer, user, orphans>>

InitDone ==
    /\ module = "initializing"
    /\ kern = Resources
    /\ module' = "live"
    /\ producer' = [r \in Rings |-> [NoCallback EXCEPT !.pc = "armed"]]
    /\ UNCHANGED <<kern, ctrl, safeWrite, owed, spoiled, user, orphans>>

(* mring_create's error path for the ring it was working on, then           *)
(* mring_destroy for the finished ones *)
RingRelease(r) == {PartOf(r, "ctrl_device"), PartOf(r, "buff_device"),
                   PartOf(r, "shared_buff"), PartOf(r, "shared_ctrl")}
InitErrorRelease ==
    (UNION {RingRelease(r) : r \in Rings})
        \cup {Part("buff_major"), Part("ctrl_major"), Part("class"), Part("mrings")}

(* The next allocation or registration fails and mring_init undoes the      *)
(* others.  Devices of finished rings have been visible, so a process may   *)
(* have one open.                                                           *)
InitError ==
    /\ module = "initializing"
    /\ kern # Resources
    /\ module' = "unloaded"
    /\ kern' = kern \ InitErrorRelease
    /\ orphans' = orphans \cup InUse
    /\ UNCHANGED <<ring, user>>

(* The kernel lets the module go only while nobody uses it. *)
UnloadModule ==
    /\ module = "live"
    /\ InUse = {}
    /\ module' = "exiting"
    /\ UNCHANGED <<kern, ring, user, orphans>>

(* mring_destroy: timer_shutdown_sync waits for a callback that is running. *)
DestroyRing(r) ==
    /\ module = "exiting"
    /\ \A s \in 0 .. r - 1 : producer[s].pc = "off"
    /\ producer[r].pc = "armed"
    /\ producer' = [producer EXCEPT ![r] = NoCallback]
    /\ kern' = kern \ RingRelease(r)
    /\ UNCHANGED <<module, ctrl, safeWrite, owed, spoiled, user, orphans>>

ExitDone ==
    /\ module = "exiting"
    /\ \A r \in Rings : producer[r].pc = "off"
    /\ module' = "unloaded"
    /\ kern' = kern \ {Part("buff_major"), Part("ctrl_major"), Part("class"), Part("mrings")}
    /\ UNCHANGED <<ring, user, orphans>>

(***************************************************************************)
(* The producer: mring_timer_callback                                      *)
(***************************************************************************)

(* Unsigned differences under the mask *)
Masked(a, b) == (a + Size - b) % Size

(* A slip: the slot that keeps a full ring from looking empty is used. *)
FullRingAvailable(read, write) == (IF read = write THEN Size ELSE Masked(read, write))
AvailableSpace(read, write) == Masked(read, write + 1)

(* Bytes the two calls of get_random_bytes write: from the write index as   *)
(* many as -write_index & mask says, and the read index many at the start.  *)
(* A slip: one byte too many at the start. *)
LongFilled(read, write) ==
    {i \in Offsets : i >= write /\ i < write + Masked(0, write)} \cup (0 .. read)
Filled(read, write) ==
    {i \in Offsets : i >= write /\ i < write + Masked(0, write)}
        \cup {i \in Offsets : i < read}

(* Published bytes that have not been read *)
Unread(r) == {(ctrl[r].read + i) % Size : i \in 0 .. Masked(ctrl[r].write, ctrl[r].read) - 1}

CallbackLooks(r, burst) ==
    /\ producer[r].pc = "armed"
    /\ burst <= AvailableSpace(ctrl[r].read, safeWrite[r])
    /\ producer' = [producer EXCEPT ![r] =
                       [pc |-> "looked", read |-> ctrl[r].read, burst |-> burst]]
    /\ UNCHANGED <<module, kern, ctrl, safeWrite, owed, spoiled, user, orphans>>

CallbackFills(r) ==
    /\ producer[r].pc = "looked"
    /\ producer' = [producer EXCEPT ![r].pc = "filled"]
    /\ spoiled' = [spoiled EXCEPT ![r] =
                      @ \cup (Filled(producer[r].read, safeWrite[r]) \cap Unread(r))]
    /\ UNCHANGED <<module, kern, ctrl, safeWrite, owed, user, orphans>>

CallbackPublishes(r) ==
    LET next == (safeWrite[r] + producer[r].burst) % Size
    IN  /\ producer[r].pc = "filled"
        /\ producer' = [producer EXCEPT ![r] = [NoCallback EXCEPT !.pc = "armed"]]
        /\ safeWrite' = [safeWrite EXCEPT ![r] = next]
        /\ ctrl' = [ctrl EXCEPT ![r].write = next]
        /\ owed' = [owed EXCEPT ![r] = @ + producer[r].burst]
        /\ UNCHANGED <<module, kern, spoiled, user, orphans>>

(***************************************************************************)
(* The library                                                             *)
(***************************************************************************)
Unmoved == UNCHANGED <<module, kern, ring, orphans>>

(* A device can be opened: its node exists and the module is not going.     *)
Visible(p, kind) == /\ module \in {"initializing", "live"}
                    /\ PartOf(p, kind) \in kern

(* mring_open allocates the handle ... *)
OpenAllocates(p) ==
    /\ user[p].pc = "closed"
    /\ user' = [user EXCEPT ![p].pc = "ctrl_open", ![p].heap = TRUE]
    /\ Unmoved

(* ... open_ctrl_file opens and maps the control page ... *)
OpenCtrl(p) ==
    /\ user[p].pc = "ctrl_open" /\ Visible(p, "ctrl_device")
    /\ user' = [user EXCEPT ![p].pc = "ctrl_map", ![p].fds = @ \cup {"ctrl"}]
    /\ Unmoved

MapCtrl(p) ==
    /\ user[p].pc = "ctrl_map" /\ p \notin orphans
    /\ user' = [user EXCEPT ![p].pc = "area", ![p].fds = @ \ {"ctrl"},
                            ![p].maps = @ \cup {"ctrl"}]
    /\ Unmoved

(* ... and open_buffer reserves an area for two copies of the buffer and    *)
(* maps it over both halves.                                                *)
ReserveArea(p) ==
    /\ user[p].pc = "area"
    /\ user' = [user EXCEPT ![p].pc = "buff_open", ![p].maps = @ \cup {"area1", "area2"}]
    /\ Unmoved

OpenBuff(p) ==
    /\ user[p].pc = "buff_open" /\ Visible(p, "buff_device")
    /\ user' = [user EXCEPT ![p].pc = "first", ![p].fds = @ \cup {"buff"}]
    /\ Unmoved

MapFirst(p) ==
    /\ user[p].pc = "first" /\ p \notin orphans
    /\ user' = [user EXCEPT ![p].pc = "second",
                            ![p].maps = (@ \ {"area1"}) \cup {"first"}]
    /\ Unmoved

MapSecond(p) ==
    /\ user[p].pc = "second" /\ p \notin orphans
    /\ user' = [user EXCEPT ![p].pc = "open", ![p].fds = @ \ {"buff"},
                            ![p].maps = (@ \ {"area2"}) \cup {"second"}]
    /\ Unmoved

(* A step of mring_open fails: open_buffer gives back what is left of the   *)
(* reserved area and the first copy, mring_open the control page and the    *)
(* handle, and descriptors are closed.                                      *)
(* A slip: only the reserved area is given back.                            *)
KeepFirstOpenErrorUnmaps == {"area1", "area2", "ctrl"}
OpenErrorUnmaps == {"area1", "area2", "first", "ctrl"}

OpenFails(p) ==
    /\ user[p].pc \in OpenSteps
    /\ user' = [user EXCEPT ![p].pc = "closed", ![p].heap = FALSE, ![p].fds = {},
                            ![p].maps = @ \ OpenErrorUnmaps]
    /\ Unmoved

(* The number of readable bytes.  What a process reads from pages that a    *)
(* failed mring_init has freed is left out.                                 *)
ReadBegin(p) ==
    /\ user[p].pc = "open" /\ p \notin orphans
    /\ user' = [user EXCEPT ![p].pc = "reading",
                            ![p].readable = Masked(ctrl[p].write, ctrl[p].read)]
    /\ Unmoved

ReadEnd(p, bytes) ==
    LET next == (ctrl[p].read + bytes) % Size
        taken == {(ctrl[p].read + i) % Size : i \in 0 .. bytes - 1}
    IN  /\ user[p].pc = "reading" /\ p \notin orphans
        /\ bytes <= user[p].readable
        /\ ctrl' = [ctrl EXCEPT ![p].read = next]
        /\ owed' = [owed EXCEPT ![p] = @ - bytes]
        /\ spoiled' = [spoiled EXCEPT ![p] = @ \ taken]
        /\ user' = [user EXCEPT ![p].pc = "open", ![p].readable = 0]
        /\ UNCHANGED <<module, kern, safeWrite, producer, orphans>>

(* mring_close unmaps as many bytes as one copy of the buffer has: the      *)
(* second copy stays until the process ends.                                *)
Close(p) ==
    /\ user[p].pc = "open"
    /\ user' = [user EXCEPT ![p].pc = "closed", ![p].heap = FALSE, ![p].leaked = TRUE,
                            ![p].maps = @ \ {"first", "second", "ctrl"}]
    /\ Unmoved

(* The process ends, for whatever reason, and another one takes its core. *)
ProcessEnds(p) ==
    /\ user[p] # NoHandle
    /\ user' = [user EXCEPT ![p] = NoHandle]
    /\ orphans' = orphans \ {p}
    /\ UNCHANGED <<module, kern, ring>>

Kernel ==
    \/ LoadModule \/ InitStep \/ InitDone \/ InitError \/ UnloadModule \/ ExitDone
    \/ \E r \in Rings :
          \/ DestroyRing(r) \/ CallbackFills(r) \/ CallbackPublishes(r)
          \/ \E burst \in Bursts : CallbackLooks(r, burst)
Library ==
    \E p \in Readers :
        \/ OpenAllocates(p) \/ OpenCtrl(p) \/ MapCtrl(p) \/ ReserveArea(p)
        \/ OpenBuff(p) \/ MapFirst(p) \/ MapSecond(p) \/ OpenFails(p)
        \/ ReadBegin(p) \/ Close(p) \/ ProcessEnds(p)
        \/ \E bytes \in Offsets : ReadEnd(p, bytes)

Next == Kernel \/ Library
Spec == Init /\ [][Next]_vars

-----------------------------------------------------------------------------
TypeOK ==
    /\ module \in {"unloaded", "initializing", "live", "exiting"}
    /\ kern \subseteq Resources
    /\ ctrl \in [Rings -> [read : Offsets, write : Offsets]]
    /\ safeWrite \in [Rings -> Offsets]
    /\ producer \in [Rings -> Producers]
    /\ owed \in [Rings -> Nat]
    /\ spoiled \in [Rings -> SUBSET Offsets]
    /\ user \in [Readers -> Handles]
    /\ orphans \subseteq Readers

(* The two indices, advanced by kernel and reader without a lock, one from  *)
(* a copy of the other that may be old, always differ by exactly the bytes  *)
(* that were published and not yet read: a reader is never offered bytes    *)
(* that were not pushed, and a full ring never looks empty.                 *)
IndicesExact ==
    /\ TypeOK
    /\ \A r \in Rings :
          /\ ctrl[r].write = safeWrite[r]
          /\ owed[r] = Masked(ctrl[r].write, ctrl[r].read)
          /\ producer[r].pc \in {"looked", "filled"} => owed[r] + producer[r].burst < Size
    /\ \A p \in Readers \ orphans : user[p].readable <= owed[p]

(* A burst writes to unread bytes only while these wrap around the end of   *)
(* the ring: from the write index to the end and from the start to the read *)
(* index is the free space exactly when the write index is ahead.           *)
SpoilsOnlyWrapped ==
    [][\A r \in Rings : ~(spoiled'[r] \subseteq spoiled[r]) => safeWrite[r] < producer[r].read]_vars

(* Pages the module has freed are mapped by no process, unless it opened    *)
(* the device before a call of mring_init that then failed: the driver      *)
(* counts no users, the owner of the file operations is for that.           *)
NoDanglingMapping ==
    \A p \in Readers \ orphans :
        /\ "ctrl" \in user[p].maps => PartOf(p, "shared_ctrl") \in kern
        /\ user[p].leaked \/ user[p].maps \cap {"first", "second"} # {}
              => PartOf(p, "shared_buff") \in kern

(* Nothing of the driver or of a handle is released too early or too late:  *)
(* besides NoDanglingMapping, a module that is not loaded, because it was   *)
(* unloaded or because its initialization failed at any point, holds        *)
(* nothing; a call of mring_open that failed at any point, or a closed      *)
(* handle, leaves no memory, no descriptor and no mapping but the second    *)
(* copies of closed handles.                                                *)
PagesReleasedInTime ==
    /\ NoDanglingMapping
    /\ module = "unloaded" => kern = {}
    /\ \A p \in Readers : user[p].pc = "closed" => [user[p] EXCEPT !.leaked = FALSE] = NoHandle

(* What mring.h promises a reader: the bytes it is offered can be read      *)
(* until it says that it has read them, so nobody writes to them before.    *)
UnreadStable == \A r \in Rings : spoiled[r] = {}
=============================================================================
