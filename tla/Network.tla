------------------------------ MODULE Network ------------------------------
(***************************************************************************)
(* Messages between nodes (components/messaging/network, message.c and the *)
(* router on top): a message is copied into an Ethernet frame, taken from  *)
(* a pool of packet buffers that the node also receives into, and copied   *)
(* into a message again at the other end.  Frames may be lost, are padded  *)
(* to the minimum size of Ethernet and reach stations they are not meant   *)
(* for; several cores of a node poll the same device.                      *)
(*                                                                         *)
(* A message is its identity, its two workers (only their node is kept)    *)
(* and its payload size.  What RouteIntranodeMessage does with a message   *)
(* is the subject of Workers; here it is accepted or destroyed.            *)
(***************************************************************************)
EXTENDS Naturals, Sequences, FiniteSets, FiniteSetsExt, Functions

CONSTANTS Nodes,         (* nodes that run                                  *)
          NodeIds,       (* MIN_NODE_ID..MAX_NODE_ID                        *)
          Receivers,     (* node parts of the receivers applications name   *)
          Cores,         (* cores that poll the device of a node            *)
          Ids,           (* identities of messages                          *)
          PayloadSizes,  (* sizes of messages                               *)
          U32Range,      (* number of values of a u32                       *)
          Alien,         (* a station that is not a node                    *)
          Noisy,         (* nodes that other traffic reaches                *)
          MsgBufs,       (* buffers of a node's MESSAGING_EVENT_POOL        *)
          PktBufs,       (* buffers of a node's NETWORKING_PACKET_POOL      *)
          MaxRxBurst     (* MAX_RX_BURST                                    *)

MESSAGE_HEADER_LEN == 16
LLC_HEADER_LEN == 4
ODPH_ETHHDR_LEN == 14
MAX_ETH_PACKET_SIZE == 1500
MinFrame == 60           (* shorter frames are padded on their way          *)

ASSUME NetworkAssumption ==
    /\ Nodes \subseteq NodeIds
    /\ Alien \notin NodeIds
    /\ {MsgBufs, PktBufs, MaxRxBurst} \subseteq Nat \ {0}
    /\ PayloadSizes \subseteq Nat
    /\ U32Range \in Nat
    /\ \A size \in PayloadSizes : size + MESSAGE_HEADER_LEN < U32Range
    /\ IsFiniteSet(Cores)

Messages == [id : Ids, sender : Nodes, receiver : Receivers, size : PayloadSizes]

(* What the data of a frame that carries no message is taken for. *)
NoMessage == [id |-> 0, sender |-> Alien, receiver |-> Alien, size |-> 0]

Frames == [src : NodeIds \cup {Alien}, dst : Receivers \cup Nodes \cup {Alien},
           llc : {"Null", "Other"}, len : Nat, data : Messages \cup {NoMessage}]

(* Other traffic: of a station that is no node, and of another protocol    *)
(* between nodes.                                                          *)
OtherTraffic(n) ==
    {[src |-> Alien, dst |-> Alien, llc |-> "Null", len |-> MinFrame, data |-> NoMessage]}
    \cup {[src |-> m, dst |-> n, llc |-> "Other", len |-> MinFrame, data |-> NoMessage] :
             m \in Nodes \ {n}}

VARIABLES
    used,       (* identities already used                                  *)
    held,       (* messages an application has created and not sent         *)
    inbox,      (* messages accepted by the local router and not destroyed  *)
    freeMsgs,   (* free buffers of each message pool                        *)
    freePkts,   (* free buffers of each packet pool                         *)
    pktout,     (* frames in the output queue of each device                *)
    wire,       (* frames under way, each with the station it will reach    *)
    pktin,      (* frames received by each device                           *)
    packets,    (* the rest of the burst each core is working on            *)
    noise       (* other traffic still to come for each node                *)

networkVars == <<used, held, inbox, freeMsgs, freePkts, pktout, wire, pktin, packets, noise>>

NetworkTypeOK ==
    /\ used \subseteq Ids
    /\ \A n \in Nodes :
          /\ held[n] \subseteq [id : Ids, size : PayloadSizes]
          /\ inbox[n] \subseteq Messages
          /\ freeMsgs[n] \in 0..MsgBufs
          /\ freePkts[n] \in 0..PktBufs
          /\ pktout[n] \in Seq(Frames)
          /\ pktin[n] \in Seq(Frames)
          /\ \A c \in Cores : packets[n][c] \in Seq(Frames) /\ Len(packets[n][c]) <= MaxRxBurst
    /\ wire \subseteq Nodes \X Frames

NetworkInit ==
    /\ used = {}
    /\ held = [n \in Nodes |-> {}]
    /\ inbox = [n \in Nodes |-> {}]
    /\ freeMsgs = [n \in Nodes |-> MsgBufs]
    /\ freePkts = [n \in Nodes |-> PktBufs]
    /\ pktout = [n \in Nodes |-> << >>]
    /\ wire = {}
    /\ pktin = [n \in Nodes |-> << >>]
    /\ packets = [n \in Nodes |-> [c \in Cores |-> << >>]]
    /\ noise = [n \in Nodes |-> IF n \in Noisy THEN OtherTraffic(n) ELSE {}]

(***************************************************************************)
(* Translation between messages and frames                                 *)
(***************************************************************************)

PacketSize(m) == m.size + MESSAGE_HEADER_LEN + LLC_HEADER_LEN + ODPH_ETHHDR_LEN

CreatePacketFromMessage(n, m) ==
    [src |-> n, dst |-> m.receiver, llc |-> "Null", len |-> PacketSize(m), data |-> m]

IsValidEthHeader(n, f) == f.src \in NodeIds /\ f.dst = n

IsValidLlcHeader(f) == f.len >= ODPH_ETHHDR_LEN + LLC_HEADER_LEN /\ f.llc = "Null"

(* The magic number tells messages from other data.  The sum is that of two *)
(* u32; sizes of messages are far from its limit.  The local part of the    *)
(* receiver is not kept: a message dropped for it is one that the local     *)
(* router destroys, in PollRoute.                                           *)
IsValidMessage(n, m, size) ==
    /\ size >= MESSAGE_HEADER_LEN
    /\ m # NoMessage
    /\ size >= (m.size + MESSAGE_HEADER_LEN) % U32Range
    /\ m.receiver = n

DataLen(f) == f.len - ODPH_ETHHDR_LEN - LLC_HEADER_LEN

IsMessage(n, f) ==
    /\ IsValidEthHeader(n, f)
    /\ IsValidLlcHeader(f)
    /\ IsValidMessage(n, f.data, DataLen(f))

(* A slip: all data behind the message header is taken for payload. *)
PaddedCreateMessageFromBuffer(f) == [f.data EXCEPT !.size = DataLen(f) - MESSAGE_HEADER_LEN]

(* The payload size is that of the header: padding is left behind. *)
CreateMessageFromBuffer(f) == f.data

(***************************************************************************)
(* Sending                                                                 *)
(***************************************************************************)

CreateMessage(n, i, size) ==
    /\ i \notin used
    /\ freeMsgs[n] > 0
    /\ used' = used \cup {i}
    /\ freeMsgs' = [freeMsgs EXCEPT ![n] = @ - 1]
    /\ held' = [held EXCEPT ![n] = @ \cup {[id |-> i, size |-> size]}]
    /\ UNCHANGED <<inbox, freePkts, pktout, wire, pktin, packets, noise>>

(* SendMessage relinquishes the message h and fills in its workers. *)
Relinquish(n, h) == held' = [held EXCEPT ![n] = @ \ {h}]

Sent(n, h, r) == [id |-> h.id, sender |-> n, receiver |-> r, size |-> h.size]

SendInvalid(n, h, r) ==
    /\ r \notin NodeIds
    /\ Relinquish(n, h)
    /\ freeMsgs' = [freeMsgs EXCEPT ![n] = @ + 1]
    /\ UNCHANGED <<used, inbox, freePkts, pktout, wire, pktin, packets, noise>>

SendLocal(n, h, r) ==
    /\ r = n
    /\ Relinquish(n, h)
    /\ \/ /\ inbox' = [inbox EXCEPT ![n] = @ \cup {Sent(n, h, r)}]
          /\ UNCHANGED freeMsgs
       \/ /\ freeMsgs' = [freeMsgs EXCEPT ![n] = @ + 1]
          /\ UNCHANGED inbox
    /\ UNCHANGED <<used, freePkts, pktout, wire, pktin, packets, noise>>

(* em_alloc fails: no buffer, or none of that size.  The message is        *)
(* destroyed by RouteInternodeMessage.                                     *)
SendNoPacket(n, h, r) ==
    /\ r \in NodeIds \ {n}
    /\ freePkts[n] = 0 \/ PacketSize(Sent(n, h, r)) > MAX_ETH_PACKET_SIZE
    /\ Relinquish(n, h)
    /\ freeMsgs' = [freeMsgs EXCEPT ![n] = @ + 1]
    /\ UNCHANGED <<used, inbox, freePkts, pktout, wire, pktin, packets, noise>>

(* A slip: the packet is forgotten when it cannot be enqueued. *)
LeakSendNotEnqueued(n, h, r) ==
    /\ r \in NodeIds \ {n}
    /\ freePkts[n] > 0 /\ PacketSize(Sent(n, h, r)) <= MAX_ETH_PACKET_SIZE
    /\ Relinquish(n, h)
    /\ freeMsgs' = [freeMsgs EXCEPT ![n] = @ + 1]
    /\ freePkts' = [freePkts EXCEPT ![n] = @ - 1]
    /\ UNCHANGED <<used, inbox, pktout, wire, pktin, packets, noise>>

(* odp_queue_enq fails: the packet is freed again, the message destroyed.  *)
SendNotEnqueued(n, h, r) ==
    /\ r \in NodeIds \ {n}
    /\ freePkts[n] > 0 /\ PacketSize(Sent(n, h, r)) <= MAX_ETH_PACKET_SIZE
    /\ Relinquish(n, h)
    /\ freeMsgs' = [freeMsgs EXCEPT ![n] = @ + 1]
    /\ UNCHANGED <<used, inbox, freePkts, pktout, wire, pktin, packets, noise>>

SendOut(n, h, r) ==
    /\ r \in NodeIds \ {n}
    /\ freePkts[n] > 0 /\ PacketSize(Sent(n, h, r)) <= MAX_ETH_PACKET_SIZE
    /\ Relinquish(n, h)
    /\ freePkts' = [freePkts EXCEPT ![n] = @ - 1]
    /\ pktout' = [pktout EXCEPT ![n] = Append(@, CreatePacketFromMessage(n, Sent(n, h, r)))]
    /\ freeMsgs' = [freeMsgs EXCEPT ![n] = @ + 1]
    /\ UNCHANGED <<used, inbox, wire, pktin, packets, noise>>

SendMessage(n, h, r) ==
    \/ SendInvalid(n, h, r)
    \/ SendLocal(n, h, r)
    \/ SendNoPacket(n, h, r)
    \/ SendNotEnqueued(n, h, r)
    \/ SendOut(n, h, r)

(***************************************************************************)
(* The devices and the network                                             *)
(***************************************************************************)

Padded(f) == [f EXCEPT !.len = IF @ < MinFrame THEN MinFrame ELSE @]

(* The network may show a frame to every station. *)
Transmit(n) ==
    /\ pktout[n] # << >>
    /\ pktout' = [pktout EXCEPT ![n] = Tail(@)]
    /\ wire' = wire \cup {<<d, Padded(Head(pktout[n]))>> : d \in Nodes \ {n}}
    /\ freePkts' = [freePkts EXCEPT ![n] = @ + 1]
    /\ UNCHANGED <<used, held, inbox, freeMsgs, pktin, packets, noise>>

Noise(n, f) ==
    /\ f \in noise[n]
    /\ noise' = [noise EXCEPT ![n] = @ \ {f}]
    /\ wire' = wire \cup {<<n, f>>}
    /\ UNCHANGED <<used, held, inbox, freeMsgs, freePkts, pktout, pktin, packets>>

LoseFrame(n, f) ==
    /\ <<n, f>> \in wire
    /\ wire' = wire \ {<<n, f>>}
    /\ UNCHANGED <<used, held, inbox, freeMsgs, freePkts, pktout, pktin, packets, noise>>

Arrive(n, f) ==
    /\ <<n, f>> \in wire
    /\ freePkts[n] > 0
    /\ wire' = wire \ {<<n, f>>}
    /\ freePkts' = [freePkts EXCEPT ![n] = @ - 1]
    /\ pktin' = [pktin EXCEPT ![n] = Append(@, f)]
    /\ UNCHANGED <<used, held, inbox, freeMsgs, pktout, packets, noise>>

(***************************************************************************)
(* Receiving                                                               *)
(***************************************************************************)

(* A slip: the device may return one packet more than the array holds. *)
LongPollReceive(n, c) ==
    /\ packets[n][c] = << >>
    /\ pktin[n] # << >>
    /\ LET k == Min({MaxRxBurst + 1, Len(pktin[n])})
       IN  /\ packets' = [packets EXCEPT ![n][c] = SubSeq(pktin[n], 1, k)]
           /\ pktin' = [pktin EXCEPT ![n] = SubSeq(@, k + 1, Len(@))]
    /\ UNCHANGED <<used, held, inbox, freeMsgs, freePkts, pktout, wire, noise>>

(* A slip: a core waits for a full burst. *)
FullPollReceive(n, c) ==
    /\ packets[n][c] = << >>
    /\ Len(pktin[n]) >= MaxRxBurst
    /\ packets' = [packets EXCEPT ![n][c] = SubSeq(pktin[n], 1, MaxRxBurst)]
    /\ pktin' = [pktin EXCEPT ![n] = SubSeq(@, MaxRxBurst + 1, Len(@))]
    /\ UNCHANGED <<used, held, inbox, freeMsgs, freePkts, pktout, wire, noise>>

(* A core polls the device when it is not inside the callback. *)
PollReceive(n, c) ==
    /\ packets[n][c] = << >>
    /\ pktin[n] # << >>
    /\ LET k == Min({MaxRxBurst, Len(pktin[n])})
       IN  /\ packets' = [packets EXCEPT ![n][c] = SubSeq(pktin[n], 1, k)]
           /\ pktin' = [pktin EXCEPT ![n] = SubSeq(@, k + 1, Len(@))]
    /\ UNCHANGED <<used, held, inbox, freeMsgs, freePkts, pktout, wire, noise>>

FreePacket(n, c) ==
    /\ packets[n][c] # << >>
    /\ packets' = [packets EXCEPT ![n][c] = Tail(@)]
    /\ freePkts' = [freePkts EXCEPT ![n] = @ + 1]

(* CreateMessageFromPacket returns MESSAGE_INVALID. *)
PollInvalid(n, c) ==
    /\ FreePacket(n, c)
    /\ \/ ~IsMessage(n, Head(packets[n][c]))
       \/ freeMsgs[n] = 0
    /\ UNCHANGED <<used, held, inbox, freeMsgs, pktout, wire, pktin, noise>>

(* RouteMessage: the receiver is on this node, as IsValidMessage has       *)
(* found.  The local router accepts the message or destroys it again.      *)
PollRoute(n, c) ==
    /\ FreePacket(n, c)
    /\ IsMessage(n, Head(packets[n][c]))
    /\ freeMsgs[n] > 0
    /\ \/ /\ freeMsgs' = [freeMsgs EXCEPT ![n] = @ - 1]
          /\ inbox' = [inbox EXCEPT ![n] = @ \cup {CreateMessageFromBuffer(Head(packets[n][c]))}]
       \/ UNCHANGED <<freeMsgs, inbox>>
    /\ UNCHANGED <<used, held, pktout, wire, pktin, noise>>

(* The receiver, or an application that gives its message up, destroys it. *)
DestroyMessage(n) ==
    /\ \/ \E m \in inbox[n] : inbox' = [inbox EXCEPT ![n] = @ \ {m}] /\ UNCHANGED held
       \/ \E h \in held[n] : Relinquish(n, h) /\ UNCHANGED inbox
    /\ freeMsgs' = [freeMsgs EXCEPT ![n] = @ + 1]
    /\ UNCHANGED <<used, freePkts, pktout, wire, pktin, packets, noise>>

-----------------------------------------------------------------------------

Application(n) ==
    \/ \E i \in Ids, size \in PayloadSizes : CreateMessage(n, i, size)
    \/ \E h \in held[n], r \in Receivers : SendMessage(n, h, r)
    \/ DestroyMessage(n)

Poll(n, c) == PollInvalid(n, c) \/ PollRoute(n, c)

Delivery(n) == \E f \in {x[2] : x \in wire} : LoseFrame(n, f) \/ Arrive(n, f)

NetworkNext ==
    \E n \in Nodes :
        \/ Application(n)
        \/ Transmit(n)
        \/ Delivery(n)
        \/ \E f \in noise[n] : Noise(n, f)
        \/ \E c \in Cores : PollReceive(n, c) \/ Poll(n, c)

(* Devices work, a frame arrives or is lost, and every core goes on        *)
(* dispatching, and so polling, and returns from its callback.             *)
NetworkSpec ==
    /\ NetworkInit /\ [][NetworkNext]_networkVars
    /\ \A n \in Nodes :
          /\ WF_networkVars(Transmit(n))
          /\ WF_networkVars(Delivery(n))
          /\ \A c \in Cores : WF_networkVars(PollReceive(n, c)) /\ WF_networkVars(Poll(n, c))

-----------------------------------------------------------------------------

(* The elements of the arrays of the cores of a node that hold a packet. *)
PolledBy(arrays) == {x \in Cores \X (1..MaxRxBurst) : x[2] <= Len(arrays[x[1]])}

(* No path of EmOutputFunction, RouteInternodeMessage and NetworkInputPoll *)
(* forgets a buffer or gives one back twice: the buffers of both pools of  *)
(* a node are free or in one of the places that hold them.                 *)
BuffersConserved ==
    /\ NetworkTypeOK
    /\ \A n \in Nodes :
          /\ freeMsgs[n] + Cardinality(held[n]) + Cardinality(inbox[n]) = MsgBufs
          /\ freePkts[n] + Len(pktout[n]) + Len(pktin[n])
                + Cardinality(PolledBy(packets[n])) = PktBufs

FramesAt(n) ==
    Range(pktin[n]) \cup (UNION {Range(packets[n][c]) : c \in Cores})
        \cup {f \in {x[2] : x \in wire} : <<n, f>> \in wire}

(* Frames with a message that have not left their node, and those that are *)
(* where they are meant to go.                                             *)
InTransit ==
    UNION {{f.data : f \in Range(pktout[n])}
              \cup {f.data : f \in {g \in FramesAt(n) : g.data.receiver = n}} : n \in Nodes}

Transfer == INSTANCE MessageTransfer WITH
    spent <- used \ {h.id : h \in UNION {held[n] : n \in Nodes}},
    transit <- InTransit,
    arrived <- inbox

(* A message that arrives was sent to that node with that content, and     *)
(* arrives once, whatever is lost, padded, misdirected or polled by        *)
(* several cores.                                                          *)
ImplementsMessageTransfer == Transfer!Spec

(* Every message taken over is delivered or destroyed in the end, however  *)
(* short the last burst is.                                                *)
MessagesSettle ==
    \A i \in Ids : (\E m \in InTransit : m.id = i) ~> (\A m \in InTransit : m.id # i)

=============================================================================
