------------------------------ MODULE DhcpPool ------------------------------
(***************************************************************************)
(* dhcp_task and its pool of addresses (slot_for_mac), with the phones and *)
(* the UDP messages between them.  A message is a member of net until it   *)
(* is handled or lost: a set, so messages overtake each other, and one     *)
(* that is handled may stay in it (a duplicate).                           *)
(*                                                                         *)
(* A slot stands for its address, POOL_START + slot.  The phones are not   *)
(* in the repository: they follow the usual exchange, DISCOVER, OFFER,     *)
(* REQUEST with option 50, ACK, and renew with a REQUEST without it.       *)
(***************************************************************************)
EXTENDS Integers, FiniteSets

CONSTANTS
    Macs,           \* the phones (never the all-zero address, which marks a free slot)
    PoolSize,       \* POOL_SIZE (8)
    SeqMod,         \* 2^32: lease_seq is a u32 and wraps
    MayRestart,     \* whether the Pico may be reset, which forgets the leases
    MayDuplicate,   \* whether a message may be handled more than once
    ServedCap,      \* bound of the model: the messages served in one boot
    NetCap          \* bound of the model: the messages under way

ASSUME DhcpAssumption ==
    /\ PoolSize \in Nat \ {0}
    /\ SeqMod \in Nat \ {0}
    /\ MayRestart \in BOOLEAN /\ MayDuplicate \in BOOLEAN
    /\ ServedCap \in Nat /\ NetCap \in Nat \ {0}

Slots == 0..(PoolSize - 1)

\* Lease::EMPTY has the all-zero address, which no network interface has.
NoMac == "00:00:00:00:00:00"
ASSUME NoMacAssumption == NoMac \notin Macs

Empty == [mac |-> NoMac, seq |-> 0]
Lease == [mac : Macs \cup {NoMac}, seq : 0..(SeqMod - 1)]

\* want is the slot of option 50, or -1 without it; "inform" stands for every
\* message type that gets no answer.
NoSlot  == -1
Request == [kind : {"discover", "request", "inform"}, mac : Macs, want : Slots \cup {NoSlot}]
Reply   == [kind : {"offer", "ack", "nak"}, mac : Macs, slot : Slots \cup {NoSlot}]

VARIABLES
    leases, seq,    \* the pool
    net,            \* messages under way
    phone,          \* what each phone does: "off", "selecting", "requesting", "bound"
    address,        \* the slot a phone was offered or uses
    since,          \* history: who was served in this boot since each phone last was
    handled,        \* history: the messages served in this boot
    evicted         \* history: the phones that lost a lease in this boot

pool  == <<leases, seq, since, handled, evicted>>
vars  == <<pool, net, phone, address>>

-----------------------------------------------------------------------------
(* slot_for_mac.                                                           *)

Holds(m) == {s \in Slots : leases[s].mac = m}

First(S) == CHOOSE s \in S : \A t \in S : s <= t

\* Mutation of Oldest: the scan takes the most recent lease.
Newest == CHOOSE s \in Slots : \A t \in Slots : leases[t].seq <= leases[s].seq

\* The scan keeps the last of the smallest sequence numbers.
Oldest == CHOOSE s \in Slots :
             \A t \in Slots : /\ leases[s].seq <= leases[t].seq
                              /\ leases[s].seq = leases[t].seq => t <= s

\* Mutation of SlotFor: a free slot is preferred to the phone's own.
SlotForFree(m) ==
    IF Holds(NoMac) # {} THEN First(Holds(NoMac))
    ELSE IF Holds(m) # {} THEN First(Holds(m))
    ELSE Oldest

SlotFor(m) ==
    IF Holds(m) # {} THEN First(Holds(m))
    ELSE IF Holds(NoMac) # {} THEN First(Holds(NoMac))
    ELSE Oldest

NextSeq == (seq + 1) % SeqMod

\* What slot_for_mac leaves behind; its result is SlotFor(m).
Assign(m) ==
    /\ seq' = NextSeq
    /\ leases' = [leases EXCEPT ![SlotFor(m)] = [mac |-> m, seq |-> NextSeq]]

-----------------------------------------------------------------------------
(* dhcp_task: every message with a type takes or refreshes a lease, also   *)
(* one that is not answered.                                               *)

Consume(msg, new) ==
    \E left \in {net \ {msg}} \cup (IF MayDuplicate THEN {net} ELSE {}) : net' = left \cup new

\* Mutation of ReplyTo: a request for another address is granted.
ReplyToAny(msg, slot) ==
    CASE msg.kind = "discover" -> {[kind |-> "offer", mac |-> msg.mac, slot |-> slot]}
      [] msg.kind = "request"  -> {[kind |-> "ack", mac |-> msg.mac, slot |->
                                      IF msg.want = NoSlot THEN slot ELSE msg.want]}
      [] OTHER -> {}

ReplyTo(msg, slot) ==
    CASE msg.kind = "discover" -> {[kind |-> "offer", mac |-> msg.mac, slot |-> slot]}
      [] msg.kind = "request" /\ msg.want \in {slot, NoSlot} ->
            {[kind |-> "ack", mac |-> msg.mac, slot |-> slot]}
      [] msg.kind = "request" /\ msg.want \notin {slot, NoSlot} ->
            {[kind |-> "nak", mac |-> msg.mac, slot |-> NoSlot]}
      [] OTHER -> {}

\* A datagram with a message type is received and answered.
Serve(msg) ==
    /\ handled < ServedCap
    /\ Assign(msg.mac)
    /\ Consume(msg, ReplyTo(msg, SlotFor(msg.mac)))
    /\ since' = [m \in Macs |-> IF m = msg.mac THEN {} ELSE since[m] \cup {msg.mac}]
    /\ handled' = handled + 1
    /\ evicted' = evicted \cup ({leases[SlotFor(msg.mac)].mac} \ {msg.mac, NoMac})
    /\ UNCHANGED <<phone, address>>

\* The Pico starts again; the access point is down meanwhile, so nothing under
\* way arrives and every phone that had an address asks for it anew.
Restart ==
    /\ MayRestart
    /\ leases' = [s \in Slots |-> Empty] /\ seq' = 0
    /\ since' = [m \in Macs |-> {}] /\ handled' = 0 /\ evicted' = {}
    /\ net' = {}
    /\ phone' = [m \in Macs |-> IF phone[m] = "bound" THEN "requesting" ELSE phone[m]]
    /\ UNCHANGED address

-----------------------------------------------------------------------------
(* The phones.                                                             *)

Send(kind, m, want) ==
    /\ net' = net \cup {[kind |-> kind, mac |-> m, want |-> want]}
    /\ Cardinality(net') <= NetCap

Become(m, state, slot) ==
    /\ phone' = [phone EXCEPT ![m] = state]
    /\ address' = [address EXCEPT ![m] = slot]
    /\ UNCHANGED pool

\* First sent, or sent again.
Discover(m) ==
    /\ phone[m] \in {"off", "selecting"}
    /\ Send("discover", m, NoSlot)
    /\ Become(m, "selecting", NoSlot)

AskAgain(m) ==
    /\ phone[m] = "requesting"
    /\ Send("request", m, address[m])
    /\ Become(m, "requesting", address[m])

\* A phone in use renews its lease, or asks for something else.
Renew(m) ==
    /\ phone[m] = "bound"
    /\ \E kind \in {"request", "inform"} : Send(kind, m, NoSlot)
    /\ Become(m, "bound", address[m])

Leave(m) ==
    /\ phone[m] # "off"
    /\ Become(m, "off", NoSlot)
    /\ UNCHANGED net

GetOffer(msg) ==
    /\ msg.kind = "offer" /\ phone[msg.mac] = "selecting"
    /\ Consume(msg, {[kind |-> "request", mac |-> msg.mac, want |-> msg.slot]})
    /\ Become(msg.mac, "requesting", msg.slot)

GetAck(msg) ==
    /\ msg.kind = "ack" /\ phone[msg.mac] \in {"requesting", "bound"}
    /\ Consume(msg, {})
    /\ Become(msg.mac, "bound", msg.slot)

GetNak(msg) ==
    /\ msg.kind = "nak" /\ phone[msg.mac] \in {"requesting", "bound"}
    /\ Consume(msg, {})
    /\ Become(msg.mac, "off", NoSlot)

\* Lost in the air, or not what its phone waits for.
Lose(msg) ==
    /\ net' = net \ {msg}
    /\ UNCHANGED <<pool, phone, address>>

-----------------------------------------------------------------------------
Init ==
    /\ leases = [s \in Slots |-> Empty] /\ seq = 0
    /\ since = [m \in Macs |-> {}] /\ handled = 0 /\ evicted = {}
    /\ net = {}
    /\ phone = [m \in Macs |-> "off"] /\ address = [m \in Macs |-> NoSlot]

Requests == {msg \in net : msg.kind \in {"discover", "request", "inform"}}
Replies  == net \ Requests

Next ==
    \/ \E msg \in Requests : Serve(msg)
    \/ Restart
    \/ \E m \in Macs : Discover(m) \/ AskAgain(m) \/ Renew(m) \/ Leave(m)
    \/ \E msg \in Replies : GetOffer(msg) \/ GetAck(msg) \/ GetNak(msg)
    \/ \E msg \in net : Lose(msg)

Spec == Init /\ [][Next]_vars

-----------------------------------------------------------------------------
(* Properties.                                                             *)

TypeOK ==
    /\ leases \in [Slots -> Lease] /\ seq \in 0..(SeqMod - 1)
    /\ net \subseteq Request \cup Reply
    /\ phone \in [Macs -> {"off", "selecting", "requesting", "bound"}]
    /\ address \in [Macs -> Slots \cup {NoSlot}]
    /\ since \in [Macs -> SUBSET Macs] /\ handled \in 0..ServedCap /\ evicted \subseteq Macs

\* No phone ever holds two slots of the pool, whatever it sends and in what
\* order: a second one would shrink the pool for good.
OneLeasePerPhone ==
    \A s, t \in Slots : leases[s].mac = leases[t].mac /\ leases[s].mac # NoMac => s = t

\* "Otherwise the least-recently-used lease": a lease is taken from a phone only
\* when no slot is free, and, until lease_seq wraps, from the phone that was
\* served longest ago.
EvictsLeastRecent ==
    [][\A s \in Slots :
          LET m == leases[s].mac
          IN  leases'[s].mac \notin {m, NoMac} /\ m # NoMac =>
                \A t \in Slots \ {s} : /\ leases[t].mac # NoMac
                                       /\ handled < SeqMod => leases[t].mac \in since[m]]_vars

\* No two phones use one address, unless the pool took the lease of one of
\* them for a newcomer: a restart that forgets the leases, a lost answer or an
\* old one that arrives late does not bring two phones to one address.
AddressesDiffer ==
    \A m, n \in Macs \ evicted :
        m # n /\ phone[m] = "bound" /\ phone[n] = "bound" => address[m] # address[n]
=============================================================================
