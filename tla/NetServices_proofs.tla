------------------------- MODULE NetServices_proofs -------------------------
(***************************************************************************)
(* The services of net_services.rs beside the page: the pool of addresses, *)
(* for any number of phones and slots and whatever happens to their        *)
(* messages; the names, for packets and names of any length; the window of *)
(* the Apple probe, for any clock and any window.                          *)
(***************************************************************************)
EXTENDS DhcpPool, CaptivePortal, SequenceTheorems, WellFoundedInduction, TLAPS

(* Numbers: that a set of them has a smallest one, and that induction      *)
(* holds for a set, follow from < being well-founded.                      *)

Less == {p \in Nat \X Nat : p[1] < p[2]}

\* The order of the numbers, as a relation, is the library's.
LEMMA LessWellFounded == IsWellFoundedOn(Less, Nat)
<1>1. Less = OpToRel(<, Nat)
  BY Zenon DEF OpToRel, Less
<1> QED
  BY <1>1, NatLessThanWellFounded, Zenon

\* A set of numbers that is not empty has a smallest one.
LEMMA SmallestNat ==
    ASSUME NEW S, S \subseteq Nat, S # {}
    PROVE  \E x \in S : \A y \in S : x <= y
<1>1. PICK x \in S : \A y \in S : <<y, x>> \notin Less
  BY LessWellFounded, WFMin
<1>2. ASSUME NEW y \in S
      PROVE  x <= y
  <2>1. <<y, x>> \in Nat \X Nat /\ x \in Nat /\ y \in Nat
    OBVIOUS
  <2>2. <<y, x>> \notin Less
    BY <1>1
  <2> QED
    BY <2>1, <2>2 DEF Less
<1> QED
  BY <1>2

\* Induction, for a set in place of a predicate.
LEMMA Induction ==
    ASSUME NEW S, 0 \in S, \A n \in Nat : n \in S => n + 1 \in S
    PROVE  \A n \in Nat : n \in S
<1> SUFFICES ASSUME NEW m \in Nat, m \notin S PROVE FALSE
  OBVIOUS
<1> DEFINE out == Nat \ S
<1>1. PICK x \in out : \A y \in out : x <= y
  <2>1. out \subseteq Nat /\ out # {}
    OBVIOUS
  <2> HIDE DEF out
  <2> QED
    BY <2>1, SmallestNat
<1>2. x # 0 /\ x \in Nat
  OBVIOUS
<1>3. x - 1 \in Nat /\ ~(x <= x - 1)
  BY <1>2
<1>4. x - 1 \in S
  BY <1>1, <1>3
<1>5. (x - 1) + 1 = x
  BY <1>2
<1> QED
  BY <1>3, <1>4, <1>5

-----------------------------------------------------------------------------
(* The pool of addresses.                                                  *)

\* The phones that keep their lease hold the address they were granted: as
\* long as the grant is under way, and while they use it.
GrantsHeld ==
    \A msg \in net : msg.kind = "ack" /\ msg.mac \notin evicted =>
        msg.slot \in Slots /\ leases[msg.slot].mac = msg.mac

BoundHeld ==
    \A m \in Macs \ evicted : phone[m] = "bound" =>
        address[m] \in Slots /\ leases[address[m]].mac = m

\* Until it wraps lease_seq counts the messages and is the newest of the sequence
\* numbers; the numbers of two leases differ and say which of the two phones was
\* served later.
SeqCounts == seq = handled

SeqNewest == \A s \in Slots : leases[s].seq <= seq

SeqOrders ==
    \A s, t \in Slots : s # t /\ leases[s].mac # NoMac /\ leases[t].mac # NoMac =>
        /\ leases[s].seq # leases[t].seq
        /\ leases[s].seq < leases[t].seq => leases[t].mac \in since[leases[s].mac]

Inv == TypeOK /\ OneLeasePerPhone /\ GrantsHeld /\ BoundHeld

-----------------------------------------------------------------------------
(* The scans of slot_for_mac find what they look for.                      *)

\* position(...) finds the first of the slots that match.
LEMMA FirstFound ==
    ASSUME NEW S, S \subseteq Slots, S # {}
    PROVE  First(S) \in S
<1>1. S \subseteq Nat
  BY DhcpAssumption DEF Slots
<1>2. \E s \in S : \A t \in S : s <= t
  BY <1>1, SmallestNat
<1> QED
  BY <1>2 DEF First

\* The scan of a full pool ends at a lease with the smallest sequence number.
LEMMA OldestFound ==
    ASSUME leases \in [Slots -> Lease]
    PROVE  Oldest \in Slots /\ \A t \in Slots : leases[Oldest].seq <= leases[t].seq
<1> DEFINE seqs   == {leases[s].seq : s \in Slots}
           least(s) == \A t \in Slots : leases[s].seq <= leases[t].seq
           ends   == {PoolSize - 1 - s : s \in {t \in Slots : least(t)}}
<1>1. \A s \in Slots : leases[s].seq \in Nat /\ s \in 0..(PoolSize - 1)
  BY DhcpAssumption DEF Lease, Slots
<1>2. 0 \in Slots /\ PoolSize \in Nat
  BY DhcpAssumption DEF Slots
<1>3. \E s \in Slots : least(s)
  <2>1. seqs \subseteq Nat /\ seqs # {}
    BY <1>1, <1>2
  <2>2. PICK n \in seqs : \A k \in seqs : n <= k
    BY <2>1, SmallestNat
  <2> QED
    BY <2>2
<1>4. \E s \in Slots : least(s) /\ \A t \in Slots : least(t) => t <= s
  <2>1. ends \subseteq Nat /\ ends # {}
    BY <1>1, <1>2, <1>3
  <2>2. PICK n \in ends : \A k \in ends : n <= k
    BY <2>1, SmallestNat
  <2>3. PICK s \in Slots : least(s) /\ n = PoolSize - 1 - s
    BY <2>2
  <2>4. ASSUME NEW t \in Slots, least(t)
        PROVE  t <= s
    <3>1. PoolSize - 1 - t \in ends
      BY <2>4
    <3>2. n <= PoolSize - 1 - t
      BY <3>1, <2>2
    <3>3. s \in Int /\ t \in Int /\ PoolSize \in Int
      BY <1>1, <1>2
    <3> HIDE DEF ends, least
    <3> QED
      BY <3>2, <3>3, <2>3
  <2> QED
    BY <2>3, <2>4
<1>5. \E s \in Slots : \A t \in Slots : /\ leases[s].seq <= leases[t].seq
                                        /\ leases[s].seq = leases[t].seq => t <= s
  <2>1. PICK s \in Slots : least(s) /\ \A t \in Slots : least(t) => t <= s
    BY <1>4
  <2>2. ASSUME NEW t \in Slots, leases[s].seq = leases[t].seq
        PROVE  t <= s
    BY <2>1, <2>2
  <2> QED
    BY <2>1, <2>2
<1> HIDE DEF seqs, least, ends
<1> QED
  BY <1>5 DEF Oldest

\* slot_for_mac returns a slot of the pool.
LEMMA SlotFound ==
    ASSUME leases \in [Slots -> Lease], NEW m
    PROVE  SlotFor(m) \in Slots
<1>1. \A n : Holds(n) \subseteq Slots
  BY DEF Holds
<1>2. \A n : Holds(n) # {} => First(Holds(n)) \in Slots
  BY <1>1, FirstFound
<1> QED
  BY <1>2, OldestFound DEF SlotFor

-----------------------------------------------------------------------------
\* wrapping_add stays in the width of lease_seq.
LEMMA NextSeqType ==
    ASSUME seq \in 0..(SeqMod - 1)
    PROVE  NextSeq \in 0..(SeqMod - 1)
BY DhcpAssumption DEF NextSeq

\* A phone that holds a slot is found there.
LEMMA FoundWhereHeld ==
    ASSUME OneLeasePerPhone, NEW m \in Macs, NEW s \in Holds(m)
    PROVE  SlotFor(m) = s
<1>1. Holds(m) = {s} /\ s \in Int /\ m # NoMac
  BY DhcpAssumption, NoMacAssumption DEF Holds, OneLeasePerPhone, Slots
<1>2. First({s}) = s
  BY <1>1 DEF First
<1> QED
  BY <1>1, <1>2 DEF SlotFor

\* slot_for_mac changes one slot of the pool, and a phone that holds a slot
\* keeps it: in neither case is there a second.
LEMMA AssignStep ==
    ASSUME TypeOK, OneLeasePerPhone, NEW m \in Macs, Assign(m)
    PROVE  /\ leases' \in [Slots -> Lease] /\ seq' \in 0..(SeqMod - 1)
           /\ SlotFor(m) \in Slots /\ leases'[SlotFor(m)] = [mac |-> m, seq |-> seq']
           /\ \A s \in Slots \ {SlotFor(m)} : leases'[s] = leases[s] /\ leases[s].mac # m
           /\ OneLeasePerPhone'
<1>1. leases \in [Slots -> Lease] /\ NextSeq \in 0..(SeqMod - 1)
  BY NextSeqType DEF TypeOK
<1>2. [mac |-> m, seq |-> NextSeq] \in Lease
  BY <1>1 DEF Lease
<1>3. SlotFor(m) \in Slots
  BY <1>1, SlotFound
<1>4. /\ leases'[SlotFor(m)] = [mac |-> m, seq |-> seq']
      /\ \A s \in Slots \ {SlotFor(m)} : leases'[s] = leases[s]
  BY <1>1, <1>3 DEF Assign
<1>5. \A s \in Slots \ {SlotFor(m)} : leases[s].mac # m
  BY FoundWhereHeld DEF Holds
<1>6. OneLeasePerPhone'
  BY <1>3, <1>4, <1>5 DEF OneLeasePerPhone
<1> QED
  BY <1>1, <1>2, <1>3, <1>4, <1>5, <1>6 DEF Assign

\* What is answered is a reply to the phone that asked, and a grant is for the
\* slot the pool gave it.
LEMMA ReplyType ==
    ASSUME NEW msg \in Request, NEW slot \in Slots, NEW answer \in ReplyTo(msg, slot)
    PROVE  /\ answer \in Reply /\ answer.mac = msg.mac
           /\ answer.kind = "ack" => answer.slot = slot
<1>1. msg.mac \in Macs
  BY DEF Request
<1>2. \E kind \in {"offer", "ack", "nak"}, s \in {slot, NoSlot} :
         answer = [kind |-> kind, mac |-> msg.mac, slot |-> s] /\ (kind = "ack" => s = slot)
  BY DEF ReplyTo
<1> QED
  BY <1>1, <1>2 DEF Reply

\* The kind of a message says which of the two it is.
LEMMA MessageKind ==
    ASSUME NEW msg \in Request \cup Reply
    PROVE  /\ msg.mac \in Macs
           /\ msg.kind \in {"discover", "request", "inform"} => msg \in Request
           /\ msg.kind \in {"offer", "ack", "nak"} => msg \in Reply /\ msg.slot \in Slots \cup {NoSlot}
BY DEF Request, Reply

\* What a message leaves under way is there already, or new.
LEMMA ConsumeStep ==
    ASSUME NEW msg \in net, NEW new, Consume(msg, new)
    PROVE  net' \subseteq net \cup new
BY DEF Consume

\* No lease is held when the Pico boots.
LEMMA Boot ==
    ASSUME NEW pool_, pool_ = [s \in Slots |-> Empty]
    PROVE  pool_ \in [Slots -> Lease] /\ 0 \in 0..(SeqMod - 1)
           /\ \A s \in Slots : pool_[s].mac = NoMac /\ pool_[s].seq = 0
BY DhcpAssumption DEF Empty, Lease

LEMMA InvInit == Init => Inv
<1> SUFFICES ASSUME Init PROVE Inv
  OBVIOUS
<1>1. /\ leases \in [Slots -> Lease] /\ seq \in 0..(SeqMod - 1)
      /\ \A s \in Slots : leases[s].mac = NoMac
  BY Boot DEF Init
<1>2. TypeOK
  BY <1>1, DhcpAssumption DEF Init, TypeOK
<1>3. OneLeasePerPhone /\ GrantsHeld /\ BoundHeld
  BY <1>1 DEF Init, OneLeasePerPhone, GrantsHeld, BoundHeld
<1> QED
  BY <1>2, <1>3 DEF Inv

\* A datagram takes or refreshes one lease: whoever loses the slot is among
\* the evicted, so the grants of the others still hold, and the new one does.
LEMMA ServeStep ==
    ASSUME Inv, NEW msg \in Requests, Serve(msg)
    PROVE  Inv'
<1> DEFINE s == SlotFor(msg.mac)
<1>1. msg \in Request /\ msg \in net /\ msg.mac \in Macs
  BY MessageKind DEF Requests, Inv, TypeOK
<1>2. /\ leases' \in [Slots -> Lease] /\ seq' \in 0..(SeqMod - 1)
      /\ s \in Slots /\ leases'[s] = [mac |-> msg.mac, seq |-> seq']
      /\ \A t \in Slots \ {s} : leases'[t] = leases[t] /\ leases[t].mac # msg.mac
      /\ OneLeasePerPhone'
  BY <1>1, AssignStep DEF Serve, Inv
<1>3. net' \subseteq net \cup ReplyTo(msg, s)
  BY <1>1, ConsumeStep DEF Serve
<1>4. \A answer \in ReplyTo(msg, s) : /\ answer \in Reply /\ answer.mac = msg.mac
                                      /\ answer.kind = "ack" => answer.slot = s
  BY <1>1, <1>2, ReplyType
<1>5. evicted \subseteq evicted' /\ evicted' \subseteq Macs
  <2>1. leases[s].mac \in Macs \cup {NoMac}
    BY <1>2 DEF Inv, TypeOK, Lease
  <2> QED
    BY <2>1 DEF Serve, Inv, TypeOK
<1>6. ASSUME NEW m \in Macs \ evicted', NEW t \in Slots, leases[t].mac = m
      PROVE  leases'[t].mac = m
  <2>1. CASE t # s
    BY <2>1, <1>2, <1>6
  <2>2. CASE t = s /\ m = msg.mac
    BY <2>2, <1>2
  <2>3. CASE t = s /\ m # msg.mac
    <3>1. m # NoMac
      BY NoMacAssumption
    <3>2. m \in evicted'
      BY <2>3, <3>1, <1>6 DEF Serve
    <3> QED
      BY <3>2, <1>6
  <2> QED
    BY <2>1, <2>2, <2>3
<1> HIDE DEF s
<1>7. TypeOK'
  <2>1. net' \subseteq Request \cup Reply
    <3>1. net \subseteq Request \cup Reply
      BY DEF Inv, TypeOK
    <3>2. ReplyTo(msg, s) \subseteq Reply
      BY <1>4
    <3> QED
      BY <3>1, <3>2, <1>3
  <2>2. since' \in [Macs -> SUBSET Macs] /\ handled' \in 0..ServedCap
    BY <1>1, DhcpAssumption DEF Serve, Inv, TypeOK
  <2>3. UNCHANGED <<phone, address>>
    BY DEF Serve
  <2> QED
    BY <1>2, <1>5, <2>1, <2>2, <2>3 DEF Inv, TypeOK
<1>8. GrantsHeld'
  <2> SUFFICES ASSUME NEW g \in net', g.kind = "ack", g.mac \notin evicted'
               PROVE  g.slot \in Slots /\ leases'[g.slot].mac = g.mac
    BY DEF GrantsHeld
  <2>1. CASE g \in ReplyTo(msg, s)
    <3>1. g.mac = msg.mac /\ g.slot = s
      BY <2>1, <1>4
    <3> QED
      BY <3>1, <1>2
  <2>2. CASE g \in net
    <3>1. g.slot \in Slots /\ leases[g.slot].mac = g.mac
      BY <2>2, <1>5 DEF Inv, GrantsHeld
    <3>2. g.mac \in Macs
      BY <2>2, MessageKind DEF Inv, TypeOK
    <3> QED
      BY <3>1, <3>2, <1>6
  <2> QED
    BY <2>1, <2>2, <1>3
<1>9. BoundHeld'
  BY <1>5, <1>6 DEF Serve, Inv, BoundHeld
<1> QED
  BY <1>2, <1>7, <1>8, <1>9 DEF Inv

\* A restart forgets every lease, and no phone is left with an address.
LEMMA RestartStep ==
    ASSUME Inv, Restart
    PROVE  Inv'
<1>1. /\ leases' \in [Slots -> Lease] /\ seq' \in 0..(SeqMod - 1)
      /\ \A s \in Slots : leases'[s].mac = NoMac
  BY Boot DEF Restart
<1>2. TypeOK'
  BY <1>1, DhcpAssumption DEF Restart, Inv, TypeOK
<1>3. OneLeasePerPhone'
  BY <1>1 DEF OneLeasePerPhone
<1>4. GrantsHeld'
  BY DEF Restart, GrantsHeld
<1>5. BoundHeld'
  BY DEF Restart, BoundHeld
<1> QED
  BY <1>2, <1>3, <1>4, <1>5 DEF Inv

\* A phone's own steps leave the pool alone, and what it sends is no grant.
LEMMA PhoneStep ==
    ASSUME Inv, NEW m \in Macs, Discover(m) \/ AskAgain(m) \/ Renew(m) \/ Leave(m)
    PROVE  Inv'
<1>1. UNCHANGED pool
  BY DEF Discover, AskAgain, Renew, Leave, Become
<1>2. \A msg \in net' \ net : msg \in Request
  <2>1. address[m] \in Slots \cup {NoSlot}
    BY DEF Inv, TypeOK
  <2> QED
    BY <2>1 DEF Discover, AskAgain, Renew, Leave, Send, Request
<1>3. /\ phone' \in [Macs -> {"off", "selecting", "requesting", "bound"}]
      /\ address' \in [Macs -> Slots \cup {NoSlot}]
      /\ \A n \in Macs : phone'[n] = "bound" => phone[n] = "bound" /\ address'[n] = address[n]
  BY DEF Discover, AskAgain, Renew, Leave, Become, Inv, TypeOK
<1>4. TypeOK'
  BY <1>1, <1>2, <1>3 DEF Inv, TypeOK, pool
<1>5. GrantsHeld'
  <2>1. \A msg \in net' : msg.kind = "ack" => msg \in net
    BY <1>2 DEF Request
  <2> QED
    BY <2>1, <1>1 DEF Inv, GrantsHeld, pool
<1>6. BoundHeld'
  BY <1>1, <1>3 DEF Inv, BoundHeld, pool
<1> QED
  BY <1>1, <1>4, <1>5, <1>6 DEF Inv, OneLeasePerPhone, pool

\* A phone that gets an answer: only a grant binds it, to the slot granted.
LEMMA AnswerStep ==
    ASSUME Inv, NEW msg \in Replies, GetOffer(msg) \/ GetAck(msg) \/ GetNak(msg)
    PROVE  Inv'
<1>1. UNCHANGED pool
  BY DEF GetOffer, GetAck, GetNak, Become
<1>2. msg \in net /\ msg \in Reply /\ msg.mac \in Macs /\ msg.slot \in Slots \cup {NoSlot}
  BY MessageKind DEF Replies, GetOffer, GetAck, GetNak, Inv, TypeOK
<1>3. \A x \in net' \ net : x \in Request
  <2>1. CASE GetOffer(msg)
    <3>1. net' \subseteq net \cup {[kind |-> "request", mac |-> msg.mac, want |-> msg.slot]}
      BY <2>1, <1>2, ConsumeStep DEF GetOffer
    <3>2. [kind |-> "request", mac |-> msg.mac, want |-> msg.slot] \in Request
      BY <1>2 DEF Request
    <3> QED
      BY <3>1, <3>2
  <2>2. CASE GetAck(msg) \/ GetNak(msg)
    BY <2>2, <1>2, ConsumeStep DEF GetAck, GetNak
  <2> QED
    BY <2>1, <2>2
<1>4. /\ phone' \in [Macs -> {"off", "selecting", "requesting", "bound"}]
      /\ address' \in [Macs -> Slots \cup {NoSlot}]
  BY <1>2 DEF GetOffer, GetAck, GetNak, Become, Inv, TypeOK
<1>5. TypeOK'
  BY <1>1, <1>3, <1>4 DEF Inv, TypeOK, pool
<1>6. GrantsHeld'
  <2>1. \A x \in net' : x.kind = "ack" => x \in net
    BY <1>3 DEF Request
  <2> QED
    BY <2>1, <1>1 DEF Inv, GrantsHeld, pool
<1>7. BoundHeld'
  <2> SUFFICES ASSUME NEW n \in Macs \ evicted, phone'[n] = "bound"
               PROVE  address'[n] \in Slots /\ leases[address'[n]].mac = n
    BY <1>1 DEF BoundHeld, pool
  <2>1. CASE n = msg.mac /\ GetAck(msg)
    <3>1. msg.slot \in Slots /\ leases[msg.slot].mac = n
      BY <2>1, <1>2 DEF GetAck, Inv, GrantsHeld
    <3>2. address'[n] = msg.slot
      BY <2>1, <1>2 DEF GetAck, Become, Inv, TypeOK
    <3> QED
      BY <3>1, <3>2
  <2>2. CASE ~ (n = msg.mac /\ GetAck(msg))
    <3>1. phone[n] = "bound" /\ address'[n] = address[n]
      BY <2>2, <1>2 DEF GetOffer, GetAck, GetNak, Become, Inv, TypeOK
    <3> QED
      BY <3>1 DEF Inv, BoundHeld
  <2> QED
    BY <2>1, <2>2
<1> QED
  BY <1>1, <1>5, <1>6, <1>7 DEF Inv, OneLeasePerPhone, pool

\* A lost message takes nothing away that others hold.
LEMMA LoseStep ==
    ASSUME Inv, NEW msg \in net, Lose(msg)
    PROVE  Inv'
BY DEF Lose, Inv, TypeOK, OneLeasePerPhone, GrantsHeld, BoundHeld, pool

\* Every step of the server, the phones and the air.
LEMMA InvStep == Inv /\ [Next]_vars => Inv'
<1> SUFFICES ASSUME Inv, [Next]_vars PROVE Inv'
  OBVIOUS
<1>1. ASSUME NEW msg \in Requests, Serve(msg) PROVE Inv'
  BY <1>1, ServeStep
<1>2. CASE Restart
  BY <1>2, RestartStep
<1>3. ASSUME NEW m \in Macs, Discover(m) \/ AskAgain(m) \/ Renew(m) \/ Leave(m) PROVE Inv'
  BY <1>3, PhoneStep
<1>4. ASSUME NEW msg \in Replies, GetOffer(msg) \/ GetAck(msg) \/ GetNak(msg) PROVE Inv'
  BY <1>4, AnswerStep
<1>5. ASSUME NEW msg \in net, Lose(msg) PROVE Inv'
  BY <1>5, LoseStep
<1>6. CASE UNCHANGED vars
  BY <1>6 DEF vars, pool, Inv, TypeOK, OneLeasePerPhone, GrantsHeld, BoundHeld
<1> QED
  BY <1>1, <1>2, <1>3, <1>4, <1>5, <1>6 DEF Next

LEMMA InvAlways == Spec => []Inv
BY InvInit, InvStep, PTL DEF Spec

\* The pool, the messages and the phones stay in their types: in particular
\* slot_for_mac never leaves the pool, and lease_seq never its width.
THEOREM TypeCorrect == Spec => []TypeOK
<1>1. Inv => TypeOK
  BY DEF Inv
<1> QED
  BY <1>1, InvAlways, PTL

\* slot_for_mac never gives a phone a second slot, so phones that come back
\* cannot shrink the pool: for every number of phones, slots and messages.
THEOREM NoSecondLease == Spec => []OneLeasePerPhone
<1>1. Inv => OneLeasePerPhone
  BY DEF Inv
<1> QED
  BY <1>1, InvAlways, PTL

\* Two phones at one address would both hold the one lease of it.
THEOREM NoSharedAddress == Spec => []AddressesDiffer
<1>1. Inv => AddressesDiffer
  BY DEF Inv, BoundHeld, AddressesDiffer
<1> QED
  BY <1>1, InvAlways, PTL

-----------------------------------------------------------------------------
(* The least recently served phone, as long as lease_seq has not wrapped.  *)

Ordered == Inv /\ (handled < SeqMod => SeqCounts /\ SeqNewest /\ SeqOrders)

LEMMA OrderedInit == Init => Ordered
<1> SUFFICES ASSUME Init PROVE Ordered
  OBVIOUS
<1>1. \A s \in Slots : leases[s].mac = NoMac /\ leases[s].seq = 0
  BY Boot DEF Init
<1>2. SeqNewest
  BY <1>1 DEF SeqNewest, Init
<1>3. SeqOrders
  BY <1>1 DEF SeqOrders
<1> QED
  BY <1>2, <1>3, InvInit DEF Ordered, Init, SeqCounts

\* The phone served gets the newest number and has been served since every
\* other phone was; the others keep their numbers and who was served since.
LEMMA OrderedServe ==
    ASSUME Ordered, NEW msg \in Requests, Serve(msg)
    PROVE  Ordered'
<1> SUFFICES ASSUME handled' < SeqMod PROVE (SeqCounts /\ SeqNewest /\ SeqOrders)'
  BY ServeStep DEF Ordered
<1>0. handled' = handled + 1 /\ handled \in Nat /\ handled + 1 < SeqMod /\ SeqMod \in Nat
  BY DhcpAssumption DEF Serve, Ordered, Inv, TypeOK
<1> USE <1>0
<1> DEFINE s == SlotFor(msg.mac)
<1>1. msg.mac \in Macs
  BY MessageKind DEF Requests, Ordered, Inv, TypeOK
<1>2. /\ leases' \in [Slots -> Lease]
      /\ s \in Slots /\ leases'[s] = [mac |-> msg.mac, seq |-> seq']
      /\ \A t \in Slots \ {s} : leases'[t] = leases[t] /\ leases[t].mac # msg.mac
  BY <1>1, AssignStep DEF Serve, Ordered, Inv
<1>3. seq' = seq + 1 /\ seq \in Nat /\ SeqCounts'
  <2>1. seq \in 0..(SeqMod - 1) /\ seq = handled
    BY DEF Ordered, Inv, TypeOK, SeqCounts
  <2>2. seq + 1 \in 0..(SeqMod - 1)
    BY <2>1
  <2>3. (seq + 1) % SeqMod = seq + 1
    BY <2>1, <2>2
  <2> QED
    BY <2>1, <2>3 DEF Serve, Assign, NextSeq, SeqCounts
<1>4. \A t \in Slots : leases[t].seq \in Nat /\ leases[t].mac \in Macs \cup {NoMac}
  BY DhcpAssumption DEF Ordered, Inv, TypeOK, Lease
<1> HIDE DEF s
<1>5. \A t \in Slots \ {s} : leases'[t].seq < seq'
  BY <1>2, <1>3, <1>4 DEF Ordered, SeqNewest
<1>6. SeqNewest'
  <2> SUFFICES ASSUME NEW t \in Slots PROVE leases'[t].seq <= seq'
    BY DEF SeqNewest
  <2>1. CASE t = s
    BY <2>1, <1>2, <1>3
  <2>2. CASE t # s
    BY <2>2, <1>2, <1>3, <1>4 DEF Ordered, SeqNewest
  <2> QED
    BY <2>1, <2>2
<1>7. SeqOrders'
  <2> SUFFICES ASSUME NEW t \in Slots, NEW u \in Slots, t # u,
                      leases'[t].mac # NoMac, leases'[u].mac # NoMac
               PROVE  /\ leases'[t].seq # leases'[u].seq
                      /\ leases'[t].seq < leases'[u].seq =>
                            leases'[u].mac \in since'[leases'[t].mac]
    BY DEF SeqOrders
  <2>1. /\ leases' [s].mac = msg.mac /\ leases'[s].seq = seq'
    BY <1>2
  <2>2. \A m \in Macs : m # msg.mac => since'[m] = since[m] \cup {msg.mac}
    BY DEF Serve
  <2>3. CASE t = s
    <3>1. leases'[u].seq < seq'
      BY <2>3, <1>5
    <3>2. leases'[u].seq \in Nat /\ seq' \in Nat
      BY <2>3, <1>2, <1>3, <1>4
    <3> QED
      BY <2>1, <2>3, <3>1, <3>2
  <2>4. CASE t # s /\ u = s
    <3>1. leases'[t].seq < seq' /\ leases'[t].seq \in Nat /\ seq' \in Nat
      BY <2>4, <1>2, <1>3, <1>4, <1>5
    <3>2. leases'[t].mac \in Macs /\ leases'[t].mac # msg.mac
      BY <2>4, <1>2, <1>4
    <3> QED
      BY <2>1, <2>2, <2>4, <3>1, <3>2
  <2>5. CASE t # s /\ u # s
    <3>1. leases'[t] = leases[t] /\ leases'[u] = leases[u]
      BY <2>5, <1>2
    <3>2. leases[t].mac \in Macs /\ leases[t].mac # msg.mac
      BY <2>5, <3>1, <1>2, <1>4
    <3>3. /\ leases[t].seq # leases[u].seq
          /\ leases[t].seq < leases[u].seq => leases[u].mac \in since[leases[t].mac]
      BY <3>1 DEF Ordered, SeqOrders
    <3> QED
      BY <2>2, <3>1, <3>2, <3>3
  <2> QED
    BY <2>3, <2>4, <2>5
<1> QED
  BY <1>3, <1>6, <1>7

\* Only the server and a restart touch the pool.
LEMMA PoolUntouched ==
    ASSUME \/ \E m \in Macs : Discover(m) \/ AskAgain(m) \/ Renew(m) \/ Leave(m)
           \/ \E msg \in Replies : GetOffer(msg) \/ GetAck(msg) \/ GetNak(msg)
           \/ \E msg \in net : Lose(msg)
           \/ UNCHANGED vars
    PROVE  UNCHANGED pool
BY DEF Discover, AskAgain, Renew, Leave, GetOffer, GetAck, GetNak, Lose, Become, vars

LEMMA OrderedStep ==
    ASSUME Ordered, [Next]_vars
    PROVE  Ordered'
<1>1. Inv'
  BY InvStep DEF Ordered
<1>2. ASSUME NEW msg \in Requests, Serve(msg) PROVE Ordered'
  BY <1>2, OrderedServe
<1>3. CASE Restart
  <2>1. \A s \in Slots : leases'[s].mac = NoMac /\ leases'[s].seq = 0
    BY <1>3, Boot DEF Restart
  <2>2. SeqNewest'
    BY <1>3, <2>1 DEF Restart, SeqNewest
  <2>3. SeqOrders'
    BY <2>1 DEF SeqOrders
  <2> QED
    BY <1>1, <1>3, <2>2, <2>3 DEF Ordered, SeqCounts, Restart
<1>4. CASE UNCHANGED pool
  BY <1>1, <1>4 DEF pool, Ordered, SeqCounts, SeqNewest, SeqOrders
<1> QED
  BY <1>2, <1>3, <1>4, PoolUntouched DEF Next

\* What one step may do to a lease.
EvictsOnce ==
    \A s \in Slots :
        LET m == leases[s].mac
        IN  leases'[s].mac \notin {m, NoMac} /\ m # NoMac =>
              \A t \in Slots \ {s} : /\ leases[t].mac # NoMac
                                     /\ handled < SeqMod => leases[t].mac \in since[m]

\* A lease changes hands only in a datagram of a phone that holds none, with no
\* slot free: the scan then takes the smallest of numbers, which all differ until
\* lease_seq wraps.
LEMMA EvictsStep ==
    ASSUME Ordered, [Next]_vars
    PROVE  EvictsOnce
<1>1. ASSUME NEW msg \in Requests, Serve(msg) PROVE EvictsOnce
  <2> SUFFICES ASSUME NEW s \in Slots, leases[s].mac # NoMac,
                      leases'[s].mac \notin {leases[s].mac, NoMac},
                      NEW t \in Slots \ {s}
               PROVE  /\ leases[t].mac # NoMac
                      /\ handled < SeqMod => leases[t].mac \in since[leases[s].mac]
    BY DEF EvictsOnce
  <2>1. msg.mac \in Macs /\ leases \in [Slots -> Lease]
    BY MessageKind DEF Requests, Ordered, Inv, TypeOK
  <2>2. s = SlotFor(msg.mac) /\ leases'[s].mac = msg.mac
    <3>1. Assign(msg.mac) /\ TypeOK /\ OneLeasePerPhone
      BY <1>1 DEF Serve, Ordered, Inv
    <3>2. /\ leases'[SlotFor(msg.mac)] = [mac |-> msg.mac, seq |-> seq']
          /\ \A u \in Slots \ {SlotFor(msg.mac)} : leases'[u] = leases[u]
      BY <2>1, <3>1, AssignStep
    <3> QED
      BY <3>2
  <2>3. Holds(msg.mac) = {}
    BY <2>1, <2>2, FoundWhereHeld DEF Holds, Ordered, Inv
  <2>4. Holds(NoMac) = {}
    <3>1. Holds(NoMac) # {} => s \in Holds(NoMac)
      BY <2>2, <2>3, FirstFound DEF SlotFor, Holds
    <3> QED
      BY <3>1 DEF Holds
  <2>5. s = Oldest
    BY <2>2, <2>3, <2>4 DEF SlotFor
  <2>6. leases[s].seq <= leases[t].seq
    BY <2>1, <2>5, OldestFound
  <2>7. leases[t].mac # NoMac /\ leases[s].seq \in Nat /\ leases[t].seq \in Nat
    BY <2>1, <2>4, DhcpAssumption DEF Holds, Lease
  <2>8. handled < SeqMod => leases[s].seq < leases[t].seq
    BY <2>6, <2>7 DEF Ordered, SeqOrders
  <2> QED
    BY <2>7, <2>8 DEF Ordered, SeqOrders
<1>2. CASE Restart
  <2>1. \A s \in Slots : leases'[s].mac = NoMac
    BY <1>2, Boot DEF Restart
  <2> QED
    BY <2>1 DEF EvictsOnce
<1>3. CASE UNCHANGED pool
  BY <1>3 DEF pool, EvictsOnce
<1> QED
  BY <1>1, <1>2, <1>3, PoolUntouched DEF Next

\* A full pool takes the lease of the phone that was served longest ago, for
\* any number of phones and slots and any width of lease_seq, until it wraps.
THEOREM EvictsOldest == Spec => EvictsLeastRecent
<1>1. Ordered /\ [Next]_vars => Ordered'
  BY OrderedStep
<1>2. Ordered /\ [Next]_vars => EvictsOnce
  BY EvictsStep
<1> QED
  BY <1>1, <1>2, OrderedInit, PTL DEF Spec, EvictsLeastRecent, EvictsOnce

-----------------------------------------------------------------------------
(* A recursive function on the numbers is what its definition says: its    *)
(* first n turns exist for every n, and agree.                             *)

\* The first n turns of a loop.
Turns(T, s, step, n) ==
    {g \in [0..n -> T] : g[0] = s /\ \A k \in 0..(n - 1) : g[k + 1] = step[g[k]]}

LEMMA TurnsExist ==
    ASSUME NEW T, NEW s \in T, NEW step \in [T -> T]
    PROVE  \A n \in Nat : Turns(T, s, step, n) # {}
<1> DEFINE S == {n \in Nat : Turns(T, s, step, n) # {}}
<1>1. 0 \in S
  <2>1. [k \in 0..0 |-> s] \in Turns(T, s, step, 0)
    BY DEF Turns
  <2> QED
    BY <2>1
<1>2. ASSUME NEW n \in S PROVE n + 1 \in S
  <2>1. n \in Nat
    OBVIOUS
  <2>2. PICK g : g \in Turns(T, s, step, n)
    OBVIOUS
  <2>3. /\ g \in [0..n -> T] /\ g[0] = s
        /\ \A k \in 0..(n - 1) : g[k + 1] = step[g[k]]
    BY <2>2 DEF Turns
  <2> DEFINE h == [k \in 0..(n + 1) |-> IF k = n + 1 THEN step[g[n]] ELSE g[k]]
  <2>4. n \in 0..n /\ 0 \in 0..(n + 1) /\ 0 # n + 1
    BY <2>1
  <2>5. h \in [0..(n + 1) -> T] /\ h[0] = s
    <3>1. \A k \in 0..(n + 1) : k # n + 1 => k \in 0..n
      BY <2>1
    <3> QED
      BY <2>3, <2>4, <3>1
  <2>6. ASSUME NEW k \in 0..n PROVE h[k + 1] = step[h[k]]
    <3>1. k \in 0..(n + 1) /\ k + 1 \in 0..(n + 1) /\ k # n + 1
      BY <2>1
    <3>2. CASE k = n
      BY <3>1, <3>2
    <3>3. CASE k # n
      <4>1. k \in 0..(n - 1) /\ k + 1 # n + 1
        BY <2>1, <3>3
      <4> QED
        BY <3>1, <4>1, <2>3
    <3> QED
      BY <3>2, <3>3
  <2>7. h \in Turns(T, s, step, n + 1)
    <3>1. (n + 1) - 1 = n
      BY <2>1
    <3> HIDE DEF h
    <3> QED
      BY <2>5, <2>6, <3>1 DEF Turns
  <2> QED
    BY <2>1, <2>7
<1> HIDE DEF S
<1>3. \A n \in Nat : n \in S
  <2>1. \A n \in Nat : n \in S => n + 1 \in S
    BY <1>2
  <2> QED
    BY <1>1, <2>1, Induction
<1> QED
  BY <1>3 DEF S

\* Two runs of a loop agree.
LEMMA TurnsAgree ==
    ASSUME NEW T, NEW s \in T, NEW step \in [T -> T], NEW m \in Nat, NEW n \in Nat,
           NEW g \in Turns(T, s, step, m), NEW h \in Turns(T, s, step, n)
    PROVE  \A k \in Nat : k <= m /\ k <= n => g[k] = h[k]
<1> DEFINE S == {k \in Nat : k <= m /\ k <= n => g[k] = h[k]}
<1>1. /\ g[0] = s /\ \A k \in 0..(m - 1) : g[k + 1] = step[g[k]]
      /\ h[0] = s /\ \A k \in 0..(n - 1) : h[k + 1] = step[h[k]]
  BY DEF Turns
<1>2. 0 \in S
  BY <1>1
<1>3. ASSUME NEW k \in S PROVE k + 1 \in S
  <2> SUFFICES ASSUME k + 1 <= m, k + 1 <= n PROVE g[k + 1] = h[k + 1]
    OBVIOUS
  <2>1. k \in 0..(m - 1) /\ k \in 0..(n - 1) /\ k <= m /\ k <= n
    OBVIOUS
  <2>2. g[k] = h[k]
    BY <2>1
  <2> QED
    BY <1>1, <2>1, <2>2
<1> HIDE DEF S
<1>4. \A k \in Nat : k \in S => k + 1 \in S
  BY <1>3
<1>5. \A k \in Nat : k \in S
  BY <1>2, <1>4, Induction
<1> QED
  BY <1>5 DEF S

\* f holds the states of a loop, all of its turns.
Runs(f, T, s, step) ==
    /\ f \in [Nat -> T]
    /\ f[0] = s
    /\ \A n \in Nat : f[n + 1] = step[f[n]]

\* Iterate is what its recursive definition says.
LEMMA IterateDef ==
    ASSUME NEW T, NEW s \in T, NEW step \in [T -> T]
    PROVE  Runs(Iterate(step, s), T, s, step)
<1> DEFINE R(n) == CHOOSE g : g \in Turns(T, s, step, n)
           F == [n \in Nat |-> R(n)[n]]
           G(f) == [n \in Nat |-> IF n = 0 THEN s ELSE step[f[n - 1]]]
<1>1. \A n \in Nat : R(n) \in Turns(T, s, step, n)
  BY TurnsExist
<1> HIDE DEF R
<1>2. /\ F \in [Nat -> T]
      /\ F[0] = s
      /\ \A n \in Nat : F[n + 1] = step[F[n]]
  <2>1. ASSUME NEW n \in Nat PROVE F[n] \in T
    <3>1. R(n) \in [0..n -> T] /\ n \in 0..n
      BY <1>1 DEF Turns
    <3> QED
      BY <3>1
  <2>2. F[0] = s
    <3>1. R(0)[0] = s
      BY <1>1 DEF Turns
    <3> QED
      BY <3>1
  <2>3. ASSUME NEW n \in Nat PROVE F[n + 1] = step[F[n]]
    <3>1. n + 1 \in Nat /\ n \in 0..((n + 1) - 1) /\ n <= n /\ n <= n + 1
      OBVIOUS
    <3>2. R(n + 1) \in Turns(T, s, step, n + 1) /\ R(n) \in Turns(T, s, step, n)
      BY <1>1, <3>1
    <3>3. R(n + 1)[n + 1] = step[R(n + 1)[n]]
      BY <3>1, <3>2 DEF Turns
    <3>4. R(n + 1)[n] = R(n)[n]
      BY <3>1, <3>2, TurnsAgree
    <3> QED
      BY <3>1, <3>3, <3>4
  <2>4. F \in [Nat -> T]
    BY <2>1
  <2> HIDE DEF F
  <2> QED
    BY <2>2, <2>3, <2>4
<1>3. F = G(F)
  <2> HIDE DEF F
  <2>1. ASSUME NEW n \in Nat PROVE F[n] = IF n = 0 THEN s ELSE step[F[n - 1]]
    <3>1. CASE n = 0
      BY <3>1, <1>2
    <3>2. CASE n # 0
      <4>1. n - 1 \in Nat /\ (n - 1) + 1 = n
        BY <3>2
      <4> QED
        BY <3>2, <4>1, <1>2
    <3> QED
      BY <3>1, <3>2
  <2>2. F = [n \in Nat |-> F[n]]
    BY <1>2
  <2> QED
    BY <2>1, <2>2
<1> HIDE DEF F
<1> DEFINE I == Iterate(step, s)
<1>4. I = CHOOSE f : f = G(f)
  BY DEF Iterate
<1>5. I = G(I)
  BY <1>3, <1>4
<1> HIDE DEF I
<1>6. I[0] = s
  BY <1>5
<1>7. ASSUME NEW n \in Nat PROVE I[n + 1] = step[I[n]]
  <2>1. n + 1 \in Nat /\ n + 1 # 0 /\ (n + 1) - 1 = n
    OBVIOUS
  <2>2. G(I)[n + 1] = IF n + 1 = 0 THEN s ELSE step[I[(n + 1) - 1]]
    BY <2>1
  <2> QED
    BY <1>5, <2>1, <2>2
<1>8. \A n \in Nat : I[n] \in T
  <2> DEFINE S == {n \in Nat : I[n] \in T}
  <2>1. 0 \in S
    BY <1>6
  <2>2. \A n \in Nat : n \in S => n + 1 \in S
    BY <1>7
  <2> HIDE DEF S
  <2>3. \A n \in Nat : n \in S
    BY <2>1, <2>2, Induction
  <2> QED
    BY <2>3 DEF S
<1>9. I \in [Nat -> T]
  <2>1. I = [n \in Nat |-> I[n]]
    BY <1>5
  <2> QED
    BY <1>8, <2>1
<1>10. Runs(I, T, s, step)
  BY <1>6, <1>7, <1>9 DEF Runs
<1> QED
  BY <1>10 DEF I

-----------------------------------------------------------------------------
(* The loop of skip_name.                                                  *)

\* There is no label to skip at cell i.
Stops(q, i) == ~(i \in 1..Len(q) /\ q[i] \in 1..(Pointer - 1))

Labels(q) == Iterate(NextLabel(q), NameAt)

LEMMA LabelsDef ==
    ASSUME NEW q \in Seq(Nat)
    PROVE  /\ Labels(q) \in [Nat -> Nat] /\ Labels(q)[0] = 2
           /\ \A n \in Nat : Labels(q)[n + 1] = IF Stops(q, Labels(q)[n]) THEN Labels(q)[n]
                                                ELSE Labels(q)[n] + 1 + q[Labels(q)[n]]
<1>1. NextLabel(q) \in [Nat -> Nat]
  <2>1. \A i \in 1..Len(q) : q[i] \in Nat
    OBVIOUS
  <2> QED
    BY <2>1 DEF NextLabel
<1>2. NameAt \in Nat
  BY DEF NameAt
<1>3. Runs(Labels(q), Nat, NameAt, NextLabel(q))
  BY <1>1, <1>2, IterateDef, Zenon DEF Labels
<1>4. \A n \in Nat : Labels(q)[n] \in Nat
  BY <1>3 DEF Runs
<1> QED
  BY <1>3, <1>4 DEF Runs, NextLabel, Stops, NameAt

\* The loop goes forward, by two cells at least until it stops.
LEMMA LabelsForward ==
    ASSUME NEW q \in Seq(Nat)
    PROVE  /\ \A n \in Nat : Labels(q)[n] >= 2 /\ (Stops(q, Labels(q)[n]) \/ Labels(q)[n] >= 2 + n)
           /\ \A m, n \in Nat : Labels(q)[m] <= Labels(q)[m + n]
<1> DEFINE f == Labels(q)
           S == {n \in Nat : f[n] >= 2 /\ (Stops(q, f[n]) \/ f[n] >= 2 + n)}
<1>0. f \in [Nat -> Nat]
  BY LabelsDef
<1>1. /\ f \in [Nat -> Nat] /\ f[0] = 2
      /\ \A n \in Nat : f[n + 1] = IF Stops(q, f[n]) THEN f[n] ELSE f[n] + 1 + q[f[n]]
  BY LabelsDef
<1> HIDE DEF f
<1>2. ASSUME NEW n \in Nat
      PROVE  f[n] \in Nat /\ f[n + 1] >= f[n] /\ (~Stops(q, f[n]) => f[n + 1] >= f[n] + 2)
  <2>1. f[n] \in Nat /\ f[n + 1] \in Nat
    BY <1>0
  <2>2. CASE Stops(q, f[n])
    <3>1. f[n + 1] = f[n]
      BY <1>1, <2>2
    <3> QED
      BY <2>1, <2>2, <3>1
  <2>3. CASE ~Stops(q, f[n])
    <3>1. f[n + 1] = f[n] + 1 + q[f[n]]
      BY <1>1, <2>3
    <3>2. q[f[n]] \in Int /\ q[f[n]] >= 1
      BY <2>3, NameAssumption DEF Stops
    <3> QED
      BY <2>1, <3>1, <3>2
  <2> QED
    BY <2>2, <2>3
<1>3. 0 \in S
  BY <1>1
<1>4. \A n \in Nat : n \in S => n + 1 \in S
  <2> SUFFICES ASSUME NEW n \in Nat, n \in S PROVE n + 1 \in S
    OBVIOUS
  <2>1. CASE Stops(q, f[n])
    <3>1. f[n + 1] = f[n]
      BY <2>1, <1>1
    <3> QED
      BY <3>1, <2>1
  <2>2. CASE ~Stops(q, f[n])
    <3>1. f[n + 1] >= f[n] + 2 /\ f[n] \in Nat /\ f[n + 1] \in Nat
      BY <2>2, <1>2
    <3> QED
      BY <2>2, <3>1
  <2> QED
    BY <2>1, <2>2
<1>5. \A n \in Nat : f[n] >= 2 /\ (Stops(q, f[n]) \/ f[n] >= 2 + n)
  <2> HIDE DEF S
  <2>1. \A n \in Nat : n \in S
    BY <1>3, <1>4, Induction
  <2> QED
    BY <2>1 DEF S
<1>6. ASSUME NEW m \in Nat PROVE \A n \in Nat : f[m] <= f[m + n]
  <2> DEFINE M == {n \in Nat : f[m] <= f[m + n]}
  <2>1. 0 \in M
    <3>1. f[m] \in Nat /\ m + 0 = m
      BY <1>2
    <3> QED
      BY <3>1
  <2>2. \A n \in Nat : n \in M => n + 1 \in M
    <3> SUFFICES ASSUME NEW n \in Nat, f[m] <= f[m + n] PROVE f[m] <= f[m + (n + 1)]
      OBVIOUS
    <3>1. m + n \in Nat /\ (m + n) + 1 = m + (n + 1) /\ m + (n + 1) \in Nat
      OBVIOUS
    <3>2. f[m + (n + 1)] >= f[m + n]
      BY <3>1, <1>2
    <3>3. f[m] \in Nat /\ f[m + n] \in Nat /\ f[m + (n + 1)] \in Nat
      BY <3>1, <1>2
    <3> QED
      BY <3>2, <3>3
  <2> HIDE DEF M
  <2>3. \A n \in Nat : n \in M
    BY <2>1, <2>2, Induction
  <2> QED
    BY <2>3 DEF M
<1> QED
  BY <1>5, <1>6 DEF f

\* Where the loop stops it stays.
LEMMA LabelsSettle ==
    ASSUME NEW q \in Seq(Nat), NEW m \in Nat, Stops(q, Labels(q)[m])
    PROVE  \A n \in Nat : Labels(q)[m + n] = Labels(q)[m]
<1> DEFINE S == {n \in Nat : Labels(q)[m + n] = Labels(q)[m]}
<1>1. 0 \in S
  OBVIOUS
<1>2. \A n \in Nat : n \in S => n + 1 \in S
  <2> SUFFICES ASSUME NEW n \in Nat, Labels(q)[m + n] = Labels(q)[m]
               PROVE  Labels(q)[m + (n + 1)] = Labels(q)[m]
    OBVIOUS
  <2>1. m + n \in Nat /\ (m + n) + 1 = m + (n + 1)
    OBVIOUS
  <2> QED
    BY <2>1, LabelsDef
<1> HIDE DEF S
<1>3. \A n \in Nat : n \in S
  BY <1>1, <1>2, Induction
<1> QED
  BY <1>3 DEF S

\* skip_name has stopped after as many turns as the packet has cells.
LEMMA NameEndDef ==
    ASSUME NEW q \in Seq(Nat)
    PROVE  /\ NameEnd(q) \in Nat /\ NameEnd(q) >= 2 /\ Stops(q, NameEnd(q))
           /\ \A n \in Nat : /\ Labels(q)[n] \in Nat /\ Labels(q)[n] <= NameEnd(q)
                             /\ Stops(q, Labels(q)[n]) => NameEnd(q) = Labels(q)[n]
<1> DEFINE f == Labels(q)
           e == Len(q)
<1>1. e \in Nat /\ NameEnd(q) = f[e]
  BY DEF NameEnd, Labels
<1>2. f \in [Nat -> Nat]
  BY LabelsDef
<1>3. Stops(q, f[e])
  <2>1. f[e] >= 2 + e => Stops(q, f[e])
    BY <1>1, <1>2 DEF Stops
  <2> QED
    BY <1>1, <2>1, LabelsForward
<1>4. ASSUME NEW n \in Nat
      PROVE  f[n] <= f[e] /\ (Stops(q, f[n]) => f[e] = f[n])
  <2>1. CASE n <= e
    <3>1. e - n \in Nat /\ n + (e - n) = e
      BY <1>1, <2>1
    <3>2. f[n] <= f[e]
      BY <3>1, LabelsForward
    <3>3. Stops(q, f[n]) => f[n + (e - n)] = f[n]
      BY <3>1, LabelsSettle
    <3> QED
      BY <3>1, <3>2, <3>3
  <2>2. CASE n > e
    <3>1. n - e \in Nat /\ e + (n - e) = n
      BY <1>1, <2>2
    <3>2. f[e + (n - e)] = f[e]
      BY <1>1, <1>3, <3>1, LabelsSettle
    <3> QED
      BY <1>1, <1>2, <3>1, <3>2
  <2> QED
    BY <1>1, <2>1, <2>2
<1>5. f[e] >= 2
  BY <1>1, LabelsForward
<1> HIDE DEF f, e
<1> QED
  BY <1>1, <1>2, <1>3, <1>4, <1>5 DEF f

\* A packet at the front of a longer buffer is skipped as if it were alone, as
\* far as it reaches.
LEMMA BufferSkipped ==
    ASSUME NEW q \in Seq(Nat), NEW b \in Seq(Nat), Len(q) <= Len(b),
           \A i \in 1..Len(q) : b[i] = q[i]
    PROVE  /\ NameEnd(q) <= Len(q) => NameEnd(b) = NameEnd(q)
           /\ NameEnd(q) > Len(q) => NameEnd(b) > Len(q)
<1> DEFINE f == Labels(q)
           g == Labels(b)
           S == {n \in Nat : IF f[n] <= Len(q) THEN g[n] = f[n] ELSE g[n] > Len(q)}
<1>a. f \in [Nat -> Nat]
  BY LabelsDef
<1>b. g \in [Nat -> Nat]
  BY LabelsDef
<1>c. Len(q) \in Nat
  OBVIOUS
<1>0. f \in [Nat -> Nat] /\ g \in [Nat -> Nat] /\ Len(q) \in Nat
  BY <1>a, <1>b, <1>c, Zenon
<1>1. /\ f[0] = 2
      /\ \A n \in Nat : f[n + 1] = IF Stops(q, f[n]) THEN f[n] ELSE f[n] + 1 + q[f[n]]
      /\ g[0] = 2
      /\ \A n \in Nat : g[n + 1] = IF Stops(b, g[n]) THEN g[n] ELSE g[n] + 1 + b[g[n]]
  BY LabelsDef
<1>2. \A n \in Nat : f[n] >= 2 /\ f[n] <= f[n + 1] /\ g[n] <= g[n + 1]
  BY LabelsForward
<1>3. \A i \in 1..Len(q) : Stops(b, i) <=> Stops(q, i)
  BY DEF Stops
<1> HIDE DEF f, g
<1>4. 0 \in S
  <2>1. f[0] = 2 /\ g[0] = 2
    BY <1>1
  <2> QED
    BY <2>1, <1>0
<1>5. \A n \in Nat : n \in S => n + 1 \in S
  <2> SUFFICES ASSUME NEW n \in Nat, n \in S PROVE n + 1 \in S
    OBVIOUS
  <2>1. f[n] \in Nat /\ g[n] \in Nat /\ f[n + 1] \in Nat /\ g[n + 1] \in Nat /\ Len(q) \in Nat
    <3>1. n + 1 \in Nat
      OBVIOUS
    <3> QED
      BY <1>0, <3>1
  <2>2. CASE f[n] <= Len(q)
    <3>1. g[n] = f[n] /\ f[n] \in 1..Len(q)
      <4>1. f[n] >= 2
        BY <1>2
      <4> QED
        BY <2>1, <2>2, <4>1
    <3>2. b[f[n]] = q[f[n]] /\ (Stops(b, f[n]) <=> Stops(q, f[n]))
      BY <3>1, <1>3
    <3>3. g[n + 1] = f[n + 1]
      BY <3>1, <3>2, <1>1
    <3>4. n + 1 \in Nat /\ f[n + 1] <= g[n + 1]
      BY <2>1, <3>3
    <3> QED
      BY <2>1, <3>3, <3>4
  <2>3. CASE f[n] > Len(q)
    <3>1. g[n] > Len(q)
      BY <2>1, <2>3
    <3>2. f[n] <= f[n + 1] /\ g[n] <= g[n + 1]
      BY <1>2
    <3>3. f[n + 1] > Len(q) /\ g[n + 1] > Len(q)
      BY <2>1, <2>3, <3>1, <3>2
    <3> QED
      BY <2>1, <3>3
  <2> QED
    BY <2>1, <2>2, <2>3
<1>6. \A n \in Nat : n \in S
  <2> HIDE DEF S
  <2> QED
    BY <1>4, <1>5, Induction
<1>7. Len(q) \in Nat /\ Len(b) \in Nat
  OBVIOUS
<1>8. NameEnd(q) = f[Len(q)] /\ f[Len(q)] \in Nat
  BY <1>0, <1>7 DEF NameEnd, Labels, f
<1>9. CASE NameEnd(q) <= Len(q)
  <2>1. f[Len(q)] = g[Len(q)]
    BY <1>6, <1>7, <1>8, <1>9
  <2>2. Stops(q, f[Len(q)]) /\ f[Len(q)] \in 1..Len(q)
    <3>1. Stops(q, NameEnd(q)) /\ NameEnd(q) >= 2 /\ NameEnd(q) \in Nat
      BY NameEndDef
    <3> QED
      BY <3>1, <1>7, <1>8, <1>9
  <2>3. Stops(b, g[Len(q)])
    BY <2>1, <2>2, <1>3
  <2>4. NameEnd(b) = g[Len(q)]
    BY <2>3, <1>7, NameEndDef DEF g
  <2> QED
    BY <2>1, <2>4, <1>8, <1>9, <1>7
<1>10. CASE NameEnd(q) > Len(q)
  <2>1. g[Len(q)] > Len(q) /\ g[Len(q)] \in Nat
    BY <1>0, <1>6, <1>7, <1>8, <1>10
  <2>2. g[Len(q)] <= NameEnd(b) /\ NameEnd(b) \in Nat
    BY <1>7, NameEndDef DEF g
  <2>3. NameEnd(b) > Len(q)
    BY <2>1, <2>2, <1>7
  <2> QED
    BY <2>3, <1>7, <1>8, <1>10
<1> QED
  BY <1>9, <1>10, <1>8, <1>7

-----------------------------------------------------------------------------
(* The reference, and the loop of qname_matches beside it.                 *)

\* Each label is behind the length of the one before it.
LEMMA PlaceDef ==
    ASSUME NEW labels \in Seq(Seq(Nat))
    PROVE  /\ Place(labels, 0) = 2
           /\ \A k \in Nat : Place(labels, k) \in Nat
           /\ \A k \in 0..(Len(labels) - 1) :
                 Place(labels, k + 1) = Place(labels, k) + 1 + Len(labels[k + 1])
<1> DEFINE p == Iterate(AfterLabel(labels), <<NameAt, 0>>)
           S == {n \in Nat : n <= Len(labels) => p[n][2] = n}
<1>1. AfterLabel(labels) \in [Nat \X Nat -> Nat \X Nat]
  <2>1. ASSUME NEW at \in Nat \X Nat, at[2] < Len(labels)
        PROVE  Len(labels[at[2] + 1]) \in Nat
    <3>1. at[2] + 1 \in 1..Len(labels)
      BY <2>1
    <3>2. labels[at[2] + 1] \in Seq(Nat)
      BY <3>1
    <3> QED
      BY <3>2
  <2> QED
    BY <2>1 DEF AfterLabel
<1>2. <<NameAt, 0>> \in Nat \X Nat
  BY DEF NameAt
<1>3. Runs(p, Nat \X Nat, <<NameAt, 0>>, AfterLabel(labels))
  BY <1>1, <1>2, IterateDef, Zenon
<1> HIDE DEF p
<1>4. /\ \A n \in Nat : p[n] \in Nat \X Nat
      /\ p[0] = <<2, 0>>
      /\ \A n \in Nat : p[n + 1] = IF p[n][2] < Len(labels)
                                   THEN <<p[n][1] + 1 + Len(labels[p[n][2] + 1]), p[n][2] + 1>>
                                   ELSE p[n]
  BY <1>3 DEF Runs, AfterLabel, NameAt
<1>5. Len(labels) \in Nat
  OBVIOUS
<1>6. 0 \in S
  BY <1>4
<1>7. \A n \in Nat : n \in S => n + 1 \in S
  <2> SUFFICES ASSUME NEW n \in Nat, n \in S, n + 1 <= Len(labels) PROVE p[n + 1][2] = n + 1
    OBVIOUS
  <2>1. n < Len(labels) /\ p[n][2] = n
    BY <1>5
  <2>2. p[n + 1] = <<p[n][1] + 1 + Len(labels[n + 1]), n + 1>>
    BY <2>1, <1>4
  <2> QED
    BY <2>2
<1>8. \A n \in Nat : n <= Len(labels) => p[n][2] = n
  <2> HIDE DEF S
  <2>1. \A n \in Nat : n \in S
    BY <1>6, <1>7, Induction
  <2> QED
    BY <2>1 DEF S
<1>9. \A n : Place(labels, n) = p[n][1]
  BY DEF Place, p
<1>10. ASSUME NEW k \in 0..(Len(labels) - 1)
       PROVE  p[k + 1][1] = p[k][1] + 1 + Len(labels[k + 1])
  <2>1. k \in Nat /\ k < Len(labels) /\ k <= Len(labels)
    BY <1>5
  <2>2. p[k][2] = k
    BY <2>1, <1>8
  <2>3. p[k + 1] = <<p[k][1] + 1 + Len(labels[k + 1]), k + 1>>
    BY <2>1, <2>2, <1>4
  <2> QED
    BY <2>3
<1>11. p[0][1] = 2 /\ \A k \in Nat : p[k][1] \in Nat
  BY <1>4
<1> QED
  BY <1>9, <1>10, <1>11

Hops(q, labels) == Iterate(Hop(q, labels), <<NameAt, 0>>)

\* The turns of qname_matches.
LEMMA HopsDef ==
    ASSUME NEW q \in Seq(Nat), NEW labels
    PROVE  /\ \A n \in Nat : Hops(q, labels)[n] \in Nat \X Nat
           /\ Hops(q, labels)[0] = <<2, 0>>
           /\ \A n \in Nat : Hops(q, labels)[n + 1] = Hop(q, labels)[Hops(q, labels)[n]]
<1>1. Hop(q, labels) \in [Nat \X Nat -> Nat \X Nat]
  <2>1. Len(q) \in Nat /\ \A i \in 1..Len(q) : q[i] \in Nat
    OBVIOUS
  <2>2. ASSUME NEW at \in Nat \X Nat
        PROVE  Hop(q, labels)[at] \in Nat \X Nat
    <3> DEFINE i == at[1]
    <3>1. i \in Nat /\ at[2] \in Nat /\ Len(q) + 1 \in Nat
      BY <2>1
    <3>2. i \in 1..(Len(q) - 1) => q[i + 1] \in Nat
      BY <2>1
    <3>3. i \in 1..Len(q) => i + 1 + q[i] \in Nat
      BY <2>1
    <3>4. Hop(q, labels)[at] = IF at[2] = Len(labels) THEN at
            ELSE IF i \in 1..(Len(q) - 1) /\ q[i] >= Pointer THEN <<q[i + 1], at[2]>>
            ELSE IF i \in 1..Len(q) /\ q[i] \in 1..(Pointer - 1) /\ LabelAt(q, i, labels[at[2] + 1])
                 THEN <<i + 1 + q[i], at[2] + 1>>
            ELSE <<Len(q) + 1, at[2]>>
      BY DEF Hop
    <3> HIDE DEF i
    <3> QED
      BY <3>1, <3>2, <3>3, <3>4
  <2>3. Hop(q, labels) = [at \in Nat \X Nat |-> Hop(q, labels)[at]]
    BY DEF Hop
  <2> QED
    BY <2>2, <2>3
<1>2. <<NameAt, 0>> \in Nat \X Nat
  BY DEF NameAt
<1>3. Runs(Hops(q, labels), Nat \X Nat, <<NameAt, 0>>, Hop(q, labels))
  BY <1>1, <1>2, IterateDef, Zenon DEF Hops
<1> QED
  BY <1>3 DEF Runs, NameAt

\* The loop has matched at[2] labels, each where the reference has it, and is
\* where skip_name is after as many turns.
OnTheWay(q, labels, at) ==
    /\ at \in Nat \X Nat /\ at[2] <= Len(labels)
    /\ at[1] = Place(labels, at[2]) /\ at[1] = Labels(q)[at[2]]
    /\ \A k \in 1..at[2] : LabelAt(q, Place(labels, k - 1), labels[k])

\* One more label matches.
LEMMA LabelMatched ==
    ASSUME NEW q \in Seq(Nat), NEW labels \in Seq(Seq(Nat)), NEW i \in Nat, NEW m \in Nat,
           OnTheWay(q, labels, <<i, m>>), m < Len(labels),
           i \in 1..Len(q), q[i] \in 1..(Pointer - 1), LabelAt(q, i, labels[m + 1])
    PROVE  /\ Hop(q, labels)[<<i, m>>] = <<i + 1 + q[i], m + 1>>
           /\ OnTheWay(q, labels, <<i + 1 + q[i], m + 1>>)
<1>0. Len(q) \in Nat /\ Len(labels) \in Nat /\ Pointer \in Nat /\ q[i] \in Nat
  BY NameAssumption
<1>1. /\ i = Place(labels, m) /\ i = Labels(q)[m]
      /\ \A k \in 1..m : LabelAt(q, Place(labels, k - 1), labels[k])
  BY DEF OnTheWay
<1>2. Hop(q, labels)[<<i, m>>] = <<i + 1 + q[i], m + 1>>
  <2>1. m # Len(labels) /\ ~(q[i] >= Pointer)
    BY <1>0
  <2>2. <<i, m>> \in Nat \X Nat /\ <<i, m>>[1] = i /\ <<i, m>>[2] = m
    OBVIOUS
  <2> QED
    BY <2>1, <2>2 DEF Hop
<1>3. Place(labels, m + 1) = i + 1 + q[i]
  <2>1. m \in 0..(Len(labels) - 1)
    BY <1>0
  <2>2. Place(labels, m + 1) = Place(labels, m) + 1 + Len(labels[m + 1])
    BY <2>1, PlaceDef
  <2>3. q[i] = Len(labels[m + 1])
    BY DEF LabelAt
  <2> QED
    BY <1>1, <2>2, <2>3
<1>4. Labels(q)[m + 1] = i + 1 + q[i]
  <2>1. ~Stops(q, Labels(q)[m])
    BY <1>1 DEF Stops
  <2> QED
    BY <2>1, <1>1, LabelsDef
<1>5. ASSUME NEW k \in 1..(m + 1) PROVE LabelAt(q, Place(labels, k - 1), labels[k])
  <2>1. CASE k = m + 1
    <3>1. k - 1 = m
      BY <2>1
    <3> QED
      BY <2>1, <3>1, <1>1
  <2>2. CASE k # m + 1
    <3>1. k \in 1..m
      BY <2>2
    <3> QED
      BY <3>1, <1>1
  <2> QED
    BY <2>1, <2>2
<1>6. <<i + 1 + q[i], m + 1>> \in Nat \X Nat /\ m + 1 <= Len(labels)
  <2>1. i + 1 + q[i] \in Nat
    BY <1>0
  <2>2. m + 1 \in Nat /\ m + 1 <= Len(labels)
    BY <1>0
  <2> QED
    BY <2>1, <2>2
<1> QED
  BY <1>2, <1>3, <1>4, <1>5, <1>6 DEF OnTheWay

\* Before the first turn.
LEMMA FirstOnTheWay ==
    ASSUME NEW q \in Seq(Nat), NEW labels \in Seq(Seq(Nat))
    PROVE  OnTheWay(q, labels, <<2, 0>>)
<1>1. Place(labels, 0) = 2 /\ Labels(q)[0] = 2
  BY PlaceDef, LabelsDef
<1>2. Len(labels) \in Nat
  OBVIOUS
<1> QED
  BY <1>1, <1>2 DEF OnTheWay

LEMMA NamesTyped ==
    ASSUME NEW labels \in OurNames
    PROVE  /\ labels \in Seq(Seq(Nat)) /\ Len(labels) \in 1..MaxHops
           /\ \A k \in 1..Len(labels) : Len(labels[k]) \in 1..(Pointer - 1)
BY NameAssumption

\* What qname_matches accepts, if the name ends without a pointer, is the name.
LEMMA MatchedName ==
    ASSUME NEW q \in Seq(Nat), NEW labels \in OurNames,
           NameEnd(q) <= Len(q), q[NameEnd(q)] = 0, qname_matches(q, labels)
    PROVE  /\ NameEnd(q) = EndPlace(labels)
           /\ \A k \in 1..Len(labels) : LabelAt(q, Place(labels, k - 1), labels[k])
<1> DEFINE h == Hops(q, labels)
           Lost(at) == at[1] = Len(q) + 1 /\ at[2] < Len(labels)
           S == {n \in Nat : OnTheWay(q, labels, h[n]) \/ Lost(h[n])}
<1>0. labels \in Seq(Seq(Nat)) /\ Len(labels) \in Nat /\ Len(q) \in Nat /\ Pointer \in Nat \ {0}
  BY NamesTyped, NameAssumption
<1>1. /\ \A n \in Nat : h[n] \in Nat \X Nat
      /\ h[0] = <<2, 0>>
      /\ \A n \in Nat : h[n + 1] = Hop(q, labels)[h[n]]
  BY HopsDef
<1> HIDE DEF h
<1>2. 0 \in S
  BY <1>0, <1>1, FirstOnTheWay
<1>3. \A n \in Nat : n \in S => n + 1 \in S
  <2> SUFFICES ASSUME NEW n \in Nat, n \in S
               PROVE  OnTheWay(q, labels, h[n + 1]) \/ Lost(h[n + 1])
    OBVIOUS
  <2> DEFINE i == h[n][1]
             m == h[n][2]
  <2>1. i \in Nat /\ m \in Nat /\ h[n] = <<i, m>> /\ h[n] \in Nat \X Nat
    <3>1. h[n] \in Nat \X Nat
      BY <1>1
    <3> QED
      BY <3>1
  <2>2. h[n + 1] = Hop(q, labels)[<<i, m>>]
    BY <1>1, <2>1
  <2>3. OnTheWay(q, labels, <<i, m>>) \/ Lost(<<i, m>>)
    BY <2>1
  <2> HIDE DEF i, m
  <2>4. Hop(q, labels)[<<i, m>>] =
            IF m = Len(labels) THEN <<i, m>>
            ELSE IF i \in 1..(Len(q) - 1) /\ q[i] >= Pointer THEN <<q[i + 1], m>>
            ELSE IF i \in 1..Len(q) /\ q[i] \in 1..(Pointer - 1) /\ LabelAt(q, i, labels[m + 1])
                 THEN <<i + 1 + q[i], m + 1>>
            ELSE <<Len(q) + 1, m>>
    BY <2>1 DEF Hop
  <2>5. CASE Lost(<<i, m>>)
    <3>1. m # Len(labels) /\ i \notin 1..(Len(q) - 1) /\ i \notin 1..Len(q)
      BY <2>5, <1>0
    <3>2. h[n + 1] = <<Len(q) + 1, m>>
      BY <2>2, <2>4, <3>1
    <3> QED
      BY <3>2, <2>5
  <2>6. CASE OnTheWay(q, labels, <<i, m>>) /\ m = Len(labels)
    <3>1. h[n + 1] = <<i, m>>
      BY <2>2, <2>4, <2>6
    <3> QED
      BY <2>6, <3>1
  <2>7. CASE OnTheWay(q, labels, <<i, m>>) /\ m # Len(labels)
    <3>1. m < Len(labels) /\ i = Labels(q)[m]
      BY <2>7, <2>1, <1>0 DEF OnTheWay
    <3>2. ~(i \in 1..(Len(q) - 1) /\ q[i] >= Pointer)
      <4> SUFFICES ASSUME i \in 1..(Len(q) - 1), q[i] >= Pointer PROVE FALSE
        OBVIOUS
      <4>1. q[i] \in Nat /\ q[i] # 0
        <5>1. i \in 1..Len(q)
          BY <1>0
        <5>2. q[i] \in Nat
          BY <5>1
        <5> QED
          BY <5>2, <1>0
      <4>2. Stops(q, i)
        BY <4>1, <1>0 DEF Stops
      <4>3. NameEnd(q) = i
        BY <4>2, <3>1, <2>1, NameEndDef
      <4> QED
        BY <4>1, <4>3
    <3>3. CASE i \in 1..Len(q) /\ q[i] \in 1..(Pointer - 1) /\ LabelAt(q, i, labels[m + 1])
      <4>1. OnTheWay(q, labels, Hop(q, labels)[<<i, m>>])
        <5>1. labels \in Seq(Seq(Nat)) /\ i \in Nat /\ m \in Nat
          BY <1>0, <2>1
        <5>2. /\ Hop(q, labels)[<<i, m>>] = <<i + 1 + q[i], m + 1>>
              /\ OnTheWay(q, labels, <<i + 1 + q[i], m + 1>>)
          BY <5>1, <3>1, <3>3, <2>7, LabelMatched, Zenon
        <5> QED
          BY <5>2, Zenon
      <4> QED
        BY <4>1, <2>2
    <3>4. CASE ~(i \in 1..Len(q) /\ q[i] \in 1..(Pointer - 1) /\ LabelAt(q, i, labels[m + 1]))
      <4>1. h[n + 1] = <<Len(q) + 1, m>>
        BY <2>2, <2>4, <2>7, <3>2, <3>4
      <4> QED
        BY <4>1, <3>1
    <3> QED
      BY <3>3, <3>4
  <2> QED
    BY <2>3, <2>5, <2>6, <2>7
<1>4. \A n \in Nat : n \in S
  <2> HIDE DEF S
  <2> QED
    BY <1>2, <1>3, Induction
<1> DEFINE at == h[MaxHops]
<1>5. at[2] = Len(labels) /\ at[1] <= Len(q) /\ q[at[1]] = 0
  BY DEF qname_matches, Hops, h
<1>6. OnTheWay(q, labels, at)
  <2>1. MaxHops \in Nat
    BY DEF MaxHops
  <2>2. OnTheWay(q, labels, at) \/ Lost(at)
    BY <1>4, <2>1
  <2> HIDE DEF at
  <2> QED
    BY <2>2, <1>5, <1>0
<1> HIDE DEF at
<1>7. /\ at[1] = EndPlace(labels) /\ at[1] = Labels(q)[Len(labels)]
      /\ \A k \in 1..Len(labels) : LabelAt(q, Place(labels, k - 1), labels[k])
  BY <1>5, <1>6 DEF OnTheWay, EndPlace
<1>8. Stops(q, at[1])
  BY <1>5 DEF Stops
<1>9. NameEnd(q) = at[1]
  BY <1>7, <1>8, <1>0, NameEndDef
<1> QED
  BY <1>7, <1>9

\* A name encoded as the reference has it is skipped and matched.
LEMMA EncodedName ==
    ASSUME NEW q \in Seq(Nat), NEW labels \in OurNames,
           EndPlace(labels) <= Len(q), q[EndPlace(labels)] = 0,
           \A k \in 1..Len(labels) : LabelAt(q, Place(labels, k - 1), labels[k])
    PROVE  NameEnd(q) = EndPlace(labels) /\ qname_matches(q, labels)
<1> DEFINE h == Hops(q, labels)
           top == Len(labels)
           Turn(n) == IF n <= top THEN n ELSE top
           S == {n \in Nat : /\ h[n] = <<Place(labels, Turn(n)), Turn(n)>>
                             /\ OnTheWay(q, labels, h[n])}
<1>0. labels \in Seq(Seq(Nat)) /\ top \in 1..MaxHops /\ Len(q) \in Nat /\ Pointer \in Nat \ {0}
  BY NamesTyped, NameAssumption
<1>a. MaxHops \in Nat
  BY DEF MaxHops
<1>1. /\ \A n \in Nat : h[n] \in Nat \X Nat
      /\ h[0] = <<2, 0>>
      /\ \A n \in Nat : h[n + 1] = Hop(q, labels)[h[n]]
  BY HopsDef
<1> HIDE DEF h
<1>2. 0 \in S
  <2>1. Turn(0) = 0 /\ Place(labels, 0) = 2
    BY <1>0, <1>a, PlaceDef
  <2> HIDE DEF Turn
  <2> QED
    BY <2>1, <1>0, <1>1, FirstOnTheWay
<1>3. \A n \in Nat : n \in S => n + 1 \in S
  <2> SUFFICES ASSUME NEW n \in Nat, n \in S
               PROVE  /\ h[n + 1] = <<Place(labels, Turn(n + 1)), Turn(n + 1)>>
                      /\ OnTheWay(q, labels, h[n + 1])
    OBVIOUS
  <2>1. /\ h[n] = <<Place(labels, Turn(n)), Turn(n)>> /\ OnTheWay(q, labels, h[n])
        /\ h[n + 1] = Hop(q, labels)[h[n]]
    BY <1>1
  <2>2. CASE n >= top
    <3>1. Turn(n) = top /\ Turn(n + 1) = top
      BY <2>2, <1>0, <1>a
    <3>2. h[n] \in Nat \X Nat /\ h[n][2] = Len(labels)
      <4>1. h[n] \in Nat \X Nat
        BY <1>1
      <4>2. h[n] = <<Place(labels, top), top>>
        BY <2>1, <3>1, Zenon
      <4> QED
        BY <4>1, <4>2
    <3>3. Hop(q, labels)[h[n]] = h[n]
      BY <3>2 DEF Hop
    <3> HIDE DEF Turn
    <3> QED
      BY <2>1, <3>1, <3>3
  <2>3. CASE n < top
    <3>1. Turn(n) = n /\ Turn(n + 1) = n + 1
      BY <2>3, <1>0, <1>a
    <3> HIDE DEF Turn
    <3> DEFINE i == Place(labels, n)
    <3>2. i \in Nat
      BY <1>0, PlaceDef
    <3>3. OnTheWay(q, labels, <<i, n>>)
      BY <2>1, <3>1
    <3>4. n + 1 \in 1..Len(labels) /\ (n + 1) - 1 = n
      BY <2>3, <1>0, <1>a
    <3>5. LabelAt(q, i, labels[n + 1])
      BY <3>4
    <3>6. i = Labels(q)[n]
      BY <3>3 DEF OnTheWay
    <3> HIDE DEF i
    <3>7. i >= 2
      BY <3>6, LabelsForward
    <3>8. q[i] = Len(labels[n + 1]) /\ i + q[i] <= Len(q)
      BY <3>5 DEF LabelAt
    <3>9. q[i] \in 1..(Pointer - 1)
      BY <3>4, <3>8, NamesTyped
    <3>10. i \in 1..Len(q)
      BY <3>2, <3>7, <3>8, <3>9, <1>0
    <3>11. /\ h[n + 1] = <<i + 1 + q[i], n + 1>>
           /\ OnTheWay(q, labels, <<i + 1 + q[i], n + 1>>)
      <4>1. h[n + 1] = Hop(q, labels)[<<i, n>>]
        BY <2>1, <3>1 DEF i
      <4>2. /\ Hop(q, labels)[<<i, n>>] = <<i + 1 + q[i], n + 1>>
            /\ OnTheWay(q, labels, <<i + 1 + q[i], n + 1>>)
        BY <3>2, <3>3, <3>5, <3>9, <3>10, <2>3, <1>0, LabelMatched
      <4> QED
        BY <4>1, <4>2
    <3>12. i + 1 + q[i] = Place(labels, n + 1)
      BY <3>11 DEF OnTheWay
    <3> QED
      BY <3>1, <3>11, <3>12
  <2> QED
    BY <2>2, <2>3, <1>0, <1>a
<1>4. \A n \in Nat : n \in S
  <2> HIDE DEF S
  <2> QED
    BY <1>2, <1>3, Induction
<1>5. h[MaxHops] = <<EndPlace(labels), top>> /\ OnTheWay(q, labels, h[MaxHops])
  <2>1. Turn(MaxHops) = top
    BY <1>0, <1>a
  <2> HIDE DEF Turn
  <2> QED
    BY <2>1, <1>4, <1>a DEF EndPlace
<1>6. qname_matches(q, labels)
  <2> DEFINE at == h[MaxHops]
  <2>1. at = <<EndPlace(labels), top>>
    BY <1>5
  <2> HIDE DEF at
  <2>2. at[2] = Len(labels) /\ at[1] <= Len(q) /\ q[at[1]] = 0
    BY <2>1
  <2> QED
    BY <2>2 DEF qname_matches, Hops, h, at
<1>7. EndPlace(labels) = Labels(q)[top] /\ top \in Nat
  BY <1>5, <1>0, <1>a DEF OnTheWay
<1>8. Stops(q, Labels(q)[top])
  BY <1>7 DEF Stops
<1> QED
  BY <1>6, <1>7, <1>8, NameEndDef

-----------------------------------------------------------------------------
(* What mdns_task and dns_task answer.                                     *)

\* The labels are all before the end of the name.
LEMMA PlaceGrows ==
    ASSUME NEW labels \in Seq(Seq(Nat))
    PROVE  /\ EndPlace(labels) \in Nat
           /\ \A k \in 1..Len(labels) : /\ Place(labels, k - 1) \in Nat /\ Place(labels, k - 1) >= 2
                                        /\ Place(labels, k - 1) + 1 + Len(labels[k]) <= EndPlace(labels)
<1> DEFINE top == Len(labels)
           p(k) == Place(labels, k)
           S == {n \in Nat : n <= top => p(n) >= 2 /\ \A k \in 0..n : p(k) <= p(n)}
<1>0. top \in Nat
  OBVIOUS
<1>1. ASSUME NEW k \in 0..(top - 1)
      PROVE  p(k + 1) = p(k) + 1 + Len(labels[k + 1]) /\ Len(labels[k + 1]) \in Nat
  <2>1. k + 1 \in 1..Len(labels)
    OBVIOUS
  <2>2. labels[k + 1] \in Seq(Nat)
    BY <2>1
  <2>3. Place(labels, k + 1) = Place(labels, k) + 1 + Len(labels[k + 1])
    BY PlaceDef
  <2>4. Len(labels[k + 1]) \in Nat
    BY <2>2
  <2> QED
    BY <2>3, <2>4
<1>2. p(0) = 2 /\ \A k \in Nat : p(k) \in Nat
  BY PlaceDef
<1> HIDE DEF top, p
<1>3. 0 \in S
  BY <1>2
<1>4. \A n \in Nat : n \in S => n + 1 \in S
  <2> SUFFICES ASSUME NEW n \in Nat, n \in S, n + 1 <= top
               PROVE  p(n + 1) >= 2 /\ \A k \in 0..(n + 1) : p(k) <= p(n + 1)
    OBVIOUS
  <2>1. n \in 0..(top - 1) /\ n <= top /\ n + 1 \in Nat
    BY <1>0
  <2>2. p(n + 1) = p(n) + 1 + Len(labels[n + 1]) /\ Len(labels[n + 1]) \in Nat
    BY <1>1, <2>1
  <2>3. p(n) \in Nat /\ p(n + 1) \in Nat
    BY <1>2, <2>1
  <2>4. p(n) >= 2 /\ p(n + 1) >= p(n)
    BY <2>1, <2>2, <2>3
  <2>5. ASSUME NEW k \in 0..(n + 1) PROVE p(k) <= p(n + 1)
    <3>1. CASE k = n + 1
      BY <3>1, <2>3
    <3>2. CASE k # n + 1
      <4>1. k \in 0..n /\ k \in Nat
        BY <3>2
      <4>2. p(k) <= p(n) /\ p(k) \in Nat
        BY <4>1, <2>1, <1>2
      <4> QED
        BY <4>2, <2>3, <2>4
    <3> QED
      BY <3>1, <3>2
  <2> QED
    BY <2>3, <2>4, <2>5
<1>5. \A n \in Nat : n \in S
  <2> HIDE DEF S
  <2> QED
    BY <1>3, <1>4, Induction
<1>6. ASSUME NEW k \in 1..top
      PROVE  p(k - 1) \in Nat /\ p(k - 1) >= 2 /\ p(k - 1) + 1 + Len(labels[k]) <= p(top)
  <2>1. k - 1 \in Nat /\ k - 1 \in 0..(top - 1) /\ (k - 1) + 1 = k /\ k - 1 <= top /\ k \in 0..top
    BY <1>0
  <2>2. p(k - 1) >= 2 /\ p(k) <= p(top)
    BY <2>1, <1>0, <1>5
  <2>3. p(k) = p(k - 1) + 1 + Len(labels[k])
    BY <2>1, <1>1
  <2>4. p(k - 1) \in Nat
    BY <2>1, <1>2
  <2> QED
    BY <2>2, <2>3, <2>4
<1>7. p(top) \in Nat
  BY <1>0, <1>2
<1> QED
  BY <1>6, <1>7 DEF EndPlace, top, p

\* Packet q is at the front of buffer b.
InFront(q, b) ==
    /\ q \in Seq(Nat) /\ b \in Seq(Nat) /\ Len(q) <= Len(b)
    /\ \A i \in 1..Len(q) : b[i] = q[i]

\* Its labels are the buffer's.
LEMMA LabelInFront ==
    ASSUME NEW q, NEW b, InFront(q, b), NEW i \in Nat, i >= 1,
           NEW label \in Seq(Nat), i + Len(label) <= Len(q)
    PROVE  LabelAt(b, i, label) <=> LabelAt(q, i, label)
<1>1. Len(q) \in Nat /\ Len(b) \in Nat /\ Len(q) <= Len(b) /\ Len(label) \in Nat
  BY DEF InFront
<1>2. i \in 1..Len(q) /\ \A j \in 1..Len(label) : i + j \in 1..Len(q)
  BY <1>1
<1>3. b[i] = q[i] /\ \A j \in 1..Len(label) : b[i + j] = q[i + j]
  BY <1>2 DEF InFront
<1> QED
  BY <1>1, <1>3 DEF LabelAt

\* The question of q, if its name is not compressed, is that of the buffer.
LEMMA MdnsReply ==
    ASSUME NEW q, NEW b, InFront(q, b), Len(q) >= 1, ~Compressed(q), NEW name \in OurNames
    PROVE  name \in mdns_reply(b, Len(q)) <=>
               /\ q[1] = QUERY
               /\ Asks(q, name, TypeA) \/ Asks(q, name, TypeANY)
<1> DEFINE n == Len(q)
           end == EndPlace(name)
<1>0. /\ q \in Seq(Nat) /\ b \in Seq(Nat) /\ n \in Nat /\ Len(b) \in Nat /\ n <= Len(b)
      /\ \A i \in 1..n : b[i] = q[i]
  BY DEF InFront
<1>1. name \in Seq(Seq(Nat)) /\ \A k \in 1..Len(name) : name[k] \in Seq(Nat)
  BY NamesTyped
<1>2. /\ end \in Nat
      /\ \A k \in 1..Len(name) : /\ Place(name, k - 1) \in Nat /\ Place(name, k - 1) >= 2
                                 /\ Place(name, k - 1) + 1 + Len(name[k]) <= end
  BY <1>1, PlaceGrows
<1>3. b[1] = q[1]
  BY <1>0
<1>a. QuestionTail = 2 /\ end \in Nat /\ n \in Nat /\ n >= 1 /\ Len(b) \in Nat
  BY <1>0, <1>2 DEF QuestionTail
<1> HIDE DEF end, n
<1>4. ASSUME end + QuestionTail <= n
      PROVE  /\ \A k \in 1..Len(name) : LabelAt(b, Place(name, k - 1), name[k]) <=>
                                        LabelAt(q, Place(name, k - 1), name[k])
             /\ b[end] = q[end] /\ b[end + 1] = q[end + 1]
  <2>1. ASSUME NEW k \in 1..Len(name)
        PROVE  LabelAt(b, Place(name, k - 1), name[k]) <=> LabelAt(q, Place(name, k - 1), name[k])
    <3>1. Place(name, k - 1) \in Nat /\ Place(name, k - 1) >= 1 /\ name[k] \in Seq(Nat)
      BY <1>1, <1>2
    <3>2. Place(name, k - 1) + Len(name[k]) <= Len(q)
      <4>1. Len(name[k]) \in Nat /\ Place(name, k - 1) + 1 + Len(name[k]) <= end
        BY <3>1, <1>2
      <4> QED
        BY <4>1, <3>1, <1>a, <1>4 DEF n
    <3> QED
      BY <3>1, <3>2, LabelInFront
  <2>2. end >= 1
    <3>1. 1 \in 1..Len(name)
      <4>1. Len(name) \in 1..MaxHops /\ MaxHops \in Nat
        BY NamesTyped DEF MaxHops
      <4> QED
        BY <4>1
    <3>2. Place(name, 1 - 1) >= 2 /\ Place(name, 1 - 1) \in Nat /\ Len(name[1]) \in Nat
      BY <3>1, <1>1, <1>2
    <3>3. Place(name, 1 - 1) + 1 + Len(name[1]) <= end
      BY <3>1, <1>2
    <3> QED
      BY <3>2, <3>3, <1>2
  <2>3. end \in 1..n /\ end + 1 \in 1..n
    BY <2>2, <1>a, <1>4
  <2> QED
    BY <2>1, <2>3, <1>0
<1>5. ASSUME name \in mdns_reply(b, n)
      PROVE  q[1] = QUERY /\ (Asks(q, name, TypeA) \/ Asks(q, name, TypeANY))
  <2>1. PICK e \in QuestionEnd(b, n) : b[e - 1] \in {TypeA, TypeANY}
    BY <1>5 DEF mdns_reply
  <2>2. q[1] = QUERY /\ qname_matches(b, name)
    BY <1>3, <1>5 DEF mdns_reply
  <2> DEFINE i == NameEnd(b)
  <2>3. /\ i \in Nat /\ i >= 2 /\ i <= Len(b)
        /\ e = (IF b[i] = 0 THEN i + 1 ELSE i + 2) + 1 /\ e <= n
    <3>1. i \in Nat /\ i >= 2
      BY <1>0, NameEndDef
    <3> HIDE DEF i
    <3>2. PICK s \in skip_name(b) : e = s + QuestionTail - 1 /\ s + QuestionTail - 1 <= n
      BY DEF QuestionEnd
    <3>3. i <= Len(b) /\ s = IF b[i] = 0 THEN i + 1 ELSE i + 2
      BY <3>2 DEF skip_name, i
    <3> QED
      BY <3>1, <3>2, <3>3 DEF QuestionTail
  <2> HIDE DEF i
  <2>4. i \in 1..n
    BY <2>3, <1>0
  <2>5. b[i] = 0
    <3> SUFFICES ASSUME b[i] # 0 PROVE FALSE
      OBVIOUS
    <3>1. NameEnd(q) <= n => i = NameEnd(q)
      BY <1>0, BufferSkipped DEF i, n
    <3>2. NameEnd(q) > n => i > n
      BY <1>0, BufferSkipped DEF i, n
    <3>3. NameEnd(q) \in Nat
      BY <1>0, NameEndDef
    <3>4. NameEnd(q) <= n /\ i = NameEnd(q)
      BY <3>1, <3>2, <3>3, <2>4, <1>0
    <3>5. q[NameEnd(q)] # 0
      BY <3>4, <2>4, <1>0
    <3> QED
      BY <3>4, <3>5 DEF Compressed, n
  <2>6. i = end /\ \A k \in 1..Len(name) : LabelAt(b, Place(name, k - 1), name[k])
    BY <2>2, <2>3, <2>5, <1>0, MatchedName DEF i, end
  <2>7. e = end + QuestionTail /\ end + QuestionTail <= n /\ e - 1 = end + 1
    BY <2>3, <2>5, <2>6, <1>a
  <2>8. q[end + 1] \in {TypeA, TypeANY} /\ q[end] = 0
    BY <2>1, <2>5, <2>6, <2>7, <1>4
  <2>9. \A k \in 1..Len(name) : LabelAt(q, Place(name, k - 1), name[k])
    BY <2>6, <2>7, <1>4
  <2> QED
    BY <2>2, <2>7, <2>8, <2>9 DEF Asks, end, n
<1>6. ASSUME q[1] = QUERY, NEW t \in {TypeA, TypeANY}, Asks(q, name, t)
      PROVE  name \in mdns_reply(b, n)
  <2>1. /\ end + QuestionTail <= n /\ q[end] = 0 /\ q[end + 1] = t
        /\ \A k \in 1..Len(name) : LabelAt(q, Place(name, k - 1), name[k])
    BY <1>6 DEF Asks, end, n
  <2>2. /\ b[end] = 0 /\ b[end + 1] = t
        /\ \A k \in 1..Len(name) : LabelAt(b, Place(name, k - 1), name[k])
    BY <2>1, <1>4
  <2>3. end + 2 <= Len(b)
    BY <2>1, <1>0, <1>a
  <2>4. NameEnd(b) = end /\ qname_matches(b, name)
    <3>1. end <= Len(b) /\ b \in Seq(Nat)
      BY <2>3, <1>0, <1>a
    <3> QED
      BY <2>2, <3>1, EncodedName DEF end
  <2>5. end + 1 \in skip_name(b)
    <3>1. end <= Len(b) /\ end + 1 <= Len(b) + 1
      BY <2>3, <1>a
    <3> QED
      BY <2>2, <2>4, <3>1 DEF skip_name
  <2>6. end + 2 \in QuestionEnd(b, n)
    <3>1. end + 2 = (end + 1) + QuestionTail - 1 /\ (end + 1) + QuestionTail - 1 <= n
      BY <2>1, <1>a
    <3> QED
      BY <2>5, <3>1 DEF QuestionEnd
  <2>7. (end + 2) - 1 = end + 1
    BY <1>a
  <2> QED
    BY <2>2, <2>4, <2>6, <2>7, <1>3, <1>6, <1>a DEF mdns_reply
<1> QED
  BY <1>5, <1>6 DEF n

\* The reply to a packet, whatever is in it, fits its buffer and counts its answers.
LEMMA DnsReplyFits ==
    ASSUME NEW q \in Seq(Nat), NEW r \in build_dns_reply(q)
    PROVE  r.count = Len(r.answers) /\ Len(r.question) + 1 + Len(r.answers) <= OutLen
<1>1. PICK e \in QuestionEnd(q, Len(q)) :
        /\ e <= OutLen
        /\ r = LET full == q[e - 1] = TypeA /\ e + 1 <= OutLen
               IN  [question |-> SubSeq(q, NameAt, e), count |-> IF full THEN 1 ELSE 0,
                    answers |-> IF full THEN <<ARecord>> ELSE <<>>]
  BY DEF build_dns_reply
<1>2. e \in Nat /\ e >= 3 /\ e <= Len(q) /\ OutLen \in Nat /\ Len(q) \in Nat
  <2>1. PICK s \in skip_name(q) : e = s + QuestionTail - 1 /\ s + QuestionTail - 1 <= Len(q)
    BY DEF QuestionEnd
  <2>2. NameEnd(q) \in Nat /\ NameEnd(q) >= 2
    BY NameEndDef
  <2>3. s = NameEnd(q) + 1 \/ s = NameEnd(q) + 2
    BY DEF skip_name
  <2> QED
    BY <2>1, <2>2, <2>3, NameAssumption DEF QuestionTail
<1>3. Len(SubSeq(q, NameAt, e)) = e - 1
  <2>1. \A i \in 2..e : q[i] \in Nat
    BY <1>2
  <2>2. Len(SubSeq(q, 2, e)) = IF 2 <= e THEN e - 2 + 1 ELSE 0
    BY <1>2, <2>1, SubSeqProperties
  <2> QED
    BY <1>2, <2>2 DEF NameAt
<1>4. CASE q[e - 1] = TypeA /\ e + 1 <= OutLen
  <2>1. /\ r.question = SubSeq(q, NameAt, e) /\ r.count = 1 /\ r.answers = <<ARecord>>
    BY <1>1, <1>4
  <2> QED
    BY <2>1, <1>2, <1>3, <1>4
<1>5. CASE ~(q[e - 1] = TypeA /\ e + 1 <= OutLen)
  <2>1. /\ r.question = SubSeq(q, NameAt, e) /\ r.count = 0 /\ r.answers = <<>>
    BY <1>1, <1>5
  <2> QED
    BY <2>1, <1>1, <1>2, <1>3
<1> QED
  BY <1>4, <1>5

\* A question for one of the names has one reply, or none if it does not fit.
LEMMA DnsReply ==
    ASSUME NEW q \in Seq(Nat), NEW labels \in OurNames, NEW t \in {TypeA, TypeANY},
           Asks(q, labels, t)
    PROVE  LET e == EndPlace(labels) + QuestionTail
               answers == IF t = TypeA /\ e < OutLen THEN <<ARecord>> ELSE <<>>
           IN  build_dns_reply(q) =
                   IF e > OutLen THEN {}
                   ELSE {[question |-> SubSeq(q, NameAt, e),
                          count |-> Len(answers), answers |-> answers]}
<1> DEFINE end == EndPlace(labels)
           e == end + 2
<1>1. /\ end + QuestionTail <= Len(q) /\ q[end] = 0 /\ q[end + 1] = t
      /\ \A k \in 1..Len(labels) : LabelAt(q, Place(labels, k - 1), labels[k])
  BY DEF Asks
<1>2. end \in Nat /\ QuestionTail = 2 /\ Len(q) \in Nat /\ OutLen \in Nat
  BY NamesTyped, PlaceGrows, NameAssumption DEF QuestionTail
<1>3. NameEnd(q) = end
  BY <1>1, <1>2, EncodedName
<1> HIDE DEF end
<1>4. skip_name(q) = {end + 1}
  BY <1>1, <1>2, <1>3 DEF skip_name
<1>5. QuestionEnd(q, Len(q)) = {e}
  <2>1. (end + 1) + QuestionTail - 1 = e /\ e <= Len(q)
    BY <1>1, <1>2
  <2> HIDE DEF e
  <2> QED
    BY <1>4, <2>1 DEF QuestionEnd
<1>6. e - 1 = end + 1 /\ e \in Nat /\ e = end + QuestionTail
  BY <1>2
<1> HIDE DEF e
<1>7. build_dns_reply(q) =
        {LET full == q[x - 1] = TypeA /\ x + 1 <= OutLen
         IN  [question |-> SubSeq(q, NameAt, x), count |-> IF full THEN 1 ELSE 0,
              answers |-> IF full THEN <<ARecord>> ELSE <<>>] :
         x \in {y \in {e} : y <= OutLen}}
  BY <1>5 DEF build_dns_reply
<1>8. CASE e > OutLen
  <2>1. {y \in {e} : y <= OutLen} = {}
    BY <1>2, <1>6, <1>8
  <2>2. build_dns_reply(q) = {}
    BY <1>7, <2>1
  <2> QED
    BY <1>6, <1>8, <2>2 DEF end
<1>9. CASE e <= OutLen
  <2> DEFINE answers == IF t = TypeA /\ e < OutLen THEN <<ARecord>> ELSE <<>>
  <2>1. {y \in {e} : y <= OutLen} = {e}
    BY <1>9
  <2>2. q[e - 1] = t /\ (e + 1 <= OutLen <=> e < OutLen)
    BY <1>1, <1>2, <1>6
  <2>3. build_dns_reply(q) =
          {[question |-> SubSeq(q, NameAt, e), count |-> IF t = TypeA /\ e < OutLen THEN 1 ELSE 0,
            answers |-> answers]}
    BY <1>7, <2>1, <2>2
  <2>4. Len(answers) = IF t = TypeA /\ e < OutLen THEN 1 ELSE 0
    OBVIOUS
  <2>5. ~(e > OutLen)
    BY <1>2, <1>6, <1>9
  <2>6. build_dns_reply(q) =
          {[question |-> SubSeq(q, NameAt, e), count |-> Len(answers), answers |-> answers]}
    BY <2>3, <2>4
  <2> QED
    BY <1>6, <2>5, <2>6 DEF end
<1> QED
  BY <1>2, <1>6, <1>8, <1>9

\* What the buffer and the answers have to do with the last packets.
PortalInv ==
    /\ pkt \in [1..BufLen -> Nat]
    /\ heard # <<>> => /\ heard \in Packets
                       /\ \A i \in 1..Len(heard) : pkt[i] = heard[i]
                       /\ said = mdns_reply(pkt, Len(heard))
    /\ reply = {} \/ asked # <<>>
    /\ asked # <<>> => asked \in Packets /\ reply = build_dns_reply(asked)

LEMMA PortalStart ==
    ASSUME PortalInit
    PROVE  PortalInv
<1>1. pkt \in [1..BufLen -> Nat]
  BY DEF PortalInit
<1> QED
  BY <1>1 DEF PortalInit, PortalInv

LEMMA PortalStep ==
    ASSUME PortalInv, [PortalNext]_portalvars
    PROVE  PortalInv'
<1>1. CASE UNCHANGED <<mdns, dns>>
  BY <1>1 DEF PortalInv, mdns, dns
<1>2. ASSUME NEW q \in Packets, MdnsPacket(q)
      PROVE  PortalInv'
  <2>1. /\ pkt' = [i \in 1..BufLen |-> IF i <= Len(q) THEN q[i] ELSE pkt[i]]
        /\ heard' = q /\ said' = mdns_reply(pkt', Len(q)) /\ UNCHANGED <<asked, reply>>
    BY <1>2 DEF MdnsPacket, dns
  <2>2. q \in Seq(Nat) /\ Len(q) \in 1..BufLen /\ BufLen \in Nat
    BY PacketAssumption
  <2>3. pkt' \in [1..BufLen -> Nat]
    <3>1. pkt \in [1..BufLen -> Nat]
      BY DEF PortalInv
    <3>2. ASSUME NEW i \in 1..BufLen PROVE (IF i <= Len(q) THEN q[i] ELSE pkt[i]) \in Nat
      <4>1. CASE i <= Len(q)
        <5>1. i \in 1..Len(q)
          BY <2>2, <4>1
        <5> QED
          BY <2>2, <4>1, <5>1
      <4>2. CASE ~(i <= Len(q))
        BY <3>1, <4>2
      <4> QED
        BY <4>1, <4>2
    <3> QED
      BY <2>1, <3>2
  <2>4. \A i \in 1..Len(q) : pkt'[i] = q[i]
    BY <2>1, <2>2
  <2>5. /\ heard' \in Packets /\ said' = mdns_reply(pkt', Len(heard'))
        /\ \A i \in 1..Len(heard') : pkt'[i] = heard'[i]
    BY <2>1, <2>4
  <2> QED
    BY <2>1, <2>3, <2>5 DEF PortalInv
<1>3. ASSUME NEW q \in Packets, DnsPacket(q)
      PROVE  PortalInv'
  <2>1. /\ asked' = q /\ reply' = build_dns_reply(q)
        /\ pkt' = pkt /\ heard' = heard /\ said' = said
    BY <1>3 DEF DnsPacket, mdns
  <2>2. q # <<>>
    <3>1. Len(q) # 0
      BY PacketAssumption
    <3> QED
      BY <3>1
  <2> QED
    BY <2>1, <2>2 DEF PortalInv
<1> QED
  BY <1>1, <1>2, <1>3 DEF PortalNext, portalvars

LEMMA PortalInvAlways == PortalSpec => []PortalInv
BY PortalStart, PortalStep, PTL DEF PortalSpec

LEMMA InvAnswersOurs == PortalInv => MdnsAnswersOurs
<1> SUFFICES ASSUME PortalInv, heard # <<>>, ~Compressed(heard)
             PROVE  said = {name \in OurNames :
                               /\ heard[1] = QUERY
                               /\ Asks(heard, name, TypeA) \/ Asks(heard, name, TypeANY)}
  BY DEF MdnsAnswersOurs
<1>1. /\ heard \in Packets /\ pkt \in [1..BufLen -> Nat] /\ said = mdns_reply(pkt, Len(heard))
      /\ \A i \in 1..Len(heard) : pkt[i] = heard[i]
  BY DEF PortalInv
<1>2. heard \in Seq(Nat) /\ Len(heard) \in 1..BufLen /\ BufLen \in Nat
  BY <1>1, PacketAssumption
<1>3. pkt \in Seq(Nat) /\ Len(pkt) = BufLen
  BY <1>1, <1>2
<1>4. InFront(heard, pkt) /\ Len(heard) >= 1
  BY <1>1, <1>2, <1>3 DEF InFront
<1>5. \A name \in OurNames : name \in mdns_reply(pkt, Len(heard)) <=>
          /\ heard[1] = QUERY
          /\ Asks(heard, name, TypeA) \/ Asks(heard, name, TypeANY)
  BY <1>4, MdnsReply
<1>6. mdns_reply(pkt, Len(heard)) \subseteq OurNames
  BY DEF mdns_reply
<1> QED
  BY <1>1, <1>5, <1>6

LEMMA InvHijacks == PortalInv => DnsHijacks
<1> SUFFICES ASSUME PortalInv PROVE DnsHijacks
  OBVIOUS
<1>1. CASE asked = <<>>
  <2>1. reply = {}
    BY <1>1 DEF PortalInv
  <2>2. ASSUME NEW labels \in OurNames, NEW t PROVE ~Asks(asked, labels, t)
    <3>1. EndPlace(labels) \in Nat /\ Len(asked) = 0
      BY <1>1, NamesTyped, PlaceGrows
    <3> QED
      BY <3>1 DEF Asks, QuestionTail
  <2> QED
    BY <2>1, <2>2 DEF DnsHijacks
<1>2. CASE asked # <<>>
  <2>1. asked \in Seq(Nat) /\ reply = build_dns_reply(asked)
    BY <1>2, PacketAssumption DEF PortalInv
  <2> QED
    BY <2>1, DnsReplyFits, DnsReply DEF DnsHijacks
<1> QED
  BY <1>1, <1>2

\* mdns_task answers exactly the questions for the names of the board, whatever
\* longer packets have left in its buffer: for packets, names and a buffer of
\* every length.
THEOREM AnswersOurs == PortalSpec => []MdnsAnswersOurs
BY PortalInvAlways, InvAnswersOurs, PTL

\* dns_task repeats a question without what follows it and answers it with the
\* Pico, and its reply never claims more than it holds nor overruns its buffer.
THEOREM Hijacks == PortalSpec => []DnsHijacks
BY PortalInvAlways, InvHijacks, PTL

-----------------------------------------------------------------------------
(* The window of the Apple probe, for any clock and any window.            *)

\* A sum of two times is reduced by at most one period.
LEMMA OnePeriod ==
    ASSUME NEW m \in Nat \ {0}, NEW x \in 0..(2 * m - 1)
    PROVE  x % m = IF x < m THEN x ELSE x - m
<1> DEFINE q == x \div m
           r == x % m
<1>1. q \in Int /\ r \in 0..(m - 1) /\ x = m * q + r
  OBVIOUS
<1> HIDE DEF q, r
<1>2. q >= 0
  <2> SUFFICES ASSUME q <= -1 PROVE FALSE
    BY <1>1
  <2>1. m * q <= -m
    BY <1>1
  <2> QED
    BY <1>1, <2>1
<1>3. q <= 1
  <2> SUFFICES ASSUME q >= 2 PROVE FALSE
    BY <1>1
  <2>1. m * q >= 2 * m
    BY <1>1
  <2> QED
    BY <1>1, <2>1
<1>4. q = 0 \/ q = 1
  BY <1>1, <1>2, <1>3
<1>5. r = x \/ r = x - m
  <2>1. q = 0 => m * q = 0
    OBVIOUS
  <2>2. q = 1 => m * q = m
    OBVIOUS
  <2> QED
    BY <1>1, <1>4, <2>1, <2>2
<1>6. r = IF x < m THEN x ELSE x - m
  BY <1>1, <1>5
<1> QED
  BY <1>6 DEF r

\* The time since the page was served is the difference of the two readings,
\* modulo the period, for as long as it is less than a period.
WindowInv ==
    /\ served \in BOOLEAN
    /\ now \in 0..(ClockMod - 1) /\ lastUi \in 0..(ClockMod - 1)
    /\ idle \in 0..ClockMod
    /\ idle < ClockMod => /\ served
                          /\ idle = IF now < lastUi THEN now - lastUi + ClockMod ELSE now - lastUi

LEMMA WindowStep == WindowInv /\ [WindowNext]_portal => WindowInv'
<1> SUFFICES ASSUME WindowInv, [WindowNext]_portal PROVE WindowInv'
  OBVIOUS
<1>1. CASE UNCHANGED portal
  BY <1>1 DEF portal, WindowInv
<1>2. CASE mark_ui_served
  BY <1>2, WindowAssumption DEF mark_ui_served, WindowInv
<1>3. CASE Tick
  <2>1. now' = IF now + 1 < ClockMod THEN now + 1 ELSE 0
    <3>1. ClockMod \in Nat \ {0} /\ now + 1 \in 0..(2 * ClockMod - 1)
      BY WindowAssumption DEF WindowInv
    <3> DEFINE x == now + 1
    <3>2. x \in 0..(2 * ClockMod - 1)
      BY <3>1
    <3>3. now' = x % ClockMod
      BY <1>3 DEF Tick
    <3> HIDE DEF x
    <3>4. now' = IF x < ClockMod THEN x ELSE x - ClockMod
      BY <3>1, <3>2, <3>3, OnePeriod
    <3> QED
      BY <3>1, <3>4 DEF WindowInv, x
  <2> QED
    BY <1>3, <2>1, WindowAssumption DEF Tick, WindowInv
<1> QED
  BY <1>1, <1>2, <1>3 DEF WindowNext

\* The wrapping subtraction of apple_probe_done measures the time since the
\* page was served, wherever the clock wraps in between.
THEOREM WindowMeasures == WindowSpec => []WindowIsExact
<1>1. WindowInit => WindowInv
  <2> SUFFICES ASSUME WindowInit PROVE WindowInv
    OBVIOUS
  <2>1. now = 0 /\ lastUi = 0 /\ idle = ClockMod /\ ClockMod \in Nat \ {0}
    BY WindowAssumption DEF WindowInit
  <2>2. /\ now \in 0..(ClockMod - 1) /\ lastUi \in 0..(ClockMod - 1)
        /\ idle \in 0..ClockMod /\ ~(idle < ClockMod)
    BY <2>1
  <2>3. served \in BOOLEAN
    BY Zenon DEF WindowInit
  <2> QED
    BY <2>2, <2>3 DEF WindowInv
<1>2. WindowInv => WindowIsExact
  <2> SUFFICES ASSUME WindowInv, idle < ClockMod
               PROVE  apple_probe_done <=> served /\ idle < UiWindow
    BY DEF WindowIsExact
  <2>1. ClockMod \in Nat \ {0} /\ now - lastUi + ClockMod \in 0..(2 * ClockMod - 1)
    BY WindowAssumption DEF WindowInv
  <2>2. (now - lastUi + ClockMod) % ClockMod = idle
    <3> DEFINE x == now - lastUi + ClockMod
    <3>1. x \in 0..(2 * ClockMod - 1)
      BY <2>1
    <3> HIDE DEF x
    <3>2. x % ClockMod = IF x < ClockMod THEN x ELSE x - ClockMod
      BY <2>1, <3>1, OnePeriod
    <3>3. (IF x < ClockMod THEN x ELSE x - ClockMod) = idle
      BY <2>1 DEF WindowInv, x
    <3> QED
      BY <3>2, <3>3 DEF x
  <2> QED
    BY <2>2 DEF apple_probe_done
<1> QED
  BY <1>1, <1>2, WindowStep, PTL DEF WindowSpec

\* The tasks that answer for the names leave the window alone.
LEMMA PortalKeepsWindow == PortalSpec => WindowSpec
<1>1. PortalInit => WindowInit
  BY DEF PortalInit
<1>2. [PortalNext]_portalvars => [WindowNext]_portal
  BY DEF PortalNext, portalvars, MdnsPacket, DnsPacket
<1> QED
  BY <1>1, <1>2, PTL DEF PortalSpec, WindowSpec

\* So it measures the same time beside them.
THEOREM PortalMeasures == PortalSpec => []WindowIsExact
BY PortalKeepsWindow, WindowMeasures, PTL
=============================================================================
