---------------------------- MODULE NameService ----------------------------
(***************************************************************************)
(* The DNS packets of net_proto.rs and net_services.rs: skip_name and      *)
(* qname_matches walk the labels of the first question, dns_task answers   *)
(* every A question with the Pico, mdns_task the questions for its names.  *)
(* The module has no variables: CaptivePortal keeps the buffers.           *)
(*                                                                         *)
(* A packet is a sequence of cells.  A cell is a byte of a name, or a      *)
(* field the code handles as one: the header (QUERY or RESPONSE), the type *)
(* and the class of the question, and a whole answer record.  In a name a  *)
(* cell is 0 at its end, a length before a label, or Pointer, which the    *)
(* offset of another name follows.  Cells are counted from 1.              *)
(***************************************************************************)
EXTENDS Integers, Sequences

CONSTANTS
    Pointer,        \* the mark of a compressed name (0xC0)
    OurNames,       \* the names of mdns_name_is_ours, as sequences of labels
    OutLen          \* the length of the buffer a reply is written to

QUERY == 0
RESPONSE == 1
TypeA == 1
TypeANY == 255
ARecord == "A 192.168.0.1"

\* What follows a name in the question: type and class.
QuestionTail == 2
NameAt == 2

MaxHops == 8

ASSUME NameAssumption ==
    /\ Pointer \in Nat \ {0} /\ OutLen \in Nat
    /\ \A labels \in OurNames :
          /\ labels \in Seq(Seq(Nat)) /\ Len(labels) \in 1..MaxHops
          /\ \A k \in 1..Len(labels) : Len(labels[k]) \in 1..(Pointer - 1)

\* A loop that starts at s: its states, turn by turn.
Iterate(step, s) ==
    LET turn[n \in Nat] == IF n = 0 THEN s ELSE step[turn[n - 1]]
    IN  turn

-----------------------------------------------------------------------------
\* A turn of skip_name: to the next length, if there is a label here.
NextLabel(q) ==
    [i \in Nat |-> IF i \in 1..Len(q) /\ q[i] \in 1..(Pointer - 1) THEN i + 1 + q[i] ELSE i]

\* Where the name in q leads to: its end, a pointer, or past the packet.
NameEnd(q) == Iterate(NextLabel(q), NameAt)[Len(q)]

\* The place after the name, a set of at most one.
skip_name(q) ==
    LET i == NameEnd(q)
        after == IF q[i] = 0 THEN i + 1 ELSE i + 2
    IN  IF i <= Len(q) /\ after <= Len(q) + 1 THEN {after} ELSE {}

\* eq_label, with its bounds: the label at i of q is this one.
LabelAt(q, i, label) ==
    /\ q[i] = Len(label) /\ i + q[i] <= Len(q)
    /\ \A j \in 1..Len(label) : q[i + j] = label[j]

\* A turn of qname_matches, at cell at[1] with at[2] labels matched: a pointer is
\* followed or a label matched, or the name leads past the packet.
Hop(q, labels) ==
    [at \in Nat \X Nat |->
        LET i == at[1]
        IN  IF at[2] = Len(labels) THEN at
            ELSE IF i \in 1..(Len(q) - 1) /\ q[i] >= Pointer THEN <<q[i + 1], at[2]>>
            ELSE IF i \in 1..Len(q) /\ q[i] \in 1..(Pointer - 1) /\ LabelAt(q, i, labels[at[2] + 1])
                 THEN <<i + 1 + q[i], at[2] + 1>>
            ELSE <<Len(q) + 1, at[2]>>]

qname_matches(q, labels) ==
    LET at == Iterate(Hop(q, labels), <<NameAt, 0>>)[MaxHops]
    IN  at[2] = Len(labels) /\ at[1] <= Len(q) /\ q[at[1]] = 0

\* Where the first question of q ends, if all of it is within n cells.
QuestionEnd(q, n) == {e + QuestionTail - 1 : e \in {s \in skip_name(q) : s + QuestionTail - 1 <= n}}

\* Mutation of build_dns_reply: what follows the question stays in the reply.
build_with_additional(q) ==
    {LET full == q[e - 1] = TypeA /\ Len(q) + 1 <= OutLen
     IN  [question |-> Tail(q), count |-> IF full THEN 1 ELSE 0,
          answers |-> IF full THEN <<ARecord>> ELSE <<>>] :
     e \in {x \in QuestionEnd(q, Len(q)) : Len(q) <= OutLen}}

\* The reply to q, a set of at most one: its question without anything behind
\* it, and an answer if it asks for an address and the answer fits.
build_dns_reply(q) ==
    {LET full == q[e - 1] = TypeA /\ e + 1 <= OutLen
     IN  [question |-> SubSeq(q, NameAt, e), count |-> IF full THEN 1 ELSE 0,
          answers |-> IF full THEN <<ARecord>> ELSE <<>>] :
     e \in {x \in QuestionEnd(q, Len(q)) : x <= OutLen}}

\* Mutation of mdns_reply: the question is looked for in the whole buffer.
mdns_reply_buffer(pkt, n) ==
    {name \in OurNames : /\ pkt[1] = QUERY
                         /\ \E e \in QuestionEnd(pkt, Len(pkt)) : pkt[e - 1] \in {TypeA, TypeANY}
                         /\ qname_matches(pkt, name)}

\* The name mdns_task answers for, a set of at most one: pkt is its buffer,
\* of which the packet is the first n cells.
mdns_reply(pkt, n) ==
    {name \in OurNames : /\ n >= 1 /\ pkt[1] = QUERY
                         /\ \E e \in QuestionEnd(pkt, n) : pkt[e - 1] \in {TypeA, TypeANY}
                         /\ qname_matches(pkt, name)}

-----------------------------------------------------------------------------
(* The reference: how a question is encoded (RFC 1035), each label behind  *)
(* its length, the name behind the header.                                 *)

AfterLabel(labels) ==
    [at \in Nat \X Nat |-> IF at[2] < Len(labels) THEN <<at[1] + 1 + Len(labels[at[2] + 1]), at[2] + 1>> ELSE at]

\* The cell behind the first k labels, and behind all of them.
Place(labels, k) == Iterate(AfterLabel(labels), <<NameAt, 0>>)[k][1]
EndPlace(labels) == Place(labels, Len(labels))

\* Packet q asks for these labels and type t, whatever comes behind.
Asks(q, labels, t) ==
    /\ EndPlace(labels) + QuestionTail <= Len(q)
    /\ \A k \in 1..Len(labels) : LabelAt(q, Place(labels, k - 1), labels[k])
    /\ q[EndPlace(labels)] = 0 /\ q[EndPlace(labels) + 1] = t
=============================================================================
