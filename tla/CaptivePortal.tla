--------------------------- MODULE CaptivePortal ---------------------------
(***************************************************************************)
(* How a phone that joins comes to the page: dns_task sends every name to  *)
(* the Pico, mdns_task answers for scoreboard.local, and the probe of the  *)
(* captive portal (CaptiveWindow) runs beside them.  mdns_task reads every *)
(* packet into one buffer, where the end of a longer one may still be.     *)
(***************************************************************************)
EXTENDS NameService, CaptiveWindow

CONSTANTS
    Packets,        \* the packets phones send
    BufLen          \* the length of a receive buffer (512)

ASSUME PacketAssumption ==
    BufLen \in Nat /\ \A q \in Packets : q \in Seq(Nat) /\ Len(q) \in 1..BufLen

VARIABLES
    pkt,            \* the buffer of mdns_task
    heard, said,    \* the last mDNS packet and what was answered to it
    asked, reply    \* the last DNS packet and the reply to it

mdns == <<pkt, heard, said>>
dns  == <<asked, reply>>
portalvars == <<portal, mdns, dns>>

-----------------------------------------------------------------------------
\* recv_from of mdns_task overwrites the front of its buffer.
MdnsPacket(q) ==
    /\ pkt' = [i \in 1..BufLen |-> IF i <= Len(q) THEN q[i] ELSE pkt[i]]
    /\ heard' = q
    /\ said' = mdns_reply(pkt', Len(q))
    /\ UNCHANGED <<portal, dns>>

DnsPacket(q) ==
    /\ asked' = q
    /\ reply' = build_dns_reply(q)
    /\ UNCHANGED <<portal, mdns>>

PortalInit ==
    /\ WindowInit
    /\ pkt = [i \in 1..BufLen |-> 0] /\ heard = <<>> /\ said = {}
    /\ asked = <<>> /\ reply = {}

PortalNext ==
    \/ WindowNext /\ UNCHANGED <<mdns, dns>>
    \/ \E q \in Packets : MdnsPacket(q) \/ DnsPacket(q)

PortalSpec == PortalInit /\ [][PortalNext]_portalvars

-----------------------------------------------------------------------------
(* Properties.                                                             *)

\* mdns_task answers exactly the questions for its names, as one that is not
\* compressed is encoded, whatever longer packets have left in the buffer.
Compressed(q) == NameEnd(q) <= Len(q) /\ q[NameEnd(q)] # 0

MdnsAnswersOurs ==
    heard # <<>> /\ ~Compressed(heard) =>
        said = {name \in OurNames : /\ heard[1] = QUERY
                                    /\ Asks(heard, name, TypeA) \/ Asks(heard, name, TypeANY)}

\* A question is repeated without what followed it, if there is room for it, and
\* an address question answered with the Pico, if there is room for that too; the
\* count of a reply is that of its answers.
DnsHijacks ==
    /\ \A r \in reply : /\ r.count = Len(r.answers)
                        /\ Len(r.question) + 1 + Len(r.answers) <= OutLen
    /\ \A labels \in OurNames, t \in {TypeA, TypeANY} :
          Asks(asked, labels, t) =>
              LET e == EndPlace(labels) + QuestionTail
                  answers == IF t = TypeA /\ e < OutLen THEN <<ARecord>> ELSE <<>>
              IN  reply = IF e > OutLen THEN {}
                          ELSE {[question |-> SubSeq(asked, NameAt, e),
                                 count |-> Len(answers), answers |-> answers]}
=============================================================================
