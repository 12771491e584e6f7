---------------------------- MODULE UartFraming ----------------------------
(***************************************************************************)
(* read_serial: the SK2229R sends frames of PacketLen bytes without a      *)
(* pause in their order, and the Pico cuts the bytes it gets into packets. *)
(* A packet starts at a byte Sof; nothing else marks it, its checksum is   *)
(* not tested, and a byte of the data may be Sof too.                      *)
(*                                                                         *)
(* rx.read fills dma_buf; the loop then takes the bytes out of it one by   *)
(* one, faster than they arrive.  A read that fails is lost as a whole.    *)
(* The wire may lose a byte or change one: 8N1 has no parity.              *)
(*                                                                         *)
(* The byte a step handles is a record of what the scoreboard sent (byte   *)
(* number at of frame of), what was received (val), and whether the bytes  *)
(* before it were lost (torn).  The code sees val alone; the rest is there *)
(* for the properties.                                                     *)
(***************************************************************************)
EXTENDS Integers, Sequences

CONSTANTS
    PacketLen,      \* PACKET_LEN (6)
    MinAt, SecAt,   \* PACKET_MIN_INDEX and PACKET_SEC_INDEX, counted from 1
    MaxMin, MaxSec, \* MAX_MINUTES, MAX_SECONDS
    Byte,           \* the values of a byte
    Sof,            \* PACKET_SOF (0x60)
    Frames,         \* the frames the scoreboard sends
    DmaLen,         \* length of dma_buf (32)
    MaxFaults       \* bound of the model: faults of the line

ASSUME FramingAssumption ==
    /\ PacketLen \in Nat \ {0, 1}
    /\ MinAt \in 2..PacketLen /\ SecAt \in 2..PacketLen
    /\ Byte \subseteq Nat /\ Sof \in Byte
    /\ Frames \subseteq {f \in [1..PacketLen -> Byte] : f[1] = Sof}
    /\ DmaLen \in Nat \ {0}
    /\ MaxFaults \in Nat

VARIABLES
    frame, next,    \* the frame on the wire, and the number of its next byte
    dma,            \* dma_buf up to where it is filled
    handled,        \* bytes of a full dma_buf the loop is done with
    packet,         \* packet_buf up to buf_idx
    clock,          \* the time of the last set_clock, a set of at most one
    torn,           \* bytes before the next one were lost
    faults          \* faults so far

\* History variables: the last byte handled, how many bytes the reader has
\* handled since something last disturbed it (capped), and the wrong times it
\* has parsed since then.
VARIABLES last, calm, wrong

line == <<frame, next, torn>>
reader == <<handled, packet, clock>>
ghost == <<last, calm, wrong>>
vars == <<line, dma, reader, faults, ghost>>

Arrival == [val : Byte, of : Frames, at : 1..PacketLen, torn : BOOLEAN]

\* The bytes after which a reader that nothing disturbs is in step.
Settle == 2 * PacketLen - 2

-----------------------------------------------------------------------------
\* Mutation of Framed: any byte may start a packet.
FramedAnyhow(p, b) == Append(p, b)

\* The packet p with the next byte: outside of a packet all but Sof is skipped.
Framed(p, b) == IF p = <<>> /\ b # Sof THEN <<>> ELSE Append(p, b)

\* Mutation of parse_clock_packet: the largest second is refused.
ParseShort(p) ==
    IF p[1] = Sof /\ p[MinAt] <= MaxMin /\ p[SecAt] < MaxSec
    THEN {<<p[MinAt], p[SecAt]>>} ELSE {}

parse_clock_packet(p) ==
    IF p[1] = Sof /\ p[MinAt] <= MaxMin /\ p[SecAt] <= MaxSec
    THEN {<<p[MinAt], p[SecAt]>>} ELSE {}

\* Something that can put the reader out of step: bytes lost before b, a byte
\* changed on the wire, or a byte of the data that looks like a start.
Disturbs(b) == b.torn \/ b.val # b.of[b.at] \/ (b.at # 1 /\ b.val = Sof)

\* The time that frame f displays.
Displayed(f) == <<f[MinAt], f[SecAt]>>

\* The times the loop takes from packet p, complete with byte b, that are wrong.
WrongTimes(p, b) ==
    IF Len(p) = PacketLen /\ parse_clock_packet(p) \notin {{}, {Displayed(b.of)}}
    THEN 1 ELSE 0

\* Mutation of Rest: the buffer is rewound to its second byte.
RestKeepsStart(p) == IF Len(p) = PacketLen THEN <<Sof>> ELSE p

\* packet_buf after a byte: a complete packet leaves it empty.
Rest(p) == IF Len(p) = PacketLen THEN <<>> ELSE p

\* The loop handles the next byte of a full dma_buf.
Handle ==
    /\ Len(dma) = DmaLen
    /\ LET b == dma[handled + 1]
           p == Framed(packet, b.val)
           time == IF Len(p) = PacketLen THEN parse_clock_packet(p) ELSE {}
       IN  /\ packet' = Rest(p)
           /\ clock' = IF time = {} THEN clock ELSE time
           /\ last' = b
           /\ calm' = IF Disturbs(b) THEN 0 ELSE IF calm < Settle THEN calm + 1 ELSE calm
           /\ wrong' = WrongTimes(p, b) + IF Disturbs(b) THEN 0 ELSE wrong
    /\ IF handled + 1 < DmaLen
       THEN handled' = handled + 1 /\ UNCHANGED dma
       ELSE handled' = 0 /\ dma' = <<>>
    /\ UNCHANGED <<line, faults>>

-----------------------------------------------------------------------------
(* The wire and rx.read.                                                   *)

\* After the last byte of a frame comes the next frame.
Advance ==
    IF next < PacketLen
    THEN next' = next + 1 /\ UNCHANGED frame
    ELSE next' = 1 /\ frame' \in Frames

\* A byte arrives with some value while rx.read waits for it.
Arrive(val) ==
    /\ Len(dma) < DmaLen
    /\ dma' = Append(dma, [val |-> val, of |-> frame, at |-> next, torn |-> torn])
    /\ torn' = FALSE
    /\ Advance
    /\ UNCHANGED <<reader, ghost>>

Receive == Arrive(frame[next]) /\ UNCHANGED faults

Fault == faults < MaxFaults /\ faults' = faults + 1

\* Noise changes a byte.
Garble(val) == Fault /\ val # frame[next] /\ Arrive(val)

\* A byte is lost on the wire, and nothing reports it.
Lose ==
    /\ Fault /\ Len(dma) < DmaLen
    /\ torn' = TRUE
    /\ Advance
    /\ UNCHANGED <<dma, reader, ghost>>

\* rx.read returns an error (overrun, framing): what it has read is gone.
ReadFails ==
    /\ Fault /\ Len(dma) < DmaLen
    /\ dma' = <<>>
    /\ packet' = <<>>
    /\ torn' = TRUE
    /\ Advance
    /\ calm' = 0 /\ wrong' = 0
    /\ UNCHANGED <<handled, clock, last>>

-----------------------------------------------------------------------------
\* The Pico starts to listen in the middle of a frame.
Init ==
    /\ frame \in Frames /\ next \in 1..PacketLen
    /\ dma = <<>> /\ handled = 0 /\ packet = <<>> /\ clock = {}
    /\ torn = TRUE
    /\ faults = 0
    /\ last = [val |-> Sof, of |-> frame, at |-> 1, torn |-> TRUE]
    /\ calm = 0 /\ wrong = 0

Next ==
    \/ Receive
    \/ \E val \in Byte : Garble(val)
    \/ Lose
    \/ ReadFails
    \/ Handle

Spec == Init /\ [][Next]_vars

\* The scoreboard keeps sending, and the executor polls read_serial.
FairSpec == Spec /\ WF_vars(Receive) /\ WF_vars(Handle)

-----------------------------------------------------------------------------
(* Properties.                                                             *)

TypeOK ==
    /\ frame \in Frames /\ next \in 1..PacketLen
    /\ dma \in Seq(Arrival) /\ Len(dma) <= DmaLen
    /\ handled \in 0..(DmaLen - 1) /\ (Len(dma) < DmaLen => handled = 0)
    /\ packet \in Seq(Byte) /\ Len(packet) < PacketLen
    /\ clock \in SUBSET (Byte \X Byte)
    /\ torn \in BOOLEAN
    /\ faults \in 0..MaxFaults
    /\ last \in Arrival
    /\ calm \in 0..Settle
    /\ wrong \in Nat

\* After Settle bytes that nothing disturbed, wherever the reader stood, the
\* packet it is filling is the frame the scoreboard is sending: the next time
\* it parses is the one displayed.
InStep ==
    calm = Settle =>
        /\ Len(packet) = last.at % PacketLen
        /\ \A i \in 1..Len(packet) : packet[i] = last.of[i]

\* Without a checksum a disturbance can make the reader take a wrong time for
\* one that is displayed, but only once.
AtMostOneWrongTime == wrong <= 1

\* A time that stays displayed gets through once the line is quiet, provided
\* that no data byte of its frame looks like a start.
Plain(f) == \A i \in 2..PacketLen : f[i] # Sof

TimeGetsThrough ==
    \A f \in {g \in Frames : Plain(g) /\ g[MinAt] <= MaxMin /\ g[SecAt] <= MaxSec} :
        <>[](frame = f) => <>[](clock = {Displayed(f)})
=============================================================================
