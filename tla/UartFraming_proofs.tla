------------------------- MODULE UartFraming_proofs -------------------------
(***************************************************************************)
(* The reader finds the frames again, and a disturbance costs it at most   *)
(* one wrong time, for packets and DMA buffers of any length, any frames   *)
(* and any number of faults.                                               *)
(***************************************************************************)
EXTENDS UartFraming, TLAPS

\* Byte number n of frame f is the one sent after byte b, if none was lost.
Follows(b, f, n, lost) ==
    ~lost => IF b.at < PacketLen THEN n = b.at + 1 /\ f = b.of ELSE n = 1

\* The byte received before number i of d, of which h are handled, l last.
Before(d, h, l, i) == IF i = h + 1 THEN l ELSE d[i - 1]

\* The bytes the loop has not handled yet, and the next one on the wire, follow
\* each other as they were sent.
Chained ==
    /\ \A i \in (handled + 1)..Len(dma) :
          Follows(Before(dma, handled, last, i), dma[i].of, dma[i].at, dma[i].torn)
    /\ Follows(Before(dma, handled, last, Len(dma) + 1), frame, next, torn)

\* Where the reader can stand since it was last disturbed.
Synced   == /\ Len(packet) = IF last.at = PacketLen THEN 0 ELSE last.at
            /\ \A i \in 1..Len(packet) : packet[i] = last.of[i]
Garbled  == Len(packet) > calm /\ wrong = 0
Skipping == packet = <<>> /\ calm <= PacketLen - 2 + last.at

\* Neither InStep nor AtMostOneWrongTime is inductive: a reader out of step fills
\* up the packet it is in, skips to the next start, and is in step then.
Phase == (Synced \/ Garbled \/ Skipping) /\ wrong <= 1

Inv == TypeOK /\ Chained /\ Phase

-----------------------------------------------------------------------------
LEMMA FrameFacts ==
    ASSUME NEW f \in Frames
    PROVE  f \in [1..PacketLen -> Byte] /\ f[1] = Sof
BY FramingAssumption

LEMMA Sizes ==
    /\ PacketLen \in Nat /\ PacketLen >= 2 /\ 1 \in 1..PacketLen
    /\ MinAt \in 2..PacketLen /\ SecAt \in 2..PacketLen
    /\ DmaLen \in Nat /\ DmaLen >= 1 /\ Settle \in Nat /\ Sof \in Byte
BY FramingAssumption DEF Settle

LEMMA InvInit == Init => Inv
<1> SUFFICES ASSUME Init PROVE Inv
  OBVIOUS
<1>1. last \in Arrival
  BY Sizes DEF Init, Arrival
<1>2. TypeOK
  <2>1. dma \in Seq(Arrival) /\ Len(dma) = 0 /\ packet \in Seq(Byte) /\ Len(packet) = 0
    BY DEF Init
  <2>2. clock \in SUBSET (Byte \X Byte) /\ faults \in 0..MaxFaults
    BY FramingAssumption DEF Init
  <2>3. calm \in 0..Settle /\ wrong \in Nat /\ handled \in 0..(DmaLen - 1) /\ handled = 0
    BY Sizes DEF Init
  <2> QED
    BY <1>1, <2>1, <2>2, <2>3, Sizes DEF Init, TypeOK
<1>3. Chained
  BY DEF Init, Chained, Follows
<1>4. Phase
  BY Sizes DEF Init, Phase, Skipping
<1> QED
  BY <1>2, <1>3, <1>4 DEF Inv

-----------------------------------------------------------------------------
(* The wire.                                                               *)

\* The next byte is another one of the same frame, or the first of any.
LEMMA AdvanceStep ==
    ASSUME frame \in Frames, next \in 1..PacketLen, Advance
    PROVE  /\ frame' \in Frames /\ next' \in 1..PacketLen
           /\ \A v, t : Follows([val |-> v, of |-> frame, at |-> next, torn |-> t], frame', next', FALSE)
BY Sizes DEF Advance, Follows

LEMMA ArriveStep ==
    ASSUME Inv, NEW val \in Byte, Arrive(val), faults' \in 0..MaxFaults
    PROVE  Inv'
<1> DEFINE b == [val |-> val, of |-> frame, at |-> next, torn |-> torn]
<1>1. b \in Arrival
  BY DEF Inv, TypeOK, Arrival
<1>2. /\ dma' = Append(dma, b) /\ Len(dma) < DmaLen /\ handled = 0 /\ torn' = FALSE
      /\ UNCHANGED <<handled, packet, clock, last, calm, wrong>> /\ dma \in Seq(Arrival)
  BY DEF Arrive, Inv, TypeOK, reader, ghost
<1>3. /\ frame' \in Frames /\ next' \in 1..PacketLen
      /\ Follows(b, frame', next', FALSE)
  BY AdvanceStep DEF Arrive, Inv, TypeOK
<1>4. /\ Len(dma') = Len(dma) + 1 /\ Len(dma) \in Nat
      /\ \A i \in 1..Len(dma) : dma'[i] = dma[i]
      /\ dma'[Len(dma) + 1] = b
  BY <1>1, <1>2
<1>5. TypeOK'
  <2>1. dma' \in Seq(Arrival) /\ Len(dma') <= DmaLen
    BY <1>1, <1>2, <1>4, Sizes
  <2> QED
    BY <1>2, <1>3, <2>1 DEF Inv, TypeOK
<1>6. Chained'
  <2>1. \A i \in 1..(Len(dma) + 1) : Before(dma', handled', last', i) = Before(dma, handled, last, i)
    BY <1>2, <1>4 DEF Before
  <2>2. Before(dma', handled', last', Len(dma') + 1) = b
    BY <1>2, <1>4 DEF Before
  <2>3. ASSUME NEW i \in (handled' + 1)..Len(dma')
        PROVE  Follows(Before(dma', handled', last', i), dma'[i].of, dma'[i].at, dma'[i].torn)
    <3>1. CASE i <= Len(dma)
      <4>1. i \in (handled + 1)..Len(dma) /\ dma'[i] = dma[i] /\ Before(dma', handled', last', i) = Before(dma, handled, last, i)
        BY <1>2, <1>4, <2>1, <2>3, <3>1
      <4> QED
        BY <4>1 DEF Inv, Chained
    <3>2. CASE i = Len(dma) + 1
      <4>1. dma'[i] = b /\ Before(dma', handled', last', i) = Before(dma, handled, last, i)
        BY <1>4, <2>1, <3>2
      <4>2. Follows(Before(dma, handled, last, i), frame, next, torn)
        BY <3>2 DEF Inv, Chained
      <4> QED
        BY <4>1, <4>2
    <3> QED
      BY <1>2, <1>4, <2>3, <3>1, <3>2
  <2>4. Follows(Before(dma', handled', last', Len(dma') + 1), frame', next', torn')
    BY <1>2, <1>3, <2>2
  <2> QED
    BY <2>3, <2>4 DEF Chained, Follows, Before
<1>7. Phase'
  BY <1>2 DEF Inv, Phase, Synced, Garbled, Skipping
<1> QED
  BY <1>5, <1>6, <1>7 DEF Inv

LEMMA LoseStep ==
    ASSUME Inv, Lose
    PROVE  Inv'
<1>1. /\ UNCHANGED <<dma, handled, packet, clock, last, calm, wrong>>
      /\ torn' = TRUE /\ faults' \in 0..MaxFaults
  BY FramingAssumption DEF Lose, Fault, reader, ghost, Inv, TypeOK
<1>2. frame' \in Frames /\ next' \in 1..PacketLen
  BY AdvanceStep DEF Lose, Inv, TypeOK
<1>3. TypeOK'
  BY <1>1, <1>2 DEF Inv, TypeOK
<1>4. Chained'
  BY <1>1 DEF Inv, Chained, Follows
<1>5. Phase'
  BY <1>1 DEF Inv, Phase, Synced, Garbled, Skipping
<1> QED
  BY <1>3, <1>4, <1>5 DEF Inv

LEMMA ReadFailsStep ==
    ASSUME Inv, ReadFails
    PROVE  Inv'
<1>1. /\ UNCHANGED <<handled, clock, last>> /\ handled = 0
      /\ dma' = <<>> /\ packet' = <<>> /\ torn' = TRUE /\ calm' = 0 /\ wrong' = 0
      /\ faults' \in 0..MaxFaults
  BY FramingAssumption DEF ReadFails, Fault, Inv, TypeOK
<1>2. frame' \in Frames /\ next' \in 1..PacketLen
  BY AdvanceStep DEF ReadFails, Inv, TypeOK
<1>3. TypeOK'
  <2>1. dma' \in Seq(Arrival) /\ Len(dma') = 0 /\ packet' \in Seq(Byte) /\ Len(packet') = 0
    BY <1>1
  <2> QED
    BY <1>1, <1>2, <2>1, Sizes DEF Inv, TypeOK
<1>4. Chained'
  BY <1>1 DEF Chained, Follows
<1>5. Phase'
  BY <1>1, Sizes DEF Inv, TypeOK, Arrival, Phase, Skipping
<1> QED
  BY <1>3, <1>4, <1>5 DEF Inv

-----------------------------------------------------------------------------
(* The reader.                                                             *)

\* A frame in step yields the time it displays or none.
LEMMA RightTime ==
    ASSUME NEW p, NEW b, \A i \in 1..PacketLen : p[i] = b.of[i]
    PROVE  WrongTimes(p, b) = 0
BY Sizes DEF WrongTimes, parse_clock_packet, Displayed

LEMMA WrongTimesRange ==
    ASSUME NEW p, NEW b
    PROVE  /\ WrongTimes(p, b) \in {0, 1}
           /\ Len(p) # PacketLen => WrongTimes(p, b) = 0
BY DEF WrongTimes

\* What Handle does with byte b, the next one that was received.
LEMMA HandleFacts ==
    ASSUME Inv, Handle, NEW b, b = dma[handled + 1], NEW p, p = Framed(packet, b.val)
    PROVE  /\ b \in Arrival /\ Follows(last, b.of, b.at, b.torn)
           /\ last' = b /\ packet' = Rest(p)
           /\ calm' = IF Disturbs(b) THEN 0 ELSE IF calm < Settle THEN calm + 1 ELSE calm
           /\ wrong' = WrongTimes(p, b) + IF Disturbs(b) THEN 0 ELSE wrong
           /\ p \in Seq(Byte)
           /\ \/ packet = <<>> /\ b.val # Sof /\ p = <<>> /\ Len(p) = 0
              \/ /\ p = Append(packet, b.val) /\ Len(p) = Len(packet) + 1
                 /\ packet = <<>> => b.val = Sof
                 /\ \A i \in 1..Len(packet) : p[i] = packet[i]
                 /\ p[Len(packet) + 1] = b.val
<1>1. handled + 1 \in 1..Len(dma) /\ dma \in Seq(Arrival)
  BY Sizes DEF Handle, Inv, TypeOK
<1>2. b \in Arrival
  BY <1>1
<1>3. Follows(last, b.of, b.at, b.torn)
  BY <1>1 DEF Inv, Chained, Before
<1>4. packet \in Seq(Byte) /\ b.val \in Byte
  BY <1>2 DEF Inv, TypeOK, Arrival
<1> QED
  BY <1>2, <1>3, <1>4 DEF Handle, Framed

\* The packet that is left over is shorter than a whole one.
LEMMA RestFacts ==
    ASSUME NEW p \in Seq(Byte), Len(p) <= PacketLen
    PROVE  /\ Rest(p) \in Seq(Byte) /\ Len(Rest(p)) < PacketLen
           /\ Len(p) = PacketLen => Rest(p) = <<>> /\ Len(Rest(p)) = 0
           /\ Len(p) # PacketLen => Rest(p) = p
BY Sizes DEF Rest

LEMMA HandleTypes ==
    ASSUME Inv, Handle
    PROVE  TypeOK'
<1> DEFINE b == dma[handled + 1]
           p == Framed(packet, b.val)
<1> HIDE DEF b, p
<1>1. b = dma[handled + 1] /\ p = Framed(packet, b.val)
  BY DEF b, p
<1>2. b \in Arrival /\ p \in Seq(Byte) /\ Len(p) <= PacketLen
  BY <1>1, HandleFacts, Sizes DEF Inv, TypeOK
<1>3. packet' \in Seq(Byte) /\ Len(packet') < PacketLen
  BY <1>1, <1>2, HandleFacts, RestFacts
<1>4. calm' \in 0..Settle
  BY <1>1, HandleFacts, Sizes DEF Inv, TypeOK
<1>5. wrong' \in Nat
  BY <1>1, HandleFacts, WrongTimesRange DEF Inv, TypeOK
<1>6. clock' \in SUBSET (Byte \X Byte)
  <2>1. ASSUME Len(p) = PacketLen PROVE parse_clock_packet(p) \in SUBSET (Byte \X Byte)
    BY <1>2, <2>1, Sizes DEF parse_clock_packet
  <2> QED
    BY <1>1, <2>1 DEF Handle, Inv, TypeOK
<1>7. /\ dma' \in Seq(Arrival) /\ Len(dma') <= DmaLen
      /\ handled' \in 0..(DmaLen - 1) /\ (Len(dma') < DmaLen => handled' = 0)
  <2>1. dma \in Seq(Arrival) /\ Len(dma) = DmaLen /\ handled \in 0..(DmaLen - 1)
    BY DEF Handle, Inv, TypeOK
  <2>2. CASE handled + 1 < DmaLen
    <3>1. dma' = dma /\ handled' = handled + 1
      BY <2>2 DEF Handle
    <3> QED
      BY <2>1, <2>2, <3>1, Sizes
  <2>3. CASE ~(handled + 1 < DmaLen)
    <3>1. dma' = <<>> /\ handled' = 0 /\ Len(dma') = 0
      BY <2>3 DEF Handle
    <3> QED
      BY <3>1, Sizes
  <2> QED
    BY <2>2, <2>3
<1>8. UNCHANGED <<frame, next, torn, faults>> /\ last' \in Arrival
  BY <1>1, <1>2, HandleFacts DEF Handle, line
<1> QED
  BY <1>3, <1>4, <1>5, <1>6, <1>7, <1>8 DEF Inv, TypeOK

LEMMA HandleChain ==
    ASSUME Inv, Handle
    PROVE  Chained'
<1>1. /\ last' = dma[handled + 1] /\ UNCHANGED <<frame, next, torn>>
      /\ handled \in Nat /\ handled < Len(dma) /\ Len(dma) = DmaLen
  BY Sizes DEF Handle, line, Inv, TypeOK
<1>2. CASE handled + 1 < DmaLen
  <2>1. handled' = handled + 1 /\ dma' = dma
    BY <1>2 DEF Handle
  <2>2. \A i \in (handled + 2)..(Len(dma) + 1) :
           Before(dma', handled', last', i) = Before(dma, handled, last, i)
    BY <1>1, <2>1 DEF Before
  <2> QED
    BY <1>1, <1>2, <2>1, <2>2, Sizes DEF Inv, Chained
<1>3. CASE ~(handled + 1 < DmaLen)
  <2>1. handled' = 0 /\ dma' = <<>> /\ Len(dma') = 0 /\ Len(dma) = handled + 1
    BY <1>1, <1>3, Sizes DEF Handle, Inv, TypeOK
  <2>2. Before(dma', handled', last', Len(dma') + 1) = Before(dma, handled, last, Len(dma) + 1)
    BY <1>1, <2>1 DEF Before
  <2> QED
    BY <1>1, <2>1, <2>2 DEF Inv, Chained
<1> QED
  BY <1>2, <1>3

LEMMA HandlePhase ==
    ASSUME Inv, Handle
    PROVE  Phase'
<1> DEFINE b == dma[handled + 1]
           p == Framed(packet, b.val)
<1> HIDE DEF b, p
<1>1. b = dma[handled + 1] /\ p = Framed(packet, b.val)
  BY DEF b, p
<1>2. /\ b \in Arrival /\ Follows(last, b.of, b.at, b.torn)
      /\ last' = b /\ packet' = Rest(p)
      /\ calm' = IF Disturbs(b) THEN 0 ELSE IF calm < Settle THEN calm + 1 ELSE calm
      /\ wrong' = WrongTimes(p, b) + IF Disturbs(b) THEN 0 ELSE wrong
      /\ p \in Seq(Byte)
  BY <1>1, HandleFacts
<1>3. \/ packet = <<>> /\ b.val # Sof /\ p = <<>> /\ Len(p) = 0
      \/ /\ p = Append(packet, b.val) /\ Len(p) = Len(packet) + 1
         /\ packet = <<>> => b.val = Sof
         /\ \A i \in 1..Len(packet) : p[i] = packet[i]
         /\ p[Len(packet) + 1] = b.val
  BY <1>1, HandleFacts
<1>4. /\ calm \in 0..Settle /\ wrong \in Nat /\ wrong <= 1
      /\ last \in Arrival /\ last.at \in 1..PacketLen /\ b.at \in 1..PacketLen
      /\ b.of \in Frames /\ b.of[1] = Sof
      /\ packet \in Seq(Byte) /\ Len(packet) \in Nat /\ Len(packet) < PacketLen
      /\ packet = <<>> <=> Len(packet) = 0
  BY <1>2, FrameFacts DEF Inv, TypeOK, Phase, Arrival
<1>5. Len(p) <= PacketLen /\ Len(p) \in Nat
  BY <1>3, <1>4, Sizes
<1>6. /\ Len(p) = PacketLen => packet' = <<>> /\ Len(packet') = 0
      /\ Len(p) # PacketLen => packet' = p /\ WrongTimes(p, b) = 0
      /\ WrongTimes(p, b) \in {0, 1}
  BY <1>2, <1>5, RestFacts, WrongTimesRange
<1>7. CASE Disturbs(b)
  <2>1. calm' = 0 /\ wrong' \in {0, 1}
    BY <1>2, <1>6, <1>7
  <2>2. CASE Len(p) = PacketLen \/ Len(p) = 0
    <3>1. packet' = <<>>
      BY <1>3, <1>4, <1>6, <2>2, Sizes
    <3> QED
      BY <1>2, <1>4, <2>1, <3>1, Sizes DEF Phase, Skipping
  <2>3. CASE Len(p) # PacketLen /\ Len(p) # 0
    <3>1. Len(packet') > 0 /\ wrong' = 0
      BY <1>2, <1>5, <1>6, <1>7, <2>3
    <3> QED
      BY <2>1, <3>1 DEF Phase, Garbled
  <2> QED
    BY <2>2, <2>3
<1>8. CASE ~Disturbs(b)
  <2>1. /\ b.val = b.of[b.at] /\ (b.val = Sof => b.at = 1)
        /\ IF last.at < PacketLen THEN b.at = last.at + 1 /\ b.of = last.of ELSE b.at = 1
    BY <1>2, <1>8 DEF Disturbs, Follows
  <2>2. calm' <= calm + 1 /\ calm' \in Nat /\ wrong' = WrongTimes(p, b) + wrong
    BY <1>2, <1>4, <1>8, Sizes
  <2>3. CASE Synced
    <3>1. /\ Len(p) = b.at
          /\ \A i \in 1..Len(p) : p[i] = b.of[i]
      <4>1. Len(p) = b.at /\ Len(p) = Len(packet) + 1 /\ p[Len(p)] = b.of[b.at]
        BY <1>3, <1>4, <2>1, <2>3, Sizes DEF Synced
      <4>2. \A i \in 1..Len(packet) : p[i] = b.of[i]
        BY <1>3, <1>4, <2>1, <2>3, Sizes DEF Synced
      <4> QED
        BY <1>4, <4>1, <4>2
    <3>2. WrongTimes(p, b) = 0
      <4>1. CASE Len(p) = PacketLen
        BY <3>1, <4>1, RightTime
      <4> QED
        BY <1>6, <4>1
    <3>3. Synced'
      BY <1>2, <1>4, <1>6, <3>1, Sizes DEF Synced
    <3> QED
      BY <1>4, <2>2, <3>2, <3>3 DEF Phase
  <2>4. CASE Garbled
    <3>1. Len(p) = Len(packet) + 1
      BY <1>3, <1>4, <2>4 DEF Garbled
    <3>2. CASE Len(p) = PacketLen
      BY <1>2, <1>4, <1>6, <2>2, <2>4, <3>1, <3>2, Sizes DEF Garbled, Phase, Skipping
    <3>3. CASE Len(p) # PacketLen
      BY <1>4, <1>6, <2>2, <2>4, <3>1, <3>3 DEF Garbled, Phase
    <3> QED
      BY <3>2, <3>3
  <2>5. CASE Skipping
    <3>1. CASE b.at = 1
      <4>1. Len(p) = 1 /\ p[1] = b.of[1]
        BY <1>3, <1>4, <2>1, <2>5, <3>1 DEF Skipping
      <4>2. Synced'
        BY <1>2, <1>6, <3>1, <4>1, Sizes DEF Synced
      <4> QED
        BY <1>4, <1>6, <2>2, <4>1, <4>2, Sizes DEF Phase
    <3>2. CASE b.at # 1
      <4>1. p = <<>> /\ Len(p) = 0 /\ b.at = last.at + 1
        BY <1>3, <1>4, <2>1, <2>5, <3>2 DEF Skipping
      <4>2. packet' = <<>> /\ calm' <= PacketLen - 2 + b.at /\ wrong' = wrong
        BY <1>4, <1>6, <2>2, <2>5, <4>1, Sizes DEF Skipping
      <4> QED
        BY <1>2, <1>4, <4>2 DEF Phase, Skipping
    <3> QED
      BY <3>1, <3>2
  <2> QED
    BY <2>3, <2>4, <2>5 DEF Inv, Phase
<1> QED
  BY <1>7, <1>8

LEMMA InvStep == Inv /\ [Next]_vars => Inv'
<1> SUFFICES ASSUME Inv, [Next]_vars PROVE Inv'
  OBVIOUS
<1>1. CASE Receive
  <2>1. frame[next] \in Byte /\ faults' \in 0..MaxFaults
    BY <1>1, FrameFacts DEF Receive, Inv, TypeOK
  <2> QED
    BY <1>1, <2>1, ArriveStep DEF Receive
<1>2. ASSUME NEW val \in Byte, Garble(val) PROVE Inv'
  <2>1. faults' \in 0..MaxFaults
    BY <1>2, FramingAssumption DEF Garble, Fault, Inv, TypeOK
  <2> QED
    BY <1>2, <2>1, ArriveStep DEF Garble
<1>3. CASE Handle
  BY <1>3, HandleTypes, HandleChain, HandlePhase DEF Inv
<1>4. CASE UNCHANGED vars
  BY <1>4 DEF vars, line, reader, ghost, Inv, TypeOK, Chained, Phase, Synced, Garbled, Skipping
<1> QED
  BY <1>1, <1>2, <1>3, <1>4, LoseStep, ReadFailsStep DEF Next

-----------------------------------------------------------------------------
\* A reader undisturbed for Settle bytes has had the time to fill up a packet
\* and to skip to a start.
LEMMA SettledIsSynced == Inv => InStep
<1> SUFFICES ASSUME Inv, calm = Settle
             PROVE  /\ Len(packet) = last.at % PacketLen
                    /\ \A i \in 1..Len(packet) : packet[i] = last.of[i]
  BY DEF InStep
<1>1. /\ last.at \in 1..PacketLen /\ Len(packet) \in Nat /\ Len(packet) < PacketLen
      /\ calm = 2 * PacketLen - 2
  BY DEF Inv, TypeOK, Arrival, Settle
<1>2. Synced
  <2>1. ~Garbled
    BY <1>1, Sizes DEF Garbled
  <2>2. ASSUME Skipping PROVE Synced
    <3>1. last.at = PacketLen /\ packet = <<>>
      BY <1>1, <2>2, Sizes DEF Skipping
    <3> QED
      BY <3>1 DEF Synced
  <2> QED
    BY <2>1, <2>2 DEF Inv, Phase
<1>3. last.at % PacketLen = IF last.at = PacketLen THEN 0 ELSE last.at
  <2>1. CASE last.at < PacketLen
    BY <1>1, <2>1, Sizes
  <2>2. CASE last.at = PacketLen
    BY <1>1, <2>2, Sizes
  <2> QED
    BY <1>1, <2>1, <2>2, Sizes
<1> QED
  BY <1>2, <1>3 DEF Synced

\* The frame, the buffers and the counts of read_serial stay well typed.
THEOREM FramingTypes == Spec => []TypeOK
<1>1. Inv => TypeOK
  BY DEF Inv
<1> QED
  BY <1>1, InvInit, InvStep, PTL DEF Spec

\* InStep: wherever read_serial stood in its packet, it is in step with the
\* scoreboard after Settle bytes that nothing disturbs.
THEOREM ReaderResynchronises == Spec => []InStep
BY SettledIsSynced, InvInit, InvStep, PTL DEF Spec

\* AtMostOneWrongTime: a lost or changed byte, or a start in the data, makes
\* read_serial take at most one time that is not displayed.
THEOREM OneWrongTimeAtMost == Spec => []AtMostOneWrongTime
<1>1. Inv => AtMostOneWrongTime
  BY DEF Inv, Phase, AtMostOneWrongTime
<1> QED
  BY <1>1, InvInit, InvStep, PTL DEF Spec
=============================================================================
