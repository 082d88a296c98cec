------------------------------- MODULE PyCal -------------------------------
(***************************************************************************)
(* Point-to-point packets of the Python protocol library: CALs and the     *)
(* status reports they carry.                                              *)
(*   cbus/protocol/pp_packet.py, cal/*.py, and packet.py for replies that  *)
(*   the PCI sends without an address.                                     *)
(*                                                                         *)
(* A unit composes CALs into a packet, the C-Bus wire may blur a level on  *)
(* its way into a report, and the client decodes the packet.  Checksums    *)
(* and base16 are in PyCodec and PyFraming.                                *)
(***************************************************************************)
EXTENDS Integers, Sequences, SequencesExt

CONSTANTS
  Cals,        \* CALs a sender composes
  Units,       \* addresses packets are for
  Bridges,     \* ways over bridges: the address of the first, then the hops
  Blurs,       \* what noise leaves of a nibble of a level
  MaxCals      \* CALs in one packet

Byte == 0..255

PyCalAssumption ==
  /\ Units \subseteq Byte /\ Bridges \subseteq Seq(Byte) \ {<<>>}
  /\ Blurs \subseteq 0..15 /\ MaxCals \in Nat \ {0}

From(data, i) == SubSeq(data, i, Len(data))

-----------------------------------------------------------------------------
(* Status reports *)

Missing == 256       \* None in a level report, no such group
Nibbles == <<10, 9, 6, 5>>    \* _MANCHESTER_NIBBLES

\* manchester_decode of a nibble: its two bits, 4 for noise
Bits(nibble) ==
  IF \E i \in 1..4 : Nibbles[i] = nibble THEN (CHOOSE i \in 1..4 : Nibbles[i] = nibble) - 1
  ELSE 4

\* manchester_decode: low bits first, any bad nibble spoils the level.
ManchesterDecode(b0, b1) ==
  LET n == <<Bits(b0 % 16), Bits(b0 \div 16), Bits(b1 % 16), Bits(b1 \div 16)>>
  IN IF \E i \in 1..4 : n[i] = 4 THEN Missing
     ELSE n[1] + 4 * n[2] + 16 * n[3] + 64 * n[4]

\* manchester_encode
ManchesterEncode(value) ==
  IF value = Missing THEN <<0, 0>>
  ELSE LET nibble(shift) == Nibbles[((value \div shift) % 4) + 1]
       IN <<nibble(1) + 16 * nibble(4), nibble(16) + 16 * nibble(64)>>

\* LevelStatusReport.decode; an odd length raises.
DecodeLevels(bytes) ==
  [i \in 1..(Len(bytes) \div 2) |-> ManchesterDecode(bytes[2 * i - 1], bytes[2 * i])]

\* LevelStatusReport.encode
EncodeLevels(levels) ==
  [k \in 1..(2 * Len(levels)) |-> ManchesterEncode(levels[(k + 1) \div 2])[2 - (k % 2)]]

\* BinaryStatusReport.decode: four groups in a byte, low bits first.
DecodeStates(bytes) ==
  [k \in 1..(4 * Len(bytes)) |->
     (bytes[((k - 1) \div 4) + 1] \div (4^((k - 1) % 4))) % 4]

\* BinaryStatusReport.encode pads with GroupState.MISSING.
Pad(states) == states \o [i \in 1..((4 - (Len(states) % 4)) % 4) |-> 0]
EncodeStates(states) ==
  LET padded == Pad(states)
      state(i, j) == padded[4 * (i - 1) + j]
  IN [i \in 1..(Len(padded) \div 4) |->
        state(i, 1) + 4 * state(i, 2) + 16 * state(i, 3) + 64 * state(i, 4)]

-----------------------------------------------------------------------------
(* CALs *)

Identify(attribute) == [kind |-> "identify", attribute |-> attribute]
Recall(param, count) == [kind |-> "recall", param |-> param, count |-> count]
Reply(parameter, data) == [kind |-> "reply", parameter |-> parameter, data |-> data]
\* report: "binary" or "level"
Extended(external, app, start, report, slots) ==
  [kind |-> "extended", external |-> external, app |-> app, start |-> start,
   report |-> report, slots |-> slots]

\* IdentifyCAL.encode and RecallCAL.encode
EncodeRequest(c) ==
  IF c.kind = "identify" THEN <<33, c.attribute>> ELSE <<26, c.param, c.count>>

\* ReplyCAL.encode: at most 30 bytes of data.
EncodeReply(c) ==
  LET data == SubSeq(c.data, 1, IF Len(c.data) > 30 THEN 30 ELSE Len(c.data))
  IN <<128 + Len(data) + 1, c.parameter>> \o data

\* The report of an ExtendedCAL, and its length with the three bytes before it.
Report(c) == IF c.report = "binary" THEN EncodeStates(c.slots) ELSE EncodeLevels(c.slots)
ReportLength(c) == Len(Report(c)) + 3

\* ExtendedCAL.encode with coding_byte: EXTENDED_STATUS | length, which keeps the
\* low five bits of a length below 256 (at 256 bytes() raises).
EncodeExtended(c) ==
  LET report == Report(c)
  IN <<224 + (ReportLength(c) % 32),
       (IF c.external THEN 64 ELSE 0) + (IF c.report = "binary" THEN 0 ELSE 7),
       c.app, c.start>> \o report

EncodeCal(c) ==
  CASE c.kind \in {"identify", "recall"} -> EncodeRequest(c)
    [] c.kind = "reply" -> EncodeReply(c)
    [] c.kind = "extended" -> EncodeExtended(c)

\* What a receiver learns of a CAL: replies are cut, binary reports padded.
Learnt(c) ==
  CASE c.kind = "reply" /\ Len(c.data) > 30 -> [c EXCEPT !.data = SubSeq(@, 1, 30)]
    [] c.kind = "extended" /\ c.report = "binary" -> [c EXCEPT !.slots = Pad(@)]
    [] OTHER -> c

Broken == [kind |-> "broken"]      \* decoding raised an exception

\* ExtendedCAL.decode_cal of the bytes after the header.
DecodeExtended(data) ==
  LET type == data[1] % 8
      payload == From(data, 4)
      cal(report, slots) ==
        Extended((data[1] \div 64) % 2 = 1, data[2], data[3], report, slots)
  IN CASE type = 0 -> cal("binary", DecodeStates(payload))
       [] type = 7 /\ Len(payload) % 2 = 0 -> cal("level", DecodeLevels(payload))
       [] OTHER -> Broken

\* PointToPointPacket.decode_cal: the CAL and the bytes it takes.  Standard
\* status CALs are not implemented.
DecodeCal(data) ==
  LET length == (data[1] % 32) + 1
      body == SubSeq(data, 2, length)
      top == data[1] \div 32
  IN CASE top = 4 /\ length <= Len(data) /\ length > 1 ->
            [cal |-> Reply(body[1], Tail(body)), taken |-> length]
       [] top = 7 /\ length <= Len(data) /\ length > 3 ->
            [cal |-> DecodeExtended(body), taken |-> length]
       [] data[1] = 33 /\ Len(data) > 1 -> [cal |-> Identify(data[2]), taken |-> 2]
       [] data[1] = 26 /\ Len(data) > 2 -> [cal |-> Recall(data[2], data[3]), taken |-> 3]
       [] OTHER -> [cal |-> Broken, taken |-> Len(data)]

\* The loop over a packet's CALs; an exception makes the packet invalid.
DecodeCals[data \in Seq(Byte)] ==
  IF data = <<>> THEN <<>>
  ELSE LET d == DecodeCal(data)
           rest == DecodeCals[From(data, d.taken + 1)]
       IN IF d.cal = Broken \/ rest = <<Broken>> THEN <<Broken>> ELSE <<d.cal>> \o rest

-----------------------------------------------------------------------------
(* Packets *)

NoUnit == 256
Refused == [unit |-> NoUnit, cals |-> <<Broken>>]     \* InvalidPacket
BridgeCode(hops) == 9 * (Len(hops) + 1)      \* BRIDGE_LENGTHS

\* PointToPointPacket.encode, or the direct form of a PCI's own replies.  The
\* bridged form is only decoded here: `hops` come from another network.
EncodePacket(form, unit, hops, cals) ==
  LET body == FoldSeq(LAMBDA c, bytes : EncodeCal(c) \o bytes, <<>>, cals)
  IN CASE form = "unit" -> <<6, 4, unit, 0>> \o body
       [] form = "bridged" ->
            <<6, 4, hops[1], BridgeCode(Tail(hops))>> \o Tail(hops) \o <<unit>> \o body
       [] form = "direct" -> body

\* PointToPointPacket.decode_packet after flags and source address.  The
\* constructor refuses hops behind a bridge of address 0.
DecodeUnit(data) ==
  LET hops == (data[2] \div 9) - 1
  IN CASE data[2] = 0 -> [unit |-> data[1], cals |-> DecodeCals[From(data, 3)]]
       [] data[2] \in {9 * k : k \in 1..6} /\ data[1] > 0 ->
            [unit |-> data[3 + hops], cals |-> DecodeCals[From(data, 4 + hops)]]
       [] OTHER -> Refused

\* DeviceManagementPacket.decode_packet after flags and source address.
DecodeManagement(data) ==
  IF Len(data) = 3 /\ data[2] = 0
  THEN <<[kind |-> "management", parameter |-> data[1], value |-> data[3]]>>
  ELSE <<Broken>>

\* The first byte of a packet, read as flags.
IsManagement(flags) == (flags \div 32) % 2 = 1
IsAddressed(flags) == flags % 8 \in {3, 5, 6}

\* decode_packet: a first byte that is no address type is a CAL header,
\* unless its dp bit says device management.
DecodePacket(data) ==
  CASE ~IsAddressed(data[1]) /\ ~IsManagement(data[1]) ->
         [unit |-> 0, cals |-> DecodeCals[data]]
    [] IsManagement(data[1]) ->
         [unit |-> NoUnit, cals |-> DecodeManagement(From(data, 3))]
    [] data[1] % 8 = 6 /\ ~IsManagement(data[1]) -> DecodeUnit(From(data, 3))
    [] OTHER -> Refused

VARIABLES
  phase,    \* "compose" | "line" | "done"
  form,     \* "unit" | "bridged" | "direct"
  unit,     \* the address
  cals,     \* the packet's CALs
  wire,     \* its bytes
  blurred,  \* the slot of the first CAL's level report that noise met, or 0
  result    \* what the client decoded

vars == <<phase, form, unit, cals, wire, blurred, result>>

\* append_cal
AppendCal(c) ==
  /\ phase = "compose" /\ Len(cals) < MaxCals
  /\ cals' = Append(cals, c)
  /\ UNCHANGED <<phase, form, unit, wire, blurred, result>>

\* A unit sends the packet, or a PCI answers by itself.
Encode(f, u, hops) ==
  /\ phase = "compose" /\ cals # <<>> /\ phase' = "line"
  /\ form' = f /\ unit' = u
  /\ wire' = EncodePacket(f, u, hops, cals)
  /\ UNCHANGED <<cals, blurred, result>>

\* Two units with one group answer differently: a nibble of a level changes.
Blur(slot, half, by) ==
  LET at == 4 + 4 + 2 * slot - 1     \* addresses, CAL header, then levels
      byte == wire[at]
  IN /\ phase = "line" /\ blurred = 0 /\ form = "unit"
     /\ cals[1].kind = "extended" /\ cals[1].report = "level"
     /\ slot \in DOMAIN cals[1].slots
     /\ wire' = [wire EXCEPT ![at] = IF half = 0 THEN 16 * (byte \div 16) + by
                                     ELSE 16 * by + (byte % 16)]
     /\ blurred' = slot
     /\ UNCHANGED <<phase, form, unit, cals, result>>

Decode ==
  /\ phase = "line" /\ phase' = "done"
  /\ result' = DecodePacket(wire)
  /\ UNCHANGED <<form, unit, cals, wire, blurred>>

Init ==
  /\ phase = "compose" /\ form = "unit" /\ unit = 0 /\ cals = <<>> /\ wire = <<>>
  /\ blurred = 0 /\ result = [unit |-> NoUnit, cals |-> <<>>]

Next ==
  \/ \E c \in Cals : AppendCal(c)
  \/ \E u \in Units : Encode("unit", u, <<>>)
  \/ \E u \in Units, hops \in Bridges : Encode("bridged", u, hops)
  \/ Encode("direct", NoUnit, <<>>)
  \/ \E slot \in 1..2, half \in {0, 1}, by \in Blurs : Blur(slot, half, by)
  \/ Decode

Spec == Init /\ [][Next]_vars

-----------------------------------------------------------------------------
(* Properties *)

TypeOK ==
  /\ phase \in {"compose", "line", "done"} /\ form \in {"unit", "bridged", "direct"}
  /\ unit \in Byte \cup {NoUnit} /\ cals \in Seq(Cals) /\ wire \in Seq(Byte)
  /\ result.unit \in Byte \cup {NoUnit}

\* The length of c fits the five bits it has in the CAL's header.
Fits(c) == c.kind = "extended" => ReportLength(c) < 32
AllFit == \A i \in DOMAIN cals : Fits(cals[i])

\* The way to the unit is one the library takes: not over a bridge 0.
GoodWay == form = "bridged" => wire[3] # 0

\* What was sent, as the client should have it.
AsSent(u) == [unit |-> u, cals |-> [i \in DOMAIN cals |-> Learnt(cals[i])]]

\* The client learns the CALs that were sent to a unit, directly or over
\* bridges, all of them and in order: no CAL eats into the next one.  CALs whose
\* reports fit, that is; packets over a bridge 0 are refused.
RoundTrip ==
  phase = "done" /\ blurred = 0 /\ form # "direct" /\ AllFit =>
    result = IF GoodWay THEN AsSent(unit) ELSE Refused

\* A blurred level never passes for another level of a different group:
\* every other group of the report keeps its level, and the CALs after it.
NoiseStaysLocal ==
  phase = "done" /\ blurred # 0 /\ AllFit =>
    /\ Len(result.cals) = Len(cals)
    /\ \A i \in DOMAIN cals \ {1} : result.cals[i] = Learnt(cals[i])
    /\ Len(result.cals[1].slots) = Len(cals[1].slots)
    /\ \A k \in DOMAIN cals[1].slots \ {blurred} :
         result.cals[1].slots[k] = cals[1].slots[k]

\* A PCI sent a packet without an address, whose first CAL is of this kind, and
\* the client decoded it.
DirectDone(kind) == phase = "done" /\ form = "direct" /\ cals[1].kind = kind /\ AllFit

\* A PCI's own reply, sent without an address, is understood with whatever CALs
\* follow it, if its header does not read like an address type: one of length 3,
\* 5, 6, 11, 13, 14, 19, 21, 22, 27, 29 or 30 does.
DirectReplies ==
  DirectDone("reply") /\ ~IsAddressed(wire[1]) => result = AsSent(0)

\* The code does not keep the next three (README, "Where the code departs"):
\* Every report the library encodes is learnt, also one that is too long for the
\* length field.
AnyReportLearnt ==
  phase = "done" /\ blurred = 0 /\ form = "unit" => result = AsSent(unit)

\* "the "flags" byte is really a CAL header (REPLY 0x80-0x9F, ...)": every reply
\* without an address is understood, whatever its length.
AnyDirectReply == DirectDone("reply") => result = AsSent(0)

\* "the "flags" byte is really a CAL header (REPLY 0x80-0x9F, ... or
\* EXTENDED_STATUS 0xE0-0xFF). Decode the entire data as CAL."
DirectReports == DirectDone("extended") /\ ~IsAddressed(wire[1]) => result = AsSent(0)

\* The code does not keep this one (README, "Where the code departs"):
\* "0xAAAA => Level 0xFF (full on)"
DocumentedFullOn ==
  phase = "line" /\ form = "unit" /\ cals[1].kind = "extended"
    /\ cals[1].report = "level" /\ wire[9] = 170 /\ wire[10] = 170
  => cals[1].slots[1] = 255
=============================================================================
