------------------------------ MODULE PyCodec ------------------------------
(***************************************************************************)
(* Point-to-multipoint packets of the Python protocol library: building,   *)
(* encoding and decoding application messages (SALs).                      *)
(*   cbus/common.py            ramp rates and checksum                     *)
(*   cbus/protocol/base_packet.py, pm_packet.py, packet.py                 *)
(*   cbus/protocol/application/*.py                                        *)
(*                                                                         *)
(* A packet is composed SAL by SAL, encoded, carried over a line that may  *)
(* change one byte or by a unit that appends bytes of its own, and decoded.*)
(* Bytes are 0..255; base16 and the line framing are in PyFraming.  An     *)
(* exception while decoding makes the packet invalid (decode_packet).      *)
(***************************************************************************)
EXTENDS Integers, Sequences, SequencesExt

CONSTANTS
  Sals,        \* messages a sender composes
  Sources,     \* unit addresses events come from
  Noise,       \* what a byte is changed by
  Tails,       \* byte sequences a unit may append to its messages
  MaxSals      \* messages in one packet

Byte == 0..255
Temperature == 25      \* 0x19
Lighting == 48..95     \* 0x30..0x5f
Enable == 203          \* 0xcb
Clock == 223           \* 0xdf
StatusRequest == 255   \* 0xff

-----------------------------------------------------------------------------
(* common.py *)

\* _LIGHT_RAMP_RATES: sixteen durations; the codes are 0x02, 0x0a, ... 0x7a.
Durations == <<0, 4, 8, 12, 20, 30, 40, 60, 90, 120, 180, 300, 420, 600, 900, 1020>>
RampCode(i) == 8 * (i - 1) + 2

\* duration_to_ramp_rate: the shortest ramp that is long enough, or the slowest.
DurationToRampRate(seconds) ==
  LET enough == {i \in 1..16 : seconds <= Durations[i]}
  IN IF enough = {} THEN RampCode(16)
     ELSE RampCode(CHOOSE i \in enough : \A j \in enough : i <= j)

\* ramp_rate_to_duration
RampRateToDuration(code) == Durations[((code - 2) \div 8) + 1]
IsRamp(code) == code % 8 = 2 /\ code \in 2..122

\* The sum of the first i bytes, for every i.
Sums(bytes) ==
  LET upto[i \in 0..Len(bytes)] == IF i = 0 THEN 0 ELSE upto[i - 1] + bytes[i]
  IN upto
Total(bytes) == Sums(bytes)[Len(bytes)]

\* Mutant of Checksum: the sum is masked with 0x7f.
ChecksumMasked(bytes) == (256 - (Total(bytes) % 128)) % 256

\* cbus_checksum
Checksum(bytes) == (256 - (Total(bytes) % 256)) % 256

\* add_cbus_checksum
AddChecksum(bytes) == Append(bytes, Checksum(bytes))

\* validate_cbus_checksum
ValidChecksum(bytes) == bytes[Len(bytes)] = Checksum(Front(bytes))

-----------------------------------------------------------------------------
(* application/*.py: messages as records with a kind and an application *)

LightSal(kind, app, group) == [kind |-> kind, app |-> app, group |-> group]
RampSal(app, group, duration, level) ==
  [kind |-> "ramp", app |-> app, group |-> group, duration |-> duration, level |-> level]
TimeSal(h, m, s) == [kind |-> "time", app |-> Clock, h |-> h, m |-> m, s |-> s]
DateSal(y, m, d) == [kind |-> "date", app |-> Clock, y |-> y, m |-> m, d |-> d]
ClockRequestSal == [kind |-> "clock?", app |-> Clock]
\* Temperatures are in eighths of a degree.
TemperatureSal(group, t) ==
  [kind |-> "temperature", app |-> Temperature, group |-> group, t |-> t]
EnableSal(variable, value) ==
  [kind |-> "enable", app |-> Enable, variable |-> variable, value |-> value]
StatusSal(level, child, group) ==
  [kind |-> "status", app |-> StatusRequest, level |-> level, child |-> child,
   group |-> group]

\* The messages that encode() accepts are among these: other values are refused or
\* do not fit their bytes.  Which months have 31 days is datetime.date's business.
Sal ==
       [kind : {"on", "off", "stop"}, app : Lighting, group : Byte]
  \cup [kind : {"ramp"}, app : Lighting, group : Byte, duration : Nat, level : Byte]
  \cup [kind : {"time"}, app : {Clock}, h : 0..23, m : 0..59, s : 0..59]
  \cup [kind : {"date"}, app : {Clock}, y : 1..9999, m : 1..12, d : 1..31]
  \cup [kind : {"clock?"}, app : {Clock}]
  \cup [kind : {"temperature"}, app : {Temperature}, group : Byte, t : 0..510]
  \cup [kind : {"enable"}, app : {Enable}, variable : Byte, value : Byte]
  \cup [kind : {"status"}, app : {StatusRequest}, level : BOOLEAN, child : Byte,
        group : Byte]

PyCodecAssumption ==
  /\ Sals \subseteq Sal /\ Sources \subseteq Byte /\ Noise \subseteq 1..255
  /\ Tails \subseteq Seq(Byte) /\ MaxSals \in Nat \ {0}

\* The day of the week that ClockUpdateSAL.encode adds and decode ignores.
Weekday == 0

\* encode() of the SAL classes, application by application.
EncodeLighting(s) ==
  CASE s.kind = "on" -> <<121, s.group>>
    [] s.kind = "off" -> <<1, s.group>>
    [] s.kind = "stop" -> <<9, s.group>>
    [] s.kind = "ramp" -> <<DurationToRampRate(s.duration), s.group, s.level>>

EncodeClock(s) ==
  CASE s.kind = "time" -> <<13, 1, s.h, s.m, s.s, 255>>
    [] s.kind = "date" -> <<14, 2, s.y \div 256, s.y % 256, s.m, s.d, Weekday>>
    [] s.kind = "clock?" -> <<17, 3>>

EncodeTemperature(s) == <<2, s.group, s.t \div 2>>

EncodeEnable(s) == <<2, s.variable, s.value>>

EncodeStatus(s) ==
  (IF s.level THEN <<115, 7>> ELSE <<122>>) \o <<s.child, 32 * (s.group \div 32)>>

EncodeSal(s) ==
  CASE s.app \in Lighting -> EncodeLighting(s)
    [] s.app = Clock -> EncodeClock(s)
    [] s.app = Temperature -> EncodeTemperature(s)
    [] s.app = Enable -> EncodeEnable(s)
    [] s.app = StatusRequest -> EncodeStatus(s)

\* What a receiver learns of a SAL: the wire rounds a ramp's duration up, a
\* temperature down to a quarter, and a status request to its block.
Learnt(s) ==
  CASE s.kind = "ramp" ->
         [s EXCEPT !.duration = RampRateToDuration(DurationToRampRate(@))]
    [] s.kind = "temperature" -> [s EXCEPT !.t = 2 * (@ \div 2)]
    [] s.kind = "status" -> [s EXCEPT !.group = 32 * (@ \div 32)]
    [] OTHER -> s

-----------------------------------------------------------------------------
(* Decoders: a decoded message list, or Invalid for an exception *)

Invalid == <<[kind |-> "invalid", app |-> 0]>>

\* The messages of a loop that goes on; an exception loses them all.
Then(first, rest) == IF rest = Invalid THEN Invalid ELSE first \o rest

\* data[i - 1:]
From(data, i) == SubSeq(data, i, Len(data))

\* LightingSAL.decode_sals with the decode of its classes.  A stray byte or an
\* unknown command ends the loop; a ramp without a level yields nothing.
LightingSals(app) ==
  LET decode[data \in Seq(Byte)] ==
        IF Len(data) < 2 THEN <<>>
        ELSE LET one(kind) == <<LightSal(kind, app, data[2])>> \o decode[From(data, 3)]
             IN CASE data[1] = 121 -> one("on")
                  [] data[1] = 1 -> one("off")
                  [] data[1] = 9 -> one("stop")
                  [] IsRamp(data[1]) /\ Len(data) > 2 ->
                       <<RampSal(app, data[2], RampRateToDuration(data[1]), data[3])>>
                         \o decode[From(data, 4)]
                  [] OTHER -> <<>>
  IN decode

\* TemperatureSAL.decode_sals
TemperatureSals[data \in Seq(Byte)] ==
  IF Len(data) < 3 \/ data[1] >= 128 \/ data[1] % 8 # 2 THEN <<>>
  ELSE <<TemperatureSal(data[2], 2 * data[3])>> \o TemperatureSals[From(data, 4)]

\* EnableSAL.decode_sals
EnableSals[data \in Seq(Byte)] ==
  IF Len(data) < 3 \/ data[1] >= 128 \/ data[1] % 8 # 2 THEN <<>>
  ELSE <<EnableSal(data[2], data[3])>> \o EnableSals[From(data, 4)]

\* StatusRequestSAL.decode_sals
StatusSals[data \in Seq(Byte)] ==
  LET level == Len(data) > 1 /\ data[1] = 115 /\ data[2] = 7
      rest == From(data, IF level THEN 3 ELSE 2)
  IN IF data = <<>> THEN <<>>
     ELSE IF (data[1] \notin {122, 250} /\ ~level) \/ Len(rest) < 2 \/ rest[2] % 32 # 0
     THEN Invalid
     ELSE Then(<<StatusSal(level, rest[1], rest[2])>>, StatusSals[From(rest, 3)])

\* The days datetime.date accepts.
DaysIn(y, m) ==
  CASE m = 2 -> IF (y % 4 = 0 /\ y % 100 # 0) \/ y % 400 = 0 THEN 29 ELSE 28
    [] m \in {4, 6, 9, 11} -> 30
    [] OTHER -> 31

\* ClockUpdateSAL.decode after the command byte: the message, and how many
\* bytes are skipped.  An unknown variable is skipped twice.
ClockUpdate(data, n) ==
  LET variable == data[1]
  IN CASE variable = 2 /\ n # 6 -> [sals |-> <<>>, skip |-> n]
       [] variable = 1 /\ n # 5 -> [sals |-> <<>>, skip |-> n]
       [] variable = 2 /\ n = 6 ->
            LET year == 256 * data[2] + data[3]
            IN [sals |-> IF /\ Len(data) >= 6 /\ year \in 1..9999 /\ data[4] \in 1..12
                            /\ data[5] \in 1..DaysIn(year, data[4])
                         THEN <<DateSal(year, data[4], data[5])>> ELSE Invalid,
                skip |-> 6]
       [] variable = 1 /\ n = 5 ->
            [sals |-> IF Len(data) >= 5 /\ data[2] < 24 /\ data[3] < 60 /\ data[4] < 60
                      THEN <<TimeSal(data[2], data[3], data[4])>> ELSE Invalid,
             skip |-> 5]
       [] OTHER -> [sals |-> <<>>, skip |-> 2 * n]

\* ClockSAL.decode_sals: short forms only; a command without its argument
\* raises.
ClockSals[data \in Seq(Byte)] ==
  IF data = <<>> THEN <<>>
  ELSE CASE data[1] \in 8..15 ->
              IF Len(data) = 1 THEN Invalid
              ELSE LET u == ClockUpdate(Tail(data), data[1] % 8)
                   IN IF u.sals = Invalid THEN Invalid
                      ELSE Then(u.sals, ClockSals[From(data, 2 + u.skip)])
         [] data[1] = 17 ->
              IF Len(data) = 1 THEN Invalid
              ELSE Then(IF data[2] = 3 THEN <<ClockRequestSal>> ELSE <<>>,
                        ClockSals[From(data, 3)])
         [] OTHER -> <<>>

\* get_application and the decode_sals it finds.
DecodeSals(app, data) ==
  CASE app \in Lighting -> LightingSals(app)[data]
    [] app = Temperature -> TemperatureSals[data]
    [] app = Enable -> EnableSals[data]
    [] app = Clock -> ClockSals[data]
    [] app = StatusRequest -> StatusSals[data]
    [] OTHER -> Invalid

-----------------------------------------------------------------------------
(* Packets *)

NoSource == 256
PointToMultipoint == 5   \* flags of a class 4 packet, without dp

\* The first i messages of a packet one after another, for every i.
Encoded(sals) ==
  LET upto[i \in 0..Len(sals)] ==
        IF i = 0 THEN <<>> ELSE upto[i - 1] \o EncodeSal(sals[i])
  IN upto

\* PointToMultipointPacket.encode with BasePacket.encode; `extra` are bytes a
\* unit appends to its messages.
EncodePacket(source, sals, extra) ==
  AddChecksum(<<PointToMultipoint>>
                \o (IF source = NoSource THEN <<>> ELSE <<source>>)
                \o <<sals[1].app, 0>>
                \o Encoded(sals)[Len(sals)]
                \o extra)

\* decode_packet, strict, for the packets of this module, with
\* PointToMultipointPacket.decode_packet.  Source address 0 counts as none.
DecodePacket(bytes, fromPci) ==
  LET data == Front(bytes)
      at == IF fromPci THEN 3 ELSE 2
  IN IF ~ValidChecksum(bytes) \/ data = <<>> \/ data[1] # PointToMultipoint
        \/ Len(data) < at + 1 \/ data[at + 1] # 0
     THEN [source |-> NoSource, sals |-> Invalid]
     ELSE [source |-> IF fromPci /\ data[2] # 0 THEN data[2] ELSE NoSource,
           sals |-> DecodeSals(data[at], From(data, at + 2))]

VARIABLES
  phase,     \* "compose" | "line" | "done"
  source,    \* the packet's source address, NoSource from a client
  sals,      \* the packet's messages
  extra,     \* bytes appended after them
  wire,      \* the encoded packet
  noisy,     \* a byte was changed on the line
  result     \* what the receiver decoded

vars == <<phase, source, sals, extra, wire, noisy, result>>

\* Mutant of AppendSal: packets may mix applications.
AppendSalAny(s) ==
  /\ phase = "compose" /\ Len(sals) < MaxSals
  /\ sals' = Append(sals, s)
  /\ UNCHANGED <<phase, source, extra, wire, noisy, result>>

\* append_sal: the first message fixes the application, one of another is
\* refused.
AppendSal(s) ==
  /\ phase = "compose" /\ Len(sals) < MaxSals
  /\ \A i \in DOMAIN sals : s.app = sals[i].app
  /\ sals' = Append(sals, s)
  /\ UNCHANGED <<phase, source, extra, wire, noisy, result>>

\* encode of a packet from a client, or from a unit through the PCI.
Encode(from, tail) ==
  /\ phase = "compose" /\ sals # <<>> /\ phase' = "line"
  /\ source' = from /\ extra' = tail
  /\ wire' = EncodePacket(from, sals, tail)
  /\ UNCHANGED <<sals, noisy, result>>

\* The line changes a byte.
Disturb(i, by) ==
  /\ phase = "line" /\ ~noisy /\ noisy' = TRUE
  /\ wire' = [wire EXCEPT ![i] = (@ + by) % 256]
  /\ UNCHANGED <<phase, source, sals, extra, result>>

Decode ==
  /\ phase = "line" /\ phase' = "done"
  /\ result' = DecodePacket(wire, source # NoSource)
  /\ UNCHANGED <<source, sals, extra, wire, noisy>>

Init ==
  /\ phase = "compose" /\ source = NoSource /\ sals = <<>> /\ extra = <<>>
  /\ wire = <<>> /\ noisy = FALSE
  /\ result = [source |-> NoSource, sals |-> <<>>]

Next ==
  \/ \E s \in Sals : AppendSal(s)
  \/ \E from \in Sources \cup {NoSource}, tail \in Tails : Encode(from, tail)
  \/ \E i \in DOMAIN wire, by \in Noise : Disturb(i, by)
  \/ Decode

Spec == Init /\ [][Next]_vars

-----------------------------------------------------------------------------
(* Properties *)

Received == phase = "done" /\ result.sals # Invalid
Clean == phase = "done" /\ ~noisy /\ extra = <<>>
SourceOf(from) == IF from = 0 THEN NoSource ELSE from

\* Every encoded byte fits a byte, and decoding is total: it ends with
\* messages of the packet's application or with Invalid.
TypeOK ==
  /\ phase \in {"compose", "line", "done"} /\ source \in Byte \cup {NoSource}
  /\ sals \in Seq(Sals) /\ extra \in Tails /\ wire \in Seq(Byte)
  /\ noisy \in BOOLEAN
  /\ result.source \in Byte \cup {NoSource}
  /\ Received => \A i \in DOMAIN result.sals : result.sals[i].app = sals[1].app

\* What was composed is what the receiver learns, message by message and in
\* order, whichever mix of messages one packet carries.
RoundTrip ==
  Clean => result = [source |-> SourceOf(source),
                     sals |-> [i \in DOMAIN sals |-> Learnt(sals[i])]]

\* A ramp never becomes shorter on the wire, and the slowest is the only one
\* that is cut: a light fades at least as long as it was asked to.
NeverFasterThanAsked ==
  Clean => \A i \in DOMAIN sals :
    sals[i].kind = "ramp" =>
      result.sals[i].duration >= (IF sals[i].duration > 1020 THEN 1020 ELSE sals[i].duration)

\* One changed byte never yields messages: the checksum catches it.
NoiseIsRefused == phase = "done" /\ noisy => result.sals = Invalid

\* Inductive: on the line, a packet's bytes add up to 0 unless one was changed.
NoiseInv ==
  /\ sals \in Seq(Sals) /\ noisy \in BOOLEAN
  /\ phase \in {"compose", "line", "done"} /\ (phase = "compose" => ~noisy)
  /\ phase = "line" => /\ wire \in Seq(Byte) /\ wire # <<>>
                       /\ Total(wire) % 256 = 0 <=> ~noisy
  /\ NoiseIsRefused

\* Bytes a unit appends never change the messages before them; at worst the
\* whole packet is refused.
TailKeepsMessages ==
  Received /\ ~noisy => IsPrefix([i \in DOMAIN sals |-> Learnt(sals[i])], result.sals)

\* The code does not keep this one (README, "Where the code departs"):
\* "Durations longer than this will throw an error": no ramp of more than 1020
\* seconds is encoded.
LongRampsRefused ==
  phase # "compose" => \A i \in DOMAIN sals :
    sals[i].kind = "ramp" => sals[i].duration <= 1020

\* The code does not keep this one (README, "Where the code departs"):
\* "attempt to skip the bad data and recover": a message after an unknown
\* clock variable (8 + n, a number above 2, n - 1 bytes) is decoded.
UnknownVariableSkipped ==
  Received /\ ~noisy /\ sals[1].app = Clock /\ extra = <<9, 7, 17, 3>>
    => Len(result.sals) = Len(sals) + 1
=============================================================================
