----------------------------- MODULE MCPyCodec -----------------------------
(***************************************************************************)
(* What the Python sources put on a wire or read off it, side by side: the *)
(* point-to-multipoint codec (extended here), the CAL codec, and the       *)
(* scripted PCI of the behavioural harness.  They share no variable;       *)
(* `scenario` says which one a behaviour exercises, and the others rest in *)
(* their initial states.                                                   *)
(***************************************************************************)
EXTENDS PyCodec

CONSTANTS p1, p2, h, i, NoCode

VARIABLES
  scenario,
  calPhase, form, unit, cals, calWire, blurred, calResult,
  stream, pciSent, buf, frames, withheld, seen, answers

MCSals ==
  {LightSal("on", 56, 1), LightSal("off", 57, 255), LightSal("stop", 56, 0),
   RampSal(56, 1, 0, 128), RampSal(56, 255, 5, 0), RampSal(56, 2, 1020, 255),
   TimeSal(23, 59, 0), DateSal(2024, 2, 29), ClockRequestSal,
   TemperatureSal(3, 0), TemperatureSal(3, 173), TemperatureSal(255, 510),
   EnableSal(0, 255), EnableSal(121, 1),
   StatusSal(TRUE, 56, 33), StatusSal(FALSE, 122, 255)}

\* A stray byte, an unknown command, a ramp without its level, a clock
\* command without its argument, an unknown clock variable and a request.
MCTails == {<<>>, <<121>>, <<200, 1>>, <<10, 1>>, <<17>>, <<9, 7, 17, 3>>}

\* The constructors of CALs, which need none of the parameters.
Make == INSTANCE PyCal WITH
  Cals <- {}, Units <- {}, Bridges <- {}, Blurs <- {}, MaxCals <- 1,
  phase <- calPhase, wire <- calWire, result <- calResult

Zeros(n) == [k \in 1..n |-> 0]
MCCals ==
  {Make!Identify(1), Make!Identify(255), Make!Recall(33, 8),
   Make!Reply(1, <<>>), Make!Reply(4, <<65, 66>>), Make!Reply(33, Zeros(30)),
   Make!Reply(2, Zeros(31)),
   Make!Extended(FALSE, 56, 0, "binary", <<1, 2, 0, 3, 1>>),
   Make!Extended(TRUE, 57, 88, "binary", Zeros(112)),
   Make!Extended(TRUE, 56, 32, "level", <<0, 255>>),
   Make!Extended(FALSE, 255, 224, "level", <<Make!Missing, 87>>),
   Make!Extended(FALSE, 56, 0, "level", [k \in 1..16 |-> 85])}

Cal == INSTANCE PyCal WITH
  Cals <- MCCals, Units <- {0, 4, 255},
  Bridges <- {<<1>>, <<1, 7>>, <<255, 7, 0, 9, 10, 11>>, <<0, 7>>}, Blurs <- {0, 5, 7, 10},
  MaxCals <- 3, phase <- calPhase, wire <- calWire, result <- calResult

FakePci == INSTANCE PyFakePci WITH
  Payload <- {p1, p2}, Code <- {h, i}, Withhold <- TRUE, MaxCommands <- 3,
  sent <- pciSent

ASSUME PyCodecAssumption /\ Cal!PyCalAssumption
ASSUME FakePci!FakePciAssumption

calVars == <<calPhase, form, unit, cals, calWire, blurred, calResult>>
fakePciVars == <<stream, pciSent, buf, frames, withheld, seen, answers>>
codecVars == <<scenario, vars, calVars, fakePciVars>>

CodecInit ==
  /\ scenario \in {"multipoint", "cal", "pci"}
  /\ Init /\ Cal!Init /\ FakePci!Init

CodecNext ==
  \/ scenario = "multipoint" /\ Next
       /\ UNCHANGED <<scenario, calVars, fakePciVars>>
  \/ scenario = "cal" /\ Cal!Next
       /\ UNCHANGED <<scenario, vars, fakePciVars>>
  \/ scenario = "pci" /\ FakePci!Next
       /\ UNCHANGED <<scenario, vars, calVars>>

CodecSpec == CodecInit /\ [][CodecNext]_codecVars

-----------------------------------------------------------------------------

\* A receiver learns the messages and CALs that were sent, all and in order:
\* multipoint, to a unit, over bridges (over a bridge 0 nothing), and in a reply
\* without an address whose header does not read like one; none eats into the
\* next, while reports fit the length field; a ramp is never faster than it
\* was asked to be; bytes a unit appends never change the messages before them,
\* and a level blurred on the wire leaves every other group of the report and
\* every later CAL as sent (packet.py, pm_packet.py, pp_packet.py, application/,
\* cal/).
PacketsUnderstood ==
  /\ scenario = "multipoint" =>
       TypeOK /\ RoundTrip /\ NeverFasterThanAsked /\ TailKeepsMessages
  /\ scenario = "cal" =>
       Cal!TypeOK /\ Cal!RoundTrip /\ Cal!DirectReplies /\ Cal!NoiseStaysLocal

\* Wherever TCP cuts the stream, the scripted PCI records the commands sent,
\* once each and in order; it leaves the withheld frame and its repeats
\* unanswered and answers every other confirmed frame once (wire.py, fake_pci.py).
ScriptedPciExact ==
  scenario = "pci" => FakePci!CutsDoNotShow /\ FakePci!OnlyOneWithheld
=============================================================================
