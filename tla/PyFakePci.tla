----------------------------- MODULE PyFakePci -----------------------------
(***************************************************************************)
(* FakePCI of the behavioural harness                                      *)
(* (rust-migration-harness/lib/fake_pci.py) with the framing of lib/wire.py:*)
(* the scripted PCI both daemons are compared against.  It records what the *)
(* client sends, confirms it, and may withhold the confirmation of the     *)
(* first confirmed frame to provoke retransmissions.                       *)
(*                                                                         *)
(* TCP cuts the client's bytes anywhere; a byte string without a CR or ~ is *)
(* one token here, since where it is cut changes nothing.                  *)
(***************************************************************************)
EXTENDS Integers, Sequences, SequencesExt

CONSTANTS
  Payload,      \* what frames say
  Code,         \* confirmation codes
  NoCode,       \* a frame without one
  Withhold,     \* withhold_first_conf
  MaxCommands   \* bound: commands the client sends

FakePciAssumption ==
  Withhold \in BOOLEAN /\ MaxCommands \in Nat /\ NoCode \notin Code

CR == <<"cr">>
Tilde == <<"reset">>
Smart == <<"smart">>
Frame == {<<"frame", p, c>> : p \in Payload, c \in Code \cup {NoCode}}
Commands == Frame \cup {Tilde, Smart}

VARIABLES
  stream,    \* tokens on their way
  sent,      \* history: the client's commands
  buf,       \* _on_client's buffer
  frames,    \* FakePCI.frames
  withheld,  \* _withheld: a frame, or <<>>
  seen,      \* withheld_seen
  answers    \* history: the frames confirmed

vars == <<stream, sent, buf, frames, withheld, seen, answers>>

\* The client terminates its commands with CR; a reset may come without.
SendCommand(cmd, bare) ==
  /\ Len(sent) < MaxCommands /\ (bare => cmd = Tilde)
  /\ sent' = Append(sent, cmd)
  /\ stream' = stream \o (IF bare THEN <<cmd>> ELSE <<cmd, CR>>)
  /\ UNCHANGED <<buf, frames, withheld, seen, answers>>

\* The ClientFrames of a chunk: one for every ~ it starts with, then one for the
\* command after them.
OfChunk(chunk) ==
  LET command == SelectInSeq(chunk, LAMBDA t : t # Tilde)
      resets == IF command = 0 THEN Len(chunk) ELSE command - 1
  IN [i \in 1..resets |-> Tilde] \o
     (IF command = 0 THEN <<>> ELSE <<chunk[command]>>)

\* split_client_frames: the frames of a buffer and what stays in it.
Split[data \in Seq(Commands \cup {CR})] ==
  LET cr == SelectInSeq(data, LAMBDA t : t = CR)
  IN IF cr = 0
     THEN IF data = <<Tilde>> THEN [frames |-> data, rest |-> <<>>]
          ELSE [frames |-> <<>>, rest |-> data]
     ELSE LET more == Split[SubSeq(data, cr + 1, Len(data))]
          IN [frames |-> (IF cr = 1 THEN <<>> ELSE OfChunk(SubSeq(data, 1, cr - 1)))
                        \o more.frames,
              rest |-> more.rest]

Confirmed(f) == f[1] = "frame" /\ f[3] # NoCode

\* Mutant of Withheld: another frame with the same payload counts as a repeat.
WithheldByPayload(held, f) == held # <<>> /\ held[2] = f[2]

\* The exact same frame again.
Withheld(held, f) == held = f

\* _handle_frame, one frame after another.
HandleFrame(s, f) ==
  IF ~Confirmed(f) THEN s
  ELSE CASE Withhold /\ s.held = <<>> -> [s EXCEPT !.held = f, !.seen = 1]
         [] s.held # <<>> /\ Withheld(s.held, f) -> [s EXCEPT !.seen = @ + 1]
         [] OTHER -> [s EXCEPT !.answers = Append(@, f)]

\* _on_client: one read of n tokens.
Receive(n) ==
  /\ n \in 1..Len(stream)
  /\ LET split == Split[buf \o SubSeq(stream, 1, n)]
         s == FoldLeft(HandleFrame, [held |-> withheld, seen |-> seen, answers |-> answers],
                       split.frames)
     IN /\ frames' = frames \o split.frames /\ buf' = split.rest
        /\ withheld' = s.held /\ seen' = s.seen /\ answers' = s.answers
  /\ stream' = SubSeq(stream, n + 1, Len(stream))
  /\ UNCHANGED sent

Init ==
  /\ stream = <<>> /\ sent = <<>> /\ buf = <<>> /\ frames = <<>>
  /\ withheld = <<>> /\ seen = 0 /\ answers = <<>>

Done == Len(sent) = MaxCommands /\ stream = <<>> /\ UNCHANGED vars

Next ==
  \/ \E cmd \in Commands, bare \in BOOLEAN : SendCommand(cmd, bare)
  \/ \E n \in 1..Len(stream) : Receive(n)
  \/ Done

Spec == Init /\ [][Next]_vars

-----------------------------------------------------------------------------
(* Properties *)

\* Wherever TCP cuts the stream, the frames recorded are the commands sent, once
\* each and in order; only resets whose CR is missing may still be buffered.
CutsDoNotShow ==
  stream = <<>> => frames \o SelectSeq(buf, LAMBDA t : t # CR) = sent

\* A client that sends the withheld frame again gets no answer to it, and every
\* other confirmed frame is answered once, in order, even one that says the
\* same under another code.
OnlyOneWithheld ==
  LET due == SelectSeq(frames, LAMBDA f : Confirmed(f))
  IN /\ answers = IF Withhold /\ due # <<>> THEN SelectSeq(due, LAMBDA f : f # due[1])
                  ELSE due
     /\ seen = Len(due) - Len(answers)

=============================================================================
