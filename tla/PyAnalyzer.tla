----------------------------- MODULE PyAnalyzer -----------------------------
(***************************************************************************)
(* PacketAnalyzer (python-legacy/cbus-proxy/proxy.py): the packet and      *)
(* error counters and the confirmation map, fed with the commands of the   *)
(* proxy's clients and the answers of the CNI.  Each client chooses its    *)
(* confirmation codes by itself, and a command is analysed before the      *)
(* proxy forwards it, or drops it because the CNI is gone.  The number of  *)
(* a packet stands for the time at which the map says a command was sent.  *)
(***************************************************************************)
EXTENDS Integers, Sequences

CONSTANTS
  Client, Code,
  Packets,     \* bound: packets analysed
  NoRecord

\* What a client sends: on, off and ramp commands, status requests and other SALs
\* with a code, anything else that decodes, what decode_packet discards (null, `?`
\* and empty lines), and what does not decode.
Kind == {"lighting", "status_request", "other", "uncoded", "discarded", "invalid"}
\* ... and the CNI.
Event == {"error", "report", "discarded", "invalid"}

AnalyzerAssumption == Packets \in Nat /\ NoRecord \notin Kind \X Client \X Nat

VARIABLES
  packets,   \* packet_count
  errors,    \* error_count
  map,       \* confirmation_map: code -> the command, its client and number, if any
  sent,      \* commands at the CNI, oldest first: <<number, code, kind, client>>
  latest,    \* history: the last recorded command of a code, 0 for none
  confirmed, \* history: the commands the CNI has confirmed
  clashed,   \* history: codes that were used again before their confirmation
  undecoded, \* history: packets that were discarded or did not decode
  shown      \* the last "Confirms:" line with the command it was really for

vars == <<packets, errors, map, sent, latest, confirmed, clashed, undecoded, shown>>

\* _analyze_sal records a command that carries a code, for these SALs.
Recorded(k) == k \in {"lighting", "status_request"}

\* Packets that carry a confirmation code to the CNI.
HasCode(k) == Recorded(k) \/ k = "other"

\* Every packet is counted; an error is a PCI error or an invalid packet.  A
\* packet that decode_packet discards is shown as a failure and not counted.
CountPacket(k) ==
  /\ packets < Packets /\ packets' = packets + 1
  /\ errors' = IF k \in {"error", "invalid"} THEN errors + 1 ELSE errors
  /\ undecoded' = IF k \in {"discarded", "invalid"} THEN undecoded + 1 ELSE undecoded

AtCni(code) == \E i \in DOMAIN sent : sent[i][2] = code

\* analyze_packet for a client's packet, which the proxy then forwards if it can.
FromClient(c, k, code, forwarded) ==
  /\ CountPacket(k)
  /\ map' = IF Recorded(k) THEN [map EXCEPT ![code] = <<k, c, packets'>>] ELSE map
  /\ latest' = IF Recorded(k) THEN [latest EXCEPT ![code] = packets'] ELSE latest
  /\ sent' = IF HasCode(k) /\ forwarded THEN Append(sent, <<packets', code, k, c>>) ELSE sent
  /\ clashed' = IF HasCode(k) /\ (AtCni(code) \/ map[code] # NoRecord)
                THEN clashed \cup {code} ELSE clashed
  /\ UNCHANGED <<confirmed, shown>>

\* Mutant of FromCniConfirmation: the entry is kept.
FromCniConfirmationKeeps(i) ==
  /\ CountPacket("confirmation")
  /\ LET cmd == sent[i]
         r == map[cmd[2]]
     IN /\ shown' = IF r = NoRecord THEN <<>> ELSE <<r, <<cmd[3], cmd[4], cmd[1]>>>>
        /\ confirmed' = confirmed \cup {cmd[1]}
  /\ sent' = SubSeq(sent, i + 1, Len(sent))
  /\ UNCHANGED <<map, latest, clashed>>

\* The CNI confirms its oldest command, or a later one after it lost those
\* before: the map's entry is shown and deleted.
FromCniConfirmation(i) ==
  /\ CountPacket("confirmation")
  /\ LET cmd == sent[i]
         r == map[cmd[2]]
     IN /\ shown' = IF r = NoRecord THEN <<>> ELSE <<r, <<cmd[3], cmd[4], cmd[1]>>>>
        /\ map' = [map EXCEPT ![cmd[2]] = NoRecord]
        /\ confirmed' = confirmed \cup {cmd[1]}
  /\ sent' = SubSeq(sent, i + 1, Len(sent))
  /\ UNCHANGED <<latest, clashed>>

FromCni(e) ==
  /\ CountPacket(e)
  /\ UNCHANGED <<map, sent, latest, confirmed, clashed, shown>>

Init ==
  /\ packets = 0 /\ errors = 0 /\ sent = <<>> /\ undecoded = 0 /\ shown = <<>>
  /\ map = [code \in Code |-> NoRecord] /\ latest = [code \in Code |-> 0]
  /\ confirmed = {} /\ clashed = {}

\* The bound is reached.
Done == packets = Packets /\ UNCHANGED vars

Next ==
  \/ \E c \in Client, k \in Kind, code \in Code, forwarded \in BOOLEAN :
       FromClient(c, k, code, forwarded)
  \/ \E i \in DOMAIN sent : FromCniConfirmation(i)
  \/ \E e \in Event : FromCni(e)
  \/ Done

Spec == Init /\ [][Next]_vars

-----------------------------------------------------------------------------
(* Properties *)

\* No command the summary lists has been confirmed, however clients share codes:
\* what is listed is the last command recorded under its code.
ListedIsUnconfirmed ==
  \A code \in Code : map[code] # NoRecord =>
    map[code][3] = latest[code] /\ map[code][3] \notin confirmed

\* A command is listed until it is confirmed, or replaced by a later one with its
\* code, as long as the code is not used again before its confirmation.
UnconfirmedIsListed ==
  \A code \in Code \ clashed :
    latest[code] # 0 /\ latest[code] \notin confirmed => map[code] # NoRecord

\* The inductive invariant: a command at the CNI is not the last recorded one of
\* another code, and under a code that did not clash no other waits.
AnalyzerInv ==
  /\ packets \in Nat /\ DOMAIN map = Code
  /\ latest \in [Code -> 0..packets] /\ confirmed \subseteq 1..packets
  /\ sent \in Seq((1..packets) \X Code \X Kind \X Client)
  /\ \A i \in DOMAIN sent, code \in Code : sent[i][2] # code => latest[code] # sent[i][1]
  /\ \A i \in DOMAIN sent : sent[i][2] \notin clashed =>
       latest[sent[i][2]] \in {0, sent[i][1]} \cup confirmed
  /\ ListedIsUnconfirmed /\ UnconfirmedIsListed

\* The code does not keep this one (README, "Where the code departs"):
\* A confirmation is shown with the command it confirms.
ConfirmsItsCommand == shown # <<>> => shown[1] = shown[2]

\* The code does not keep this one (README, "Where the code departs"):
\* "Failed to decode packet": every packet that is shown so counts as an error.
FailuresCounted == errors >= undecoded

=============================================================================
