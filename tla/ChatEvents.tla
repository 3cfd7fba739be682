----------------------------- MODULE ChatEvents -----------------------------
(***************************************************************************)
(* application/search.py: a model's answer arrives as server-sent events,  *)
(* in chunks that end anywhere.  _deltas takes the text out of them for a  *)
(* plain question; for an agent _agent_events takes out text and pieces of *)
(* tool calls, which _agent_loop puts together.                            *)
(*                                                                         *)
(* A line is two symbols: "data " or "data" (without the blank) or any     *)
(* other beginning, and what it carries, a member of Payload; "end" is the *)
(* end of a line.                                                          *)
(***************************************************************************)
EXTENDS Naturals, SequencesExt

CONSTANTS
    Streams,    \* what a gateway may send
    Payload,    \* of each, its text and its pieces of calls
    ArgumentCap \* MAX_AGENT_ARGUMENT_CHARS

\* What is sent, and what it carries, are sequences, of whatever they are.
ASSUME StreamsAssumption == \A s \in Streams : s \in Seq(Range(s))
ASSUME PayloadAssumption ==
    \A p \in DOMAIN Payload :
      /\ Payload[p].text \in Seq(Range(Payload[p].text))
      /\ Payload[p].calls \in Seq(Range(Payload[p].calls))

VARIABLES
    kind,       \* of the question: "plain" or "agent"
    stream, heard,
    buffer,     \* a line that has not ended
    text, calls,
    hearing

chatVars == <<kind, stream, heard, buffer, text, calls, hearing>>

NoCalls == [index \in {} |-> {}]

-----------------------------------------------------------------------------
\* The line before position i of a text: what follows the last end before it
LineAt(bytes, i) ==
    SubSeq(bytes, Max({0} \cup {j \in 1..(i - 1) : bytes[j] = "end"}) + 1, i - 1)

\* What is left after the lines that have ended
Left(bytes) == LineAt(bytes, Len(bytes) + 1)

\* The event a line carries, if any; _deltas insists on the blank.
Decoded(of, line) ==
    IF /\ Len(line) = 2 /\ line[2] \in DOMAIN Payload
       /\ line[1] \in (IF of = "plain" THEN {"data "} ELSE {"data ", "data"})
    THEN <<Payload[line[2]]>> ELSE <<>>

\* The events of the lines of a text that have ended
Events(of, bytes) ==
    FlattenSeq([i \in DOMAIN bytes |->
                  IF bytes[i] = "end" THEN Decoded(of, LineAt(bytes, i)) ELSE <<>>])

Text(events) == FlattenSeq([n \in DOMAIN events |-> events[n].text])

\* A piece names a call, or not, and continues its arguments.
Joined(all, piece) ==
    LET before == IF piece.index \in DOMAIN all THEN all[piece.index]
                  ELSE [name |-> "", arguments |-> <<>>]
        long == before.arguments \o piece.arguments
        after == [name |-> IF piece.name = "" THEN before.name ELSE piece.name,
                  arguments |-> SubSeq(long, 1, Min({Len(long), ArgumentCap}))]
    IN  [index \in DOMAIN all \cup {piece.index} |->
           IF index = piece.index THEN after ELSE all[index]]

Pieces(events) == FlattenSeq([n \in DOMAIN events |-> events[n].calls])

\* The calls after these pieces
Calls(all, pieces) ==
    LET After[n \in 0..Len(pieces)] ==
          IF n = 0 THEN all ELSE Joined(After[n - 1], pieces[n])
    IN  After[Len(pieces)]

-----------------------------------------------------------------------------
ChatInit ==
    /\ kind \in {"plain", "agent"}
    /\ stream = <<>> /\ heard = 0
    /\ buffer = <<>> /\ text = <<>> /\ calls = NoCalls
    /\ hearing = "waiting"

Hear(s) ==
    /\ hearing = "waiting"
    /\ stream' = s
    /\ hearing' = "streaming"
    /\ UNCHANGED <<kind, heard, buffer, text, calls>>

\* The pieces of calls are put together by an agent only.
Take(events, pieces) ==
    /\ text' = text \o Text(events)
    /\ calls' = IF kind = "plain" THEN calls ELSE Calls(calls, pieces)
    /\ UNCHANGED <<kind, stream>>

HearChunk(upto) ==
    LET bytes == buffer \o SubSeq(stream, heard + 1, upto)
    IN  /\ hearing = "streaming"
        /\ heard' = upto
        /\ buffer' = Left(bytes)
        /\ Take(Events(kind, bytes), Pieces(Events(kind, bytes)))
        /\ UNCHANGED hearing

\* What is left when the stream ends is a line; its calls count beside text only.
HearEnd ==
    /\ hearing = "streaming" /\ heard = Len(stream)
    /\ Take(Decoded(kind, buffer), IF Text(Decoded(kind, buffer)) = <<>> THEN <<>>
                             ELSE Pieces(Decoded(kind, buffer)))
    /\ buffer' = <<>>
    /\ hearing' = "ended"
    /\ UNCHANGED heard

ChatNext ==
    \/ /\ hearing = "waiting"
       /\ \E s \in Streams : Hear(s)
    \/ \E upto \in (heard + 1)..Len(stream) : HearChunk(upto)
    \/ HearEnd

ChatSpec == ChatInit /\ [][ChatNext]_chatVars

-----------------------------------------------------------------------------
ChatTypeOK ==
    /\ heard \in 0..Len(stream)
    /\ \A i \in DOMAIN buffer : buffer[i] # "end"
    /\ kind = "plain" => calls = NoCalls

\* However the stream was cut, the text is that of all its lines, in their order
\* and each once, and the calls are those of all its lines; those of a last
\* line that has no end may be missing.
DecodedWhole ==
    hearing = "ended" =>
      /\ text = Text(Events(kind, stream) \o Decoded(kind, Left(stream)))
      /\ kind = "agent" /\ Left(stream) = <<>> =>
           calls = Calls(NoCalls, Pieces(Events(kind, stream)))
=============================================================================
