--------------------------- MODULE CitationFilter ---------------------------
(***************************************************************************)
(* application/search.py: an answer is streamed while the model writes it.  *)
(* Markers such as [1] are citations; those that name no source, and the    *)
(* links some models put behind them, are taken out.  _CitationStreamFilter *)
(* does so piece by piece, holding back what may yet become a marker, and   *)
(* _ground_answer_text does it for the whole answer, which is what is       *)
(* stored.                                                                  *)
(*                                                                         *)
(* A text is a sequence of characters of Char.  "&" "l" ";" stands for the  *)
(* HTML entities of a left bracket, "&" "r" ";" for those of a right one.   *)
(***************************************************************************)
EXTENDS Naturals, SequencesExt

CONSTANTS
    Answers,    \* what a model may write
    Ranks,      \* the ranks of the sources, as sequences of digits
    Digits, Spaces,
    PendingCap  \* MAX_CITATION_PENDING_CHARS

VARIABLES
    answer,     \* what the model writes
    fed,        \* how much of it has arrived
    pending,    \* what the filter holds back
    told,       \* what the client was sent
    status

vars == <<answer, fed, pending, told, status>>

-----------------------------------------------------------------------------
(* Citation syntax.  Positions of a text count from 1.                      *)

At(text, i) == IF i \in DOMAIN text THEN text[i] ELSE "end"

From(text, i) == SubSeq(text, i, Len(text))

\* The first position from i on without a character of a set
Past(text, i, set) == Min({j \in i..(Len(text) + 1) : At(text, j) \notin set} \cup {Len(text) + 1})

\* What an escaped bracket, an entity or any other character decodes to
Unit(text, i) ==
    CASE At(text, i) = "\\" /\ At(text, i + 1) \in {"[", "]"} ->
           [char |-> text[i + 1], next |-> i + 2]
      [] At(text, i) = "&" /\ At(text, i + 1) \in {"l", "r"} /\ At(text, i + 2) = ";" ->
           [char |-> IF text[i + 1] = "l" THEN "[" ELSE "]", next |-> i + 3]
      [] OTHER -> [char |-> text[i], next |-> i + 1]

\* _decode_citation_syntax: characters, each with the place it had
Decode(text) ==
    LET Rest[i \in 1..(Len(text) + 3)] ==
          IF i > Len(text) THEN <<>>
          ELSE <<[char |-> Unit(text, i).char, origin |-> i]>> \o Rest[Unit(text, i).next]
    IN  Rest[1]

Plain(decoded) == [n \in DOMAIN decoded |-> decoded[n].char]

\* _CITATION_MARKER_RE at position i: [n] or [[n]], and the position after it;
\* next is 0 when there is none.
Marker(text, i) ==
    LET open == IF At(text, i + 1) = "[" THEN 2 ELSE 1
        stop == Past(text, i + open, Digits)
        whole == /\ At(text, i) = "["
                 /\ stop > i + open
                 /\ \A n \in 0..(open - 1) : At(text, stop + n) = "]"
    IN  [rank |-> SubSeq(text, i + open, stop - 1), next |-> IF whole THEN stop + open ELSE 0]

\* _optional_citation_link_end: the position after a link that begins at
\* position i, i itself when no link does, 0 when it has no end.
LinkEnd(text, i) ==
    LET first == Past(text, i, Spaces)
        Scan[k \in first..(Len(text) + 2), depth \in 0..Len(text)] ==
          CASE k > Len(text) -> 0
            [] k <= Len(text) /\ At(text, k) = "\\" -> Scan[k + 2, depth]
            [] At(text, k) = "(" -> Scan[k + 1, depth + 1]
            [] At(text, k) = ")" -> IF depth = 1 THEN k + 1 ELSE Scan[k + 1, depth - 1]
            [] OTHER -> Scan[k + 1, depth]
    IN  IF At(text, first) = "(" THEN Scan[first, 0] ELSE i

\* The positions of the markers of a text
Markers(text) ==
    LET Rest[i \in 1..(Len(text) + 1)] ==
          CASE i > Len(text) -> <<>>
            [] i <= Len(text) /\ Marker(text, i).next # 0 -> <<i>> \o Rest[Marker(text, i).next]
            [] OTHER -> Rest[i + 1]
    IN  Rest[1]

\* _ground_answer_text, of a decoded text
Ground(text) ==
    LET Step(acc, i) ==
          LET marker == Marker(text, i)
              link == LinkEnd(text, marker.next)
          IN  [text |-> acc.text \o SubSeq(text, acc.cursor, i - 1)
                          \o (IF marker.rank \in Ranks THEN <<"[">> \o marker.rank \o <<"]">> ELSE <<>>),
               cursor |-> IF link = 0 THEN marker.next ELSE link]
        all == FoldLeft(Step, [text |-> <<>>, cursor |-> 1], Markers(text))
    IN  all.text \o From(text, all.cursor)

\* The whole answer, as it is stored
Grounded(text) == Ground(Plain(Decode(text)))

-----------------------------------------------------------------------------
(* What has to wait *)

\* _incomplete_citation_entity_start: the length of what is before it
EntityStart(text) ==
    LET amp == {i \in DOMAIN text : text[i] = "&"}
    IN  IF amp # {} /\ From(text, Max(amp)) \in {<<"&">>, <<"&", "l">>, <<"&", "r">>}
        THEN Max(amp) - 1 ELSE Len(text)

\* A marker at the end goes out although a link may follow it.
M_Waits(text, i) == Marker(text, i).next = 0 /\ \A j \in DOMAIN text : j > i => text[j] # "]"

\* A bracket that is not closed, or a marker that a link may follow or follows
Waits(text, i) ==
    LET next == Marker(text, i).next
    IN  IF next = 0 THEN \A j \in DOMAIN text : j > i => text[j] # "]"
        ELSE \/ Past(text, next, Spaces) > Len(text)
             \/ At(text, Past(text, next, Spaces)) = "(" /\ LinkEnd(text, next) = 0

\* _incomplete_citation_start: where what waits begins, or past the end
IncompleteStart(text) ==
    LET waiting == {i \in DOMAIN text : text[i] = "[" /\ Waits(text, i)}
        Bracketed(i) == \A j \in i..Max(waiting) : text[j] = "["
    IN  CASE text # <<>> /\ At(text, Len(text)) = "\\" -> Len(text)
          [] waiting # {} /\ At(text, Len(text)) # "\\" ->
               Min({i \in 1..Max(waiting) : Bracketed(i)})
          [] OTHER -> Len(text) + 1

-----------------------------------------------------------------------------
(* The stream *)

Init ==
    /\ answer = <<>> /\ fed = 0
    /\ pending = <<>> /\ told = <<>>
    /\ status = "waiting"

Begin(text) ==
    /\ answer' = text
    /\ status' = "streaming"
    /\ UNCHANGED <<fed, pending, told>>

\* feed: a piece of the answer arrives, of any length.
Feed(upto) ==
    LET raw == pending \o SubSeq(answer, fed + 1, upto)
        decoded == Decode(SubSeq(raw, 1, EntityStart(raw)))
        text == Plain(decoded)
        start == IncompleteStart(text)
        held == IF start > Len(text) THEN From(raw, EntityStart(raw) + 1)
                ELSE From(raw, decoded[start].origin)
        overlong == Len(held) > PendingCap
    IN  /\ status = "streaming"
        /\ fed' = upto
        /\ pending' = IF overlong THEN <<>> ELSE held
        /\ told' = told \o (IF overlong THEN Grounded(Plain(Decode(raw)))
                            ELSE Ground(SubSeq(text, 1, start - 1)))
        /\ UNCHANGED <<answer, status>>

\* feed(final=True): nothing waits any longer.
End ==
    /\ status = "streaming"
    /\ fed = Len(answer)
    /\ told' = told \o Grounded(pending)
    /\ pending' = <<>>
    /\ status' = "ended"
    /\ UNCHANGED <<answer, fed>>

Next ==
    \/ /\ status = "waiting"
       /\ \E text \in Answers : Begin(text)
    \/ \E upto \in (fed + 1)..Len(answer) : Feed(upto)
    \/ End

Spec == Init /\ [][Next]_vars

-----------------------------------------------------------------------------
TypeOK ==
    /\ status # "waiting" => answer \in Answers
    /\ fed \in 0..Len(answer)
    /\ Len(pending) <= PendingCap

\* However the answer was cut into pieces, the client was sent exactly the
\* text that is stored: no marker of a source that does not exist, no link
\* behind a marker, and nothing else lost or changed.
StreamedLikeStored == status = "ended" => told = Grounded(answer)
=============================================================================
