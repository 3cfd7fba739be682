------------------------------ MODULE Chunker -------------------------------
(***************************************************************************)
(* application/ingestion.py: a parser cuts a document into blocks, and     *)
(* structure_aware_chunks packs the blocks into chunks of a token budget.  *)
(*                                                                         *)
(* A text is a sequence of characters.  A character of line l is the       *)
(* number l, so that the chunks tell what became of each line; 0 is a      *)
(* character the program puts in between.  Lines are CJK text, of one      *)
(* token a character; what is put in between counts a quarter of one.  A   *)
(* line is its kind, which is what the regular expressions tell of it; a   *)
(* paragraph or a row of a table in a file is a line, too.                 *)
(***************************************************************************)
EXTENDS Naturals, SequencesExt

CONSTANTS
    Files,          \* what is chunked: [format, text], the text a sequence of kinds of lines
    Length,         \* the characters of a line of each kind
    Budgets,        \* of tokens, for a chunk
    Overlaps,       \* numbers of blocks repeated in the next chunk
    Maximum         \* the most chunks of a document

\* What the lines of each format can be
LineKinds ==
    [text |-> {"blank", "heading", "under", "fence", "row", "rule", "item", "text"},
     docx |-> {"blank", "heading", "row", "head", "item", "text"},
     xlsx |-> {"blank", "heading", "row", "head", "text"},
     pdf  |-> {"page", "text"}]

\* A table has one separator, and a sheet begins with its title.
ASSUME FilesAssumption ==
    \A d \in Files :
      /\ d = [format |-> d.format, text |-> d.text]
      /\ d.format \in DOMAIN LineKinds
      /\ d.text \in Seq(LineKinds[d.format])
      /\ \A i \in 2..Len(d.text) : ~(d.text[i - 1] = "rule" /\ d.text[i] = "rule")
      /\ d.format = "xlsx" /\ d.text # <<>> => d.text[1] = "heading"
ASSUME LengthAssumption ==
    \A format \in DOMAIN LineKinds : \A k \in LineKinds[format] : Length[k] \in Nat
\* structure_aware_chunks accepts no others.
ASSUME LimitsAssumption ==
    Budgets \subseteq Nat \ {0} /\ Overlaps \subseteq Nat /\ Maximum \in Nat

VARIABLES
    call,       \* [format, text, size, overlap]
    blocks,     \* the blocks still to come
    stack,      \* the lines that are the headings they are under
    pending,    \* the pieces of the next chunk
    records,    \* the chunks so far, each a sequence of pieces
    status

chunkVars == <<call, blocks, stack, pending, records, status>>

-----------------------------------------------------------------------------
\* The members of s that are in S, in their order: SelectSeq, as proofs can use it
Where(s, S) == FlattenSeq([n \in DOMAIN s |-> IF s[n] \in S THEN <<s[n]>> ELSE <<>>])

-----------------------------------------------------------------------------
(* text_blocks *)

\* The kind of line i; past the end nothing matches, as on a blank line.
KindAt(text, i) == IF i \in DOMAIN text THEN text[i] ELSE "blank"

LooksLikeTable(text, i) ==
    KindAt(text, i) \in {"row", "rule"} /\ KindAt(text, i + 1) \in {"row", "rule"}

\* A line with a line of = or - below it
IsSetext(text, i) == KindAt(text, i) # "blank" /\ KindAt(text, i + 1) = "under"

Continues(text, i) ==
    /\ KindAt(text, i) \notin {"blank", "heading", "fence", "item"}
    /\ ~LooksLikeTable(text, i)
    /\ ~IsSetext(text, i)

\* The first line from i on that does not belong to a block of these lines
EndOf(text, i, lines) == Min(i..(Len(text) + 2) \ (lines \cap DOMAIN text))

Interval(first, last) == [n \in 1..(last + 1 - first) |-> first + n - 1]

\* The block that begins at line i, and the line after it
BlockAt(text, i) ==
    LET Block(kind, header, lines, next) ==
            [kind |-> kind, header |-> header, lines |-> lines, next |-> next]
        Of(kinds) == {j \in DOMAIN text : text[j] \in kinds}
        code == EndOf(text, i + 1, DOMAIN text \ Of({"fence"}))
        table == EndOf(text, i, Of({"row", "rule"}))
        items == EndOf(text, i, Of({"item"}))
        prose == EndOf(text, i + 1, {j \in DOMAIN text : Continues(text, j)})
    IN  CASE text[i] = "blank" -> Block("blank", FALSE, <<>>, i + 1)
          [] text[i] = "heading" -> Block("heading", FALSE, <<i>>, i + 1)
          [] IsSetext(text, i) /\ text[i] # "heading" -> Block("heading", FALSE, <<i>>, i + 2)
          [] text[i] = "fence" /\ ~IsSetext(text, i) ->
               Block("code", FALSE, Interval(i + 1, code - 1), code + 1)
          [] LooksLikeTable(text, i) ->
               Block("table", text[i + 1] = "rule",
                     Where(Interval(i, table - 1), Of({"row"})), table)
          [] text[i] = "item" /\ ~IsSetext(text, i) ->
               Block("list", FALSE, Interval(i, items - 1), items)
          [] OTHER -> Block("prose", FALSE, Interval(i, prose - 1), prose)

TextBlocks(text) ==
    LET From[i \in 1..(Len(text) + 3)] ==
          IF i > Len(text) THEN <<>>
          ELSE LET b == BlockAt(text, i) IN <<b>> \o From[b.next]
    IN  From[1]

-----------------------------------------------------------------------------
(* Files.  In a Word document "head" is a row marked to be repeated as the *)
(* header; a table ends where a paragraph begins.  In a workbook a heading *)
(* is the title of a sheet; "head" is a row of strings in bold, "text" one *)
(* of strings, "row" one with another value.  In a PDF "page" ends a page. *)

Of(kind, header, lines) == [kind |-> kind, header |-> header, lines |-> lines]

\* The lines of these kinds from i on, up to the first of another kind
Run(text, i, kinds) ==
    Interval(i, EndOf(text, i, {j \in DOMAIN text : text[j] \in kinds}) - 1)

\* _docx: a paragraph is a block of its own.
DocxBlocks(text) ==
    LET Cells == {"row", "head"}
        At(i) ==
          CASE text[i] = "heading" -> <<Of("heading", FALSE, <<i>>)>>
            [] text[i] = "item" -> <<Of("list", FALSE, <<i>>)>>
            [] text[i] = "text" -> <<Of("prose", FALSE, <<i>>)>>
            [] text[i] \in Cells /\ KindAt(text, i - 1) \notin Cells ->
                 <<Of("table", text[i] = "head", Run(text, i, Cells))>>
            [] OTHER -> <<>>
    IN  FlattenSeq([i \in DOMAIN text |-> At(i)])

\* _xlsx_has_header: strings above another value, or in bold above none in bold
HasHeader(text, rows) ==
    LET below == {text[rows[n]] : n \in 2..Len(rows)}
    IN  /\ Len(rows) > 1 /\ text[rows[1]] # "row"
        /\ "row" \in below \/ (text[rows[1]] = "head" /\ "head" \notin below)

\* _spreadsheet: a sheet is its title and one table; one without rows is left out.
SheetBlocks(text) ==
    LET Rows(i) == Where(Run(text, i + 1, {"row", "head", "text", "blank"}),
                         {l \in DOMAIN text : text[l] # "blank"})
        At(i) ==
          IF text[i] # "heading" \/ Rows(i) = <<>> THEN <<>>
          ELSE <<Of("heading", FALSE, <<i>>), Of("table", HasHeader(text, Rows(i)), Rows(i))>>
    IN  FlattenSeq([i \in DOMAIN text |-> At(i)])

\* _pdf: a page is a block.
PageBlocks(text) ==
    LET At(i) == IF KindAt(text, i) = "text" /\ KindAt(text, i - 1) # "text"
                 THEN <<Of("prose", FALSE, Run(text, i, {"text"}))>> ELSE <<>>
    IN  FlattenSeq([i \in DOMAIN text |-> At(i)])

\* Parser.parse; blocks without text are left out there.
Parsed(d) ==
    LET found == CASE d.format = "text" -> TextBlocks(d.text)
                   [] d.format = "docx" -> DocxBlocks(d.text)
                   [] d.format = "xlsx" -> SheetBlocks(d.text)
                   [] d.format = "pdf" -> PageBlocks(d.text)
    IN  Where(found, {b \in Range(found) : b.lines # <<>>})

-----------------------------------------------------------------------------
(* Texts and their tokens *)

NL == <<0>>
Gap == <<0, 0>>

Line(l) == [n \in 1..Length[call.text[l]] |-> l]
Lines(ls) == [n \in DOMAIN ls |-> Line(ls[n])]

\* The texts that are not empty, one after the other
Join(texts, between) ==
    LET At(n) == IF texts[n] = <<>> THEN <<>>
                 ELSE IF \E m \in 1..(n - 1) : texts[m] # <<>> THEN between \o texts[n]
                 ELSE texts[n]
    IN  FlattenSeq([n \in DOMAIN texts |-> At(n)])

Characters(text) == Where(text, Nat \ {0})

Strip(text) ==
    LET own == {i \in DOMAIN text : text[i] # 0}
    IN  IF own = {} THEN <<>> ELSE SubSeq(text, Min(own), Max(own))

\* estimate_tokens
Tokens(text) ==
    LET own == Len(Characters(text)) IN own + (Len(text) - own + 3) \div 4

Prefix(path) == Join(Lines(path), <<0, 0, 0>>)

\* The headings, the last of them, or the end of the last, that leave room for text
FitHeadingPath(path, size) ==
    LET available == size - Tokens(Gap) - 1
        fitting == {k \in DOMAIN path :
                      Tokens(Prefix(SubSeq(path, k, Len(path)))) <= available}
    IN  CASE path = <<>> \/ size < Tokens(Gap) + 2 -> <<>>
          [] path # <<>> /\ size >= Tokens(Gap) + 2 /\ fitting # {} ->
               Prefix(SubSeq(path, Min(fitting), Len(path)))
          [] OTHER -> LET last == Line(Last(path))
                      IN  SubSeq(last, Len(last) - available + 1, Len(last))

Render(bodies, heading) ==
    Join(<<heading, Join([n \in DOMAIN bodies |-> Strip(bodies[n])], Gap)>>, Gap)

FitsBelow(bodies, heading) == Tokens(Render(bodies, heading)) <= call.size

\* What a text is measured as: by itself, or rendered below header and heading
Plain(body) == [size |-> body, rendered |-> FALSE, header |-> <<>>, heading |-> <<>>]
Rendered(header, heading) ==
    [size |-> call.size, rendered |-> TRUE, header |-> header, heading |-> heading]

Within(text, limit) ==
    Tokens(IF limit.rendered
             THEN Render(<<Join(<<limit.header, text>>, NL)>>, limit.heading)
             ELSE text) <= limit.size

\* A group that is closed is stripped, and left out if nothing remains.
Closed(text) == IF Strip(text) = <<>> THEN <<>> ELSE <<Strip(text)>>

\* A part joins the open group while the result is within the limit; one that is
\* beyond it alone stays alone.
Added(acc, part, between, limit) ==
    LET joined == IF acc.open = <<>> THEN part ELSE acc.open \o between \o part
        closed == acc.done \o Closed(acc.open)
    IN  IF Within(joined, limit) THEN [done |-> acc.done, open |-> joined]
        ELSE IF Within(part, limit) THEN [done |-> closed, open |-> part]
        ELSE [done |-> closed \o Closed(part), open |-> <<>>]

\* The groups that the parts come to, one part after the other
Grouped(parts, between, limit) ==
    LET After[n \in 0..Len(parts)] ==
          IF n = 0 THEN [done |-> <<>>, open |-> <<>>]
          ELSE Added(After[n - 1], parts[n], between, limit)
    IN  After[Len(parts)].done \o Closed(After[Len(parts)].open)

\* _split_by_char_budget and _split_to_render_budget: characters are not broken
SplitCharacters(text, limit) ==
    IF Within(text, limit) THEN <<text>>
    ELSE Grouped([n \in DOMAIN text |-> <<text[n]>>], <<>>, limit)

Split(texts, limit) ==
    FlattenSeq([n \in DOMAIN texts |-> SplitCharacters(texts[n], limit)])

\* _split_text: the sentences of a text, code is one
SplitText(lines, body) == Split(Grouped(lines, NL, Plain(body)), Plain(body))

-----------------------------------------------------------------------------
(* The pieces of a block: a header, and text that fits in a chunk below it *)

Body(piece) == Join(<<piece.header, piece.text>>, NL)

Bodies(pieces) == [n \in DOMAIN pieces |-> Body(pieces[n])]

MakePieces(block, heading, header, texts) ==
    [n \in DOMAIN texts |->
       [block |-> block.lines[1], part |-> n, heading |-> heading, header |-> header,
        text |-> texts[n]]]

TablePieces(block, heading) ==
    LET header == IF block.header THEN Line(block.lines[1]) ELSE <<>>
        data == Lines(IF block.header THEN Tail(block.lines) ELSE block.lines)
        limit == Rendered(header, heading)
    IN  MakePieces(block, heading, header, Split(Grouped(data, NL, limit), limit))

TextPieces(block, heading) ==
    LET text == Strip(Join(Lines(block.lines), NL))
        limit == Rendered(<<>>, heading)
        room == call.size - Tokens(heading) - Tokens(Gap)
        body == IF room < 1 THEN 1 ELSE room
        sentences == IF block.kind = "code" THEN <<text>> ELSE Lines(block.lines)
    IN  MakePieces(block, heading, <<>>,
          CASE text = <<>> -> <<>>
            [] text # <<>> /\ Within(text, limit) -> <<text>>
            [] OTHER -> Split(SplitText(sentences, body), limit))

BlockPieces(block, heading) ==
    IF block.kind = "table" THEN TablePieces(block, heading) ELSE TextPieces(block, heading)

-----------------------------------------------------------------------------
(* structure_aware_chunks *)

ChunkInit ==
    /\ call = [format |-> "text", text |-> <<>>, size |-> 0, overlap |-> 0]
    /\ blocks = <<>>
    /\ stack = <<>>
    /\ pending = <<>>
    /\ records = <<>>
    /\ status = "waiting"

\* The chunker reads the blocks a parser has stored; without any the document is
\* refused.
Begin(d, size, overlap) ==
    /\ call' = [format |-> d.format, text |-> d.text, size |-> size, overlap |-> overlap]
    /\ blocks' = Parsed(d)
    /\ status' = IF Parsed(d) = <<>> THEN "EMPTY_DOCUMENT" ELSE "chunking"
    /\ UNCHANGED <<stack, pending, records>>

Flushed == IF pending = <<>> THEN records ELSE Append(records, pending)

\* emit: a document of too many chunks is refused.
Emits(chunks) ==
    /\ records' = IF Len(chunks) > Maximum THEN <<>> ELSE chunks
    /\ status' = IF Len(chunks) > Maximum THEN "CHUNK_LIMIT" ELSE status

Heading == FitHeadingPath(stack, call.size)

\* The last blocks of the chunk before are repeated whether or not they fit.
M_AfterFlush(piece) ==
    SubSeq(pending, Max({1, Len(pending) + 1 - call.overlap}), Len(pending)) \o <<piece>>

\* What the next chunk begins with: the last blocks of the one before, if they fit
AfterFlush(piece) ==
    LET repeated == SubSeq(pending, Max({1, Len(pending) + 1 - call.overlap}), Len(pending))
    IN  IF FitsBelow(Bodies(repeated \o <<piece>>), Heading) THEN repeated \o <<piece>>
        ELSE <<piece>>

NextBlock ==
    /\ status = "chunking"
    /\ blocks # <<>>
    /\ blocks' = Tail(blocks)
    /\ UNCHANGED call

\* A heading of level 1 or 2, a sheet's of level 1; _set_heading keeps the headings above that level.
StartSection(level) ==
    /\ NextBlock
    /\ Head(blocks).kind = "heading"
    /\ call.format = "xlsx" => level = 1
    /\ stack' = SubSeq(stack, 1, Min({level - 1, Len(stack)})) \o Head(blocks).lines
    /\ Emits(Flushed)
    /\ pending' = <<>>

\* A table, or a block in several pieces: each is a chunk of its own.
EmitPieces ==
    /\ NextBlock
    /\ Head(blocks).kind # "heading"
    /\ LET pieces == BlockPieces(Head(blocks), Heading)
       IN  /\ Head(blocks).kind = "table" \/ Len(pieces) > 1
           /\ pieces # <<>>
           /\ Emits(Flushed \o [n \in DOMAIN pieces |-> <<pieces[n]>>])
    /\ pending' = <<>>
    /\ UNCHANGED stack

\* A block in one piece joins the next chunk, or begins the one after.
AddPiece ==
    /\ NextBlock
    /\ Head(blocks).kind \notin {"heading", "table"}
    /\ LET pieces == BlockPieces(Head(blocks), Heading)
       IN  /\ Len(pieces) = 1
           /\ IF pending # <<>> /\ ~FitsBelow(Bodies(pending \o pieces), Heading)
              THEN Emits(Flushed) /\ pending' = AfterFlush(pieces[1])
              ELSE pending' = pending \o pieces /\ UNCHANGED <<records, status>>
    /\ UNCHANGED stack

\* A table of a header only has no pieces.
SkipBlock ==
    /\ NextBlock
    /\ Head(blocks).kind # "heading"
    /\ BlockPieces(Head(blocks), Heading) = <<>>
    /\ UNCHANGED <<stack, pending, records, status>>

Finish ==
    /\ status = "chunking"
    /\ blocks = <<>>
    /\ records' = IF Len(Flushed) > Maximum THEN <<>> ELSE Flushed
    /\ status' = IF Len(Flushed) > Maximum THEN "CHUNK_LIMIT" ELSE "chunked"
    /\ pending' = <<>>
    /\ UNCHANGED <<call, blocks, stack>>

ChunkNext ==
    \/ /\ status = "waiting"
       /\ \E d \in Files, size \in Budgets, overlap \in Overlaps : Begin(d, size, overlap)
    \/ \E level \in {1, 2} : StartSection(level)
    \/ EmitPieces \/ AddPiece \/ SkipBlock
    \/ Finish

ChunkSpec == ChunkInit /\ [][ChunkNext]_chunkVars

-----------------------------------------------------------------------------
ChunkTypeOK ==
    /\ status \in {"waiting", "chunking", "chunked", "EMPTY_DOCUMENT", "CHUNK_LIMIT"}
    /\ status # "waiting" => /\ [format |-> call.format, text |-> call.text] \in Files
                             /\ call.size \in Budgets /\ call.overlap \in Overlaps
    /\ Len(records) <= Maximum

\* The pieces of the n-th chunk that the one before does not have
Fresh(n) ==
    IF n = 1 THEN records[n] ELSE Where(records[n], Range(records[n]) \ Range(records[n - 1]))

\* What the chunks hold of the text, in their order
Held ==
    Characters(FlattenSeq([n \in DOMAIN records |->
      FlattenSeq([k \in DOMAIN Fresh(n) |-> Fresh(n)[k].text])]))

\* A line whose text is content: not a heading, and not what may be the header of
\* a table, as the first row of a sheet, or the one above a rule
IsContent(l) ==
    LET kind == call.text[l]
        Cells == {"row", "head", "text"}
    IN  CASE call.format = "text" ->
               /\ kind \in {"text", "item", "row"}
               /\ KindAt(call.text, l + 1) \notin {"under", "rule"}
          [] call.format = "docx" ->
               \/ kind \in {"text", "item", "row"}
               \/ kind = "head" /\ KindAt(call.text, l - 1) \in {"row", "head"}
          [] call.format = "xlsx" ->
               \/ kind = "row"
               \/ kind \in Cells /\ \E j \in 1..(l - 1) :
                    call.text[j] \in Cells /\ \A h \in j..l : call.text[h] # "heading"
          [] call.format = "pdf" -> kind = "text"

\* No chunk exceeds the budget, under any heading and with what it repeats of
\* the chunk before; only a table whose header leaves no room for a character
\* does.
ChunksFit ==
    \A n \in DOMAIN records :
      LET first == records[n][1]
      IN  \/ FitsBelow(Bodies(records[n]), first.heading)
          \/ first.header # <<>> /\ ~FitsBelow(<<Join(<<first.header, <<1>> >>, NL)>>, first.heading)

\* A document that was chunked is in the chunks, each line of content exactly once
\* but for the repeated blocks, and in its order, wherever blocks were split; one
\* that is refused as empty has no such line.
NothingLost ==
    /\ status = "EMPTY_DOCUMENT" => \A l \in DOMAIN call.text : ~IsContent(l)
    /\ status = "chunked" =>
      /\ \A i, j \in DOMAIN Held : i < j => Held[i] <= Held[j]
      /\ \A l \in DOMAIN call.text : IsContent(l) =>
           Cardinality({i \in DOMAIN Held : Held[i] = l}) = Length[call.text[l]]

\* Chunking keeps the text and the budget.
ChunkingSound == ChunksFit /\ NothingLost
=============================================================================
