------------------------------- MODULE Documents -------------------------------
(***************************************************************************)
(* The document extractor node: the files of a variable are fetched, an    *)
(* extractor is found for each, and its text is put together.  A document  *)
(* is what the libraries make of a file's bytes; text is a sequence of     *)
(* lines, a line a sequence of pieces.                                     *)
(***************************************************************************)
EXTENDS PyValues

CONSTANT ApiConfigured   \* whether an address of the partition service is set

-----------------------------------------------------------------------------
(* The extractors, by extension and by MIME type.                          *)

Registrations ==
  {[name |-> "plain", extensions |-> {".txt", ".vtt"}, types |-> {"text/plain"}],
   [name |-> "json", extensions |-> {".json"}, types |-> {"application/json"}],
   [name |-> "csv", extensions |-> {".csv"}, types |-> {"text/csv"}],
   [name |-> "docx", extensions |-> {".docx"}, types |-> {"application/docx"}],
   [name |-> "excel", extensions |-> {".xls", ".xlsx"}, types |-> {"application/xlsx"}],
   [name |-> "doc", extensions |-> {".doc"}, types |-> {"application/msword"}],
   [name |-> "ppt", extensions |-> {".ppt"}, types |-> {"application/ppt"}],
   [name |-> "vtt", extensions |-> {}, types |-> {"text/vtt"}],
   [name |-> "properties", extensions |-> {".properties"}, types |-> {"text/properties"}]}

\* A kind that is registered twice keeps the program from starting.
IsRegistry(registrations) ==
  \A r, s \in registrations : r # s => r.extensions \cap s.extensions = {} /\ r.types \cap s.types = {}

\* An extension decides; only a file without one is known by its type.
ExtractorOf(f) ==
  IF f.extension # "" THEN {r.name : r \in {s \in Registrations : f.extension \in s.extensions}}
  ELSE IF f.type # "" THEN {r.name : r \in {s \in Registrations : f.type \in s.types}}
  ELSE {}

-----------------------------------------------------------------------------
(* Tables: a row is a sequence of cells, a cell of words, breaks and bars. *)

\* Line breaks in a cell: CSV makes them spaces, Word <br>, Excel joins with spaces.
CsvCell(cell) == SelectSeq([i \in DOMAIN cell |-> IF cell[i] = "newline" THEN " " ELSE cell[i]], LAMBDA c : c # "return")
DocxCell(cell) == [i \in DOMAIN cell |-> IF cell[i] = "newline" THEN "<br>" ELSE cell[i]]
\* A slip: the cells of the header row keep their line breaks.
ExcelCellKept(cell) == cell

ExcelCell(cell) == [i \in DOMAIN cell |-> IF cell[i] \in {"newline", "return"} THEN " " ELSE cell[i]]

\* Cells are put between bars; a bar in a cell is not escaped.
Line(cells) == <<"|">> \o FlattenSeq([i \in DOMAIN cells |-> cells[i] \o <<"|">>])
Separator(header) == Line([i \in DOMAIN header |-> <<"-">>])
Table(rows) == <<Line(Head(rows)), Separator(Head(rows))>> \o [i \in 1..Len(rows) - 1 |-> Line(rows[i + 1])]
Cleaned(rows, cell(_)) == [i \in DOMAIN rows |-> [j \in DOMAIN rows[i] |-> cell(rows[i][j])]]

CsvText(rows) == IF rows = <<>> THEN <<>> ELSE Table(Cleaned(rows, CsvCell))
\* A sheet that cannot be read is passed over.
ExcelText(sheets) ==
  FlattenSeq([i \in DOMAIN sheets |-> IF sheets[i].readable THEN Table(Cleaned(sheets[i].rows, ExcelCell)) \o <<<<>>>> ELSE <<>>])

HasContent(rows) == \E i \in DOMAIN rows : \E j \in DOMAIN rows[i] : rows[i][j] # <<>>
\* Paragraphs and tables in the order of the document; an empty table is left out.
DocxText(items) ==
  LET text(item) == CASE item.kind = "paragraph" -> <<item.line>>
                      [] item.kind = "table" /\ item.rows # <<>> /\ HasContent(item.rows) -> Table(Cleaned(item.rows, DocxCell))
                      [] OTHER -> <<>>
  IN  FlattenSeq([i \in DOMAIN items |-> text(items[i])])

-----------------------------------------------------------------------------
(* Captions and settings.                                                  *)

\* Captions of one speaker in a row are joined.  For a caption without a speaker the
\* text of the speaker before is written once more and its own is lost.
Spoken(captions) ==
  LET next(acc, c) ==
        CASE c.speaker = "" -> [acc EXCEPT !.done = Append(@, [speaker |-> "", words |-> acc.words])]
          [] c.speaker # "" /\ c.speaker = acc.speaker -> [acc EXCEPT !.words = @ \o c.words]
          [] OTHER -> [done |-> Append(acc.done, [speaker |-> acc.speaker, words |-> acc.words]),
                       speaker |-> c.speaker, words |-> c.words]
      start == [done |-> <<>>, speaker |-> Head(captions).speaker, words |-> Head(captions).words]
  IN  FoldLeft(next, start, Tail(captions))

\* A slip: the last speaker's captions are not written.
MergedButLast(captions) == Spoken(captions).done

\* The last speaker's captions are written when there are no more.
Merged(captions) ==
  LET end == Spoken(captions) IN Append(end.done, [speaker |-> end.speaker, words |-> end.words])
VttText(captions) ==
  IF captions = <<>> THEN <<>>
  ELSE LET merged == Merged(captions) IN [i \in DOMAIN merged |-> <<merged[i].speaker>> \o merged[i].words]

\* Comments and empty lines stay; a line is cut at its first "=", else at its first ":".
Cut(pieces, at) ==
  LET i == CHOOSE k \in DOMAIN pieces : pieces[k] = at /\ \A j \in 1..k - 1 : pieces[j] # at
  IN  SubSeq(pieces, 1, i - 1) \o <<": ">> \o SubSeq(pieces, i + 1, Len(pieces))
IsComment(pieces) == pieces = <<>> \/ Head(pieces) \in {"#", "!"}
PropertyLine(pieces) ==
  CASE IsComment(pieces) -> pieces
    [] ~IsComment(pieces) /\ "=" \in Range(pieces) -> Cut(pieces, "=")
    [] ~IsComment(pieces) /\ "=" \notin Range(pieces) /\ ":" \in Range(pieces) -> Cut(pieces, ":")
    [] OTHER -> Append(pieces, ": ")

-----------------------------------------------------------------------------
(* The node.                                                               *)

Text(lines) == [status |-> "succeeded", lines |-> lines]
Failure == [status |-> "failed", lines |-> <<>>]

\* A remote file needs an address; whatever goes wrong when it is fetched is an error.
Fetched(f) == (f.remote => f.url) /\ f.downloads

\* Word documents of old need the service, slides do without; each has one temporary
\* file, which is removed whatever comes of it.
ExtractedBy(name, document) ==
  CASE document.broken -> Failure
    [] ~document.broken /\ name = "doc" /\ ~ApiConfigured -> Failure
    [] ~document.broken /\ name \in {"plain", "json", "ppt"} -> Text(document.content)
    [] ~document.broken /\ name = "doc" /\ ApiConfigured -> Text(document.content)
    [] ~document.broken /\ name = "csv" -> Text(CsvText(document.content))
    [] ~document.broken /\ name = "excel" -> Text(ExcelText(document.content))
    [] ~document.broken /\ name = "docx" -> Text(DocxText(document.content))
    [] ~document.broken /\ name = "vtt" -> Text(VttText(document.content))
    [] ~document.broken /\ name = "properties" ->
         Text([i \in DOMAIN document.content |-> PropertyLine(document.content[i])])

ExtractFile(f) ==
  IF ~Fetched(f) \/ ExtractorOf(f) = {} THEN Failure
  ELSE ExtractedBy(CHOOSE n \in ExtractorOf(f) : TRUE, f.document)

\* All files of a list or none: the first that fails ends the node.  No file, no text.
RunExtractor(variable, files) ==
  CASE variable = "missing" \/ (variable = "other" /\ files # <<>>) -> [status |-> "failed", texts |-> <<>>]
    [] OTHER ->
         LET texts == [i \in DOMAIN files |-> ExtractFile(files[i])]
         IN  IF \E i \in DOMAIN texts : texts[i].status = "failed" THEN [status |-> "failed", texts |-> <<>>]
             ELSE [status |-> "succeeded", texts |-> [i \in DOMAIN texts |-> texts[i].lines]]

-----------------------------------------------------------------------------
\* A table has one line for each row and one below the header, and each line the
\* cells of its row between bars, unless a cell holds a bar itself.
TableIsKept(rows, lines) ==
  LET bars(line) == Len(SelectSeq(line, LAMBDA p : p = "|"))
      row(i) == IF i <= 2 THEN Head(rows) ELSE rows[i - 1]
  IN  /\ Len(lines) = Len(rows) + 1
      /\ \A i \in DOMAIN lines :
           /\ {"newline", "return"} \cap Range(lines[i]) = {}
           /\ (\A j \in DOMAIN row(i) : "|" \notin Range(row(i)[j])) => bars(lines[i]) = Len(row(i)) + 1

\* What all speakers say is written, in order and once, each in turn under a name of
\* their own, if every caption has a speaker.
CaptionsAreKept(captions, lines) ==
  captions # <<>> /\ (\A i \in DOMAIN captions : captions[i].speaker # "") =>
    /\ FlattenSeq([i \in DOMAIN lines |-> Tail(lines[i])]) = FlattenSeq([i \in DOMAIN captions |-> captions[i].words])
    /\ \A i \in 1..Len(lines) - 1 : Head(lines[i]) # Head(lines[i + 1])

\* A node that succeeds has a text for each file, in their order, and the kind of a
\* document decides how it is written: tables row by row, captions by speaker.
TextsAreKept(variable, files, o) ==
  o.status = "succeeded" =>
    /\ Len(o.texts) = Len(files) /\ IsRegistry(Registrations)
    /\ \A i \in DOMAIN files :
         /\ Fetched(files[i]) /\ ~files[i].document.broken /\ Cardinality(ExtractorOf(files[i])) = 1
         /\ "csv" \in ExtractorOf(files[i]) /\ files[i].document.content # <<>> =>
              TableIsKept(files[i].document.content, o.texts[i])
         /\ "excel" \in ExtractorOf(files[i]) /\ Len(files[i].document.content) = 1
              /\ files[i].document.content[1].readable =>
                TableIsKept(files[i].document.content[1].rows, Front(o.texts[i]))
         /\ "docx" \in ExtractorOf(files[i]) /\ Len(files[i].document.content) = 1 =>
              LET item == files[i].document.content[1]
              IN  item.kind = "table" /\ o.texts[i] # <<>> /\ (\A c \in UNION {Range(r) : r \in Range(item.rows)} : "return" \notin Range(c))
                    => TableIsKept(item.rows, o.texts[i])
         /\ "vtt" \in ExtractorOf(files[i]) => CaptionsAreKept(files[i].document.content, o.texts[i])
=============================================================================
