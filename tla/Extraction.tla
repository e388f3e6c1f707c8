----------------------------- MODULE Extraction -----------------------------
(***************************************************************************)
(* How GUMMY OS takes an uploaded file apart before it is cut into chunks: *)
(* into segments that know where in the document they stand, a page, a     *)
(* section or a run of rows.  These operators change no state.             *)
(*                                                                         *)
(* A document has a format, can be read by the parser of its format or     *)
(* not, and is a sequence of parts (the lines of a text, the pages of a    *)
(* PDF, the rows of a table, the paragraphs of a DOCX), each of which has  *)
(* something to read in it or is blank, and may be a heading.  A part is   *)
(* named by its place.                                                     *)
(***************************************************************************)
EXTENDS Integers, Sequences, FiniteSets, SequencesExt

CONSTANT CSV_ROWS_PER_SEGMENT

PLAINTEXT_MIME_TYPES == {"plain", "markdown"}
Formats == PLAINTEXT_MIME_TYPES \cup {"csv", "pdf", "docx", "xlsx", "other"}

Segment(content) ==
  [content |-> content, page |-> 0, section |-> 0, first |-> 0, last |-> 0,
   header |-> 0]
Inked(document) == {i \in DOMAIN document.parts : document.parts[i].ink}
Span(first, last) == [i \in 1..(last - first + 1) |-> first + i - 1]

(* The parts of a span without the blank ones at its ends.                 *)
Stripped(document, first, last) ==
  LET inked == Inked(document) \cap first..last
  IN  IF inked = {} THEN << >> ELSE Span(Min(inked), Max(inked))
NonEmpty(segments) == SelectSeq(segments, LAMBDA s : s.content # << >>)

Plain(document) ==
  NonEmpty(<<Segment(Stripped(document, 1, Len(document.parts)))>>)
Pages_CountingTheRead(document) ==
  LET read == NonEmpty([p \in DOMAIN document.parts |->
                          Segment(Stripped(document, p, p))])
  IN  [p \in DOMAIN read |-> [read[p] EXCEPT !.page = p]]
Pages(document) ==
  NonEmpty([p \in DOMAIN document.parts |->
              [Segment(Stripped(document, p, p)) EXCEPT !.page = p]])

(* A heading begins a section and is part of it; what comes before the     *)
(* first heading belongs to none.                                          *)
Sections(document) ==
  LET headings == {i \in DOMAIN document.parts : document.parts[i].heading}
      starts == <<0>> \o SetToSortSeq(headings, <)
      end(n) == IF n = Len(starts) THEN Len(document.parts) ELSE starts[n + 1] - 1
  IN  NonEmpty([n \in DOMAIN starts |->
        [Segment(Stripped(document, Max({starts[n], 1}), end(n)))
           EXCEPT !.section = starts[n]]])

(* The first row is the header, repeated with every group of rows; a table *)
(* that is nothing but its header is a segment of it, blank or not.        *)
RowGroups(document) ==
  LET rows == Len(document.parts) - 1
      groups == (rows + CSV_ROWS_PER_SEGMENT - 1) \div CSV_ROWS_PER_SEGMENT
      start(g) == (g - 1) * CSV_ROWS_PER_SEGMENT
      window(g) == Min({CSV_ROWS_PER_SEGMENT, rows - start(g)})
  IN  CASE rows = -1 -> << >>
        [] rows = 0 ->
             <<[Segment(Stripped(document, 1, 1))
                  EXCEPT !.header = 1, !.first = 1, !.last = 1]>>
        [] OTHER ->
             NonEmpty([g \in 1..groups |->
               [Segment(Stripped(document, start(g) + 2, start(g) + 1 + window(g)))
                  EXCEPT !.header = 1, !.first = start(g) + 2,
                         !.last = start(g) + 1 + window(g)]])

(* The formats that have no structure to cite are flattened to one text.   *)
(* The rows of a workbook that hold nothing are left out.  A file that its *)
(* parser cannot read, and a format without a parser, is an error.         *)
Read(document, segments) ==
  IF document.readable THEN [error |-> "", segments |-> segments]
  ELSE [error |-> "file_extraction_failed", segments |-> << >>]
Workbook(document) ==
  LET rows == SetToSortSeq(Inked(document), <)
  IN  IF rows = << >> THEN << >> ELSE <<Segment(rows)>>

extract_text(document) ==
  CASE document.format = "docx" -> Read(document, Plain(document))
    [] document.format = "xlsx" -> Read(document, Workbook(document))
    [] OTHER -> [error |-> "unsupported_file_type", segments |-> << >>]

(* Bytes that are no UTF-8 are replaced, so text and tables are always     *)
(* readable.                                                               *)
extract_segments(document) ==
  CASE document.format = "pdf" -> Read(document, Pages(document))
    [] document.format = "markdown" -> [error |-> "", segments |-> Sections(document)]
    [] document.format = "csv" -> [error |-> "", segments |-> RowGroups(document)]
    [] document.format = "plain" -> [error |-> "", segments |-> Plain(document)]
    [] OTHER -> extract_text(document)

-----------------------------------------------------------------------------
(* Nothing of a document that is read is lost or told twice, in its order, *)
(* and it can be cited: a page by its number, a line of a section by the   *)
(* last heading at or above it, a row by the numbers a spreadsheet shows   *)
(* it under, the header being row 1, with the header at hand.  A file that *)
(* is not read gives an error and nothing else (extraction_service.py).    *)
CitesWhereItStands(document) ==
  LET result == extract_segments(document)
      segments == result.segments
      told == FlattenSeq([s \in DOMAIN segments |-> segments[s].content])
      table == document.format = "csv"
      heading(i) == {h \in 1..i : document.parts[h].heading}
  IN  IF result.error # ""
      THEN segments = << >> /\ (~document.readable \/ document.format = "other")
      ELSE /\ Inked(document) \ ToSet(told) \subseteq (IF table THEN {1} ELSE {})
           /\ \A i, j \in DOMAIN told : i < j => told[i] < told[j]
           /\ \A s \in DOMAIN segments : \A i \in ToSet(segments[s].content) :
                /\ document.format = "pdf" => segments[s].page = i
                /\ document.format = "markdown" =>
                     segments[s].section = IF heading(i) = {} THEN 0 ELSE Max(heading(i))
                /\ table => /\ i \in segments[s].first..segments[s].last
                            /\ segments[s].header = 1
           /\ \A s, t \in DOMAIN segments : s < t /\ table =>
                segments[s].last < segments[t].first
           /\ \A s \in DOMAIN segments :
                /\ segments[s].last - segments[s].first < CSV_ROWS_PER_SEGMENT
                /\ segments[s].last <= Len(document.parts)
=============================================================================
