----------------------------- MODULE Documents -----------------------------
(***************************************************************************)
(* How GUMMY OS cuts a document into chunks and how it finds the chunks    *)
(* that ground a reply: near ones by their vectors, literal ones by their  *)
(* words, both lists fused by rank; or the chunks of the files that came   *)
(* with the message.  These operators change no state.                     *)
(*                                                                         *)
(* A text is the sequence of its characters, a blank or something else.    *)
(* A retrieval is given what the index holds about each chunk.             *)
(***************************************************************************)
EXTENDS Integers, Sequences, FiniteSets, SequencesExt

CONSTANTS
  Candidates,        \* FILE_RETRIEVAL_CANDIDATES: how many each list may give
  MinSimilarity,     \* FILE_RETRIEVAL_MIN_SIMILARITY, in hundredths
  MaxSearchLimit,    \* MAX_SEARCH_LIMIT
  Multiplier         \* FILE_CONTEXT_CANDIDATE_MULTIPLIER

Least(a, b) == IF a < b THEN a ELSE b
Most(a, b) == IF a > b THEN a ELSE b
UpTo(n, s) == SubSeq(s, 1, Least(n, Len(s)))

-----------------------------------------------------------------------------
(* Cutting.                                                                *)
Blank == " "
Inked(text) == {i \in DOMAIN text : text[i] # Blank}
Strip(text) ==
  IF Inked(text) = {} THEN << >> ELSE SubSeq(text, Min(Inked(text)), Max(Inked(text)))

(* Windows begin a step apart.  One that is not blank becomes a chunk, and *)
(* the one that reaches the end is the last.                               *)
Window(body, start, size) ==
  LET end == Least(start + size, Len(body))
  IN  [content |-> Strip(SubSeq(body, start + 1, end)), start |-> start, end |-> end]

Cut_PastTheEnd(body, size, overlap, done) ==
  LET window == Window(body, done.start, size)
  IN  IF done.over THEN done
      ELSE [ chunks |-> IF window.content = << >> THEN done.chunks
                        ELSE Append(done.chunks, window),
             start |-> done.start + size - overlap,
             over |-> done.start + size - overlap >= Len(body) ]
Cut(body, size, overlap, done) ==
  LET window == Window(body, done.start, size)
  IN  IF done.over THEN done
      ELSE [ chunks |-> IF window.content = << >> THEN done.chunks
                        ELSE Append(done.chunks, window),
             start |-> done.start + size - overlap,
             over |-> window.end >= Len(body) ]

Rounds(body, size, overlap) ==
  LET done[n \in 0..Len(body)] ==
        IF n = 0 THEN [chunks |-> << >>, start |-> 0, over |-> FALSE]
        ELSE Cut(body, size, overlap, done[n - 1])
  IN  done

chunk_text(text, size, overlap) ==
  LET body == Strip(text)
  IN  Rounds(body, size, overlap)[Len(body)].chunks

(* A segment is a page, a section or a run of rows, with a header (of so   *)
(* many characters) that every chunk of it repeats and has to pay for.     *)
Prefix(segment) == IF segment.header = 0 THEN 0 ELSE segment.header + 1
Budget(segment, size) == Most(1, size - Prefix(segment))
Pieces(segment, size, overlap) ==
  chunk_text(segment.content, Budget(segment, size),
             Least(overlap, Budget(segment, size) - 1))

chunk_segments(segments, size, overlap) ==
  LET cut == FlattenSeq([s \in DOMAIN segments |->
               LET pieces == Pieces(segments[s], size, overlap)
               IN  [p \in DOMAIN pieces |->
                     [segment |-> s, piece |-> pieces[p],
                      length |-> Prefix(segments[s]) + Len(pieces[p].content)]]])
  IN  [i \in DOMAIN cut |->
        [index |-> i - 1, segment |-> cut[i].segment, piece |-> cut[i].piece,
         length |-> cut[i].length]]

-----------------------------------------------------------------------------
(* Searching.  The index knows of each chunk: whose it is, its file and    *)
(* its place in it, how near it is to the query (-1 while it has no        *)
(* vector) and how well the words match (0 when they do not).              *)
Ranking(index, found, key) ==
  {s \in SetToSeqs(found) :
     \A i, j \in DOMAIN s : i < j => index[s[i]][key] >= index[s[j]][key]}

(* Rows that rank alike come in any order the database likes.              *)
VectorHits(index, limit) ==
  {UpTo(limit, s) : s \in Ranking(index,
     {c \in DOMAIN index : index[c].mine /\ index[c].similarity >= 0}, "similarity")}
TextHits(index, limit) ==
  {UpTo(limit, s) : s \in Ranking(index,
     {c \in DOMAIN index : index[c].mine /\ index[c].words > 0}, "words")}

(* 1 / (60 + rank), over the common denominator of the first four ranks.   *)
K == 60    \* FILE_RETRIEVAL_RRF_K
Share(rank) == (61 * 62 * 63 * 64) \div (K + rank)
RankIn(hits, c) == CHOOSE i \in DOMAIN hits : hits[i] = c
Score(near, literal, c) ==
  (IF Contains(near, c) THEN Share(RankIn(near, c)) ELSE 0)
    + (IF Contains(literal, c) THEN Share(RankIn(literal, c)) ELSE 0)

Before(index, a, b) ==
  \/ index[a].file < index[b].file
  \/ index[a].file = index[b].file /\ index[a].place < index[b].place
Fuse(index, near, literal) ==
  SetToSortSeq(ToSet(near) \cup ToSet(literal),
    LAMBDA a, b :
      \/ Score(near, literal, a) > Score(near, literal, b)
      \/ Score(near, literal, a) = Score(near, literal, b) /\ Before(index, a, b))

PassesGate_NearAlone(index, literal, c) == index[c].similarity >= MinSimilarity
PassesGate(index, literal, c) ==
  Contains(literal, c) \/ index[c].similarity >= MinSimilarity

(* What a search may return: without an embedding of the query the words   *)
(* alone decide, and a query without words has only its embedding.         *)
Search(index, embedded, wordy, limit) ==
  LET candidates == Most(limit, Candidates)
      nears == IF embedded THEN VectorHits(index, candidates) ELSE {<< >>}
      literals == IF wordy THEN TextHits(index, candidates) ELSE {<< >>}
  IN  {UpTo(limit, SelectSeq(Fuse(index, near, literal),
                             LAMBDA c : PassesGate(index, literal, c))) :
         near \in nears, literal \in literals}

Bounded(limit) == Most(1, Least(limit, MaxSearchLimit))
HybridSearch(index, embedded, wordy, limit) ==
  Search(index, embedded, wordy, Bounded(limit))

(* The fallback: the chunks that hold any of the terms, in their order in  *)
(* the files, and of these the ones with the most terms first.             *)
KeywordExcerpts(index, terms, limit) ==
  LET found == UpTo(limit * Multiplier,
                 SetToSortSeq({c \in DOMAIN index :
                                 index[c].mine /\ index[c].terms \cap terms # {}},
                              LAMBDA a, b : Before(index, a, b)))
      score(i) == Cardinality(index[found[i]].terms \cap terms)
      ranked == SetToSortSeq(DOMAIN found,
                  LAMBDA i, j : score(i) > score(j) \/ (score(i) = score(j) /\ i < j))
  IN  [n \in DOMAIN UpTo(limit, ranked) |-> found[ranked[n]]]

-----------------------------------------------------------------------------
(* Grounding a turn.  The chunks of my files, by file; the excerpts of the *)
(* attachments, in their order, until there are enough; "missing" when one *)
(* that was reached is not mine.                                           *)
AttachmentExcerpts(mine, attached, limit) ==
  LET pages(i) == IF attached[i] \in DOMAIN mine
                  THEN [n \in 1..Least(limit, mine[attached[i]]) |-> <<attached[i], n - 1>>]
                  ELSE << >>
      before(i) == Len(FlattenSeq([j \in 1..(i - 1) |-> pages(j)]))
      reached == {i \in DOMAIN attached : before(i) < limit}
  IN  IF \A i \in reached : attached[i] \in DOMAIN mine
      THEN UpTo(limit, FlattenSeq([i \in DOMAIN attached |-> pages(i)]))
      ELSE <<"missing">>

(* A search that breaks down falls back to the terms, and a fallback that  *)
(* breaks down, as it must in an aborted transaction, costs only the       *)
(* excerpts.                                                               *)
SearchExcerpts(index, question, limit) ==
  CASE question.outcome = "answered" ->
         HybridSearch(index, question.embedded, question.terms # {}, limit)
    [] question.outcome = "broken" -> {KeywordExcerpts(index, question.terms, limit)}
    [] question.outcome = "aborted" -> {<< >>}

(* The grounding of a turn.  The database answers throughout, or not from  *)
(* the excerpts or the list of the user's files on; what a turn without    *)
(* attachments lacks then, it does without.  An aborted transaction gives  *)
(* no list either.                                                         *)
RetrieveFileContext(index, question, mine, attached, inventory, outage, limit) ==
  IF attached # << >>
  THEN LET excerpts == AttachmentExcerpts(mine, attached, limit)
       IN  {IF outage # "none" \/ excerpts = <<"missing">>
            THEN [mode |-> "raised", excerpts |-> << >>, inventory |-> << >>]
            ELSE [mode |-> "attachment", excerpts |-> excerpts, inventory |-> inventory]}
  ELSE {[ mode |-> IF excerpts = << >> THEN "none" ELSE "search",
          excerpts |-> excerpts,
          inventory |-> IF outage = "none" /\ question.outcome # "aborted"
                        THEN inventory ELSE << >> ] :
          excerpts \in IF outage = "excerpts" THEN {<< >>}
                       ELSE SearchExcerpts(index, question, limit)}

(* An empty context leaves the prompt as it would be without files.        *)
IsEmpty(context) == context.excerpts = << >> /\ context.inventory = << >>

-----------------------------------------------------------------------------
(* Nothing of a text is lost by cutting it: every character is in a chunk, *)
(* chunks fit the size, share the overlap with the next one unless only    *)
(* blanks lie between them, and none is inside another.                    *)
CutsWhole(text, size, overlap) ==
  LET body == Strip(text)
      chunks == chunk_text(text, size, overlap)
  IN  /\ \A i \in Inked(body) :
           \E c \in ToSet(chunks) : c.start < i /\ i <= c.end
      /\ \A c \in ToSet(chunks) : c.end - c.start <= size /\ c.content # << >>
      /\ \A i \in 1..(Len(chunks) - 1) :
           LET a == chunks[i]
               b == chunks[i + 1]
           IN  /\ a.start < b.start /\ a.end < b.end
               /\ \/ b.start = a.end - overlap
                  \/ Inked(SubSeq(body, a.end + 1, b.start)) = {} /\ b.start > a.end - overlap

(* Chunks are numbered without gaps, in the order of the document; each is *)
(* cut from one segment, which it can be cited by; and with its header it  *)
(* fits the size, but for a header that leaves no room: then a chunk has   *)
(* one character of the segment.                                           *)
CitesOneSegment(segments, size, overlap) ==
  LET chunks == chunk_segments(segments, size, overlap)
      of(s) == SelectSeq(chunks, LAMBDA c : c.segment = s)
  IN  /\ \A i \in DOMAIN chunks : chunks[i].index = i - 1
      /\ \A i, j \in DOMAIN chunks : i < j => chunks[i].segment <= chunks[j].segment
      /\ \A s \in DOMAIN segments :
           /\ CutsWhole(segments[s].content, Budget(segments[s], size),
                        Least(overlap, Budget(segments[s], size) - 1))
           /\ Len(of(s)) = Len(Pieces(segments[s], size, overlap))
      /\ \A c \in ToSet(chunks) :
           c.length <= size \/ (Prefix(segments[c.segment]) >= size /\ Len(c.piece.content) = 1)

(* What a search returns is mine, once, no more than was asked for, and    *)
(* each with a reason; what both lists found comes before what one found,  *)
(* and is not squeezed out by it; and with no embedding the order is that  *)
(* of the words.                                                           *)
FindsWithReason(index, embedded, wordy, limit) ==
  \A near \in IF embedded THEN VectorHits(index, Most(limit, Candidates)) ELSE {<< >>},
     literal \in IF wordy THEN TextHits(index, Most(limit, Candidates)) ELSE {<< >>} :
    LET found == UpTo(limit, SelectSeq(Fuse(index, near, literal),
                                       LAMBDA c : PassesGate(index, literal, c)))
        both == ToSet(near) \cap ToSet(literal)
    IN  /\ found \in Search(index, embedded, wordy, limit)
        /\ Len(found) <= limit /\ IsInjective(found)
        /\ \A c \in ToSet(found) :
             /\ index[c].mine
             /\ \/ wordy /\ index[c].words > 0
                \/ embedded /\ index[c].similarity >= MinSimilarity
        /\ \A i, j \in DOMAIN found :
             found[i] \in both /\ found[j] \notin both => i < j
        /\ (\E c \in ToSet(found) : c \notin both) => both \subseteq ToSet(found)
        /\ ~embedded => found = UpTo(limit, literal)

(* The attachments are grounded in their order, from the first chunk of    *)
(* each without a gap, up to the limit; a file that is not mine is refused *)
(* unless the limit was reached before it.                                 *)
GroundsAttachments(mine, attached, limit) ==
  LET excerpts == AttachmentExcerpts(mine, attached, limit)
      chunks == [i \in DOMAIN attached |->
                   IF attached[i] \in DOMAIN mine THEN mine[attached[i]] ELSE 0]
      total(n) == FoldLeft(+, 0, UpTo(n, chunks))
  IN  IF excerpts = <<"missing">>
      THEN \E i \in DOMAIN attached : attached[i] \notin DOMAIN mine /\ total(i) < limit
      ELSE /\ Len(excerpts) = Least(limit, total(Len(attached)))
           /\ \A i \in DOMAIN attached : total(i) < limit =>
                /\ attached[i] \in DOMAIN mine
                /\ \A n \in 1..chunks[i] : excerpts[total(i - 1) + n] = <<attached[i], n - 1>>

(* A breakdown of the hybrid search still grounds the turn in chunks that  *)
(* hold a word of the question, the most telling first.                    *)
FallsBack(index, question, limit) ==
  \A found \in SearchExcerpts(index, question, limit) :
    question.outcome = "broken" =>
      LET hit(c) == Cardinality(index[c].terms \cap question.terms)
      IN  /\ Len(found) <= limit
          /\ \A c \in ToSet(found) : index[c].mine /\ hit(c) > 0
          /\ \A i, j \in DOMAIN found : i < j => hit(found[i]) >= hit(found[j])
          /\ (\E c \in DOMAIN index : index[c].mine /\ hit(c) > 0) => found # << >>

(* Only a message that came with files can fail for want of them: then the *)
(* reply is grounded in them alone, or there is none.  Any other turn gets *)
(* what there is: an outage costs the list of files, and the excerpts if   *)
(* it began with them; and a prompt is told of files only when there is    *)
(* something to tell (file_context_service.py).                            *)
GroundsTheTurn(index, question, mine, attached, inventory, outage, limit) ==
  \A context \in RetrieveFileContext(index, question, mine, attached, inventory,
                                     outage, limit) :
    /\ context.mode = "raised" =>
         attached # << >> /\ (outage # "none" \/ ~(ToSet(attached) \subseteq DOMAIN mine))
    /\ attached # << >> =>
         /\ context.mode \in {"attachment", "raised"}
         /\ \A i \in DOMAIN context.excerpts : context.excerpts[i][1] \in ToSet(attached)
         /\ outage = "none" /\ ToSet(attached) \subseteq DOMAIN mine =>
              context.mode = "attachment"
    /\ attached = << >> =>
         /\ context.excerpts # << >> => outage # "excerpts" /\ context.mode = "search"
         /\ outage = "none" /\ question.outcome # "aborted" =>
              context.inventory = inventory
         /\ outage = "list" /\ question.outcome = "broken"
              /\ (\E c \in DOMAIN index :
                    index[c].mine /\ index[c].terms \cap question.terms # {})
            => ~IsEmpty(context)
    /\ inventory # << >> /\ outage = "none" /\ IsEmpty(context) =>
         context.mode = "raised" \/ question.outcome = "aborted"
=============================================================================
