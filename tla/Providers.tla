----------------------------- MODULE Providers ------------------------------
(***************************************************************************)
(* What GUMMY OS makes of the models it talks to: of a completion, of the  *)
(* tool calls in it, of a streamed reply, of a failure, and of embeddings, *)
(* which it remembers.  These operators change no state of the system's.   *)
(*                                                                         *)
(* An exchange with a provider comes to one of                             *)
(*   answered    the body is what the API promises                         *)
(*   blank       a body of that shape with no text in it: a message that   *)
(*               is missing, says nothing or reports an error instead      *)
(*   odd         a body that is JSON of another shape                      *)
(*   garbled     a body, or a line of a stream, that is not JSON           *)
(*   timeout, refused (no connection), dropped (it broke), rejected (an    *)
(*   error status), limited (the status of too many requests)              *)
(***************************************************************************)
EXTENDS Selection, SequencesExt

CONSTANT QUERY_CACHE_MAX_ENTRIES

LLM == {"openai", "claude", "ollama", "fake"}
Exchanges == {"answered", "blank", "odd", "garbled", "timeout", "refused", "dropped",
              "rejected", "limited"}
Shaped == {"answered", "blank"}

Reply(text) == [kind |-> "reply", text |-> text, code |-> ""]
AppError(code) == [kind |-> "error", text |-> << >>, code |-> code]
Raised == [kind |-> "raised", text |-> << >>, code |-> ""]

-----------------------------------------------------------------------------
(* A completion is a sequence of words and of the tags of a reasoning      *)
(* model.  What is from an opening tag to the next closing one is thought. *)
Opening == "<think>"
Closing == "</think>"

ReadOn(read, token) ==
  IF read.held # << >>
  THEN [read EXCEPT !.held = IF token = Closing THEN << >> ELSE Append(@, token)]
  ELSE IF token = Opening THEN [read EXCEPT !.held = << token >>]
  ELSE [read EXCEPT !.said = Append(@, token)]
ReadUpTo(tokens) ==
  LET read[n \in 0..Len(tokens)] ==
        IF n = 0 THEN [said |-> << >>, held |-> << >>] ELSE ReadOn(read[n - 1], tokens[n])
  IN  read
Clean(tokens) ==
  LET all == ReadUpTo(tokens)[Len(tokens)]
  IN  all.said \o all.held

(* The errors of each provider.  All look into the body after they mapped  *)
(* the errors; OpenAI reads it only then, too.                             *)
OpenAIError(exchange) ==
  CASE exchange = "timeout" -> AppError("llm_timeout")
    [] exchange = "limited" -> AppError("llm_rate_limited")
    [] exchange \in {"rejected", "refused", "dropped"} -> AppError("llm_error")
    [] exchange \in {"garbled", "odd"} -> Raised
ClaudeError(exchange) ==
  CASE exchange = "timeout" -> AppError("llm_timeout")
    [] exchange = "limited" -> AppError("llm_rate_limited")
    [] exchange = "odd" -> Raised
    [] OTHER -> AppError("llm_error")
OllamaError(exchange) ==
  CASE exchange = "timeout" -> AppError("llm_timeout")
    [] exchange = "refused" -> AppError("llm_unavailable")
    [] exchange \in {"rejected", "limited", "dropped", "garbled"} -> AppError("llm_error")
    [] exchange = "odd" -> Raised
OllamaStreamError(exchange) ==
  IF exchange \in {"dropped", "garbled"} THEN Raised ELSE OllamaError(exchange)

(* Hosted models need a key.  No gateway asks for a text: a body without   *)
(* one is an empty reply.                                                  *)
Generate_Unkeyed(llm, keyed, exchange, tokens) ==
  IF llm = "fake" THEN Reply(tokens)
  ELSE IF exchange = "blank" THEN Reply(<< >>)
  ELSE IF exchange = "answered" THEN Reply(IF llm = "ollama" THEN Clean(tokens) ELSE tokens)
  ELSE CASE llm = "openai" -> OpenAIError(exchange)
         [] llm = "claude" -> ClaudeError(exchange)
         [] llm = "ollama" -> OllamaError(exchange)
Generate(llm, keyed, exchange, tokens) ==
  IF llm = "fake" THEN Reply(tokens)
  ELSE IF llm \in {"openai", "claude"} /\ ~keyed THEN AppError("llm_unavailable")
  ELSE IF exchange = "blank" THEN Reply(<< >>)
  ELSE IF exchange = "answered" THEN Reply(IF llm = "ollama" THEN Clean(tokens) ELSE tokens)
  ELSE CASE llm = "openai" -> OpenAIError(exchange)
         [] llm = "claude" -> ClaudeError(exchange)
         [] llm = "ollama" -> OllamaError(exchange)

(* Ollama can stream.  A line has a piece of the text, or reports that the *)
(* model failed and has none, and may be the last; the stream then ends,   *)
(* cleanly or not.  What is shown is not cleaned.                          *)
Piece(line) == IF line.failed THEN << >> ELSE line.text
Stream(lines, ending) ==
  LET last == {i \in DOMAIN lines : lines[i].done}
      read == IF last = {} THEN lines ELSE SubSeq(lines, 1, Min(last))
  IN  [ shown |-> FlattenSeq([i \in DOMAIN read |-> Piece(read[i])]),
        ending |-> IF last # {} \/ ending \in Shaped THEN "whole"
                   ELSE OllamaStreamError(ending).kind ]

-----------------------------------------------------------------------------
(* The tool calls of a completion.  An entry may be malformed; it has an   *)
(* id or none, and its arguments are an object, the text of one or neither.*)
NoId == <<"none", 0>>
Synthesized_Alike(index) == <<"call", 0>>
Synthesized(index) == <<"call", index>>

ParseToolCalls(entries) ==
  LET wellFormed == Chosen(Len(entries), {i \in DOMAIN entries : entries[i].name # ""})
  IN  [n \in DOMAIN wellFormed |->
        LET i == wellFormed[n]
            entry == entries[i]
        IN  [ id |-> IF entry.id = NoId THEN Synthesized(i - 1) ELSE entry.id,
              name |-> entry.name,
              given |-> entry.arguments \in {"object", "text of one"} ]]

-----------------------------------------------------------------------------
(* Embeddings.  A provider gives a vector, of some width, or fails; Ollama *)
(* checks the width of the first vector it ever gave and of no other.  The *)
(* service remembers the vectors of the queries used last, oldest first.   *)
Embedding == {"openai", "ollama", "hf", "fake"}
Fails(config, exchange) ==
  \/ config.provider = "openai" /\ ~config.keyed
  \/ config.provider \in {"openai", "ollama"} /\ exchange # "answered"
Mismatched(config, service, query) ==
  /\ config.provider = "ollama" /\ ~service.checked
  /\ query.width # config.dimension
Fresh == [checked |-> FALSE, cache |-> << >>, asked |-> 0, answers |-> << >>]
Vector(text, width) == [text |-> text, width |-> width]
NoText == ""
NoVector == Vector(NoText, 0)

EmbedQuery(config, service, query) ==
  LET hits == {i \in DOMAIN service.cache : service.cache[i].text = query.text}
      hit == CHOOSE i \in hits : TRUE
      failed == Fails(config, query.exchange)
      lost == failed \/ Mismatched(config, service, query)
      vector == IF hits # {} THEN service.cache[hit]
                ELSE IF lost THEN NoVector ELSE Vector(query.text, query.width)
      used == Append(IF hits # {} THEN RemoveAt(service.cache, hit) ELSE service.cache, vector)
  IN  [ checked |-> service.checked \/ (hits = {} /\ ~failed),
        cache |-> IF hits = {} /\ lost THEN service.cache
                  ELSE IF Len(used) > QUERY_CACHE_MAX_ENTRIES THEN Tail(used) ELSE used,
        asked |-> service.asked + (IF hits = {} THEN 1 ELSE 0),
        answers |-> Append(service.answers, vector) ]

(* The service once it has answered so many of the queries.                *)
EmbedQueries(config, queries) ==
  LET done[n \in 0..Len(queries)] ==
        IF n = 0 THEN Fresh ELSE EmbedQuery(config, done[n - 1], queries[n])
  IN  done

-----------------------------------------------------------------------------
(* A reply has the words that are outside of thoughts, all and in order;   *)
(* of a thought nothing, unless it was never closed.                       *)
SaysTheAnswer(tokens) ==
  LET closedIn(a, b) == \E i \in a..b : tokens[i] = Closing
      thought(i) == \E o \in 1..i, c \in i..Len(tokens) :
                      /\ o < c /\ tokens[o] = Opening /\ tokens[c] = Closing
                      /\ ~closedIn(o, c - 1)
      places == Chosen(Len(tokens), {i \in DOMAIN tokens : ~thought(i)})
  IN  Clean(tokens) = Taken(tokens, places)

(* A turn that streams shows the reply a turn that does not would give, to *)
(* the line that ends it and nothing after; it fails just when the stream  *)
(* broke before that line.  But it shows thoughts, and takes for a whole   *)
(* reply a stream that just ends, or that reported on the way that the     *)
(* model had failed.                                                       *)
StreamsTheReply(lines, ending) ==
  LET all == FlattenSeq([i \in DOMAIN lines |-> Piece(lines[i])])
      said == \E i \in DOMAIN lines : lines[i].done
      streamed == Stream(lines, ending)
  IN  /\ IsPrefix(streamed.shown, all)
      /\ streamed.ending = "whole" <=> said \/ ending \in Shaped
      /\ \A i \in DOMAIN lines : ~lines[i].done /\ (\A j \in 1..i : ~lines[j].done) =>
           Len(streamed.shown) >= Len(FlattenSeq([j \in 1..i |-> Piece(lines[j])]))
      /\ ~Contains(all, Opening) =>
           Generate("ollama", FALSE, "answered", streamed.shown) = Reply(streamed.shown)

(* Whatever goes wrong with the exchange is an error of the application's, *)
(* that tells a client when to try again, but for a body of another shape  *)
(* and one of OpenAI's that cannot be read, which surface as they are; and *)
(* a body that says nothing, or reports an error, passes for a reply with  *)
(* no words.  A provider without its key, or the fake one, ends the same   *)
(* however the network does.                                               *)
FailsInItsTerms(llm, keyed, exchange, tokens) ==
  LET outcome == Generate(llm, keyed, exchange, tokens)
  IN  /\ outcome.kind = "raised" =>
           exchange = "odd" \/ (llm = "openai" /\ exchange = "garbled")
      /\ outcome.kind = "reply" <=>
           llm = "fake" \/ (exchange \in Shaped /\ (keyed \/ llm = "ollama"))
      /\ outcome.kind = "reply" /\ outcome.text # << >> =>
           llm = "fake" \/ exchange = "answered"
      /\ outcome.code = "llm_timeout" => exchange = "timeout"
      /\ outcome.code = "llm_rate_limited" => exchange = "limited"
      /\ outcome.code = "llm_unavailable" => ~keyed \/ exchange = "refused"

(* Each call that can be read is a call, in order, whatever is wrong with  *)
(* the ones around it; and the results can be told apart by their ids, if  *)
(* the model's own differ and none is the one made up for another entry.   *)
CallsArePaired(entries) ==
  LET calls == ParseToolCalls(entries)
      named == Kept(entries, LAMBDA e : e.name # "")
      ids == {entries[i].id : i \in DOMAIN entries}
      own == Kept(named, LAMBDA e : e.id # NoId)
  IN  /\ Len(calls) = Len(named)
      /\ \A n \in DOMAIN calls :
           /\ calls[n].name = named[n].name /\ calls[n].id # NoId
           /\ named[n].id # NoId => calls[n].id = named[n].id
           /\ calls[n].given <=> named[n].arguments # "neither"
      /\ IsInjective([n \in DOMAIN own |-> own[n].id])
           /\ (\A i \in DOMAIN entries : Synthesized(i - 1) \notin ids)
         => IsInjective([n \in DOMAIN calls |-> calls[n].id])

(* A query gets the vector of its own text.  It is computed only when the  *)
(* text is not among the last ones that were answered, as many as the      *)
(* cache holds, and a failure is forgotten.  A model of the wrong width is *)
(* refused once and never again (embedding_service.py, ollama_provider.py).*)
RemembersQueries(config, queries) ==
  LET done == EmbedQueries(config, queries)
      answer(n) == done[n].answers[n]
      recent(n) == {queries[i].text : i \in {i \in 1..(n - 1) :
                      /\ answer(i).text # NoText
                      /\ Cardinality({answer(j).text : j \in i..(n - 1)} \ {NoText})
                           <= QUERY_CACHE_MAX_ENTRIES}}
      refused == {n \in DOMAIN queries :
                    answer(n).text = NoText /\ ~Fails(config, queries[n].exchange)}
  IN  /\ Len(done[Len(queries)].cache) <= QUERY_CACHE_MAX_ENTRIES
      /\ \A n \in DOMAIN queries :
           /\ answer(n).text \in {queries[n].text, NoText}
           /\ done[n].asked > done[n - 1].asked <=> queries[n].text \notin recent(n)
           /\ answer(n).text = NoText => queries[n].text \notin recent(n)
      /\ \A n \in refused : queries[n].width # config.dimension /\ refused = {n}
=============================================================================
