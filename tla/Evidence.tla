------------------------------ MODULE Evidence ------------------------------
(***************************************************************************)
(* How GUMMY OS looks for evidence about the present: when a message is    *)
(* searched for on the web, what a search can come to, what of it is put   *)
(* in the prompt and cited, and what a reply says that had none.  These    *)
(* operators change no state.                                              *)
(*                                                                         *)
(* A question is about the present (fresh) or has only the words of a      *)
(* search (cued).  A hit has a page, a site and a title, "" when missing.  *)
(***************************************************************************)
EXTENDS Knowledge

CONSTANT Limit     \* SEARCH_DEFAULT_LIMIT

Statuses == { "available", "unavailable", "failed", "no_results" }
Outcome(status, results) == [ status |-> status, results |-> results ]

(* A provider is installed at boot when search is enabled and has a key;   *)
(* otherwise a placeholder stays.                                          *)
IsLive(config) == config.enabled /\ config.keyed

IsEligible(config, agentMaySearch, question) ==
  /\ config.enabled
  /\ question.fresh \/ (agentMaySearch /\ question.cued)

(* What the provider makes of its answer, and the service of that.         *)
Parsed(hits) ==
  UpTo(Limit, Kept(hits, LAMBDA h : h.page # "" /\ h.title # ""))
SamePlace(a, b) == a.page = b.page \/ (a.site = b.site /\ a.title = b.title)
Unless(kept, hit) ==
  IF \E i \in DOMAIN kept : SamePlace(kept[i], hit) THEN kept ELSE Append(kept, hit)
DedupedUpTo(hits) ==
  LET deduped[n \in 0..Len(hits)] ==
        IF n = 0 THEN << >> ELSE Unless(deduped[n - 1], hits[n])
  IN  deduped
Deduped(hits) == DedupedUpTo(hits)[Len(hits)]

SearchOutcome(config, provider) ==
  IF ~IsLive(config) THEN Outcome("unavailable", << >>)
  ELSE IF provider.fails THEN Outcome("failed", << >>)
  ELSE LET ranked == UpTo(Limit, Deduped(Parsed(provider.hits)))
       IN  Outcome(IF ranked = << >> THEN "no_results" ELSE "available", ranked)

(* A turn that is not searched for has nothing to report, unless it needed *)
(* what it cannot have.                                                    *)
MaybeSearch(config, agentMaySearch, question, provider) ==
  IF IsEligible(config, agentMaySearch, question) THEN SearchOutcome(config, provider)
  ELSE Outcome(IF question.fresh THEN "unavailable" ELSE "no_results", << >>)

-----------------------------------------------------------------------------
(* The prompt of an agent's turn: its pack and the results, ranked and     *)
(* packed.  All the results are cited.                                     *)
AsHits(results) ==
  [i \in DOMAIN results |->
     [named |-> TRUE, text |-> results[i].page, cost |-> results[i].cost]]
Prepare(pack, question, outcome, budget) ==
  LET context == [FromPack(pack) EXCEPT !.search = AsHits(outcome.results)]
      ranked == Rank(context)
  IN  [ packed |-> Build(ranked, context.inventory, budget),
        ranked |-> ranked,
        cited |-> outcome.results,
        missing |-> question.fresh /\ outcome.status # "available",
        status |-> outcome.status ]

(* The notice of a reply that has no evidence: the model's own, or one     *)
(* that tells the reason.                                                  *)
Finish(prepared, admitted) ==
  IF ~prepared.missing THEN "none" ELSE IF admitted THEN "model" ELSE prepared.status

-----------------------------------------------------------------------------
(* A reply about the present that had no evidence says so, and why: there  *)
(* is no search, it broke down, or it found nothing; one that had some     *)
(* says nothing of the kind.  A placeholder is never cited, nor one place  *)
(* twice; and what is cited was in the prompt unless the budget went to    *)
(* what outranks it (grounding.py, search_service.py).                     *)
HonestAboutNow(config, agentMaySearch, question, provider, pack, budget, admitted) ==
  LET outcome == MaybeSearch(config, agentMaySearch, question, provider)
      prepared == Prepare(pack, question, outcome, budget)
      notice == Finish(prepared, admitted)
      usable == \E i \in DOMAIN provider.hits :
                  provider.hits[i].page # "" /\ provider.hits[i].title # ""
      shown(h) == \E i \in DOMAIN prepared.packed.items :
                    /\ prepared.packed.items[i].source = "search"
                    /\ prepared.packed.items[i].text = h.page
  IN  /\ question.fresh =>
           notice = IF IsLive(config) /\ ~provider.fails /\ usable THEN "none"
                    ELSE IF admitted THEN "model"
                    ELSE IF ~IsLive(config) THEN "unavailable"
                    ELSE IF provider.fails THEN "failed" ELSE "no_results"
      /\ ~question.fresh => notice = "none"
      /\ prepared.cited # << >> => IsLive(config) /\ Len(prepared.cited) <= Limit
      /\ \A i, j \in DOMAIN prepared.cited :
           i # j => ~SamePlace(prepared.cited[i], prepared.cited[j])
      /\ \A i \in DOMAIN prepared.cited :
           shown(prepared.cited[i]) \/ prepared.packed.used + prepared.cited[i].cost > budget
=============================================================================
