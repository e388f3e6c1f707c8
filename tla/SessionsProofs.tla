--------------------------- MODULE SessionsProofs ---------------------------
(***************************************************************************)
(* Proofs about Sessions, for any number of requests, passwords, tokens    *)
(* and reset links.                                                        *)
(***************************************************************************)
EXTENDS Sessions, FiniteSetTheorems, TLAPS

-----------------------------------------------------------------------------
Ops == { "free", "signin", "upgrade", "google", "google new", "owner", "refresh",
         "link", "redeem" }
Racing == { "signin", "upgrade", "refresh", "link", "redeem" }
Known == Password \cup {NoPassword}
Call == [ op : Ops, on : SUBSET Nat, password : Known, late : BOOLEAN ]

Typed ==
  /\ account \in Account
  /\ tokens \in Seq(Token) /\ links \in Seq(Link)
  /\ Len(tokens) <= MaxTokens /\ Len(links) <= MaxLinks
  /\ call \in [Caller -> Call]
  /\ chosen \in Known /\ contested \subseteq Racing

(* What a request holds k is about things that exist, and only those that  *)
(* race can be late.                                                       *)
Held(k) ==
  /\ k.late => k.op \in Racing
  /\ k.op \in Racing => account.exists
  /\ k.op \in {"google", "google new"} => k.password = NoPassword
  /\ k.op = "refresh" => \E t \in Tokens : k.on = {t}
  /\ k.op = "redeem" => k.password \in Password /\ \E l \in Links : k.on = {l}
  /\ k.op = "link" => k.on \subseteq Links

(* What a request has found that nobody has overtaken is still so.         *)
Proofs == { "signin", "upgrade", "refresh", "redeem" }
Trusted == Proofs \cap contested = {}
Sound(k) ==
  ~k.late =>
    /\ k.op \in {"signin", "upgrade"} /\ "upgrade" \notin contested =>
         k.password = account.password
    /\ k.op = "refresh" /\ "refresh" \notin contested =>
         \A t \in k.on : tokens[t].exchanges = 0
    /\ k.op = "refresh" /\ Trusted =>
         \A t \in k.on : tokens[t].under \in {chosen, NoPassword}
    /\ k.op = "redeem" /\ "redeem" \notin contested =>
         \A l \in k.on : links[l].redeemed = 0
    /\ k.op = "link" /\ "link" \notin contested => LiveLinks \subseteq k.on

Grounded ==
  /\ ~account.exists => /\ tokens = << >> /\ links = << >>
                        /\ account.password = NoPassword
  /\ "upgrade" \notin contested => account.password = chosen

Proved ==
  Trusted => \A t \in Tokens : tokens[t].live => tokens[t].under \in {chosen, NoPassword}

LinksOnce ==
  "redeem" \notin contested =>
    \A l \in Links : /\ links[l].redeemed <= 1
                     /\ links[l].live => links[l].redeemed = 0

OneLink ==
  "link" \notin contested =>
    \A k, l \in Links : links[k].live /\ links[l].live => k = l

Rows == RotationIsExclusive /\ Proved /\ LinksOnce /\ OneLink

Inv ==
  /\ Typed
  /\ \A c \in Caller : Held(call[c]) /\ Sound(call[c])
  /\ Grounded
  /\ Rows

-----------------------------------------------------------------------------
(* Rows: their lists as functions.                                         *)
LEMMA TokensAreRows ==
  ASSUME Typed
  PROVE  /\ Tokens = 1..Len(tokens) /\ Len(tokens) \in Nat
         /\ \A t \in Tokens : tokens[t] \in Token
         /\ \A t \in Tokens : /\ tokens[t].live \in BOOLEAN
                              /\ tokens[t].exchanges \in Nat
                              /\ tokens[t].under \in Known
<1>1. Tokens = 1..Len(tokens) /\ Len(tokens) \in Nat
  BY DEF Typed, Tokens
<1>2. \A t \in Tokens : tokens[t] \in Token
  BY DEF Typed, Tokens
<1>. QED
  BY <1>1, <1>2 DEF Token, Known

LEMMA LinksAreRows ==
  ASSUME Typed
  PROVE  /\ Links = 1..Len(links) /\ Len(links) \in Nat
         /\ \A l \in Links : links[l] \in Link
         /\ \A l \in Links : links[l].live \in BOOLEAN /\ links[l].redeemed \in Nat
<1>1. Links = 1..Len(links) /\ Len(links) \in Nat
  BY DEF Typed, Links
<1>2. \A l \in Links : links[l] \in Link
  BY DEF Typed, Links
<1>. QED
  BY <1>1, <1>2 DEF Link

LEMMA ListOf ==
  ASSUME NEW S, NEW n \in Nat, NEW f \in [1..n -> S]
  PROVE  f \in Seq(S) /\ Len(f) = n
  OBVIOUS

LEMMA Appended ==
  ASSUME NEW S, NEW s \in Seq(S), NEW e \in S
  PROVE  /\ Append(s, e) \in Seq(S) /\ Len(Append(s, e)) = Len(s) + 1
         /\ DOMAIN Append(s, e) = 1..(Len(s) + 1) /\ DOMAIN s = 1..Len(s)
         /\ \A i \in 1..Len(s) : Append(s, e)[i] = s[i]
         /\ Append(s, e)[Len(s) + 1] = e
         /\ Len(s) \in Nat
  OBVIOUS

(* Issuing a session.                                                      *)
LEMMA Issues ==
  ASSUME NEW rows \in Seq(Token), NEW password \in Known
  PROVE  /\ Issued(rows, password) \in Seq(Token)
         /\ Len(rows) \in Nat /\ Len(Issued(rows, password)) = Len(rows) + 1
         /\ DOMAIN Issued(rows, password) = 1..(Len(rows) + 1)
         /\ DOMAIN rows = 1..Len(rows)
         /\ \A t \in 1..Len(rows) : Issued(rows, password)[t] = rows[t]
         /\ Issued(rows, password)[Len(rows) + 1].live = TRUE
         /\ Issued(rows, password)[Len(rows) + 1].exchanges = 0
         /\ Issued(rows, password)[Len(rows) + 1].under = password
<1>. DEFINE e == [live |-> TRUE, exchanges |-> 0, under |-> password]
<1>1. e \in Token
  BY DEF Token, Known
<1>2. Issued(rows, password) = Append(rows, e)
  BY DEF Issued
<1>3. e.live = TRUE /\ e.exchanges = 0 /\ e.under = password
  OBVIOUS
<1>. HIDE DEF e
<1>. QED
  BY <1>1, <1>2, <1>3, Appended

(* The end of a request.                                                   *)
LEMMA EndsFacts ==
  ASSUME Typed, NEW c \in Caller, NEW overtaken, Ends(c, overtaken)
  PROVE  /\ call' \in [Caller -> Call] /\ call'[c] = Free
         /\ \A d \in Caller \ {c} :
              /\ call'[d].op = call[d].op /\ call'[d].on = call[d].on
              /\ call'[d].password = call[d].password
              /\ d \in overtaken => call'[d].late
              /\ call[d].late => call'[d].late
              /\ call'[d].late => call[d].late \/ d \in overtaken
         /\ contested' = IF call[c].late THEN contested \cup {call[c].op} ELSE contested
<1>1. call'[c] = Free /\ Free \in Call
  BY DEF Ends, Free, Call, Ops, Known
<1>2. ASSUME NEW d \in Caller \ {c}
      PROVE  /\ call'[d] \in Call
             /\ call'[d].op = call[d].op /\ call'[d].on = call[d].on
             /\ call'[d].password = call[d].password
             /\ call'[d].late <=> (call[d].late \/ d \in overtaken)
  <2>. DEFINE late == call[d].late \/ d \in overtaken
  <2>1. call'[d] = [call[d] EXCEPT !.late = late]
    BY DEF Ends
  <2>2. late \in BOOLEAN
    OBVIOUS
  <2>3. call[d] \in Call
    BY DEF Typed
  <2>4. /\ call'[d] \in Call
        /\ call'[d].op = call[d].op /\ call'[d].on = call[d].on
        /\ call'[d].password = call[d].password
        /\ call'[d].late = late
    <3>. HIDE DEF late
    <3>. QED
      BY <2>1, <2>2, <2>3 DEF Call
  <2>. QED
    BY <2>4
<1>3. \A d \in Caller : call'[d] \in Call
  BY <1>1, <1>2
<1>4. call' \in [Caller -> Call]
  BY <1>3 DEF Ends
<1>5. contested' = IF call[c].late THEN contested \cup {call[c].op} ELSE contested
  BY DEF Ends
<1>. QED
  BY <1>1, <1>2, <1>4, <1>5

LEMMA FreeIsFine == Held(Free) /\ Sound(Free)
  BY DEF Held, Sound, Free, Racing

LEMMA InvInit == Assumption /\ Init => Inv
<1>. SUFFICES ASSUME Assumption, Init PROVE Inv
  OBVIOUS
<1>1. Typed
  <2>1. call \in [Caller -> Call]
    BY DEF Init, Free, Call, Ops, Known
  <2>2. account \in Account
    BY DEF Init, Account
  <2>. QED
    BY <2>1, <2>2 DEF Init, Typed, Assumption, Known
<1>2. \A c \in Caller : call[c] = Free
  BY DEF Init
<1>3. Grounded
  BY DEF Init, Grounded
<1>4. Tokens = {} /\ Links = {}
  BY DEF Init, Tokens, Links
<1>5. Rows
  BY <1>4 DEF Rows, RotationIsExclusive, Proved, LinksOnce, OneLink
<1>. QED
  BY <1>1, <1>2, <1>3, <1>5, FreeIsFine DEF Inv

(* A request that begins, with what it found.                              *)
LEMMA InvBegins ==
  ASSUME Inv, NEW c \in Caller, NEW op \in Ops, NEW on \in SUBSET Nat,
         NEW password \in Known, Begins(c, op, on, password),
         LET k == [op |-> op, on |-> on, password |-> password, late |-> FALSE]
         IN  Held(k) /\ Sound(k)
  PROVE  Inv'
<1>. DEFINE k == [op |-> op, on |-> on, password |-> password, late |-> FALSE]
<1>1. k \in Call
  BY DEF Call
<1>2. call' = [call EXCEPT ![c] = k]
  BY DEF Begins
<1>3. Held(k) /\ Sound(k)
  OBVIOUS
<1>. HIDE DEF k
<1>4. call' \in [Caller -> Call]
  BY <1>1, <1>2 DEF Inv, Typed
<1>5. \A d \in Caller : call'[d] = IF d = c THEN k ELSE call[d]
  BY <1>2 DEF Inv, Typed
<1>6. UNCHANGED <<account, tokens, links, chosen, contested>>
  BY DEF Begins
<1>7. Typed' /\ Grounded' /\ Rows'
  BY <1>4, <1>6 DEF Inv, Typed, Grounded, Rows, RotationIsExclusive, Proved, LinksOnce,
                    OneLink, Trusted, Tokens, Links
<1>8. ASSUME NEW d \in Caller PROVE (Held(call[d]) /\ Sound(call[d]))'
  <2>1. Held(call'[d]) /\ Sound(call'[d])
    BY <1>3, <1>5 DEF Inv
  <2>. QED
    BY <2>1, <1>6 DEF Held, Sound, Trusted, Tokens, Links, LiveLinks
<1>. QED
  BY <1>7, <1>8 DEF Inv

-----------------------------------------------------------------------------
(* What a commit leaves of the other requests: those that it does not      *)
(* overtake must find what they found.                                     *)
LEMMA HeldAfter ==
  ASSUME Inv, NEW c \in Caller, NEW overtaken \in SUBSET Doing(Racing),
         Ends(c, overtaken), account.exists => account'.exists,
         Tokens \subseteq Tokens', Links \subseteq Links'
  PROVE  /\ \A d \in Caller : Held(call[d])'
         /\ contested \subseteq contested' /\ contested' \subseteq Racing
         /\ Trusted' => Trusted
<1>0. /\ call'[c] = Free
      /\ \A d \in Caller \ {c} :
           /\ call'[d].op = call[d].op /\ call'[d].on = call[d].on
           /\ call'[d].password = call[d].password
           /\ d \in overtaken => call'[d].late
           /\ call[d].late => call'[d].late
           /\ call'[d].late => call[d].late \/ d \in overtaken
      /\ contested' = IF call[c].late THEN contested \cup {call[c].op} ELSE contested
  BY EndsFacts DEF Inv
<1>1. ASSUME NEW d \in Caller \ {c} PROVE Held(call[d])'
  <2>1. /\ call'[d].op = call[d].op /\ call'[d].on = call[d].on
        /\ call'[d].password = call[d].password
        /\ call'[d].late => call[d].late \/ d \in overtaken
    BY <1>0
  <2>2. Held(call[d])
    BY DEF Inv
  <2>3. d \in overtaken => call[d].op \in Racing
    BY DEF Doing
  <2>. QED
    BY <2>1, <2>2, <2>3 DEF Held
<1>2. Held(call[c])'
  BY <1>0 DEF Held, Free, Racing
<1>3. contested \subseteq contested' /\ contested' \subseteq Racing
  BY <1>0 DEF Inv, Typed, Held
<1>4. Trusted' => Trusted
  BY <1>3 DEF Trusted
<1>. QED
  BY <1>1, <1>2, <1>3, <1>4

LEMMA SoundAfter ==
  ASSUME Inv, NEW c \in Caller, NEW overtaken \in SUBSET Doing(Racing),
         Ends(c, overtaken), contested \subseteq contested', Trusted' => Trusted,
         \A d \in Caller \ {c} : d \notin overtaken =>
           /\ call[d].op \in {"signin", "upgrade"} /\ "upgrade" \notin contested' =>
                account'.password = account.password
           /\ call[d].op = "refresh" =>
                /\ \A t \in call[d].on : /\ tokens'[t].exchanges = tokens[t].exchanges
                                         /\ tokens'[t].under = tokens[t].under
                /\ chosen' = chosen
           /\ call[d].op = "redeem" =>
                \A l \in call[d].on : links'[l].redeemed = links[l].redeemed
           /\ call[d].op = "link" => LiveLinks' \subseteq LiveLinks
  PROVE  \A d \in Caller : Sound(call[d])'
<1>0. /\ call'[c] = Free
      /\ \A d \in Caller \ {c} :
           /\ call'[d].op = call[d].op /\ call'[d].on = call[d].on
           /\ call'[d].password = call[d].password
           /\ d \in overtaken => call'[d].late
           /\ call[d].late => call'[d].late
           /\ call'[d].late => call[d].late \/ d \in overtaken
      /\ contested' = IF call[c].late THEN contested \cup {call[c].op} ELSE contested
  BY EndsFacts DEF Inv
<1>1. ASSUME NEW d \in Caller \ {c} PROVE Sound(call[d])'
  <2>1. CASE call'[d].late
    BY <2>1 DEF Sound
  <2>2. CASE ~call'[d].late
    <3>1. /\ call'[d].op = call[d].op /\ call'[d].on = call[d].on
          /\ call'[d].password = call[d].password
          /\ ~call[d].late /\ d \notin overtaken
      BY <1>0, <2>2
    <3>2. Sound(call[d])
      BY DEF Inv
    <3>. QED
      BY <3>1, <3>2 DEF Sound
  <2>. QED
    BY <2>1, <2>2
<1>2. Sound(call[c])'
  BY <1>0 DEF Sound, Free
<1>. QED
  BY <1>1, <1>2

-----------------------------------------------------------------------------
(* Steps outside the requests.                                             *)
LEMMA InvSignUp ==
  ASSUME Assumption, Inv, NEW password \in Password, SignUp(password)
  PROVE  Inv'
<1>1. /\ account'.exists /\ account'.password = password /\ account' \in Account
      /\ chosen' = password /\ UNCHANGED <<links, call, contested>>
      /\ tokens = << >> /\ links = << >> /\ ~account.exists
      /\ tokens' = Issued(tokens, password)
  BY DEF SignUp, Inv, Typed, Grounded, Account
<1>2. /\ tokens' \in Seq(Token) /\ Len(tokens') = 1 /\ Tokens' = 1..1 /\ Tokens = {}
      /\ tokens'[1].exchanges = 0 /\ tokens'[1].under = password
  <2>1. tokens \in Seq(Token) /\ password \in Known /\ Len(tokens) = 0
    BY <1>1 DEF Inv, Typed, Known
  <2>2. /\ Issued(tokens, password) \in Seq(Token)
        /\ Len(Issued(tokens, password)) = 1
        /\ DOMAIN Issued(tokens, password) = 1..1
        /\ Issued(tokens, password)[1].exchanges = 0
        /\ Issued(tokens, password)[1].under = password
    <3>1. /\ Issued(tokens, password) \in Seq(Token)
          /\ Len(Issued(tokens, password)) = Len(tokens) + 1
          /\ DOMAIN Issued(tokens, password) = 1..(Len(tokens) + 1)
          /\ Issued(tokens, password)[Len(tokens) + 1].exchanges = 0
          /\ Issued(tokens, password)[Len(tokens) + 1].under = password
      BY <2>1, Issues
    <3>2. Len(tokens) + 1 = 1
      BY <2>1
    <3>. QED
      BY <3>1, <3>2
  <2>. QED
    BY <1>1, <2>2 DEF Tokens
<1>3. Typed'
  <2>1. 1 <= MaxTokens
    BY <1>1 DEF SignUp, MayIssue, Assumption
  <2>. QED
    BY <1>1, <1>2, <2>1 DEF Inv, Typed, Known
<1>4. \A d \in Caller : call[d].op \notin Racing
  BY <1>1 DEF Inv, Held
<1>5. ASSUME NEW d \in Caller PROVE (Held(call[d]) /\ Sound(call[d]))'
  BY <1>1, <1>4 DEF Inv, Held, Sound, Racing
<1>6. Grounded' /\ Links' = {}
  BY <1>1 DEF Grounded, Links
<1>7. Rows'
  BY <1>1, <1>2, <1>6 DEF Rows, RotationIsExclusive, Proved, LinksOnce, OneLink
<1>. QED
  BY <1>3, <1>5, <1>6, <1>7 DEF Inv

(* Tokens and links that die on their own.                                 *)
LEMMA InvDies ==
  ASSUME Inv, Typed', Tokens' = Tokens, Links' = Links,
         \A t \in Tokens : /\ tokens'[t].exchanges = tokens[t].exchanges
                           /\ tokens'[t].under = tokens[t].under
                           /\ tokens'[t].live => tokens[t].live,
         \A l \in Links : /\ links'[l].redeemed = links[l].redeemed
                          /\ links'[l].live => links[l].live,
         tokens = << >> => tokens' = << >>, links = << >> => links' = << >>,
         UNCHANGED <<account, call, chosen, contested>>
  PROVE  Inv'
<1>1. LiveLinks' \subseteq LiveLinks
  BY DEF LiveLinks
<1>2. ASSUME NEW d \in Caller PROVE (Held(call[d]) /\ Sound(call[d]))'
  <2>1. Held(call[d]) /\ Sound(call[d])
    BY DEF Inv
  <2>. QED
    BY <1>1, <2>1 DEF Held, Sound, Trusted
<1>3. Grounded'
  BY DEF Inv, Grounded
<1>4. Rows'
  BY DEF Inv, Rows, RotationIsExclusive, Proved, LinksOnce, OneLink, Trusted
<1>. QED
  BY <1>2, <1>3, <1>4 DEF Inv

LEMMA TokenDies ==
  ASSUME Typed, NEW t \in Tokens, tokens' = [tokens EXCEPT ![t].live = FALSE]
  PROVE  /\ tokens' \in Seq(Token) /\ Len(tokens') = Len(tokens) /\ Tokens' = Tokens
         /\ tokens'[t].live = FALSE
         /\ \A u \in Tokens : /\ tokens'[u].exchanges = tokens[u].exchanges
                              /\ tokens'[u].under = tokens[u].under
                              /\ tokens'[u].live => tokens[u].live
<1>. DEFINE row == [tokens[t] EXCEPT !.live = FALSE]
<1>1. tokens[t] \in Token /\ tokens \in Seq(Token)
  BY TokensAreRows DEF Typed
<1>2. /\ row \in Token /\ row.live = FALSE /\ row.exchanges = tokens[t].exchanges
      /\ row.under = tokens[t].under
  BY <1>1 DEF Token
<1>3. tokens' = [tokens EXCEPT ![t] = row]
  OBVIOUS
<1>. HIDE DEF row
<1>4. /\ tokens' \in Seq(Token) /\ Len(tokens') = Len(tokens) /\ DOMAIN tokens' = DOMAIN tokens
      /\ \A u \in DOMAIN tokens : tokens'[u] = IF u = t THEN row ELSE tokens[u]
  <2>1. /\ DOMAIN tokens' = DOMAIN tokens /\ tokens' = [u \in DOMAIN tokens' |-> tokens'[u]]
        /\ \A u \in DOMAIN tokens : tokens'[u] = IF u = t THEN row ELSE tokens[u]
    BY <1>3 DEF Tokens
  <2>2. \A u \in DOMAIN tokens : tokens[u] \in Token
    BY TokensAreRows DEF Tokens
  <2>3. \A u \in DOMAIN tokens : tokens'[u] \in Token
    BY <1>2, <2>1, <2>2
  <2>4. tokens' \in Seq(Token) /\ Len(tokens') = Len(tokens)
    <3>1. Len(tokens) \in Nat /\ DOMAIN tokens = 1..Len(tokens)
      BY <1>1
    <3>2. tokens' \in [1..Len(tokens) -> Token]
      BY <2>1, <2>3, <3>1
    <3>. QED
      BY <3>1, <3>2, ListOf
  <2>. QED
    BY <2>1, <2>4
<1>. QED
  BY <1>2, <1>4 DEF Tokens

LEMMA LinkDies ==
  ASSUME Typed, NEW l \in Links, links' = [links EXCEPT ![l].live = FALSE]
  PROVE  /\ links' \in Seq(Link) /\ Len(links') = Len(links) /\ Links' = Links
         /\ \A u \in Links : /\ links'[u].redeemed = links[u].redeemed
                             /\ links'[u].live => links[u].live
<1>. DEFINE row == [links[l] EXCEPT !.live = FALSE]
<1>1. links[l] \in Link /\ links \in Seq(Link)
  BY LinksAreRows DEF Typed
<1>2. row \in Link /\ row.live = FALSE /\ row.redeemed = links[l].redeemed
  BY <1>1 DEF Link
<1>3. links' = [links EXCEPT ![l] = row]
  OBVIOUS
<1>. HIDE DEF row
<1>4. /\ links' \in Seq(Link) /\ Len(links') = Len(links) /\ DOMAIN links' = DOMAIN links
      /\ \A u \in DOMAIN links : links'[u] = IF u = l THEN row ELSE links[u]
  <2>1. /\ DOMAIN links' = DOMAIN links /\ links' = [u \in DOMAIN links' |-> links'[u]]
        /\ \A u \in DOMAIN links : links'[u] = IF u = l THEN row ELSE links[u]
    BY <1>3 DEF Links
  <2>2. \A u \in DOMAIN links : links[u] \in Link
    BY LinksAreRows DEF Links
  <2>3. \A u \in DOMAIN links : links'[u] \in Link
    BY <1>2, <2>1, <2>2
  <2>4. links' \in Seq(Link) /\ Len(links') = Len(links)
    <3>1. Len(links) \in Nat /\ DOMAIN links = 1..Len(links)
      BY <1>1
    <3>2. links' \in [1..Len(links) -> Link]
      BY <2>1, <2>3, <3>1
    <3>. QED
      BY <3>1, <3>2, ListOf
  <2>. QED
    BY <2>1, <2>4
<1>. QED
  BY <1>2, <1>4 DEF Links

LEMMA InvSignOut == ASSUME Inv, NEW t \in Tokens, SignOut(t) PROVE Inv'
<1>1. /\ tokens' = [tokens EXCEPT ![t].live = FALSE]
      /\ UNCHANGED <<account, links, call, chosen, contested>>
  BY DEF SignOut
<1>2. /\ tokens' \in Seq(Token) /\ Len(tokens') = Len(tokens) /\ Tokens' = Tokens
      /\ \A u \in Tokens : /\ tokens'[u].exchanges = tokens[u].exchanges
                           /\ tokens'[u].under = tokens[u].under
                           /\ tokens'[u].live => tokens[u].live
  BY <1>1, TokenDies DEF Inv
<1>3. Typed' /\ Links' = Links
  BY <1>1, <1>2 DEF Inv, Typed, Links
<1>4. tokens # << >>
  BY DEF Tokens
<1>. QED
  BY <1>1, <1>2, <1>3, <1>4, InvDies

LEMMA InvExpire == ASSUME Inv, Expire PROVE Inv'
<1>1. UNCHANGED <<account, call, chosen, contested>>
  BY DEF Expire
<1>2. CASE /\ \E t \in LiveTokens : tokens' = [tokens EXCEPT ![t].live = FALSE]
           /\ UNCHANGED links
  <2>1. PICK t \in Tokens : tokens' = [tokens EXCEPT ![t].live = FALSE]
    BY <1>2 DEF LiveTokens
  <2>2. /\ tokens' \in Seq(Token) /\ Len(tokens') = Len(tokens) /\ Tokens' = Tokens
        /\ \A u \in Tokens : /\ tokens'[u].exchanges = tokens[u].exchanges
                             /\ tokens'[u].under = tokens[u].under
                             /\ tokens'[u].live => tokens[u].live
    BY <2>1, TokenDies DEF Inv
  <2>3. Typed' /\ Links' = Links
    BY <1>1, <1>2, <2>2 DEF Inv, Typed, Links
  <2>4. tokens # << >>
    BY DEF Tokens
  <2>. QED
    BY <1>1, <1>2, <2>2, <2>3, <2>4, InvDies
<1>3. CASE /\ \E l \in LiveLinks : links' = [links EXCEPT ![l].live = FALSE]
           /\ UNCHANGED tokens
  <2>1. PICK l \in Links : links' = [links EXCEPT ![l].live = FALSE]
    BY <1>3 DEF LiveLinks
  <2>2. /\ links' \in Seq(Link) /\ Len(links') = Len(links) /\ Links' = Links
        /\ \A u \in Links : /\ links'[u].redeemed = links[u].redeemed
                            /\ links'[u].live => links[u].live
    BY <2>1, LinkDies DEF Inv
  <2>3. Typed' /\ Tokens' = Tokens
    BY <1>1, <1>3, <2>2 DEF Inv, Typed, Tokens
  <2>4. links # << >>
    BY DEF Links
  <2>. QED
    BY <1>1, <1>3, <2>2, <2>3, <2>4, InvDies
<1>. QED
  BY <1>2, <1>3 DEF Expire

-----------------------------------------------------------------------------
(* The first halves of requests.                                           *)
LEMMA InvReads ==
  ASSUME Inv, NEW c \in Caller,
         \/ \E weak \in BOOLEAN : VerifyPassword(c, weak)
         \/ GoogleAnswers(c) \/ CountUsers(c) \/ AskForLink(c)
         \/ \E t \in Tokens : FindToken(c, t)
         \/ \E l \in Links, password \in Password : FindLink(c, l, password)
  PROVE  Inv'
<1>g. Typed /\ Grounded /\ Rows
  BY DEF Inv
<1>t. Tokens \subseteq Nat /\ Links \subseteq Nat
  BY <1>g, TokensAreRows, LinksAreRows
<1>n. NoPassword \in Known /\ account.password \in Known
  BY <1>g DEF Typed, Account, Known
<1>1. ASSUME NEW weak \in BOOLEAN, VerifyPassword(c, weak) PROVE Inv'
  <2>1. PICK op \in {"signin", "upgrade"} : Begins(c, op, {}, account.password)
    BY <1>1 DEF VerifyPassword
  <2>. DEFINE k == [op |-> op, on |-> {}, password |-> account.password, late |-> FALSE]
  <2>2. account.exists
    BY <1>1 DEF VerifyPassword
  <2>3. Held(k) /\ Sound(k)
    BY <2>1, <2>2 DEF Held, Sound, Racing
  <2>. QED
    BY <2>1, <2>3, <1>n, InvBegins DEF Ops
<1>2. CASE GoogleAnswers(c)
  <2>1. PICK op \in {"google", "google new"} : Begins(c, op, {}, NoPassword)
    BY <1>2 DEF GoogleAnswers
  <2>. DEFINE k == [op |-> op, on |-> {}, password |-> NoPassword, late |-> FALSE]
  <2>3. Held(k) /\ Sound(k)
    BY <2>1 DEF Held, Sound, Racing
  <2>. QED
    BY <2>1, <2>3, <1>n, InvBegins DEF Ops
<1>3. CASE CountUsers(c)
  <2>1. Begins(c, "owner", {}, NoPassword)
    BY <1>3 DEF CountUsers
  <2>. DEFINE k == [op |-> "owner", on |-> {}, password |-> NoPassword, late |-> FALSE]
  <2>3. Held(k) /\ Sound(k)
    BY <2>1 DEF Held, Sound, Racing
  <2>. QED
    BY <2>1, <2>3, <1>n, InvBegins DEF Ops
<1>4. CASE AskForLink(c)
  <2>1. Begins(c, "link", LiveLinks, NoPassword) /\ account.exists
    BY <1>4 DEF AskForLink
  <2>. DEFINE k == [op |-> "link", on |-> LiveLinks, password |-> NoPassword,
                    late |-> FALSE]
  <2>2. LiveLinks \subseteq Links
    BY DEF LiveLinks
  <2>3. Held(k) /\ Sound(k)
    BY <2>1, <2>2 DEF Held, Sound, Racing
  <2>. QED
    BY <2>1, <2>2, <2>3, <1>n, <1>t, InvBegins DEF Ops
<1>5. ASSUME NEW t \in Tokens, FindToken(c, t) PROVE Inv'
  <2>1. Begins(c, "refresh", {t}, NoPassword) /\ tokens[t].live
    BY <1>5 DEF FindToken, LiveTokens
  <2>. DEFINE k == [op |-> "refresh", on |-> {t}, password |-> NoPassword,
                    late |-> FALSE]
  <2>2. account.exists
    BY <1>g DEF Grounded, Tokens
  <2>3. tokens[t].exchanges \in Nat
    BY <1>g, TokensAreRows
  <2>4. "refresh" \notin contested => tokens[t].exchanges = 0
    BY <1>g, <2>1, <2>3 DEF Rows, RotationIsExclusive
  <2>5. Trusted => tokens[t].under \in {chosen, NoPassword}
    BY <1>g, <2>1 DEF Rows, Proved
  <2>6. Held(k) /\ Sound(k)
    BY <2>2, <2>4, <2>5 DEF Held, Sound, Racing
  <2>. QED
    BY <2>1, <2>6, <1>n, <1>t, InvBegins DEF Ops
<1>6. ASSUME NEW l \in Links, NEW password \in Password, FindLink(c, l, password)
      PROVE  Inv'
  <2>1. Begins(c, "redeem", {l}, password) /\ links[l].live
    BY <1>6 DEF FindLink, LiveLinks
  <2>. DEFINE k == [op |-> "redeem", on |-> {l}, password |-> password, late |-> FALSE]
  <2>2. account.exists
    BY <1>g DEF Grounded, Links
  <2>3. "redeem" \notin contested => links[l].redeemed = 0
    BY <1>g, <2>1 DEF Rows, LinksOnce
  <2>4. Held(k) /\ Sound(k)
    BY <2>2, <2>3 DEF Held, Sound, Racing
  <2>. QED
    BY <2>1, <2>4, <1>t, InvBegins DEF Ops, Known
<1>. QED
  BY <1>1, <1>2, <1>3, <1>4, <1>5, <1>6

LEMMA InvRefuse == ASSUME Inv, NEW c \in Caller, Refuse(c) PROVE Inv'
<1>1. /\ call' = [call EXCEPT ![c] = Free]
      /\ UNCHANGED <<account, tokens, links, chosen, contested>>
  BY DEF Refuse
<1>2. Free \in Call
  BY DEF Free, Call, Ops, Known
<1>3. \A d \in Caller : call'[d] = IF d = c THEN Free ELSE call[d]
  BY <1>1 DEF Inv, Typed
<1>4. Typed' /\ Grounded' /\ Rows'
  BY <1>1, <1>2 DEF Inv, Typed, Grounded, Rows, RotationIsExclusive, Proved, LinksOnce,
                    OneLink, Trusted, Tokens, Links
<1>5. ASSUME NEW d \in Caller PROVE (Held(call[d]) /\ Sound(call[d]))'
  <2>1. Held(call'[d]) /\ Sound(call'[d])
    BY <1>3, FreeIsFine DEF Inv
  <2>. QED
    BY <1>1, <2>1 DEF Held, Sound, Trusted, Tokens, Links, LiveLinks
<1>. QED
  BY <1>4, <1>5 DEF Inv

-----------------------------------------------------------------------------
(* The second halves that issue a session.                                 *)
LEMMA OneMore ==
  ASSUME Assumption, Typed, NEW password \in Known,
         tokens' = Issued(tokens, password), MayIssue
  PROVE  /\ tokens' \in Seq(Token) /\ Len(tokens') <= MaxTokens
         /\ Tokens' = Tokens \cup {Len(tokens) + 1} /\ Len(tokens) + 1 \notin Tokens
         /\ \A t \in Tokens : tokens'[t] = tokens[t]
         /\ tokens'[Len(tokens) + 1].exchanges = 0
         /\ tokens'[Len(tokens) + 1].under = password
<1>1. tokens \in Seq(Token) /\ Len(tokens) \in Nat /\ Tokens = 1..Len(tokens)
  BY TokensAreRows DEF Typed
<1>2. /\ tokens' \in Seq(Token) /\ Len(tokens') = Len(tokens) + 1
      /\ DOMAIN tokens' = 1..(Len(tokens) + 1)
      /\ \A t \in 1..Len(tokens) : tokens'[t] = tokens[t]
      /\ tokens'[Len(tokens) + 1].exchanges = 0
      /\ tokens'[Len(tokens) + 1].under = password
  BY <1>1, Issues
<1>3. Len(tokens') <= MaxTokens
  BY <1>1, <1>2 DEF MayIssue, Assumption
<1>4. Tokens' = Tokens \cup {Len(tokens) + 1} /\ Len(tokens) + 1 \notin Tokens
  BY <1>1, <1>2 DEF Tokens
<1>. QED
  BY <1>1, <1>2, <1>3, <1>4

(* A password proved or not, the rows stay in order; what is left to show  *)
(* of a step that issues a session is about the account.                   *)
LEMMA InvIssues ==
  ASSUME Assumption, Inv, NEW c \in Caller, Ends(c, {}), MayIssue,
         tokens' = Issued(tokens, call[c].password),
         UNCHANGED <<links, chosen>>,
         account' \in Account, account'.exists,
         "upgrade" \notin contested' => account'.password = account.password,
         Trusted' => call[c].password \in {chosen, NoPassword}
  PROVE  Inv'
<1>g. Typed /\ Grounded /\ Rows
  BY DEF Inv
<1>1. call[c].password \in Known
  BY <1>g DEF Typed, Call
<1>. DEFINE n == Len(tokens) + 1
<1>2. /\ tokens' \in Seq(Token) /\ Len(tokens') <= MaxTokens
      /\ Tokens' = Tokens \cup {n} /\ n \notin Tokens
      /\ \A t \in Tokens : tokens'[t] = tokens[t]
      /\ tokens'[n].exchanges = 0 /\ tokens'[n].under = call[c].password
  BY <1>g, <1>1, OneMore
<1>. HIDE DEF n
<1>3. Links' = Links /\ LiveLinks' = LiveLinks
  BY DEF Links, LiveLinks
<1>4. {} \in SUBSET Doing(Racing)
  OBVIOUS
<1>5. /\ \A d \in Caller : Held(call[d])'
      /\ contested \subseteq contested' /\ contested' \subseteq Racing
      /\ Trusted' => Trusted
  BY <1>2, <1>3, <1>4, HeldAfter
<1>6. \A d \in Caller \ {c} : call[d].op = "refresh" => call[d].on \subseteq Tokens
  BY DEF Inv, Held
<1>7. \A d \in Caller : Sound(call[d])'
  <2>1. \A d \in Caller \ {c} : d \notin {} =>
           /\ call[d].op \in {"signin", "upgrade"} /\ "upgrade" \notin contested' =>
                account'.password = account.password
           /\ call[d].op = "refresh" =>
                /\ \A t \in call[d].on : /\ tokens'[t].exchanges = tokens[t].exchanges
                                         /\ tokens'[t].under = tokens[t].under
                /\ chosen' = chosen
           /\ call[d].op = "redeem" =>
                \A l \in call[d].on : links'[l].redeemed = links[l].redeemed
           /\ call[d].op = "link" => LiveLinks' \subseteq LiveLinks
    BY <1>2, <1>3, <1>6
  <2>. QED
    BY <1>4, <1>5, <2>1, SoundAfter
<1>8. Typed'
  <2>1. call' \in [Caller -> Call]
    BY <1>g, EndsFacts
  <2>. QED
    BY <1>g, <1>2, <1>5, <2>1 DEF Typed
<1>9. Grounded'
  BY <1>g, <1>5 DEF Grounded
<1>10. Rows'
  BY <1>g, <1>2, <1>3, <1>5 DEF Rows, RotationIsExclusive, Proved, LinksOnce, OneLink
<1>. QED
  BY <1>5, <1>7, <1>8, <1>9, <1>10 DEF Inv

LEMMA InvSignIn == ASSUME Assumption, Inv, NEW c \in Caller, SignIn(c) PROVE Inv'
<1>. DEFINE k == call[c]
<1>g. Typed /\ Grounded /\ Held(k) /\ Sound(k) /\ k \in Call
  BY DEF Inv, Typed
<1>1. /\ k.op \in {"signin", "upgrade"} /\ MayIssue /\ Ends(c, {})
      /\ tokens' = Issued(tokens, k.password) /\ UNCHANGED <<links, chosen>>
  BY DEF SignIn
<1>2. contested' = IF k.late THEN contested \cup {k.op} ELSE contested
  BY <1>1 DEF Ends
<1>3. account.exists /\ account \in Account
  BY <1>g, <1>1 DEF Held, Racing, Typed
<1>4. /\ account' \in Account /\ account'.exists
      /\ account'.password = IF k.op = "upgrade" THEN k.password ELSE account.password
  <2>1. CASE k.op = "upgrade"
    <3>1. account' = [account EXCEPT !.password = k.password] /\ k.password \in Known
      BY <1>g, <2>1 DEF SignIn, Call
    <3>. HIDE DEF k
    <3>. QED
      BY <1>3, <2>1, <3>1 DEF Account, Known
  <2>2. CASE k.op # "upgrade"
    BY <1>3, <2>2 DEF SignIn
  <2>. QED
    BY <2>1, <2>2
<1>. HIDE DEF k
<1>5. "upgrade" \notin contested' => account'.password = account.password
  BY <1>g, <1>1, <1>2, <1>4 DEF Sound
<1>6. Trusted' => k.password \in {chosen, NoPassword}
  <2>1. Trusted' => ~k.late /\ "upgrade" \notin contested
    BY <1>1, <1>2 DEF Trusted, Proofs
  <2>. QED
    BY <1>g, <1>1, <2>1 DEF Sound, Grounded
<1>. QED
  BY <1>1, <1>3, <1>4, <1>5, <1>6, InvIssues DEF k

LEMMA InvGoogle ==
  ASSUME Assumption, Inv, NEW c \in Caller, SignInWithGoogle(c) PROVE Inv'
<1>1. /\ call[c].op \in {"google", "google new"} /\ MayIssue /\ Ends(c, {})
      /\ tokens' = Issued(tokens, call[c].password) /\ UNCHANGED <<links, chosen>>
      /\ account' = [account EXCEPT !.exists = TRUE, !.google = TRUE]
  BY DEF SignInWithGoogle
<1>2. account \in Account /\ call[c].password = NoPassword
  BY <1>1 DEF Inv, Typed, Held
<1>3. /\ account' \in Account /\ account'.exists
      /\ account'.password = account.password
  BY <1>1, <1>2 DEF Account
<1>. QED
  BY <1>1, <1>2, <1>3, InvIssues

LEMMA InvOwner == ASSUME Inv, NEW c \in Caller, ServeOwner(c) PROVE Inv'
<1>g. Typed /\ Grounded /\ Rows
  BY DEF Inv
<1>1. /\ Ends(c, {}) /\ UNCHANGED <<tokens, links, chosen>>
      /\ account' = [account EXCEPT !.exists = TRUE]
  BY DEF ServeOwner
<1>2. account' \in Account /\ account'.exists /\ account'.password = account.password
  BY <1>g, <1>1 DEF Typed, Account
<1>3. Links' = Links /\ LiveLinks' = LiveLinks /\ Tokens' = Tokens
  BY <1>1 DEF Links, LiveLinks, Tokens
<1>4. {} \in SUBSET Doing(Racing)
  OBVIOUS
<1>5. /\ \A d \in Caller : Held(call[d])'
      /\ contested \subseteq contested' /\ contested' \subseteq Racing
      /\ Trusted' => Trusted
  BY <1>1, <1>2, <1>3, <1>4, HeldAfter
<1>6. \A d \in Caller : Sound(call[d])'
  <2>1. \A d \in Caller \ {c} : d \notin {} =>
           /\ call[d].op \in {"signin", "upgrade"} /\ "upgrade" \notin contested' =>
                account'.password = account.password
           /\ call[d].op = "refresh" =>
                /\ \A t \in call[d].on : /\ tokens'[t].exchanges = tokens[t].exchanges
                                         /\ tokens'[t].under = tokens[t].under
                /\ chosen' = chosen
           /\ call[d].op = "redeem" =>
                \A l \in call[d].on : links'[l].redeemed = links[l].redeemed
           /\ call[d].op = "link" => LiveLinks' \subseteq LiveLinks
    BY <1>1, <1>2, <1>3
  <2>. QED
    BY <1>1, <1>4, <1>5, <2>1, SoundAfter
<1>7. Typed'
  BY <1>g, <1>1, <1>2, <1>5, EndsFacts DEF Typed
<1>8. Grounded' /\ Rows'
  BY <1>g, <1>1, <1>2, <1>3, <1>5 DEF Grounded, Rows, RotationIsExclusive, Proved,
                                      LinksOnce, OneLink
<1>. QED
  BY <1>5, <1>6, <1>7, <1>8 DEF Inv

-----------------------------------------------------------------------------
(* Rotation.                                                               *)
LEMMA Rotates ==
  ASSUME Typed, NEW t \in Tokens
  PROVE  /\ Rotated(tokens, t) \in Seq(Token)
         /\ Len(Rotated(tokens, t)) = Len(tokens)
         /\ \A u \in Tokens \ {t} : Rotated(tokens, t)[u] = tokens[u]
         /\ Rotated(tokens, t)[t].live = FALSE
         /\ Rotated(tokens, t)[t].exchanges = tokens[t].exchanges + 1
         /\ Rotated(tokens, t)[t].under = tokens[t].under
<1>. DEFINE row == [tokens[t] EXCEPT !.live = FALSE, !.exchanges = tokens[t].exchanges + 1]
            f == Rotated(tokens, t)
<1>1. tokens[t] \in Token /\ tokens \in Seq(Token) /\ tokens[t].exchanges \in Nat
  BY TokensAreRows DEF Typed
<1>2. /\ row \in Token /\ row.live = FALSE /\ row.exchanges = tokens[t].exchanges + 1
      /\ row.under = tokens[t].under
  <2>. DEFINE e == tokens[t].exchanges + 1
              left == [tokens[t] EXCEPT !.live = FALSE]
  <2>1. e \in Nat
    BY <1>1
  <2>2. left \in Token /\ left.live = FALSE /\ left.under = tokens[t].under
    BY <1>1 DEF Token
  <2>3. row = [left EXCEPT !.exchanges = e]
    BY <1>1 DEF Token
  <2>. HIDE DEF row, left
  <2>. QED
    BY <2>1, <2>2, <2>3 DEF Token
<1>3. f = [tokens EXCEPT ![t] = row]
  BY <1>1 DEF Rotated, Tokens
<1>. HIDE DEF row, f
<1>4. /\ DOMAIN f = DOMAIN tokens /\ f = [u \in DOMAIN f |-> f[u]]
      /\ \A u \in DOMAIN tokens : f[u] = IF u = t THEN row ELSE tokens[u]
  BY <1>3 DEF Tokens
<1>5. \A u \in DOMAIN tokens : tokens[u] \in Token
  BY TokensAreRows DEF Tokens
<1>6. \A u \in DOMAIN tokens : f[u] \in Token
  BY <1>2, <1>4, <1>5
<1>7. f \in Seq(Token) /\ Len(f) = Len(tokens)
  <2>1. Len(tokens) \in Nat /\ DOMAIN tokens = 1..Len(tokens)
    BY <1>1
  <2>2. f \in [1..Len(tokens) -> Token]
    BY <1>4, <1>6, <2>1
  <2>. QED
    BY <2>1, <2>2, ListOf
<1>. QED
  BY <1>2, <1>4, <1>7 DEF Tokens, f

LEMMA InvRefresh == ASSUME Assumption, Inv, NEW c \in Caller, Refresh(c) PROVE Inv'
<1>. DEFINE k == call[c]
            n == Len(tokens) + 1
<1>g. Typed /\ Grounded /\ Rows /\ Held(k) /\ Sound(k)
  BY DEF Inv
<1>1. PICK t \in Tokens :
        /\ k.op = "refresh" /\ k.on = {t} /\ MayIssue
        /\ tokens' = Issued(Rotated(tokens, t), tokens[t].under)
        /\ Ends(c, DoingOn("refresh", {t}))
        /\ UNCHANGED <<account, links, chosen>>
  BY <1>g DEF Refresh, Held
<1>2. /\ tokens' \in Seq(Token) /\ Len(tokens') <= MaxTokens
      /\ Tokens' = Tokens \cup {n} /\ n \notin Tokens
      /\ \A u \in Tokens \ {t} : tokens'[u] = tokens[u]
      /\ tokens'[t].live = FALSE /\ tokens'[t].exchanges = tokens[t].exchanges + 1
      /\ tokens'[t].under = tokens[t].under
      /\ tokens'[n].exchanges = 0 /\ tokens'[n].under = tokens[t].under
  <2>. DEFINE f == Rotated(tokens, t)
  <2>1. /\ f \in Seq(Token) /\ Len(f) = Len(tokens)
        /\ \A u \in Tokens \ {t} : f[u] = tokens[u]
        /\ f[t].live = FALSE /\ f[t].exchanges = tokens[t].exchanges + 1
        /\ f[t].under = tokens[t].under
    BY <1>g, Rotates
  <2>2. /\ Len(tokens) \in Nat /\ Tokens = 1..Len(tokens)
        /\ tokens[t].under \in Known
    BY <1>g, TokensAreRows
  <2>. HIDE DEF f
  <2>3. /\ tokens' \in Seq(Token) /\ Len(tokens') = Len(f) + 1
        /\ DOMAIN tokens' = 1..(Len(f) + 1)
        /\ \A u \in 1..Len(f) : tokens'[u] = f[u]
        /\ tokens'[Len(f) + 1].exchanges = 0
        /\ tokens'[Len(f) + 1].under = tokens[t].under
    BY <1>1, <2>1, <2>2, Issues DEF f
  <2>4. Len(tokens') <= MaxTokens
    BY <1>1, <2>1, <2>2, <2>3 DEF MayIssue, Assumption
  <2>5. Tokens' = Tokens \cup {n} /\ n \notin Tokens
    BY <2>1, <2>2, <2>3 DEF Tokens
  <2>. QED
    BY <2>1, <2>2, <2>3, <2>4, <2>5
<1>. HIDE DEF n
<1>3. Links' = Links /\ LiveLinks' = LiveLinks
  BY <1>1 DEF Links, LiveLinks
<1>. DEFINE overtaken == DoingOn("refresh", {t})
<1>4. overtaken \in SUBSET Doing(Racing)
  BY DEF DoingOn, Doing, Racing
<1>5. /\ \A d \in Caller : Held(call[d])'
      /\ contested \subseteq contested' /\ contested' \subseteq Racing
      /\ Trusted' => Trusted
  BY <1>1, <1>2, <1>3, <1>4, HeldAfter
<1>6. ASSUME NEW d \in Caller \ {c}, d \notin overtaken, call[d].op = "refresh"
      PROVE  call[d].on \subseteq Tokens \ {t}
  <2>1. PICK u \in Tokens : call[d].on = {u}
    BY <1>6 DEF Inv, Held
  <2>2. u # t
    BY <1>6, <2>1 DEF DoingOn, Doing
  <2>. QED
    BY <2>1, <2>2
<1>. HIDE DEF overtaken
<1>7. \A d \in Caller : Sound(call[d])'
  <2>1. \A d \in Caller \ {c} : d \notin overtaken =>
           /\ call[d].op \in {"signin", "upgrade"} /\ "upgrade" \notin contested' =>
                account'.password = account.password
           /\ call[d].op = "refresh" =>
                /\ \A u \in call[d].on : /\ tokens'[u].exchanges = tokens[u].exchanges
                                         /\ tokens'[u].under = tokens[u].under
                /\ chosen' = chosen
           /\ call[d].op = "redeem" =>
                \A l \in call[d].on : links'[l].redeemed = links[l].redeemed
           /\ call[d].op = "link" => LiveLinks' \subseteq LiveLinks
    BY <1>1, <1>2, <1>3, <1>6
  <2>2. Ends(c, overtaken)
    BY <1>1 DEF overtaken
  <2>. QED
    BY <1>4, <1>5, <2>1, <2>2, SoundAfter
<1>8. Typed'
  <2>1. call' \in [Caller -> Call]
    BY <1>g, <1>1, EndsFacts
  <2>. QED
    BY <1>g, <1>1, <1>2, <1>5, <2>1 DEF Typed
<1>9. Grounded'
  BY <1>g, <1>1, <1>5 DEF Grounded, Tokens
<1>10. contested' = IF k.late THEN contested \cup {k.op} ELSE contested
  BY <1>1 DEF Ends
<1>11. RotationIsExclusive'
  <2>1. "refresh" \notin contested' => tokens[t].exchanges = 0
    BY <1>g, <1>1, <1>10 DEF Sound
  <2>. QED
    BY <1>g, <1>2, <1>5, <2>1 DEF Rows, RotationIsExclusive
<1>12. Proved'
  <2>1. Trusted' => tokens[t].under \in {chosen, NoPassword}
    <3>1. Trusted' => ~k.late
      BY <1>1, <1>10 DEF Trusted, Proofs
    <3>. QED
      BY <1>g, <1>1, <1>5, <3>1 DEF Sound
  <2>. QED
    BY <1>g, <1>1, <1>2, <1>5, <2>1 DEF Rows, Proved
<1>13. LinksOnce' /\ OneLink'
  BY <1>g, <1>1, <1>3, <1>5 DEF Rows, LinksOnce, OneLink
<1>. QED
  BY <1>5, <1>7, <1>8, <1>9, <1>11, <1>12, <1>13 DEF Inv, Rows

-----------------------------------------------------------------------------
(* Links.                                                                  *)
LEMMA Invalidates ==
  ASSUME Typed, NEW found
  PROVE  /\ Invalidated(links, found) \in Seq(Link)
         /\ Len(Invalidated(links, found)) = Len(links)
         /\ \A l \in Links :
              /\ Invalidated(links, found)[l].redeemed = links[l].redeemed
              /\ Invalidated(links, found)[l].live => links[l].live /\ l \notin found
<1>. DEFINE f == Invalidated(links, found)
<1>1. links \in Seq(Link) /\ Len(links) \in Nat /\ DOMAIN links = 1..Len(links)
  BY DEF Typed
<1>2. \A l \in Links : links[l] \in Link
  BY LinksAreRows
<1>3. ASSUME NEW l \in Links
      PROVE  /\ f[l] \in Link /\ f[l].redeemed = links[l].redeemed
             /\ f[l].live => links[l].live /\ l \notin found
  <2>. DEFINE row == [links[l] EXCEPT !.live = FALSE]
  <2>1. /\ row \in Link /\ row.live = FALSE /\ row.redeemed = links[l].redeemed
    BY <1>2 DEF Link
  <2>2. f[l] = IF l \in found THEN row ELSE links[l]
    BY DEF Invalidated, Links
  <2>. HIDE DEF row, f
  <2>. QED
    BY <1>2, <2>1, <2>2
<1>4. f \in [1..Len(links) -> Link]
  <2>1. f = [l \in 1..Len(links) |-> f[l]]
    BY <1>1 DEF Invalidated
  <2>. HIDE DEF f
  <2>. QED
    BY <1>1, <1>3, <2>1 DEF Links
<1>. HIDE DEF f
<1>5. f \in Seq(Link) /\ Len(f) = Len(links)
  BY <1>1, <1>4, ListOf
<1>. QED
  BY <1>3, <1>5 DEF f

LEMMA InvIssueLink == ASSUME Assumption, Inv, NEW c \in Caller, IssueLink(c) PROVE Inv'
<1>. DEFINE k == call[c]
            n == Len(links) + 1
            e == [live |-> TRUE, redeemed |-> 0]
            f == Invalidated(links, k.on)
<1>g. Typed /\ Grounded /\ Rows /\ Held(k) /\ Sound(k)
  BY DEF Inv
<1>1. /\ k.op = "link" /\ Len(links) < MaxLinks /\ links' = Append(f, e)
      /\ Ends(c, Doing({"link"})) /\ UNCHANGED <<account, tokens, chosen>>
  BY DEF IssueLink
<1>2. /\ links' \in Seq(Link) /\ Len(links') <= MaxLinks
      /\ Links' = Links \cup {n} /\ n \notin Links
      /\ \A l \in Links : /\ links'[l].redeemed = links[l].redeemed
                          /\ links'[l].live => links[l].live /\ l \notin k.on
      /\ links'[n].redeemed = 0
  <2>1. /\ f \in Seq(Link) /\ Len(f) = Len(links)
        /\ \A l \in Links : /\ f[l].redeemed = links[l].redeemed
                            /\ f[l].live => links[l].live /\ l \notin k.on
    BY <1>g, Invalidates
  <2>2. Len(links) \in Nat /\ Links = 1..Len(links)
    BY <1>g, LinksAreRows
  <2>3. e \in Link /\ e.redeemed = 0
    BY DEF Link
  <2>. HIDE DEF e, f
  <2>4. /\ links' \in Seq(Link) /\ Len(links') = Len(f) + 1
        /\ DOMAIN links' = 1..(Len(f) + 1)
        /\ \A l \in 1..Len(f) : links'[l] = f[l]
        /\ links'[Len(f) + 1] = e
    BY <1>1, <2>1, <2>3, Appended
  <2>5. Len(links') <= MaxLinks
    BY <1>1, <2>1, <2>2, <2>4 DEF Assumption
  <2>6. Links' = Links \cup {n} /\ n \notin Links
    BY <2>1, <2>2, <2>4 DEF Links
  <2>. QED
    BY <2>1, <2>2, <2>3, <2>4, <2>5, <2>6
<1>. HIDE DEF n, e, f
<1>3. Tokens' = Tokens
  BY <1>1 DEF Tokens
<1>. DEFINE overtaken == Doing({"link"})
<1>4. overtaken \in SUBSET Doing(Racing) /\ Ends(c, overtaken)
  BY <1>1 DEF Doing, Racing
<1>5. /\ \A d \in Caller : Held(call[d])'
      /\ contested \subseteq contested' /\ contested' \subseteq Racing
      /\ Trusted' => Trusted
  BY <1>1, <1>2, <1>3, <1>4, HeldAfter
<1>6. \A d \in Caller : Sound(call[d])'
  <2>1. \A d \in Caller : call[d].op = "redeem" => call[d].on \subseteq Links
    BY DEF Inv, Held
  <2>2. \A d \in Caller : call[d].op = "link" => d \in overtaken
    BY DEF Doing
  <2>. HIDE DEF overtaken
  <2>3. \A d \in Caller \ {c} : d \notin overtaken =>
           /\ call[d].op \in {"signin", "upgrade"} /\ "upgrade" \notin contested' =>
                account'.password = account.password
           /\ call[d].op = "refresh" =>
                /\ \A t \in call[d].on : /\ tokens'[t].exchanges = tokens[t].exchanges
                                         /\ tokens'[t].under = tokens[t].under
                /\ chosen' = chosen
           /\ call[d].op = "redeem" =>
                \A l \in call[d].on : links'[l].redeemed = links[l].redeemed
           /\ call[d].op = "link" => LiveLinks' \subseteq LiveLinks
    BY <1>1, <1>2, <2>1, <2>2
  <2>. QED
    BY <1>4, <1>5, <2>3, SoundAfter
<1>7. Typed'
  <2>1. call' \in [Caller -> Call]
    BY <1>g, <1>4, EndsFacts
  <2>. QED
    BY <1>g, <1>1, <1>2, <1>5, <2>1 DEF Typed
<1>8. Grounded'
  <2>1. account.exists
    BY <1>g, <1>1 DEF Held, Racing
  <2>. QED
    BY <1>g, <1>1, <1>5, <2>1 DEF Grounded
<1>9. contested' = IF k.late THEN contested \cup {k.op} ELSE contested
  BY <1>1 DEF Ends
<1>10. RotationIsExclusive' /\ Proved'
  BY <1>g, <1>1, <1>3, <1>5 DEF Rows, RotationIsExclusive, Proved
<1>11. LinksOnce'
  BY <1>g, <1>2, <1>5 DEF Rows, LinksOnce
<1>12. OneLink'
  <2>1. "link" \notin contested' => LiveLinks \subseteq k.on
    BY <1>g, <1>1, <1>9 DEF Sound
  <2>2. "link" \notin contested' => \A l \in Links : ~links'[l].live
    BY <1>2, <2>1 DEF LiveLinks
  <2>. QED
    BY <1>2, <2>2 DEF OneLink
<1>. QED
  BY <1>5, <1>6, <1>7, <1>8, <1>10, <1>11, <1>12 DEF Inv, Rows

-----------------------------------------------------------------------------
(* The reset of a password.                                                *)
LEMMA Redeems ==
  ASSUME Typed, NEW l \in Links
  PROVE  /\ Redeemed(links, l) \in Seq(Link)
         /\ Len(Redeemed(links, l)) = Len(links)
         /\ \A u \in Links \ {l} : Redeemed(links, l)[u] = links[u]
         /\ Redeemed(links, l)[l].live = FALSE
         /\ Redeemed(links, l)[l].redeemed = links[l].redeemed + 1
<1>. DEFINE row == [links[l] EXCEPT !.live = FALSE, !.redeemed = links[l].redeemed + 1]
            f == Redeemed(links, l)
<1>1. links[l] \in Link /\ links \in Seq(Link) /\ links[l].redeemed \in Nat
  BY LinksAreRows DEF Typed
<1>2. /\ row \in Link /\ row.live = FALSE /\ row.redeemed = links[l].redeemed + 1
  <2>. DEFINE e == links[l].redeemed + 1
              left == [links[l] EXCEPT !.live = FALSE]
  <2>1. e \in Nat
    BY <1>1
  <2>2. left \in Link /\ left.live = FALSE
    BY <1>1 DEF Link
  <2>3. row = [left EXCEPT !.redeemed = e]
    BY <1>1 DEF Link
  <2>. HIDE DEF row, left
  <2>. QED
    BY <2>1, <2>2, <2>3 DEF Link
<1>3. f = [links EXCEPT ![l] = row]
  BY <1>1 DEF Redeemed, Links
<1>. HIDE DEF row, f
<1>4. /\ DOMAIN f = DOMAIN links /\ f = [u \in DOMAIN f |-> f[u]]
      /\ \A u \in DOMAIN links : f[u] = IF u = l THEN row ELSE links[u]
  BY <1>3 DEF Links
<1>5. \A u \in DOMAIN links : links[u] \in Link
  BY LinksAreRows DEF Links
<1>6. \A u \in DOMAIN links : f[u] \in Link
  BY <1>2, <1>4, <1>5
<1>7. f \in Seq(Link) /\ Len(f) = Len(links)
  <2>1. Len(links) \in Nat /\ DOMAIN links = 1..Len(links)
    BY <1>1
  <2>2. f \in [1..Len(links) -> Link]
    BY <1>4, <1>6, <2>1
  <2>. QED
    BY <2>1, <2>2, ListOf
<1>. QED
  BY <1>2, <1>4, <1>7 DEF Links, f

LEMMA EndsAll ==
  ASSUME Typed
  PROVE  /\ Ended(tokens) \in Seq(Token) /\ Len(Ended(tokens)) = Len(tokens)
         /\ \A t \in Tokens : /\ Ended(tokens)[t].live = FALSE
                              /\ Ended(tokens)[t].exchanges = tokens[t].exchanges
                              /\ Ended(tokens)[t].under = tokens[t].under
<1>. DEFINE f == Ended(tokens)
<1>1. tokens \in Seq(Token) /\ Len(tokens) \in Nat /\ DOMAIN tokens = 1..Len(tokens)
  BY DEF Typed
<1>2. \A t \in Tokens : tokens[t] \in Token
  BY TokensAreRows
<1>3. ASSUME NEW t \in Tokens
      PROVE  /\ f[t] \in Token /\ f[t].live = FALSE
             /\ f[t].exchanges = tokens[t].exchanges /\ f[t].under = tokens[t].under
  <2>1. f[t] = [tokens[t] EXCEPT !.live = FALSE]
    BY DEF Ended, Tokens
  <2>. HIDE DEF f
  <2>. QED
    BY <1>2, <2>1 DEF Token
<1>4. f \in [1..Len(tokens) -> Token]
  <2>1. f = [t \in 1..Len(tokens) |-> f[t]]
    BY <1>1 DEF Ended
  <2>. HIDE DEF f
  <2>. QED
    BY <1>1, <1>3, <2>1 DEF Tokens
<1>. HIDE DEF f
<1>5. f \in Seq(Token) /\ Len(f) = Len(tokens)
  BY <1>1, <1>4, ListOf
<1>. QED
  BY <1>3, <1>5 DEF f

LEMMA InvReset == ASSUME Assumption, Inv, NEW c \in Caller, ResetPassword(c) PROVE Inv'
<1>. DEFINE k == call[c]
<1>g. Typed /\ Grounded /\ Rows /\ Held(k) /\ Sound(k) /\ k \in Call
  BY DEF Inv, Typed
<1>1. PICK l \in Links :
        /\ k.op = "redeem" /\ k.on = {l} /\ k.password \in Password
        /\ links' = Redeemed(links, l)
        /\ Ends(c, Doing({"signin", "upgrade", "refresh"}) \cup DoingOn("redeem", {l}))
        /\ account' = [account EXCEPT !.password = k.password]
        /\ chosen' = k.password /\ tokens' = Ended(tokens)
  BY <1>g DEF ResetPassword, Held
<1>2. /\ account.exists /\ account' \in Account /\ account'.exists
      /\ account'.password = k.password
  <2>1. account.exists /\ account \in Account
    BY <1>g, <1>1 DEF Held, Racing, Typed
  <2>. HIDE DEF k
  <2>. QED
    BY <1>1, <2>1 DEF Account
<1>3. /\ tokens' \in Seq(Token) /\ Len(tokens') = Len(tokens) /\ Tokens' = Tokens
      /\ \A t \in Tokens : /\ tokens'[t].live = FALSE
                           /\ tokens'[t].exchanges = tokens[t].exchanges
  <2>1. /\ tokens' \in Seq(Token) /\ Len(tokens') = Len(tokens)
        /\ \A t \in Tokens : /\ tokens'[t].live = FALSE
                             /\ tokens'[t].exchanges = tokens[t].exchanges
    BY <1>g, <1>1, EndsAll
  <2>2. DOMAIN tokens' = 1..Len(tokens') /\ DOMAIN tokens = 1..Len(tokens)
    BY <1>g, <2>1 DEF Typed
  <2>. QED
    BY <2>1, <2>2 DEF Tokens
<1>4. /\ links' \in Seq(Link) /\ Len(links') = Len(links) /\ Links' = Links
      /\ \A u \in Links \ {l} : links'[u] = links[u]
      /\ links'[l].live = FALSE /\ links'[l].redeemed = links[l].redeemed + 1
  <2>1. /\ links' \in Seq(Link) /\ Len(links') = Len(links)
        /\ \A u \in Links \ {l} : links'[u] = links[u]
        /\ links'[l].live = FALSE /\ links'[l].redeemed = links[l].redeemed + 1
    BY <1>g, <1>1, Redeems
  <2>2. DOMAIN links' = 1..Len(links') /\ DOMAIN links = 1..Len(links)
    BY <1>g, <2>1 DEF Typed
  <2>. QED
    BY <2>1, <2>2 DEF Links
<1>5. LiveLinks' \subseteq LiveLinks
  BY <1>4 DEF LiveLinks
<1>. DEFINE overtaken == Doing({"signin", "upgrade", "refresh"}) \cup DoingOn("redeem", {l})
<1>6. overtaken \in SUBSET Doing(Racing) /\ Ends(c, overtaken)
  BY <1>1 DEF Doing, DoingOn, Racing
<1>7. /\ \A d \in Caller : Held(call[d])'
      /\ contested \subseteq contested' /\ contested' \subseteq Racing
      /\ Trusted' => Trusted
  BY <1>2, <1>3, <1>4, <1>6, HeldAfter
<1>8. \A d \in Caller : Sound(call[d])'
  <2>1. ASSUME NEW d \in Caller, call[d].op = "redeem", d \notin overtaken
        PROVE  call[d].on \subseteq Links \ {l}
    <3>1. PICK u \in Links : call[d].on = {u}
      BY <2>1 DEF Inv, Held
    <3>2. u # l
      BY <2>1, <3>1 DEF DoingOn, Doing
    <3>. QED
      BY <3>1, <3>2
  <2>2. \A d \in Caller : call[d].op \in {"signin", "upgrade", "refresh"} => d \in overtaken
    BY DEF Doing
  <2>. HIDE DEF overtaken
  <2>3. \A d \in Caller \ {c} : d \notin overtaken =>
           /\ call[d].op \in {"signin", "upgrade"} /\ "upgrade" \notin contested' =>
                account'.password = account.password
           /\ call[d].op = "refresh" =>
                /\ \A t \in call[d].on : /\ tokens'[t].exchanges = tokens[t].exchanges
                                         /\ tokens'[t].under = tokens[t].under
                /\ chosen' = chosen
           /\ call[d].op = "redeem" =>
                \A u \in call[d].on : links'[u].redeemed = links[u].redeemed
           /\ call[d].op = "link" => LiveLinks' \subseteq LiveLinks
    BY <1>4, <1>5, <2>1, <2>2
  <2>. QED
    BY <1>6, <1>7, <2>3, SoundAfter
<1>9. Typed'
  <2>1. call' \in [Caller -> Call]
    BY <1>g, <1>6, EndsFacts
  <2>2. chosen' \in Known
    BY <1>1 DEF Known
  <2>. QED
    BY <1>g, <1>2, <1>3, <1>4, <1>7, <2>1, <2>2 DEF Typed
<1>10. Grounded'
  BY <1>1, <1>2 DEF Grounded
<1>11. RotationIsExclusive' /\ Proved'
  BY <1>g, <1>3, <1>7 DEF Rows, RotationIsExclusive, Proved
<1>12. LinksOnce'
  <2>1. contested' = IF k.late THEN contested \cup {k.op} ELSE contested
    BY <1>6 DEF Ends
  <2>2. "redeem" \notin contested' => links[l].redeemed = 0
    BY <1>g, <1>1, <2>1 DEF Sound
  <2>. QED
    BY <1>g, <1>4, <1>7, <2>2 DEF Rows, LinksOnce
<1>13. OneLink'
  BY <1>g, <1>4, <1>7 DEF Rows, OneLink
<1>. QED
  BY <1>7, <1>8, <1>9, <1>10, <1>11, <1>12, <1>13 DEF Inv, Rows

-----------------------------------------------------------------------------
LEMMA InvNext == Assumption /\ Inv /\ [Next]_sessionVars => Inv'
<1>. SUFFICES ASSUME Assumption, Inv, [Next]_sessionVars PROVE Inv'
  OBVIOUS
<1>1. CASE UNCHANGED sessionVars
  BY <1>1 DEF sessionVars, Inv, Typed, Held, Sound, Grounded, Rows, RotationIsExclusive,
              Proved, LinksOnce, OneLink, Trusted, Tokens, Links, LiveLinks
<1>2. ASSUME NEW password \in Password, SignUp(password) PROVE Inv'
  BY <1>2, InvSignUp
<1>3. CASE Expire
  BY <1>3, InvExpire
<1>4. ASSUME NEW t \in Tokens, SignOut(t) PROVE Inv'
  BY <1>4, InvSignOut
<1>5. ASSUME NEW c \in Caller,
             \/ \E weak \in BOOLEAN : VerifyPassword(c, weak)
             \/ GoogleAnswers(c) \/ CountUsers(c) \/ AskForLink(c)
             \/ \E t \in Tokens : FindToken(c, t)
             \/ \E l \in Links, password \in Password : FindLink(c, l, password)
      PROVE  Inv'
  BY <1>5, InvReads
<1>6. ASSUME NEW c \in Caller, Refuse(c) PROVE Inv'
  BY <1>6, InvRefuse
<1>7. ASSUME NEW c \in Caller, SignIn(c) PROVE Inv'
  BY <1>7, InvSignIn
<1>8. ASSUME NEW c \in Caller, SignInWithGoogle(c) PROVE Inv'
  BY <1>8, InvGoogle
<1>9. ASSUME NEW c \in Caller, ServeOwner(c) PROVE Inv'
  BY <1>9, InvOwner
<1>10. ASSUME NEW c \in Caller, Refresh(c) PROVE Inv'
  BY <1>10, InvRefresh
<1>11. ASSUME NEW c \in Caller, IssueLink(c) PROVE Inv'
  BY <1>11, InvIssueLink
<1>12. ASSUME NEW c \in Caller, ResetPassword(c) PROVE Inv'
  BY <1>12, InvReset
<1>. QED
  BY <1>1, <1>2, <1>3, <1>4, <1>5, <1>6, <1>7, <1>8, <1>9, <1>10, <1>11, <1>12 DEF Next

LEMMA InvHolds == ASSUME Assumption PROVE Spec => []Inv
<1>1. Init => Inv
  BY InvInit
<1>2. Inv /\ [Next]_sessionVars => Inv'
  BY InvNext
<1>. QED
  BY <1>1, <1>2, PTL DEF Spec

(* The state of Sessions keeps its types: a request works on rows that     *)
(* exist, and only the kinds that race are ever late (services/auth).      *)
THEOREM TypeCorrect == ASSUME Assumption PROVE Spec => []TypeOK
<1>1. ASSUME Inv PROVE TypeOK
  <2>1. ASSUME NEW c \in Caller
        PROVE  /\ call[c].op \in Ops
               /\ call[c].op = "refresh" => call[c].on \subseteq Tokens
               /\ call[c].op \in {"link", "redeem"} => call[c].on \subseteq Links
               /\ call[c].password \in Known /\ call[c].late \in BOOLEAN
    <3>1. call[c] \in Call /\ Held(call[c])
      BY <1>1 DEF Inv, Typed
    <3>. QED
      BY <3>1 DEF Call, Held
  <2>. QED
    BY <1>1, <2>1 DEF Inv, Typed, TypeOK, Ops, Known, Racing
<1>. QED
  BY <1>1, InvHolds, PTL

(* A refresh token is good for one exchange, unless a refresh committed on *)
(* a check that no longer held (auth_service.refresh_session).             *)
THEOREM OneExchange == ASSUME Assumption PROVE Spec => []RotationIsExclusive
<1>1. Inv => RotationIsExclusive
  BY DEF Inv, Rows
<1>. QED
  BY <1>1, InvHolds, PTL

(* A reset is final: the password chosen last is the one that works, the   *)
(* sessions of the old one are over, and a link is good for one reset,     *)
(* unless requests overlapped (reset_service.reset_password).              *)
THEOREM Final == ASSUME Assumption PROVE Spec => []ResetsAreFinal
<1>1. ASSUME Inv PROVE ResetsAreFinal
  <2>1. {"upgrade", "redeem"} \cap contested = {} => account.password = chosen
    BY <1>1 DEF Inv, Grounded
  <2>2. {"signin", "upgrade", "refresh", "redeem"} \cap contested = {} =>
          \A t \in LiveTokens : tokens[t].under \in {chosen, NoPassword}
    BY <1>1 DEF Inv, Rows, Proved, Trusted, Proofs, LiveTokens
  <2>3. "redeem" \notin contested => \A l \in Links : links[l].redeemed <= 1
    BY <1>1 DEF Inv, Rows, LinksOnce
  <2>4. "link" \notin contested => Cardinality(LiveLinks) <= 1
    <3>1. CASE LiveLinks = {}
      BY <3>1, FS_EmptySet
    <3>2. ASSUME NEW l \in LiveLinks, "link" \notin contested
          PROVE  Cardinality(LiveLinks) <= 1
      <4>1. LiveLinks = {l}
        BY <1>1, <3>2 DEF Inv, Rows, OneLink, LiveLinks
      <4>. QED
        BY <4>1, FS_Singleton
    <3>. QED
      BY <3>1, <3>2
  <2>. QED
    BY <2>1, <2>2, <2>3, <2>4 DEF ResetsAreFinal
<1>. QED
  BY <1>1, InvHolds, PTL
=============================================================================
