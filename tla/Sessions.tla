------------------------------ MODULE Sessions ------------------------------
(***************************************************************************)
(* The account of one user of GUMMY OS: signing up and in, by password or  *)
(* through Google, sessions that are refreshed by rotating a token, and    *)
(* the reset of a password by a link.  Each request loads what it checks,  *)
(* and commits what follows from it in one transaction later; a write of   *)
(* the account's row makes such transactions wait for each other, but does *)
(* not repeat their checks.                                                *)
(*                                                                         *)
(* Operators whose name has an underscore are faulty variants of the       *)
(* definition they precede; no specification uses them.                    *)
(***************************************************************************)
EXTENDS Integers, Sequences, FiniteSets

CONSTANTS
  Caller,      \* requests that can be under way together
  Password,    \* passwords the user may choose
  NoPassword,
  MaxTokens,   \* bound on the refresh tokens of a behaviour
  MaxLinks     \* bound on the reset links of a behaviour

VARIABLES
  account,   \* the users row
  tokens,    \* the refresh_tokens rows, in the order of their issue
  links,     \* the password_reset_tokens rows, in the order of their issue
  call,      \* what each request has loaded and is about to commit
  chosen,    \* the password the user chose last
  contested  \* kinds of commits made on a check that no longer held

sessionVars == <<account, tokens, links, call, chosen, contested>>

(* What is assumed of the constants.                                       *)
Assumption == MaxTokens \in Nat /\ MaxLinks \in Nat

Token == [ live : BOOLEAN, exchanges : Nat, under : Password \cup {NoPassword} ]
Link == [ live : BOOLEAN, redeemed : Nat ]
Account == [ exists : BOOLEAN, password : Password \cup {NoPassword},
             google : BOOLEAN ]

Tokens == DOMAIN tokens
Links == DOMAIN links
LiveTokens == {t \in Tokens : tokens[t].live}
LiveLinks == {l \in Links : links[l].live}

Free == [ op |-> "free", on |-> {}, password |-> NoPassword, late |-> FALSE ]

Init ==
  /\ account = [exists |-> FALSE, password |-> NoPassword,
                google |-> FALSE]
  /\ tokens = << >> /\ links = << >>
  /\ call = [c \in Caller |-> Free]
  /\ chosen = NoPassword
  /\ contested = {}

-----------------------------------------------------------------------------
Begins(c, op, on, password) ==
  /\ call[c].op = "free"
  /\ call' = [call EXCEPT ![c] = [op |-> op, on |-> on, password |-> password,
                                  late |-> FALSE]]
  /\ UNCHANGED <<account, tokens, links, chosen, contested>>

(* Requests that are about to commit one of ops; and op, on that row.      *)
Doing(ops) == {d \in Caller : call[d].op \in ops}
DoingOn(op, on) == {d \in Doing({op}) : call[d].on = on}

(* The commit of c comes between the check and the commit of those it      *)
(* overtakes.                                                              *)
Ends(c, overtaken) ==
  /\ call' = [d \in Caller |-> IF d = c THEN Free
                              ELSE [call[d] EXCEPT !.late = @ \/ d \in overtaken]]
  /\ contested' = IF call[c].late THEN contested \cup {call[c].op} ELSE contested

Refuse(c) ==
  /\ call[c].op # "free"
  /\ call' = [call EXCEPT ![c] = Free]
  /\ UNCHANGED <<account, tokens, links, chosen, contested>>

(* A session is issued under the password that proved it, if one did.      *)
Issued(rows, password) ==
  Append(rows, [live |-> TRUE, exchanges |-> 0, under |-> password])
MayIssue == Len(tokens) < MaxTokens

-----------------------------------------------------------------------------
(* Signing up.  The unique address decides; the account that is there      *)
(* already is not touched.                                                 *)
SignUp(password) ==
  /\ ~account.exists /\ MayIssue
  /\ account' = [account EXCEPT !.exists = TRUE, !.password = password]
  /\ chosen' = password
  /\ tokens' = Issued(tokens, password)
  /\ UNCHANGED <<links, call, contested>>

(* Signing in.  A password stored under weaker parameters than today's is   *)
(* hashed anew from what the user typed, which overwrites what is there by *)
(* then.                                                                   *)
VerifyPassword(c, weak) ==
  /\ account.exists /\ account.password # NoPassword
  /\ Begins(c, IF weak THEN "upgrade" ELSE "signin", {}, account.password)

SignIn(c) ==
  /\ call[c].op \in {"signin", "upgrade"} /\ MayIssue
  /\ account' = IF call[c].op = "upgrade"
                THEN [account EXCEPT !.password = call[c].password]
                ELSE account
  /\ tokens' = Issued(tokens, call[c].password)
  /\ Ends(c, {})
  /\ UNCHANGED <<links, chosen>>

(* Through Google, an account that was not found is created; one that has  *)
(* appeared since makes the request fail.                                  *)
GoogleAnswers(c) ==
  Begins(c, IF account.exists THEN "google" ELSE "google new", {}, NoPassword)

SignInWithGoogle(c) ==
  /\ call[c].op \in {"google", "google new"} /\ MayIssue
  /\ call[c].op = "google new" => ~account.exists
  /\ account' = [account EXCEPT !.exists = TRUE, !.google = TRUE]
  /\ tokens' = Issued(tokens, call[c].password)
  /\ Ends(c, {})
  /\ UNCHANGED <<links, chosen>>

(* Owner mode: as long as there is at most one account, a caller without a *)
(* token is the owner, whose account is created on the first boot; one     *)
(* that is found is served as it is.  Who loses the race to create it      *)
(* finds the account of the winner.                                        *)
CountUsers(c) ==
  /\ ~account.exists
  /\ Begins(c, "owner", {}, NoPassword)

ServeOwner(c) ==
  /\ call[c].op = "owner"
  /\ account' = [account EXCEPT !.exists = TRUE]
  /\ Ends(c, {})
  /\ UNCHANGED <<tokens, links, chosen>>

-----------------------------------------------------------------------------
(* Refreshing: the token presented is revoked and a new pair issued.       *)
FindToken(c, t) == t \in LiveTokens /\ Begins(c, "refresh", {t}, NoPassword)

Rotated_Kept(rows, t) == [rows EXCEPT ![t].exchanges = @ + 1]

Rotated(rows, t) ==
  [rows EXCEPT ![t].live = FALSE, ![t].exchanges = @ + 1]

Refresh(c) ==
  /\ call[c].op = "refresh" /\ MayIssue
  /\ \E t \in call[c].on :
       /\ tokens' = Issued(Rotated(tokens, t), tokens[t].under)
       /\ Ends(c, DoingOn("refresh", {t}))
  /\ UNCHANGED <<account, links, chosen>>

SignOut(t) ==
  /\ t \in LiveTokens
  /\ tokens' = [tokens EXCEPT ![t].live = FALSE]
  /\ UNCHANGED <<account, links, call, chosen, contested>>

-----------------------------------------------------------------------------
(* A reset link.  Earlier links are invalidated as the request finds them. *)
(* The new one is mailed once it is committed; if that fails it is a link  *)
(* that nobody redeems.                                                    *)
AskForLink(c) ==
  /\ account.exists
  /\ account.password # NoPassword \/ ~account.google
  /\ Begins(c, "link", LiveLinks, NoPassword)

Invalidated(rows, found) ==
  [l \in DOMAIN rows |-> IF l \in found THEN [rows[l] EXCEPT !.live = FALSE]
                                        ELSE rows[l]]

IssueLink(c) ==
  /\ call[c].op = "link" /\ Len(links) < MaxLinks
  /\ links' = Append(Invalidated(links, call[c].on),
                     [live |-> TRUE, redeemed |-> 0])
  /\ Ends(c, Doing({"link"}))
  /\ UNCHANGED <<account, tokens, chosen>>

FindLink(c, l, password) ==
  l \in LiveLinks /\ Begins(c, "redeem", {l}, password)

Redeemed(rows, l) ==
  [rows EXCEPT ![l].live = FALSE, ![l].redeemed = @ + 1]

(* A new password ends every session, and whatever another request is      *)
(* about to do on the strength of the old one comes late.                  *)
Ended_Live(rows) == rows

Ended(rows) == [t \in DOMAIN rows |-> [rows[t] EXCEPT !.live = FALSE]]

ResetPassword(c) ==
  /\ call[c].op = "redeem"
  /\ \E l \in call[c].on :
       /\ links' = Redeemed(links, l)
       /\ Ends(c, Doing({"signin", "upgrade", "refresh"})
                    \cup DoingOn("redeem", {l}))
  /\ account' = [account EXCEPT !.password = call[c].password]
  /\ chosen' = call[c].password
  /\ tokens' = Ended(tokens)

Expire ==
  /\ \/ /\ \E t \in LiveTokens : tokens' = [tokens EXCEPT ![t].live = FALSE]
        /\ UNCHANGED links
     \/ /\ \E l \in LiveLinks : links' = [links EXCEPT ![l].live = FALSE]
        /\ UNCHANGED tokens
  /\ UNCHANGED <<account, call, chosen, contested>>

-----------------------------------------------------------------------------
Next ==
  \/ \E password \in Password : SignUp(password)
  \/ Expire
  \/ \E c \in Caller :
       \/ (\E weak \in BOOLEAN : VerifyPassword(c, weak)) \/ SignIn(c) \/ Refuse(c)
       \/ GoogleAnswers(c) \/ SignInWithGoogle(c)
       \/ CountUsers(c) \/ ServeOwner(c)
       \/ (\E t \in Tokens : FindToken(c, t)) \/ Refresh(c)
       \/ AskForLink(c) \/ IssueLink(c)
       \/ (\E l \in Links, password \in Password : FindLink(c, l, password))
       \/ ResetPassword(c)
  \/ \E t \in Tokens : SignOut(t)

Spec == Init /\ [][Next]_sessionVars

-----------------------------------------------------------------------------
TypeOK ==
  /\ account \in Account
  /\ tokens \in Seq(Token) /\ links \in Seq(Link)
  /\ Len(tokens) <= MaxTokens /\ Len(links) <= MaxLinks
  /\ \A c \in Caller :
       /\ call[c].op \in {"free", "signin", "upgrade", "google", "google new",
                          "owner", "refresh", "link", "redeem"}
       /\ call[c].op = "refresh" => call[c].on \subseteq Tokens
       /\ call[c].op \in {"link", "redeem"} => call[c].on \subseteq Links
       /\ call[c].password \in Password \cup {NoPassword} /\ call[c].late \in BOOLEAN
  /\ chosen \in Password \cup {NoPassword}
  /\ contested \subseteq {"signin", "upgrade", "refresh", "link", "redeem"}

(* A refresh token is good for one exchange: unless a refresh was decided  *)
(* on a token that had been used or revoked by the time it committed, none *)
(* was exchanged twice, and none that was exchanged is live.               *)
RotationIsExclusive ==
  "refresh" \notin contested =>
    \A t \in Tokens : /\ tokens[t].exchanges <= 1
                      /\ tokens[t].exchanges = 1 => ~tokens[t].live

(* A reset is final.  Unless requests overlapped in one of these ways, the *)
(* password is the one the user chose last, every live session descends    *)
(* from a sign-in that was proved by it, or by no password at all, a link  *)
(* was redeemed at most once, and at most one can be.                      *)
ResetsAreFinal ==
  /\ {"upgrade", "redeem"} \cap contested = {} => account.password = chosen
  /\ {"signin", "upgrade", "refresh", "redeem"} \cap contested = {} =>
       \A t \in LiveTokens : tokens[t].under \in {chosen, NoPassword}
  /\ "redeem" \notin contested => \A l \in Links : links[l].redeemed <= 1
  /\ "link" \notin contested => Cardinality(LiveLinks) <= 1
=============================================================================
