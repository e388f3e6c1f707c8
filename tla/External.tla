------------------------------ MODULE External ------------------------------
(***************************************************************************)
(* The tools GUMMY OS borrows from MCP servers.  At boot every configured  *)
(* server is connected to, asked for its tools and let go again, and the   *)
(* tools are installed in the catalog once.  A call of such a tool opens a *)
(* connection of its own: a process is started (or an HTTP client opened), *)
(* greeted, asked one thing and closed.  A server may answer late, twice,  *)
(* wrongly or not at all, send lines nobody asked for, or stop.            *)
(*                                                                         *)
(* Operators whose name has an underscore are faulty variants of the       *)
(* definition they precede; no specification uses them.                    *)
(***************************************************************************)
EXTENDS Selection

CONSTANTS
  Configured,    \* the entries of the configuration, in order: records with a
                 \* server, whether it is valid, enabled and a process
  Offers,        \* the tools each server describes; "" is malformed
  Key(_, _),     \* the catalog key of a server's tool
  Listed,        \* keys that each server's entry lists as green
  Builtin,       \* keys of the tools that come with the code
  Caller,        \* tool calls that may be open at a time
  MaxTools,      \* MAX_TOOLS_PER_SERVER
  MaxLines,      \* bound on the lines a server sends on one connection
  MaxCalls       \* bound on the connections opened for calls

VARIABLES
  boot,          \* how far boot is: the next entry, or past the last one
  found,         \* tools discovered so far
  catalog,       \* the external tools, by key
  connections,   \* the connection of boot and of each call
  lines,         \* what the server of each connection has sent and is unread
  left,          \* processes that nobody will stop any more
  returned,      \* how the calls ended
  opened

externalVars == <<boot, found, catalog, connections, lines, left, returned, opened>>

User == {"boot"} \cup Caller
Servers == {Configured[i].server : i \in DOMAIN Configured}
Tools == UNION {{Offers[server][i] : i \in DOMAIN Offers[server]} : server \in Servers}
Entry(server) ==
  LET i == CHOOSE i \in DOMAIN Configured :
             Configured[i].server = server /\ Configured[i].valid
  IN  Configured[i]

(* The entries that count: neither malformed nor of a server that an       *)
(* earlier one is of.                                                      *)
ParseConfig ==
  {i \in DOMAIN Configured :
     /\ Configured[i].valid
     /\ \A j \in 1..(i - 1) :
          Configured[j].valid => Configured[j].server # Configured[i].server}

Closed == [ phase |-> "closed", server |-> "", tool |-> "none", id |-> 0,
            alive |-> FALSE, sent |-> 0, ran |-> FALSE, claimed |-> FALSE,
            ending |-> "" ]
Link == [ phase : {"closed", "greeting", "asking", "closing"},
          server : Servers \cup {""}, tool : Tools \cup {"none", "tools/list"},
          id : 0..2, alive : BOOLEAN,
          sent : 0..MaxLines, ran : BOOLEAN, claimed : BOOLEAN,
          ending : {"", "answered", "failed", "timeout"} ]

(* A line of a server: an object with the id of the greeting (1), of the   *)
(* question (2) or another, that has a result, an error, the tool's own    *)
(* failure, or none of them, like a request of the server's; or a line     *)
(* that is no object.                                                      *)
Line ==
  [ id : 1..2, says : {"result", "error", "failure", "request"} ]
    \cup [ id : {0}, says : {"request", "garbage"} ]

TypeOK ==
  /\ boot \in 1..(Len(Configured) + 2)
  /\ \A i \in DOMAIN found : found[i].server \in Servers /\ found[i].green \in BOOLEAN
  /\ \A k \in DOMAIN catalog : catalog[k].key = k
  /\ \A u \in User : connections[u] \in Link /\ lines[u] \in Seq(Line)
  /\ left \subseteq [phase : {"greeting", "closing"}, ending : {"failed", "timeout"}]
  /\ returned \subseteq
       [ending : {"answered", "failed", "timeout"}, ran : BOOLEAN, claimed : BOOLEAN]
  /\ opened \in 0..MaxCalls

Init ==
  /\ boot = 1
  /\ found = << >>
  /\ catalog = << >>
  /\ connections = [u \in User |-> Closed]
  /\ lines = [u \in User |-> << >>]
  /\ left = {}
  /\ returned = {}
  /\ opened = 0

-----------------------------------------------------------------------------
(* What a server offers, as boot finds it: the tools it names, as many as  *)
(* are wanted.                                                             *)
Green(server, key) == key \in Listed[server]

ListTools(server) ==
  LET offer == SubSeq(Offers[server], 1,
                 IF Len(Offers[server]) < MaxTools THEN Len(Offers[server]) ELSE MaxTools)
  IN  Kept(offer, LAMBDA t : t # "")

Borrowed(server, tool) ==
  [key |-> Key(server, tool), server |-> server, tool |-> tool,
   green |-> Green(server, Key(server, tool))]
Discovered(server) ==
  [i \in DOMAIN ListTools(server) |-> Borrowed(server, ListTools(server)[i])]

(* What is assumed of the constants.                                       *)
Assumption ==
  /\ Configured \in
       Seq([server : STRING, valid : BOOLEAN, enabled : BOOLEAN, process : BOOLEAN])
  /\ \A server \in Servers : Offers[server] \in Seq(STRING)
  /\ "boot" \notin Caller
  /\ MaxTools \in Nat /\ MaxLines \in Nat /\ MaxCalls \in Nat

(* What a connection came to is handed to boot or to the call.             *)
Hand(u, ending) ==
  IF u = "boot"
  THEN /\ boot' = boot + 1
       /\ found' = IF ending = "answered" THEN found \o Discovered(connections[u].server)
                   ELSE found
       /\ UNCHANGED returned
  ELSE /\ returned' = returned \cup
            {[ending |-> ending, ran |-> connections[u].ran,
              claimed |-> connections[u].claimed]}
       /\ UNCHANGED <<boot, found>>
Drop(u, ending) ==
  /\ Hand(u, ending)
  /\ connections' = [connections EXCEPT ![u] = Closed]
  /\ lines' = [lines EXCEPT ![u] = << >>]

(* A process is left behind when nobody will wait for its end any more.    *)
Abandon(u, ending) ==
  /\ left' = IF connections[u].alive
             THEN left \cup {[phase |-> connections[u].phase, ending |-> ending]} ELSE left
  /\ Drop(u, ending)
Conclude(u, ending) ==
  /\ connections' = [connections EXCEPT ![u].phase = "closing", ![u].ending = ending]
  /\ lines' = [lines EXCEPT ![u] = << >>]
  /\ UNCHANGED <<boot, found, left, returned>>

(* A connection is closed whatever happens once it is made; it is made     *)
(* when the server has been greeted, so a greeting that fails is not.      *)
Fail(u, ending) ==
  \/ connections[u].phase = "greeting" /\ Abandon(u, ending)
  \/ connections[u].phase = "asking" /\ Conclude(u, ending)

Asks(u) == connections[u].phase \in {"greeting", "asking"}
IsProcess(u) == Entry(connections[u].server).process

(* A server that is a process may not start.  What one behind HTTP         *)
(* responds is taken for the answer, whatever it has done.                 *)
Connect(u, server, tool) ==
  /\ connections[u].phase = "closed"
  /\ \/ /\ connections' = [connections EXCEPT ![u] =
              [Closed EXCEPT !.phase = "greeting", !.server = server, !.tool = tool,
                             !.id = 1, !.alive = Entry(server).process,
                             !.claimed = ~Entry(server).process]]
        /\ UNCHANGED <<boot, found, lines, left, returned>>
     \/ /\ Entry(server).process
        /\ Hand(u, "failed")
        /\ UNCHANGED <<connections, lines, left>>

-----------------------------------------------------------------------------
(* Boot goes through the entries in order, passing over those that do not  *)
(* count or are disabled, and installs what it found: the first tool of    *)
(* each key, and none over a tool of the code.                             *)
Discover ==
  /\ boot <= Len(Configured)
  /\ IF boot \in ParseConfig /\ Configured[boot].enabled
     THEN Connect("boot", Configured[boot].server, "tools/list")
     ELSE /\ boot' = boot + 1
          /\ UNCHANGED <<found, connections, lines, left, returned>>
  /\ UNCHANGED <<catalog, opened>>

Install ==
  /\ boot = Len(Configured) + 1
  /\ boot' = boot + 1
  /\ LET keys == {found[i].key : i \in DOMAIN found} \ Builtin
         first(k) == CHOOSE i \in DOMAIN found :
                       /\ found[i].key = k
                       /\ \A j \in 1..(i - 1) : found[j].key # k
     IN  catalog' = [k \in keys |-> found[first(k)]]
  /\ UNCHANGED <<found, connections, lines, left, returned, opened>>

(* A call, once the application serves.                                    *)
Call(u, key) ==
  /\ boot = Len(Configured) + 2
  /\ opened < MaxCalls
  /\ opened' = opened + 1
  /\ Connect(u, catalog[key].server, catalog[key].tool)
  /\ UNCHANGED catalog

-----------------------------------------------------------------------------
(* What a server does: it runs the tool, sends lines of any kind, whatever *)
(* it was asked and has done, and stops.  One that has the id of the       *)
(* question and is not the answer of a run claims to be.                   *)
Runs(u) ==
  /\ u # "boot" /\ connections[u].phase = "asking" /\ ~connections[u].ran
  /\ connections[u].alive \/ ~IsProcess(u)
  /\ connections' = [connections EXCEPT ![u].ran = TRUE]
  /\ UNCHANGED <<boot, found, catalog, lines, left, returned, opened>>

Claims(u, line) ==
  /\ line.id = 2
  /\ line.says = "request" \/ (line.says = "result" /\ ~connections[u].ran)
Sends(u, line) ==
  /\ Asks(u) /\ connections[u].alive /\ connections[u].sent < MaxLines
  /\ lines' = [lines EXCEPT ![u] = Append(@, line)]
  /\ connections' = [connections EXCEPT ![u].sent = @ + 1,
                       ![u].claimed = @ \/ Claims(u, line)]
  /\ UNCHANGED <<boot, found, catalog, left, returned, opened>>
Stops(u) ==
  /\ Asks(u) /\ connections[u].alive
  /\ connections' = [connections EXCEPT ![u].alive = FALSE]
  /\ UNCHANGED <<boot, found, catalog, lines, left, returned, opened>>

-----------------------------------------------------------------------------
(* What the client does: the answer to its request takes it on, to the     *)
(* question or to the end; an error, in the protocol or in the tool's own  *)
(* words, ends it; a line that is not the answer is passed over.  An       *)
(* object without a result is no greeting, the answer of a tool without    *)
(* words, and an empty list of tools, which is as good as none.            *)
Greets(u, says) ==
  connections[u].phase = "greeting" /\ says \in {"result", "failure"}
Answers(u, says) ==
  /\ connections[u].phase = "asking"
  /\ says = "result" \/ (says = "request" /\ u # "boot")
Take(u, says) ==
  CASE Answers(u, says) -> Conclude(u, "answered")
    [] Greets(u, says) ->
         /\ connections' = [connections EXCEPT ![u].phase = "asking", ![u].id = 2]
         /\ lines' = [lines EXCEPT ![u] = IF @ = << >> THEN @ ELSE Tail(@)]
         /\ UNCHANGED <<boot, found, left, returned>>
    [] OTHER -> Fail(u, "failed")

IsAnswer_Any(u, line) == line.says # "garbage"
IsAnswer(u, line) == line.id = connections[u].id /\ line.says # "garbage"

Read(u) ==
  /\ Asks(u) /\ lines[u] # << >>
  /\ IF IsAnswer(u, Head(lines[u])) THEN Take(u, Head(lines[u]).says)
     ELSE /\ lines' = [lines EXCEPT ![u] = Tail(@)]
          /\ UNCHANGED <<boot, found, connections, left, returned>>
  /\ UNCHANGED <<catalog, opened>>

(* A server behind HTTP gives each request its response, or an error; the  *)
(* id in it is not looked at.                                              *)
Respond(u, says) ==
  /\ Asks(u) /\ ~IsProcess(u)
  /\ Take(u, says)
  /\ UNCHANGED <<catalog, opened>>

(* The server stopped and everything it sent is read; or the request takes *)
(* too long, or gets a line too long for the reader.  In the greeting of a *)
(* call the time of the call runs out first.                               *)
Break(u) ==
  /\ Asks(u)
  /\ \/ ~connections[u].alive /\ lines[u] = << >> /\ IsProcess(u)
     \/ u = "boot" \/ connections[u].phase = "asking"
  /\ Fail(u, "failed")
  /\ UNCHANGED <<catalog, opened>>

(* The time of the call is up, once, wherever it stands.  A process told   *)
(* to terminate is then not waited for, nor killed.                        *)
TimeOut(u) ==
  /\ u # "boot"
  /\ \/ Fail(u, "timeout")
     \/ /\ connections[u].phase = "closing" /\ connections[u].ending # "timeout"
        /\ Abandon(u, "timeout")
  /\ UNCHANGED <<catalog, opened>>

(* The process terminates, or is killed after five seconds.                *)
Close(u) ==
  /\ connections[u].phase = "closing"
  /\ Drop(u, connections[u].ending)
  /\ UNCHANGED <<catalog, left, opened>>

Next ==
  \/ Discover \/ Install
  \/ \E u \in Caller : \E key \in DOMAIN catalog : Call(u, key)
  \/ \E u \in User :
       \/ Runs(u) \/ Stops(u) \/ Read(u) \/ Break(u) \/ TimeOut(u) \/ Close(u)
       \/ \E line \in Line : Sends(u, line)
       \/ \E says \in {"result", "error", "failure", "request"} : Respond(u, says)

Spec == Init /\ [][Next]_externalVars

-----------------------------------------------------------------------------
(* What runs outside is kept there.  A process is left behind only by a    *)
(* greeting that failed, or by a call whose time was up while it closed;   *)
(* never by a call that was answered.  A call that was answered had its    *)
(* tool run, or its server claimed so, with a line that had the call's own *)
(* id or in the response to its request: no answer to the greeting, late   *)
(* or repeated, and no line with another id or none is taken for it.  A    *)
(* tool may run unasked only under a key that its own server's entry       *)
(* lists, and no tool of the code is replaced (client.py, registry.py,     *)
(* catalog.py).                                                            *)
ServersAreContained ==
  /\ \A p \in left : p.phase = "greeting" \/ (p.phase = "closing" /\ p.ending = "timeout")
  /\ \A r \in returned : r.ending = "answered" => r.ran \/ r.claimed
  /\ \A k \in DOMAIN catalog :
       /\ catalog[k].green => k \in Listed[catalog[k].server]
       /\ k \notin Builtin
=============================================================================
