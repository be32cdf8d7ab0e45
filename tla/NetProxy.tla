------------------------------ MODULE NetProxy ------------------------------
(***************************************************************************)
(* The proxy of a sandboxed agent's network (connectors/net-proxy.ts,      *)
(* actions/sandbox-net.ts): a connection asks for one target, the target   *)
(* is judged against the allowlist, its name resolved, the upstream        *)
(* connected, and the two ends piped, each half-open, until both have      *)
(* ended or one fails.                                                     *)
(*                                                                         *)
(* A target is a name; a name under the wildcard's suffix is in Below.     *)
(* Ports, headers and the bytes of a tunnel are left out: what upstream    *)
(* sent and the client has not read is a number.                           *)
(***************************************************************************)
EXTENDS Naturals, FiniteSets

CONSTANTS
  Conns,           \* connections, each of one request
  Names,           \* what a sandboxed program may ask for
  Exact,           \* the names an entry names
  Below,           \* the names a wildcard entry covers
  MaxConnections,
  MaxOwed          \* bound: what upstream sends

NetProxyAssumption ==
  /\ Exact \cup Below \subseteq Names /\ {"none", "bad"} \cap Names = {}
  /\ MaxConnections \in Nat \ {0} /\ MaxOwed \in Nat

VARIABLES
  server,   \* "up", "closing", "closed"
  client,   \* the client's end of a connection
  target,   \* what it asked for
  upstream, \* the upstream's end
  reached,  \* the kind of address the upstream was connected to
  ended,    \* which sides of a tunnel ended cleanly
  owed,     \* what upstream sent and the client has not got yet
  counts,   \* how often the request was counted, by result
  answers   \* how often the client was answered by the proxy

vars == <<server, client, target, upstream, reached, ended, owed, counts, answers>>

Results == {"allowed", "denied", "failed", "dropped"}
\* What isNonPublicAddress() tells apart.
Addresses == {"public", "private"}
NoCount == [x \in Results |-> 0]
Total(c) == counts[c]["allowed"] + counts[c]["denied"] + counts[c]["failed"] + counts[c]["dropped"]
Open == {c \in Conns : client[c] = "open"}

TypeOK ==
  /\ server \in {"up", "closing", "closed"}
  /\ client \in [Conns -> {"none", "open", "gone"}]
  /\ target \in [Conns -> Names \cup {"none", "bad"}]
  /\ upstream \in [Conns -> {"none", "connecting", "connected", "gone"}]
  /\ reached \in [Conns -> Addresses \cup {"none"}]
  /\ \A c \in Conns : ended[c] \subseteq {"client", "upstream"} /\ owed[c] \in 0 .. MaxOwed

Init ==
  /\ server = "up" /\ client = [c \in Conns |-> "none"] /\ target = [c \in Conns |-> "none"]
  /\ upstream = [c \in Conns |-> "none"] /\ reached = [c \in Conns |-> "none"]
  /\ ended = [c \in Conns |-> {}] /\ owed = [c \in Conns |-> 0]
  /\ counts = [c \in Conns |-> NoCount] /\ answers = [c \in Conns |-> 0]

Count(c, result) == counts' = [counts EXCEPT ![c][result] = @ + 1]
\* reply(): a complete response, which ends the connection.
Reply(c) ==
  /\ answers' = [answers EXCEPT ![c] = @ + 1] /\ client' = [client EXCEPT ![c] = "gone"]

\* matchNetRule(): a rule that names the host wins over a wildcard that covers it, as only
\* the former may reach an address that is not public.
Rule(n) == IF n \in Exact THEN "exact" ELSE IF n \in Below THEN "wildcard" ELSE "none"

\* publicOnly(): of the addresses a name resolved to, a wildcard keeps the public ones.
Usable(n, found) == IF Rule(n) = "wildcard" THEN found \ {"private"} ELSE found

-----------------------------------------------------------------------------

\* A connection; past the limit it is dropped unanswered.
Connects(c) ==
  /\ server = "up" /\ client[c] = "none"
  /\ IF Cardinality(Open) < MaxConnections
     THEN client' = [client EXCEPT ![c] = "open"] /\ UNCHANGED counts
     ELSE client' = [client EXCEPT ![c] = "gone"] /\ Count(c, "dropped")
  /\ UNCHANGED <<server, target, upstream, reached, ended, owed, answers>>

\* CONNECT or an absolute http:// request: a bad target gets a 400, one that no rule
\* names a 403, else upstream is connected to.
Asks(c, n) ==
  /\ client[c] = "open" /\ target[c] = "none" /\ target' = [target EXCEPT ![c] = n]
  /\ IF n = "bad" THEN Reply(c) /\ UNCHANGED <<upstream, counts>>
     ELSE IF Rule(n) = "none" THEN Reply(c) /\ Count(c, "denied") /\ UNCHANGED upstream
     ELSE /\ upstream' = [upstream EXCEPT ![c] = "connecting"]
          /\ UNCHANGED <<client, counts, answers>>
  /\ UNCHANGED <<server, reached, ended, owed>>

\* The name resolves, and the connection goes to an address that was checked ...
Connected(c, found) ==
  /\ upstream[c] = "connecting" /\ Usable(target[c], found) # {}
  /\ upstream' = [upstream EXCEPT ![c] = "connected"]
  /\ \E a \in Usable(target[c], found) : reached' = [reached EXCEPT ![c] = a]
  /\ Count(c, "allowed")
  /\ UNCHANGED <<server, client, target, ended, owed, answers>>

\* ... or to none, is refused, or takes too long: 403 or 502.
CannotReach(c, found) ==
  /\ upstream[c] = "connecting" /\ upstream' = [upstream EXCEPT ![c] = "gone"]
  /\ Count(c, IF found # {} /\ Usable(target[c], found) = {} THEN "denied" ELSE "failed")
  /\ Reply(c)
  /\ UNCHANGED <<server, target, reached, ended, owed>>

Tunnel(c) == client[c] = "open" /\ upstream[c] = "connected"

UpstreamSends(c) ==
  /\ Tunnel(c) /\ "upstream" \notin ended[c] /\ owed[c] < MaxOwed
  /\ owed' = [owed EXCEPT ![c] = @ + 1]
  /\ UNCHANGED <<server, client, target, upstream, reached, ended, counts, answers>>
ClientReads(c) ==
  /\ Tunnel(c) /\ owed[c] > 0 /\ owed' = [owed EXCEPT ![c] = @ - 1]
  /\ UNCHANGED <<server, client, target, upstream, reached, ended, counts, answers>>

\* Mutant: the end of one side ends both.
DoneAtOnce(c, sides) == sides # {}

\* A clean end travels on; the pair is done when both sides ended and all is read.
Done(c, sides) == sides = {"client", "upstream"} /\ owed[c] = 0
Ends(c, side) ==
  /\ Tunnel(c) /\ side \notin ended[c]
  /\ ended' = [ended EXCEPT ![c] = @ \cup {side}]
  /\ IF Done(c, ended'[c])
     THEN /\ client' = [client EXCEPT ![c] = "gone"]
          /\ upstream' = [upstream EXCEPT ![c] = "gone"]
     ELSE UNCHANGED <<client, upstream>>
  /\ UNCHANGED <<server, target, reached, owed, counts, answers>>
LastRead(c) ==
  /\ Tunnel(c) /\ ended[c] = {"client", "upstream"} /\ owed[c] = 0
  /\ client' = [client EXCEPT ![c] = "gone"]
  /\ upstream' = [upstream EXCEPT ![c] = "gone"]
  /\ UNCHANGED <<server, target, reached, ended, owed, counts, answers>>

\* One side fails, or the client leaves before upstream is there: the other is torn down.
Fails(c) ==
  /\ client[c] = "open"
  /\ client' = [client EXCEPT ![c] = "gone"]
  /\ upstream' = [upstream EXCEPT ![c] = IF @ = "none" THEN "none" ELSE "gone"]
  /\ ended' = [ended EXCEPT ![c] = {}] /\ owed' = [owed EXCEPT ![c] = 0]
  /\ UNCHANGED <<server, target, reached, counts, answers>>

\* Mutant: only the clients' ends are dropped.
DropClients ==
  /\ client' = [c \in Conns |-> IF client[c] = "open" THEN "gone" ELSE client[c]]
  /\ UNCHANGED upstream

\* close(): nothing is accepted any more and every open end is dropped ...
DropAll ==
  /\ client' = [c \in Conns |-> IF client[c] = "open" THEN "gone" ELSE client[c]]
  /\ upstream' = [c \in Conns |-> IF upstream[c] = "none" THEN "none" ELSE "gone"]
Close ==
  /\ server = "up" /\ server' = "closing" /\ DropAll
  /\ ended' = [c \in Conns |-> {}] /\ owed' = [c \in Conns |-> 0]
  /\ UNCHANGED <<target, reached, counts, answers>>
\* ... and when they are, the socket is removed.
Closed ==
  /\ server = "closing" /\ Open = {} /\ server' = "closed"
  /\ UNCHANGED <<client, target, upstream, reached, ended, owed, counts, answers>>

Next ==
  \/ Close \/ Closed
  \/ \E c \in Conns :
       \/ Connects(c) \/ UpstreamSends(c) \/ ClientReads(c) \/ LastRead(c) \/ Fails(c)
       \/ \E n \in Names \cup {"bad"} : Asks(c, n)
       \/ \E found \in SUBSET Addresses : Connected(c, found) \/ CannotReach(c, found)
       \/ \E side \in {"client", "upstream"} : Ends(c, side)

Spec == Init /\ [][Next]_vars

-----------------------------------------------------------------------------

\* A request is counted and answered at most once, and no end of a connection is left
\* without its other end (net-proxy.ts, 43-46 and 384-386).
NothingHalfOpenForGood ==
  \A c \in Conns :
    /\ Total(c) <= 1 /\ answers[c] <= 1
    /\ upstream[c] \in {"connecting", "connected"} => client[c] = "open"

\* A tunnel whose sides both ended cleanly lost nothing of what upstream sent (384-385).
NothingCutShort ==
  \A c \in Conns : ended[c] # {} /\ client[c] = "gone" => owed[c] = 0

\* An address that is not public is reached for a name an entry names, never through a
\* wildcard alone (12-16).
WildcardStaysPublic ==
  \A c \in Conns : reached[c] = "private" => target[c] \in Exact
=============================================================================
