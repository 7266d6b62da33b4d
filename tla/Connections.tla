----------------------------- MODULE Connections -----------------------------
(***************************************************************************)
(* The connections page (ConnectionsPage.cxx) and what fills it: the       *)
(* client of the Avahi daemon (lib/avahi/Client.cxx), which reconnects     *)
(* when the daemon is restarted, and the explorer (lib/avahi/Explorer.cxx) *)
(* which looks up the address of every MPD announced on the network.       *)
(***************************************************************************)
EXTENDS Integers, FiniteSets, SequencesExt

CONSTANTS
    Services,       \* the servers announced with Zeroconf
    ServiceName,    \* what the page shows of each: equal for two interfaces of one host
    MaxResolvers    \* bound: lookups counted

VARIABLE conns

Default == "default"
Fallback == "fallback"
Error == "error"
Gone == "gone"      \* settings the list does not hold any more
ASSUME ConnectionsAssumption == {Default, Fallback, Error, Gone} \cap Services = {}

NameOf(i) == IF i \in Services THEN ServiceName[i] ELSE i

\* The servers of the configuration: a local socket has a fallback.
Configured == {<<Default>>, <<Default, Fallback>>}

ConnectionsInit ==
    \E servers \in Configured :
      conns = [client |-> FALSE, connected |-> FALSE, timer |-> TRUE,    \* Avahi::Client
               browser |-> FALSE, told |-> {}, allTold |-> FALSE,        \* AvahiServiceBrowser
               objects |-> <<>>, resolvers |-> 0, pending |-> FALSE,     \* ServiceExplorer
               items |-> servers, cursor |-> 1, range |-> FALSE,
               target |-> Default, active |-> {}, dirty |-> TRUE]

InState(c, state) == {k \in DOMAIN c.objects : c.objects[k] = state}
SetObject(c, k, state) ==
    [c EXCEPT !.objects = [j \in DOMAIN @ \cup {k} |-> IF j = k THEN state ELSE @[j]]]

-----------------------------------------------------------------------------
(* The page *)

\* ListCursor::SetLength()
Clamped(c) == [c EXCEPT !.cursor = IF @ > Len(c.items) THEN Len(c.items) ELSE @]

\* GetCursorHash(), the change, SetLength() and SetCursorHash(): the first item of that name.
KeepingCursor(c, items) ==
    LET same == {i \in 1..Len(items) : NameOf(items[i]) = NameOf(c.items[c.cursor])}
        new == Clamped([c EXCEPT !.items = items])
    IN  IF c.range \/ same = {} THEN new
        ELSE [new EXCEPT !.cursor = CHOOSE i \in same : \A j \in same : i <= j]

\* OnAvahiError(): a new message replaces the last one.
OnAvahiError(c) ==
    LET left == IF Last(c.items) = Error THEN Front(c.items) ELSE c.items
    IN  Clamped([c EXCEPT !.items = Append(left, Error)])

\* OnAvahiNewObject(): before an error message.
NewObject(c, k) ==
    LET pos == IF Last(c.items) = Error THEN Len(c.items) ELSE Len(c.items) + 1
    IN  KeepingCursor(c, InsertAt(c.items, pos, k))

Without(items, k) == RemoveAt(items, CHOOSE i \in DOMAIN items : items[i] = k)

\* The client may keep the settings.
Forgotten(c, k) == [c EXCEPT !.active = @ \ {k}, !.target = IF @ = k THEN Gone ELSE @]

\* Mutant: the cursor is not restored.
RemoveObjectOnly(c, k) ==
    IF k \notin Range(c.items) THEN c
    ELSE Forgotten(Clamped([c EXCEPT !.items = Without(@, k)]), k)

\* OnAvahiRemoveObject()
RemoveObject(c, k) ==
    IF k \notin Range(c.items) THEN c
    ELSE Forgotten(KeepingCursor(c, Without(c.items, k)), k)

\* ConnectionsPage::Update()
UpdateConnections(c) == [c EXCEPT !.active = {c.target} \cap Range(c.items)]

ActivateItem ==
    LET item == conns.items[conns.cursor]
    IN  conns' = [conns EXCEPT !.dirty = TRUE,
                               !.target = IF item = Error \/ item \in conns.active THEN @ ELSE item]

MoveToItem ==
    \E i \in 1..Len(conns.items), range \in BOOLEAN :
        conns' = [conns EXCEPT !.cursor = i, !.range = range, !.dirty = TRUE]

\* OnAsyncMpdConnectError(), and Connect() when the timer tries again: the page is updated when the
\* attempt has an end.
FallBack ==
    /\ conns.target = Default /\ Fallback \in Range(conns.items)
    /\ conns' = [conns EXCEPT !.target = Fallback, !.dirty = TRUE]

BackToDefault == conns.target = Fallback /\ conns' = [conns EXCEPT !.target = Default, !.dirty = TRUE]

DrawConnections == conns.dirty /\ conns' = [UpdateConnections(conns) EXCEPT !.dirty = FALSE]

-----------------------------------------------------------------------------
(* Avahi::ServiceExplorer *)

\* Mutant: the browser has announced all, and the answers are still awaited.
DisconnectCounting(c) ==
    [c EXCEPT !.objects = [k \in DOMAIN @ |-> IF @[k] = "resolving" THEN "failed" ELSE @[k]],
              !.browser = FALSE, !.told = {}, !.allTold = FALSE]

\* OnAvahiDisconnect(): the services stay, those being looked up have failed.
DropConnection(c) == [DisconnectCounting(c) EXCEPT !.resolvers = 0]

\* OnAvahiConnect()
ConnectTo(c) ==
    IF c.browser THEN {c} ELSE {[c EXCEPT !.browser = TRUE], OnAvahiError(c)}

\* Object::Resolve()
Resolve(c, k) ==
    {[SetObject(c, k, "resolving") EXCEPT !.resolvers = @ + 1],
     OnAvahiError(SetObject(c, k, "failed"))}

\* The browser announces what comes and goes on the network, in any order.
BrowserNew ==
    \E k \in Services :
        /\ conns.browser /\ k \notin conns.told /\ conns.resolvers < MaxResolvers
        /\ LET c == [conns EXCEPT !.told = @ \cup {k}]
           IN  conns' \in IF k \in InState(c, "active") \cup InState(c, "resolving") THEN {c}
                          ELSE Resolve(c, k)

\* The resolver dies with the object, without being counted off.
BrowserRemove ==
    \E k \in Services :
        /\ conns.browser /\ k \in conns.told
        /\ LET c == [conns EXCEPT !.told = @ \ {k}]
               heard == IF k \in InState(c, "active") THEN RemoveObject(c, k) ELSE c
           IN  conns' = [heard EXCEPT !.objects = [j \in DOMAIN @ \ {k} |-> @[j]]]

BrowserAllForNow ==
    /\ conns.browser /\ ~conns.allTold
    /\ conns' = [conns EXCEPT !.allTold = TRUE, !.pending = @ \/ conns.resolvers > 0]

\* Object::ServiceResolverCallback()
Resolved(c, k) ==
    LET left == c.resolvers - 1
    IN  [c EXCEPT !.resolvers = left, !.pending = @ /\ left > 0]

ResolverFound ==
    \E k \in InState(conns, "resolving") :
        conns' = Resolved(NewObject(SetObject(conns, k, "active"), k), k)

ResolverFailed ==
    \E k \in InState(conns, "resolving") : conns' = Resolved(SetObject(conns, k, "failed"), k)

-----------------------------------------------------------------------------
(* Avahi::Client *)

\* OnReconnectTimer(): avahi_client_new()
OnAvahiReconnect ==
    /\ conns.timer
    /\ conns' \in {[conns EXCEPT !.timer = FALSE, !.client = TRUE], OnAvahiError(conns)}

\* AVAHI_CLIENT_S_RUNNING, also after a collision
ClientRunning ==
    /\ conns.client /\ ~conns.connected
    /\ conns' \in ConnectTo([conns EXCEPT !.connected = TRUE])

\* AVAHI_CLIENT_S_COLLISION, AVAHI_CLIENT_S_REGISTERING: the browser is kept.
ClientChanged == conns.connected /\ conns' = [conns EXCEPT !.connected = FALSE]

Close(c) == [DropConnection(c) EXCEPT !.client = FALSE, !.connected = FALSE, !.timer = FALSE]

\* AVAHI_CLIENT_FAILURE: the daemon was stopped, or another error
ClientFailure ==
    /\ conns.client
    /\ \E error \in BOOLEAN :
          LET c == [Close(conns) EXCEPT !.timer = TRUE]
          IN  conns' = IF error THEN OnAvahiError(c) ELSE c

ConnectionsNext ==
    \/ ActivateItem \/ MoveToItem \/ FallBack \/ BackToDefault \/ DrawConnections
    \/ BrowserNew \/ BrowserRemove \/ BrowserAllForNow \/ ResolverFound \/ ResolverFailed
    \/ OnAvahiReconnect \/ ClientRunning \/ ClientChanged \/ ClientFailure

ConnectionsSpec == ConnectionsInit /\ [][ConnectionsNext]_conns

-----------------------------------------------------------------------------
(* Properties *)

\* Types; the cursor is on a line of the list, which is never empty.
ConnectionsTypeOK ==
    /\ Range(conns.items) \subseteq Services \cup {Default, Fallback, Error}
    /\ conns.cursor \in 1..Len(conns.items)
    /\ conns.target \in Services \cup {Default, Fallback, Gone}
    /\ conns.told \subseteq Services /\ conns.resolvers \in Nat

\* Whatever becomes of the daemon between its answers, every service whose address is known is
\* listed once, no other one is, and an error message is the last line.
ServersListed ==
    /\ IsInjective(conns.items)
    /\ Range(conns.items) \cap Services = InState(conns, "active")
    /\ Error \in Range(conns.items) => Last(conns.items) = Error

\* The counter never misses a lookup in progress (the assertion of the resolver's callback),
\* and without a daemon there is none.
ResolversCounted ==
    /\ conns.resolvers >= Cardinality(InState(conns, "resolving"))
    /\ ~conns.browser => conns.resolvers = 0

\* There is a client or a timer that will create one, never both (the assertion of the timer's
\* callback): ncmpc finds a daemon which was restarted.
Reconnects == conns.client # conns.timer /\ (conns.connected \/ conns.browser => conns.client)

\* Once drawn, the server in use is marked, if it is listed, and no other one.
ActiveMarked == ~conns.dirty => conns.active = {conns.target} \cap Range(conns.items)

\* Servers coming and going leave the cursor on the line where the user has put it.
CursorKeepsServer ==
    [][LET name(c) == NameOf(c.items[c.cursor])
       IN  (BrowserRemove \/ ResolverFound) /\ ~conns.range
             => \/ name(conns') = name(conns)
                \/ \A i \in Range(conns'.items) : NameOf(i) # name(conns)]_conns

\* Violated: what is pending when the connection is lost is pending when the next browser has
\* announced all, which Explorer.cxx asserts it is not.
AllForNowOnce == [][BrowserAllForNow /\ conns.resolvers = 0 => ~conns.pending]_conns

\* Services, lookups and the daemon itself may come and go in any order: the list has every
\* server that is known, the counter and the timer are right, and the cursor stays.
ServersAreKnown ==
    /\ [](ConnectionsTypeOK /\ ServersListed /\ ResolversCounted /\ Reconnects /\ ActiveMarked)
    /\ CursorKeepsServer
=============================================================================
