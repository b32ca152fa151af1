------------------------------ MODULE Accounts ------------------------------
(***************************************************************************)
(* How a provider account becomes a connection: the OAuth attempt and its  *)
(* callback, the Apple form, verification with the discovery of calendars, *)
(* the registry of built providers the server answers from, and tokens the *)
(* provider clients write back (oauthflow, connections, providers,         *)
(* token/store.go, web/server.go).  An account has one calendar; a token   *)
(* is the account it opens.                                                *)
(***************************************************************************)
EXTENDS Naturals, FiniteSets

CONSTANTS
    Accounts,      \* accounts at the providers, each with one calendar
    Connections,   \* connection IDs; a fresh UUID per connection, never reused
    Attempts,      \* OAuth attempts, by the hash of their state
    Requests,      \* handlers of the web server that run at the same time
    MaxForms,      \* bound: Apple forms submitted
    None

ASSUME BoundAssumption == MaxForms \in Nat
ASSUME AccountsDistinct == None \notin Accounts \cup Connections \cup Attempts

VARIABLES
    attempts,      \* rows of oauth_attempts
    connections,   \* rows of connections
    calendars,     \* rows of calendars: the accounts listed per connection
    requests,      \* locals of the handlers
    registry,      \* account of the provider the server has built per connection
    forms,         \* count of Apple forms, for the bound
    exchanges,     \* history: codes exchanged per attempt
    consented      \* history: accounts whose owner asked to connect them there

vars == <<attempts, connections, calendars, requests, registry, forms, exchanges, consented>>

Unused == [provider |-> None, status |-> "unused", fingerprint |-> None, token |-> None]
IdleRequest == [pc |-> "idle", attempt |-> None, conn |-> None, account |-> None, seen |-> None]

TypeOK ==
    /\ attempts \in [Attempts -> [state : {"absent", "open", "expired", "consumed"},
                                  conn : Connections \cup {None}]]
    /\ connections \in [Connections ->
           [provider : {None, "oauth", "apple"},
            status : {"unused", "connected", "pending", "error", "deleted"},
            fingerprint : Accounts \cup Connections \cup {None}, token : Accounts \cup {None}]]
    /\ calendars \in [Connections -> SUBSET Accounts]
    /\ requests \in [Requests ->
           [pc : {"idle", "read", "consume", "exchange", "save", "mark", "build", "list",
                  "identify", "discover", "finish", "refresh", "register"},
            attempt : Attempts \cup {None}, conn : Connections \cup {None},
            account : Accounts \cup {None}, seen : Accounts \cup {None}]]
    /\ registry \in [Connections -> Accounts \cup {None}]
    /\ forms \in 0..MaxForms /\ exchanges \in [Attempts -> Nat] /\ consented \in [Connections -> SUBSET Accounts]

Init ==
    /\ attempts = [t \in Attempts |-> [state |-> "absent", conn |-> None]]
    /\ connections = [c \in Connections |-> Unused]
    /\ calendars = [c \in Connections |-> {}]
    /\ requests = [r \in Requests |-> IdleRequest]
    /\ registry = [c \in Connections |-> None]
    /\ forms = 0 /\ exchanges = [t \in Attempts |-> 0] /\ consented = [c \in Connections |-> {}]

Exists(c) == connections[c].status \notin {"unused", "deleted"}
(* Factory.Build: one provider per connected connection, with its stored   *)
(* credentials.                                                            *)
Build == [c \in Connections |->
              IF connections[c].status = "connected" THEN connections[c].token ELSE None]

At(r, pc) == requests[r].pc = pc
Goto(r, pc) == requests' = [requests EXCEPT ![r].pc = pc]
Return(r) == requests' = [requests EXCEPT ![r] = IdleRequest]
Mark(c, status) == [connections EXCEPT ![c].status = status]
(* UpdateConnectionVerification with an error, then the handler returns.   *)
Refused(r) ==
    /\ connections' = IF Exists(requests[r].conn) THEN Mark(requests[r].conn, "error") ELSE connections
    /\ Return(r) /\ UNCHANGED calendars
(* PersistConnectionCredentials: whatever the row holds is replaced.       *)
Persist(c, account) == [connections EXCEPT ![c].token = account]
(* A client that refreshed its token saves it; Apple has none to save.     *)
WriteBack(c, account) == IF connections[c].provider = "oauth" THEN Persist(c, account) ELSE connections
(* UpdateConnectionCredentials.                                            *)
Replace(c, account) == [connections EXCEPT ![c].token = account, ![c].status = "pending"]

(* Begin and BeginReconnect.                                               *)
OAuthStart(t, c) ==
    /\ attempts[t].state = "absent"
    /\ c # None => Exists(c) /\ connections[c].provider = "oauth"
    /\ attempts' = [attempts EXCEPT ![t] = [state |-> "open", conn |-> c]]
    /\ UNCHANGED <<connections, calendars, requests, registry, forms, exchanges, consented>>

(* Ten minutes pass.                                                       *)
Expire(t) ==
    /\ attempts[t].state = "open" /\ attempts' = [attempts EXCEPT ![t].state = "expired"]
    /\ UNCHANGED <<connections, calendars, requests, registry, forms, exchanges, consented>>

(* The browser presents the state of t with a code for the account a its   *)
(* user chose; it may do so twice, or after the attempt expired.           *)
OAuthCallback(r, t, a) ==
    /\ At(r, "idle") /\ attempts[t].state # "absent"
    /\ requests' = [requests EXCEPT ![r] = [IdleRequest EXCEPT !.pc = "read", !.attempt = t, !.account = a]]
    /\ UNCHANGED <<attempts, connections, calendars, registry, forms, exchanges, consented>>

(* ConsumeOAuthAttempt: the row is read and judged,                        *)
ReadAttempt(r) ==
    /\ At(r, "read")
    /\ LET row == attempts[requests[r].attempt] IN
        IF row.state = "open"
        THEN requests' = [requests EXCEPT ![r].pc = "consume", ![r].conn = row.conn]
        ELSE Return(r)
    /\ UNCHANGED <<attempts, connections, calendars, registry, forms, exchanges, consented>>

(* Faulty: the update does not ask for consumed_at to be NULL.             *)
AnyAttempt(t) == attempts[t].state # "absent"
(* UPDATE ... WHERE state_hash=? AND consumed_at IS NULL.                  *)
Consumable(t) == attempts[t].state \in {"open", "expired"}
(* and then claimed by a conditional update.                               *)
ConsumeAttempt(r) ==
    /\ At(r, "consume")
    /\ LET t == requests[r].attempt IN
        IF Consumable(t)
        THEN attempts' = [attempts EXCEPT ![t].state = "consumed"] /\ Goto(r, "exchange")
        ELSE Return(r) /\ UNCHANGED attempts
    /\ UNCHANGED <<connections, calendars, registry, forms, exchanges, consented>>

(* The code is exchanged for a token, or the exchange fails and the        *)
(* attempt stays consumed.                                                 *)
Exchange(r) ==
    /\ At(r, "exchange")
    /\ \/ /\ Goto(r, "save")
          /\ exchanges' = [exchanges EXCEPT ![requests[r].attempt] = @ + 1]
       \/ Return(r) /\ UNCHANGED exchanges
    /\ UNCHANGED <<attempts, connections, calendars, registry, forms, consented>>

Consents(c, a) == consented' = [consented EXCEPT ![c] = @ \cup {a}]

(* CreateConnection: the fingerprint is "pending:" and the row's own ID.   *)
NewRow(provider, a) == [provider |-> provider, status |-> "connected", fingerprint |-> None, token |-> a]
(* Service.create: the row is connected before anything was verified.      *)
Create(c, provider, a) ==
    /\ connections[c] = Unused /\ Consents(c, a)
    /\ connections' = [connections EXCEPT ![c] = NewRow(provider, a)]

ConnectOAuth(r, c) ==
    /\ At(r, "save") /\ attempts[requests[r].attempt].conn = None
    /\ Create(c, "oauth", requests[r].account)
    /\ requests' = [requests EXCEPT ![r] = [IdleRequest EXCEPT !.pc = "build", !.conn = c]]
    /\ UNCHANGED <<attempts, calendars, registry, forms, exchanges>>

(* ReconnectOAuth, up to the new token,                                    *)
ReconnectOAuth(r) ==
    LET c == requests[r].conn IN
    /\ At(r, "save") /\ c # None
    /\ IF Exists(c)
       THEN /\ connections' = Persist(c, requests[r].account)
            /\ requests' = [requests EXCEPT ![r] = [IdleRequest EXCEPT !.pc = "mark", !.conn = c]]
            /\ Consents(c, requests[r].account)
       ELSE Return(r) /\ UNCHANGED <<connections, consented>>
    /\ UNCHANGED <<attempts, calendars, registry, forms, exchanges>>

(* and the status in a statement of its own.                               *)
MarkConnected(r) ==
    /\ At(r, "mark")
    /\ IF Exists(requests[r].conn)
       THEN connections' = Mark(requests[r].conn, "connected") /\ Goto(r, "build")
       ELSE Return(r) /\ UNCHANGED connections
    /\ UNCHANGED <<attempts, calendars, registry, forms, exchanges, consented>>

(* Faulty: the first provider of that name is taken, whatever its route.   *)
AnyBuilt(c) == {Build[d] : d \in {e \in Connections : connections[e].provider = "oauth"}} \ {None}
(* The provider whose route is name@id.                                    *)
Built(c) == {Build[c]} \ {None}
(* verifyConnection builds every provider and looks for this connection's. *)
BuildProvider(r) ==
    /\ At(r, "build")
    /\ \/ \E a \in Built(requests[r].conn) :
              requests' = [requests EXCEPT ![r].pc = "list", ![r].account = a]
       \/ Built(requests[r].conn) = {} /\ Return(r)
    /\ UNCHANGED <<attempts, connections, calendars, registry, forms, exchanges, consented>>

Submit == forms < MaxForms /\ forms' = forms + 1
(* connectApple: a provider with the credentials of the form has listed    *)
(* before they are stored, in a new connection                             *)
ConnectApple(r, c, a) ==
    /\ At(r, "idle") /\ Submit /\ Create(c, "apple", a)
    /\ requests' = [requests EXCEPT ![r] = [IdleRequest EXCEPT !.pc = "list", !.conn = c, !.account = a]]
    /\ UNCHANGED <<attempts, calendars, registry, exchanges>>

(* or in an existing one, which is pending until it is verified again.     *)
ReconnectApple(r, c, a) ==
    /\ At(r, "idle") /\ Submit /\ Exists(c) /\ connections[c].provider = "apple"
    /\ connections' = Replace(c, a)
    /\ requests' = [requests EXCEPT ![r] = [IdleRequest EXCEPT !.pc = "list", !.conn = c, !.account = a]]
    /\ Consents(c, a)
    /\ UNCHANGED <<attempts, calendars, registry, exchanges>>

(* VerifyAndDiscover: the calendars are listed with the provider's own     *)
(* credentials, which a new OAuth client also writes back; the account may *)
(* show none, and a failed listing marks the connection.                   *)
ListAccount(r) ==
    LET c == requests[r].conn IN
    /\ At(r, "list")
    /\ \/ /\ Exists(c) /\ connections' = WriteBack(c, requests[r].account)
          /\ \E seen \in {requests[r].account, None} :
                 requests' = [requests EXCEPT ![r].pc = "identify", ![r].account = None, ![r].seen = seen]
          /\ UNCHANGED calendars
       \/ Refused(r)
    /\ UNCHANGED <<attempts, registry, forms, exchanges, consented>>

(* connectionIdentity: the primary calendar names the account, for Apple   *)
(* the stored user name, and an empty list the connection itself.          *)
Identity(r) ==
    LET c == requests[r].conn IN
    IF connections[c].provider = "apple" THEN connections[c].token
    ELSE IF requests[r].seen = None THEN c ELSE requests[r].seen

(* UpdateConnectionIdentity: a fingerprint another connection has is       *)
(* refused by the table's UNIQUE constraint.                               *)
Identify(r) ==
    LET c == requests[r].conn IN
    /\ At(r, "identify")
    /\ IF Exists(c) /\ \A d \in Connections \ {c} : connections[d].fingerprint # Identity(r)
       THEN /\ connections' = [connections EXCEPT ![c].fingerprint = Identity(r)]
            /\ Goto(r, "discover") /\ UNCHANGED calendars
       ELSE Refused(r)
    /\ UNCHANGED <<attempts, registry, forms, exchanges, consented>>

(* UpsertCalendar fails when the connection is gone (foreign key); the     *)
(* capabilities of a calendar may not be readable either.                  *)
Discovered(c, a) == [calendars EXCEPT ![c] = @ \cup {a}]
Discover(r) ==
    LET c == requests[r].conn IN
    /\ At(r, "discover")
    /\ \/ /\ Exists(c) \/ requests[r].seen = None
          /\ calendars' = IF requests[r].seen = None THEN calendars ELSE Discovered(c, requests[r].seen)
          /\ Goto(r, "finish") /\ UNCHANGED connections
       \/ requests[r].seen # None /\ Refused(r)
    /\ UNCHANGED <<attempts, registry, forms, exchanges, consented>>

Finish(r) ==
    /\ At(r, "finish")
    /\ IF Exists(requests[r].conn)
       THEN connections' = Mark(requests[r].conn, "connected") /\ Goto(r, "refresh")
       ELSE Return(r) /\ UNCHANGED connections
    /\ UNCHANGED <<attempts, calendars, registry, forms, exchanges, consented>>

(* refreshProviders replaces the server's registry.                        *)
RefreshProviders(r) ==
    /\ At(r, "refresh") /\ registry' = Build /\ Return(r)
    /\ UNCHANGED <<attempts, connections, calendars, forms, exchanges, consented>>

(* DeleteConnection, for one no rule uses; the registry is refreshed next. *)
DeleteConnection(r, c) ==
    /\ At(r, "idle") /\ Exists(c)
    /\ connections' = [connections EXCEPT ![c] = [Unused EXCEPT !.status = "deleted"]]
    /\ calendars' = [calendars EXCEPT ![c] = {}]
    /\ Goto(r, "refresh")
    /\ UNCHANGED <<attempts, registry, forms, exchanges, consented>>

(* Registry.ListCalendars asks a built provider, whose client may write    *)
(* its token back,                                                         *)
ListCalendars(r, c) ==
    /\ At(r, "idle") /\ registry[c] # None /\ Exists(c)
    /\ connections' = WriteBack(c, registry[c])
    /\ requests' = [requests EXCEPT ![r] = [IdleRequest EXCEPT !.pc = "register", !.conn = c, !.seen = registry[c]]]
    /\ UNCHANGED <<attempts, calendars, registry, forms, exchanges, consented>>

(* and registers what it has not seen yet while the connection is          *)
(* connected.                                                              *)
RegisterDiscoveredCalendar(r) ==
    LET c == requests[r].conn IN
    /\ At(r, "register") /\ Return(r)
    /\ calendars' = IF connections[c].status = "connected" THEN Discovered(c, requests[r].seen) ELSE calendars
    /\ UNCHANGED <<attempts, connections, registry, forms, exchanges, consented>>

(* The server stops and starts again: its handlers are gone, its registry  *)
(* is built from the rows.                                                 *)
Restart ==
    /\ requests' = [r \in Requests |-> IdleRequest] /\ registry' = Build
    /\ UNCHANGED <<attempts, connections, calendars, forms, exchanges, consented>>

Handler(r) ==
    \/ \E t \in Attempts, a \in Accounts : OAuthCallback(r, t, a)
    \/ ReadAttempt(r) \/ ConsumeAttempt(r) \/ Exchange(r)
    \/ \E c \in Connections : ConnectOAuth(r, c) \/ DeleteConnection(r, c) \/ ListCalendars(r, c)
    \/ ReconnectOAuth(r) \/ MarkConnected(r) \/ BuildProvider(r)
    \/ \E c \in Connections, a \in Accounts : ConnectApple(r, c, a) \/ ReconnectApple(r, c, a)
    \/ ListAccount(r) \/ Identify(r) \/ Discover(r) \/ Finish(r) \/ RefreshProviders(r)
    \/ RegisterDiscoveredCalendar(r)

Next ==
    \/ \E t \in Attempts : Expire(t) \/ \E c \in Connections \cup {None} : OAuthStart(t, c)
    \/ \E r \in Requests : Handler(r)
    \/ Restart

Spec == Init /\ [][Next]_vars

(* One consent, one token: however often and however late the state of an  *)
(* attempt comes back, in however many handlers at once, its code is       *)
(* exchanged at most once (Store.ConsumeOAuthAttempt).                     *)
ConsentIsUsedOnce == \A t \in Attempts : exchanges[t] <= 1

(* A connection only ever holds calendars, and a token, of accounts whose  *)
(* owner connected them to it, whichever handler verified it and whichever *)
(* client wrote a token back (VerifyAndDiscover, verifyConnection,         *)
(* databaseTokenStore.Save, RegisterDiscoveredCalendar).                   *)
CalendarsWereConsented ==
    \A c \in Connections :
        /\ calendars[c] \subseteq consented[c]
        /\ connections[c].token \in consented[c] \cup {None}
=============================================================================
