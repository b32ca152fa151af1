--------------------------- MODULE Accounts_proofs ---------------------------
(***************************************************************************)
(* Proofs about connecting accounts, for any accounts, connections,        *)
(* attempts and handlers: a consent is used once, and what a connection    *)
(* holds is of an account whose owner connected it there.                  *)
(***************************************************************************)
EXTENDS Accounts, TLAPS

-----------------------------------------------------------------------------
(* The inductive invariant.                                                *)

Request == [pc : {"idle", "read", "consume", "exchange", "save", "mark", "build", "list",
                  "identify", "discover", "finish", "refresh", "register"},
            attempt : Attempts \cup {None}, conn : Connections \cup {None},
            account : Accounts \cup {None}, seen : Accounts \cup {None}]
Connection == [provider : {None, "oauth", "apple"},
               status : {"unused", "connected", "pending", "error", "deleted"},
               fingerprint : Accounts \cup Connections \cup {None}, token : Accounts \cup {None}]

(* A code is exchanged by the one handler that consumed the attempt.       *)
Claims(r, t) == requests[r].pc = "exchange" /\ requests[r].attempt = t
AttemptsAreClaimed ==
    \A t \in Attempts :
        /\ exchanges[t] <= 1 /\ (exchanges[t] = 1 => attempts[t].state = "consumed")
        /\ \A r \in Requests : Claims(r, t) =>
            /\ attempts[t].state = "consumed" /\ exchanges[t] = 0
            /\ \A s \in Requests : Claims(s, t) => s = r

(* The calendar an account shows, the account a client acts for and the    *)
(* account a form or a callback names belong to the connection they are    *)
(* meant for.                                                              *)
Knows(q) ==
    /\ q.pc \in {"read", "consume", "exchange", "save"} => q.attempt \in Attempts /\ q.account \in Accounts
    /\ q.pc \in {"mark", "build", "list", "identify", "discover", "finish", "register"} => q.conn \in Connections
    /\ q.pc = "list" => q.account \in consented[q.conn]
    /\ q.pc \in {"identify", "discover"} => q.seen \in consented[q.conn] \cup {None}
    /\ q.pc = "register" => q.seen \in consented[q.conn]
HandlersKnow == \A r \in Requests : Knows(requests[r])

(* The server answers with clients of accounts connected there.            *)
RegistryWasConsented == \A c \in Connections : registry[c] \in consented[c] \cup {None}

IInv ==
    /\ TypeOK
    /\ AttemptsAreClaimed
    /\ HandlersKnow
    /\ RegistryWasConsented
    /\ CalendarsWereConsented

-----------------------------------------------------------------------------
(* Facts about the records.                                                *)

(* What the type invariant says, in the sets above.                        *)
LEMMA RecordTypes ==
    /\ TypeOK <=>
        /\ attempts \in [Attempts -> [state : {"absent", "open", "expired", "consumed"},
                                      conn : Connections \cup {None}]]
        /\ connections \in [Connections -> Connection] /\ calendars \in [Connections -> SUBSET Accounts]
        /\ requests \in [Requests -> Request] /\ registry \in [Connections -> Accounts \cup {None}]
        /\ forms \in 0..MaxForms /\ exchanges \in [Attempts -> Nat]
        /\ consented \in [Connections -> SUBSET Accounts]
    /\ IdleRequest \in Request /\ IdleRequest.pc = "idle"
    /\ Unused \in Connection /\ Unused.token = None /\ Unused.status = "unused"
BY DEF TypeOK, Connection, Request, IdleRequest, Unused

(* The initial state.                                                      *)
LEMMA InitInv == Init => IInv
<1> SUFFICES ASSUME Init PROVE IInv
  OBVIOUS
<1>1. TypeOK
  BY RecordTypes, BoundAssumption DEF Init
<1>2. AttemptsAreClaimed /\ HandlersKnow /\ RegistryWasConsented /\ CalendarsWereConsented
  BY RecordTypes DEF Init, AttemptsAreClaimed, Claims, HandlersKnow, Knows, RegistryWasConsented, CalendarsWereConsented
<1> QED BY <1>1, <1>2 DEF IInv

(* What is built from the rows acts for accounts connected there.          *)
LEMMA BuildWasConsented ==
    ASSUME IInv
    PROVE  Build \in [Connections -> Accounts \cup {None}] /\ \A c \in Connections : Build[c] \in consented[c] \cup {None}
BY RecordTypes DEF IInv, Build, CalendarsWereConsented, Connection

-----------------------------------------------------------------------------
(* Steps.                                                                  *)

(* A step of the handler r: others are only helped by more consents.       *)
LEMMA HandlerFrame ==
    ASSUME IInv, NEW r \in Requests, requests' = [requests EXCEPT ![r] = requests'[r]], requests'[r] \in Request,
           forms' \in 0..MaxForms,
           consented' \in [Connections -> SUBSET Accounts], \A c \in Connections : consented[c] \subseteq consented'[c],
           connections' \in [Connections -> Connection], calendars' \in [Connections -> SUBSET Accounts],
           registry' \in [Connections -> Accounts \cup {None}],
           CalendarsWereConsented', RegistryWasConsented', Knows(requests[r])',
           UNCHANGED <<attempts, exchanges>>, requests'[r].pc # "exchange"
    PROVE  IInv'
<1>1. \A s \in Requests \ {r} : requests'[s] = requests[s]
  BY RecordTypes DEF IInv
<1>2. requests' \in [Requests -> Request]
  BY RecordTypes DEF IInv
<1>3. TypeOK'
  BY <1>2, RecordTypes DEF IInv, TypeOK, Request, Connection
<1>4. AttemptsAreClaimed'
  BY <1>1 DEF IInv, AttemptsAreClaimed, Claims
<1>5. HandlersKnow'
  BY <1>1, <1>2 DEF IInv, HandlersKnow, Knows, Request
<1> QED BY <1>3, <1>4, <1>5 DEF IInv

(* A step of r that changes no row, but perhaps the registry, which it     *)
(* builds from the rows.                                                   *)
LEMMA RequestFrame ==
    ASSUME IInv, NEW r \in Requests, requests' = [requests EXCEPT ![r] = requests'[r]], requests'[r] \in Request,
           UNCHANGED <<attempts, connections, calendars, forms, exchanges, consented>>, registry' \in {registry, Build},
           Knows(requests[r])', requests'[r].pc # "exchange"
    PROVE  IInv'
<1>1. CalendarsWereConsented'
  BY DEF IInv, CalendarsWereConsented
<1>2. RegistryWasConsented' /\ registry' \in [Connections -> Accounts \cup {None}]
  BY BuildWasConsented, RecordTypes DEF IInv, RegistryWasConsented
<1>3. /\ connections' \in [Connections -> Connection] /\ calendars' \in [Connections -> SUBSET Accounts]
      /\ consented' \in [Connections -> SUBSET Accounts] /\ forms' \in 0..MaxForms
  BY RecordTypes DEF IInv
<1> QED BY <1>1, <1>2, <1>3, HandlerFrame

(* A step of r that writes rows: what it stores is an account consented    *)
(* there.                                                                  *)
LEMMA RowFrame ==
    ASSUME IInv, NEW r \in Requests, requests' = [requests EXCEPT ![r] = requests'[r]], requests'[r] \in Request,
           forms' \in 0..MaxForms, NEW c \in Connections, connections'[c] \in Connection,
           connections' = [connections EXCEPT ![c] = connections'[c]],
           consented' = [consented EXCEPT ![c] = consented'[c]],
           consented[c] \subseteq consented'[c], consented'[c] \subseteq Accounts,
           calendars' = [calendars EXCEPT ![c] = calendars'[c]],
           calendars'[c] \subseteq consented'[c], connections'[c].token \in consented'[c] \cup {None},
           UNCHANGED <<attempts, exchanges, registry>>, Knows(requests[r])', requests'[r].pc # "exchange"
    PROVE  IInv'
<1>1. /\ connections \in [Connections -> Connection] /\ calendars \in [Connections -> SUBSET Accounts]
      /\ consented \in [Connections -> SUBSET Accounts] /\ registry \in [Connections -> Accounts \cup {None}]
  BY RecordTypes DEF IInv
<1>2. \A d \in Connections : consented[d] \subseteq consented'[d]
  BY <1>1
<1>3. /\ connections' \in [Connections -> Connection] /\ consented' \in [Connections -> SUBSET Accounts]
      /\ calendars' \in [Connections -> SUBSET Accounts]
  BY <1>1
<1>4. CalendarsWereConsented' /\ RegistryWasConsented'
  BY <1>1, <1>2 DEF IInv, CalendarsWereConsented, RegistryWasConsented
<1> QED BY <1>1, <1>2, <1>3, <1>4, HandlerFrame

(* Attempts: one handler wins the conditional update, and only it          *)
(* exchanges the code.                                                     *)
LEMMA AttemptInv ==
    ASSUME IInv, \/ \E t \in Attempts : Expire(t) \/ \E c \in Connections \cup {None} : OAuthStart(t, c)
                 \/ \E r \in Requests : ConsumeAttempt(r) \/ Exchange(r)
    PROVE  IInv'
<1> DEFINE Attempt == [state : {"absent", "open", "expired", "consumed"}, conn : Connections \cup {None}]
<1>1. /\ attempts \in [Attempts -> Attempt] /\ requests \in [Requests -> Request]
      /\ exchanges \in [Attempts -> Nat]
  BY RecordTypes DEF IInv
<1>2. ASSUME attempts' \in [Attempts -> Attempt], requests' \in [Requests -> Request], exchanges' \in [Attempts -> Nat],
             UNCHANGED <<connections, calendars, registry, forms, consented>>, AttemptsAreClaimed', HandlersKnow'
      PROVE  IInv'
  <2>1. TypeOK'
    BY <1>2, RecordTypes DEF IInv, TypeOK, Request, Connection
  <2> QED BY <1>2, <2>1 DEF IInv, RegistryWasConsented, CalendarsWereConsented
<1>3. ASSUME NEW t \in Attempts, NEW c \in Connections \cup {None}, Expire(t) \/ OAuthStart(t, c) PROVE IInv'
  <2>1. /\ attempts' = [attempts EXCEPT ![t] = attempts'[t]] /\ attempts'[t] \in Attempt
        /\ attempts[t].state # "consumed"
        /\ UNCHANGED <<requests, connections, calendars, registry, forms, exchanges, consented>>
    BY <1>1, <1>3 DEF Expire, OAuthStart
  <2>2. AttemptsAreClaimed'
    BY <1>1, <2>1 DEF IInv, AttemptsAreClaimed, Claims
  <2>3. HandlersKnow'
    BY <2>1 DEF IInv, HandlersKnow, Knows
  <2> QED BY <1>1, <1>2, <2>1, <2>2, <2>3
<1>4. ASSUME NEW r \in Requests, ConsumeAttempt(r), Consumable(requests[r].attempt) PROVE IInv'
  <2> DEFINE t == requests[r].attempt
  <2>1. /\ requests[r].pc = "consume" /\ attempts' = [attempts EXCEPT ![t].state = "consumed"]
        /\ requests' = [requests EXCEPT ![r].pc = "exchange"]
        /\ UNCHANGED <<connections, calendars, registry, forms, exchanges, consented>>
        /\ attempts[t].state \in {"open", "expired"}
    BY <1>4 DEF ConsumeAttempt, At, Goto, Consumable
  <2>2. t \in Attempts /\ Knows(requests[r])
    BY <2>1 DEF IInv, HandlersKnow, Knows
  <2>3. /\ requests'[r] \in Request /\ requests'[r].pc = "exchange" /\ requests'[r].attempt = t
        /\ requests'[r].account = requests[r].account
        /\ \A s \in Requests \ {r} : requests'[s] = requests[s]
    BY <1>1, <2>1 DEF Request
  <2>4. /\ attempts'[t] \in Attempt /\ attempts'[t].state = "consumed"
        /\ \A u \in Attempts \ {t} : attempts'[u] = attempts[u]
    BY <1>1, <2>1, <2>2
  <2>5. \A s \in Requests : ~Claims(s, t)
    BY <2>1, <2>2 DEF IInv, AttemptsAreClaimed
  <2>6. exchanges[t] = 0
    <3>1. exchanges[t] \in Nat /\ exchanges[t] <= 1 /\ exchanges[t] # 1
      BY <1>1, <2>1, <2>2 DEF IInv, AttemptsAreClaimed
    <3> QED BY <3>1
  <2>7. AttemptsAreClaimed'
    BY <2>1, <2>2, <2>3, <2>4, <2>5, <2>6 DEF IInv, AttemptsAreClaimed, Claims
  <2>8. HandlersKnow'
    BY <2>1, <2>2, <2>3 DEF IInv, HandlersKnow, Knows
  <2> QED BY <1>1, <1>2, <2>1, <2>3, <2>4, <2>7, <2>8
<1>5. ASSUME NEW r \in Requests, ConsumeAttempt(r), ~Consumable(requests[r].attempt) PROVE IInv'
  <2>1. requests' = [requests EXCEPT ![r] = IdleRequest] /\ UNCHANGED <<attempts, connections, calendars, registry, forms, exchanges, consented>>
    BY <1>5 DEF ConsumeAttempt, Return
  <2>2. requests'[r] = IdleRequest /\ requests' = [requests EXCEPT ![r] = requests'[r]]
    BY <1>1, <2>1
  <2> QED BY <2>1, <2>2, RecordTypes, RequestFrame DEF Knows
<1>6. ASSUME NEW r \in Requests, Exchange(r) PROVE IInv'
  <2> DEFINE t == requests[r].attempt
  <2>1. requests[r].pc = "exchange" /\ t \in Attempts /\ Knows(requests[r]) /\ Claims(r, t)
    BY <1>6 DEF Exchange, At, IInv, HandlersKnow, Knows, Claims
  <2>2. CASE /\ requests' = [requests EXCEPT ![r].pc = "save"]
             /\ exchanges' = [exchanges EXCEPT ![t] = @ + 1]
             /\ UNCHANGED <<attempts, connections, calendars, registry, forms, consented>>
    <3>1. /\ requests'[r] \in Request /\ requests'[r].pc = "save" /\ requests'[r].attempt = t
          /\ requests'[r].account = requests[r].account
          /\ \A s \in Requests \ {r} : requests'[s] = requests[s]
      BY <1>1, <2>2 DEF Request
    <3>2. exchanges[t] = 0 /\ exchanges'[t] = 1 /\ \A u \in Attempts \ {t} : exchanges'[u] = exchanges[u]
      BY <1>1, <2>1, <2>2 DEF IInv, AttemptsAreClaimed
    <3>3. AttemptsAreClaimed'
      BY <2>1, <2>2, <3>1, <3>2 DEF IInv, AttemptsAreClaimed, Claims
    <3>4. HandlersKnow'
      BY <2>1, <2>2, <3>1 DEF IInv, HandlersKnow, Knows
    <3>5. exchanges' \in [Attempts -> Nat]
      <4>1. exchanges[t] + 1 = 1
        BY <3>2
      <4>2. exchanges' = [exchanges EXCEPT ![t] = 1]
        BY <2>2, <4>1, Zenon
      <4> QED BY <1>1, <4>2
    <3>6. requests' \in [Requests -> Request]
      <4>1. requests' = [requests EXCEPT ![r] = requests'[r]]
        BY <1>1, <2>2
      <4> QED BY <1>1, <3>1, <4>1
    <3> QED BY <1>1, <1>2, <2>2, <3>3, <3>4, <3>5, <3>6
  <2>3. CASE /\ requests' = [requests EXCEPT ![r] = IdleRequest]
             /\ UNCHANGED <<attempts, connections, calendars, registry, forms, exchanges, consented>>
    <3>1. requests'[r] = IdleRequest /\ requests' = [requests EXCEPT ![r] = requests'[r]]
      BY <1>1, <2>3
    <3> QED BY <2>3, <3>1, RecordTypes, RequestFrame DEF Knows
  <2> QED BY <1>6, <2>2, <2>3 DEF Exchange, Goto, Return
<1> QED BY <1>3, <1>4, <1>5, <1>6

(* Handlers that only read, or build providers from the rows.              *)
LEMMA ReaderInv ==
    ASSUME IInv, NEW r \in Requests,
           \/ \E t \in Attempts, a \in Accounts : OAuthCallback(r, t, a)
           \/ ReadAttempt(r) \/ BuildProvider(r) \/ RefreshProviders(r)
    PROVE  IInv'
<1>1. requests \in [Requests -> Request] /\ attempts \in [Attempts -> [state : {"absent", "open", "expired", "consumed"},
                                                                      conn : Connections \cup {None}]]
  BY RecordTypes DEF IInv
<1>2. Knows(requests[r])
  BY DEF IInv, HandlersKnow
<1>3. ASSUME Return(r), UNCHANGED <<attempts, connections, calendars, forms, exchanges, consented>>,
             registry' \in {registry, Build}
      PROVE  IInv'
  <2>1. requests'[r] = IdleRequest /\ requests' = [requests EXCEPT ![r] = requests'[r]]
    BY <1>1, <1>3 DEF Return
  <2> QED BY <1>3, <2>1, RecordTypes, RequestFrame DEF Knows
<1>4. ASSUME NEW t \in Attempts, NEW a \in Accounts, OAuthCallback(r, t, a) PROVE IInv'
  <2>1. /\ requests' = [requests EXCEPT ![r] = requests'[r]] /\ requests'[r] \in Request
        /\ requests'[r].pc = "read" /\ requests'[r].attempt = t /\ requests'[r].account = a
        /\ UNCHANGED <<attempts, connections, calendars, registry, forms, exchanges, consented>>
    BY <1>1, <1>4 DEF OAuthCallback, IdleRequest, Request
  <2> QED BY <2>1, RequestFrame DEF Knows
<1>5. CASE ReadAttempt(r)
  <2>1. CASE attempts[requests[r].attempt].state = "open"
    <3>1. requests[r].pc = "read" /\ requests[r].attempt \in Attempts /\ requests[r].account \in Accounts
      BY <1>2, <1>5 DEF ReadAttempt, At, Knows
    <3>2. attempts[requests[r].attempt].conn \in Connections \cup {None}
      BY <1>1, <3>1
    <3>3. /\ requests' = [requests EXCEPT ![r] = requests'[r]] /\ requests'[r] \in Request
          /\ requests'[r].pc = "consume" /\ requests'[r].attempt = requests[r].attempt
          /\ requests'[r].account = requests[r].account
          /\ UNCHANGED <<attempts, connections, calendars, registry, forms, exchanges, consented>>
      BY <1>1, <1>5, <2>1, <3>1, <3>2 DEF ReadAttempt, Request
    <3> QED BY <3>1, <3>3, RequestFrame DEF Knows
  <2>2. CASE attempts[requests[r].attempt].state # "open"
    BY <1>3, <1>5, <2>2 DEF ReadAttempt
  <2> QED BY <2>1, <2>2
<1>6. CASE BuildProvider(r)
  <2>1. ASSUME NEW a \in Built(requests[r].conn), requests' = [requests EXCEPT ![r].pc = "list", ![r].account = a]
        PROVE  IInv'
    <3>1. requests[r].conn \in Connections
      BY <1>2, <1>6 DEF BuildProvider, At, Knows
    <3>2. a \in Accounts /\ a \in consented[requests[r].conn]
      BY <2>1, <3>1, BuildWasConsented DEF Built
    <3>3. /\ requests'[r] = [requests[r] EXCEPT !.pc = "list", !.account = a]
          /\ requests' = [requests EXCEPT ![r] = requests'[r]]
      BY <1>1, <2>1
    <3>4. /\ requests'[r] \in Request
          /\ requests'[r].pc = "list" /\ requests'[r].conn = requests[r].conn /\ requests'[r].account = a
      <4>1. requests[r] \in Request /\ a \in Accounts
        BY <1>1, <3>2
      <4> HIDE <1>1
      <4> QED BY <3>3, <4>1 DEF Request
    <3>5. UNCHANGED <<attempts, connections, calendars, registry, forms, exchanges, consented>>
      BY <1>6 DEF BuildProvider
    <3> QED BY <3>1, <3>2, <3>3, <3>4, <3>5, RequestFrame DEF Knows
  <2> QED BY <1>3, <1>6, <2>1 DEF BuildProvider
<1>7. CASE RefreshProviders(r)
  BY <1>3, <1>7 DEF RefreshProviders
<1> QED BY <1>4, <1>5, <1>6, <1>7

(* Handlers that store an account somebody asked to connect.               *)
LEMMA ConnectInv ==
    ASSUME IInv, NEW r \in Requests,
           \/ \E c \in Connections : ConnectOAuth(r, c)
           \/ ReconnectOAuth(r)
           \/ \E c \in Connections, a \in Accounts : ConnectApple(r, c, a) \/ ReconnectApple(r, c, a)
    PROVE  IInv'
<1>1. /\ requests \in [Requests -> Request] /\ connections \in [Connections -> Connection]
      /\ calendars \in [Connections -> SUBSET Accounts] /\ consented \in [Connections -> SUBSET Accounts]
      /\ forms \in 0..MaxForms /\ MaxForms \in Nat
  BY RecordTypes, BoundAssumption DEF IInv
<1>2. Knows(requests[r]) /\ CalendarsWereConsented
  BY DEF IInv, HandlersKnow
<1>3. ASSUME NEW c \in Connections, NEW a \in Accounts, Consents(c, a), forms' \in {forms, forms + 1}, forms' \in 0..MaxForms,
             connections'[c] \in Connection, connections'[c].token = a,
             connections' = [connections EXCEPT ![c] = connections'[c]],
             NEW pc \in {"build", "mark", "list"},
             requests' = [requests EXCEPT ![r] = requests'[r]], requests'[r] \in Request, requests'[r].pc = pc,
             requests'[r].conn = c, pc = "list" => requests'[r].account = a,
             UNCHANGED <<attempts, calendars, registry, exchanges>>
      PROVE  IInv'
  <2>1. consented'[c] = consented[c] \cup {a} /\ consented' = [consented EXCEPT ![c] = consented'[c]]
    BY <1>1, <1>3 DEF Consents
  <2>2. calendars' = [calendars EXCEPT ![c] = calendars'[c]] /\ calendars'[c] \subseteq consented'[c]
    BY <1>1, <1>2, <1>3, <2>1 DEF CalendarsWereConsented
  <2>3. consented[c] \subseteq consented'[c] /\ consented'[c] \subseteq Accounts /\ a \in consented'[c]
    BY <1>1, <2>1
  <2>4. Knows(requests[r])'
    BY <1>3, <2>3 DEF Knows
  <2> QED BY <1>3, <2>1, <2>2, <2>3, <2>4, RowFrame
<1>4. \A c \in Connections, a \in Accounts :
        /\ NewRow("oauth", a) \in Connection /\ NewRow("apple", a) \in Connection
        /\ NewRow("oauth", a).token = a /\ NewRow("apple", a).token = a
        /\ [connections[c] EXCEPT !.token = a] \in Connection
        /\ [connections[c] EXCEPT !.token = a, !.status = "pending"] \in Connection
  BY <1>1 DEF NewRow, Connection
<1>5. ASSUME NEW c \in Connections, ConnectOAuth(r, c) PROVE IInv'
  <2>1. requests[r].account \in Accounts
    BY <1>2, <1>5 DEF ConnectOAuth, At, Knows
  <2>2. /\ connections'[c] = NewRow("oauth", requests[r].account)
        /\ connections' = [connections EXCEPT ![c] = connections'[c]]
        /\ Consents(c, requests[r].account) /\ UNCHANGED <<attempts, calendars, registry, forms, exchanges>>
    BY <1>1, <1>5 DEF ConnectOAuth, Create
  <2>3. /\ requests'[r] = [IdleRequest EXCEPT !.pc = "build", !.conn = c]
        /\ requests' = [requests EXCEPT ![r] = requests'[r]]
    BY <1>1, <1>5 DEF ConnectOAuth
  <2>4. requests'[r] \in Request /\ requests'[r].pc = "build" /\ requests'[r].conn = c
    BY <2>3 DEF IdleRequest, Request
  <2>5. connections'[c] \in Connection /\ connections'[c].token = requests[r].account
    BY <1>4, <2>1, <2>2
  <2> QED BY <1>1, <1>3, <2>1, <2>2, <2>3, <2>4, <2>5
<1>6. CASE ReconnectOAuth(r)
  <2> DEFINE c == requests[r].conn
  <2>1. c \in Connections /\ requests[r].account \in Accounts
    BY <1>1, <1>2, <1>6 DEF ReconnectOAuth, At, Knows, Request
  <2>2. CASE Exists(c)
    <3>1. /\ connections'[c] = [connections[c] EXCEPT !.token = requests[r].account]
          /\ connections' = [connections EXCEPT ![c] = connections'[c]]
          /\ Consents(c, requests[r].account) /\ UNCHANGED <<attempts, calendars, registry, forms, exchanges>>
      BY <1>1, <1>6, <2>1, <2>2 DEF ReconnectOAuth, Persist
    <3>2. /\ requests'[r] = [IdleRequest EXCEPT !.pc = "mark", !.conn = c]
          /\ requests' = [requests EXCEPT ![r] = requests'[r]]
      BY <1>1, <1>6, <2>1, <2>2 DEF ReconnectOAuth
    <3>3. requests'[r] \in Request /\ requests'[r].pc = "mark" /\ requests'[r].conn = c
      BY <2>1, <3>2 DEF IdleRequest, Request
    <3>4. connections'[c] \in Connection
      BY <1>4, <2>1, <3>1, ZenonT(40)
    <3>5. connections'[c].token = requests[r].account
      BY <1>1, <2>1, <3>1 DEF Connection
    <3> QED BY <1>1, <1>3, <2>1, <3>1, <3>2, <3>3, <3>4, <3>5
  <2>3. CASE ~Exists(c)
    <3>1. /\ requests'[r] = IdleRequest /\ requests' = [requests EXCEPT ![r] = requests'[r]]
          /\ UNCHANGED <<attempts, connections, calendars, registry, forms, exchanges, consented>>
      BY <1>1, <1>6, <2>3 DEF ReconnectOAuth, Return
    <3> QED BY <3>1, RecordTypes, RequestFrame DEF Knows
  <2> QED BY <2>2, <2>3
<1>7. ASSUME NEW c \in Connections, NEW a \in Accounts, ConnectApple(r, c, a) \/ ReconnectApple(r, c, a) PROVE IInv'
  <2>1. /\ forms < MaxForms /\ forms' = forms + 1 /\ Consents(c, a)
        /\ UNCHANGED <<attempts, calendars, registry, exchanges>>
    BY <1>7 DEF ConnectApple, ReconnectApple, Submit, Create
  <2>6. forms' \in 0..MaxForms
    BY <1>1, <2>1
  <2>2. /\ requests'[r] = [IdleRequest EXCEPT !.pc = "list", !.conn = c, !.account = a]
        /\ requests' = [requests EXCEPT ![r] = requests'[r]]
    BY <1>1, <1>7 DEF ConnectApple, ReconnectApple
  <2>7. requests'[r] \in Request /\ requests'[r].pc = "list" /\ requests'[r].conn = c /\ requests'[r].account = a
    BY <2>2 DEF IdleRequest, Request
  <2>3. connections' = [connections EXCEPT ![c] = connections'[c]]
    BY <1>1, <1>7 DEF ConnectApple, ReconnectApple, Create, Replace
  <2>4. connections'[c] \in {NewRow("apple", a), [connections[c] EXCEPT !.token = a, !.status = "pending"]}
    BY <1>1, <1>7 DEF ConnectApple, ReconnectApple, Create, Replace
  <2>5. connections'[c] \in Connection /\ connections'[c].token = a
    <3>1. CASE connections'[c] = NewRow("apple", a)
      BY <3>1 DEF NewRow, Connection
    <3>2. CASE connections'[c] = [connections[c] EXCEPT !.token = a, !.status = "pending"]
      BY <1>1, <3>2, ZenonT(40) DEF Connection
    <3> QED BY <2>4, <3>1, <3>2
  <2> QED BY <1>3, <2>1, <2>2, <2>3, <2>5, <2>6, <2>7
<1> QED BY <1>5, <1>6, <1>7

(* Handlers that verify a connection, and those that use a built client.   *)
LEMMA VerifyInv ==
    ASSUME IInv, NEW r \in Requests,
           \/ MarkConnected(r) \/ ListAccount(r) \/ Identify(r) \/ Discover(r) \/ Finish(r)
           \/ RegisterDiscoveredCalendar(r)
           \/ \E c \in Connections : DeleteConnection(r, c) \/ ListCalendars(r, c)
    PROVE  IInv'
<1>1. /\ requests \in [Requests -> Request] /\ connections \in [Connections -> Connection]
      /\ calendars \in [Connections -> SUBSET Accounts] /\ consented \in [Connections -> SUBSET Accounts]
      /\ registry \in [Connections -> Accounts \cup {None}] /\ forms \in 0..MaxForms
  BY RecordTypes DEF IInv
<1>2. Knows(requests[r]) /\ CalendarsWereConsented /\ RegistryWasConsented
  BY DEF IInv, HandlersKnow
<1>3. ASSUME NEW c \in Connections, UNCHANGED <<attempts, registry, forms, exchanges, consented>>,
             connections'[c] \in Connection, connections' = [connections EXCEPT ![c] = connections'[c]],
             connections'[c].token \in consented[c] \cup {None},
             calendars' = [calendars EXCEPT ![c] = calendars'[c]], calendars'[c] \subseteq consented[c],
             requests' = [requests EXCEPT ![r] = requests'[r]], requests'[r] \in Request,
             Knows(requests[r])', requests'[r].pc # "exchange"
      PROVE  IInv'
  <2>1. consented' = [consented EXCEPT ![c] = consented'[c]] /\ consented'[c] = consented[c] /\ consented[c] \subseteq Accounts
    BY <1>1, <1>3
  <2> QED BY <1>1, <1>3, <2>1, RowFrame
<1>4. ASSUME NEW c \in Connections
      PROVE  /\ connections[c] \in Connection /\ connections[c].token \in consented[c] \cup {None}
             /\ calendars[c] \subseteq consented[c] /\ consented[c] \subseteq Accounts
             /\ registry[c] \in consented[c] \cup {None}
             /\ connections = [connections EXCEPT ![c] = connections[c]]
             /\ calendars = [calendars EXCEPT ![c] = calendars[c]]
  BY <1>1, <1>2 DEF CalendarsWereConsented, RegistryWasConsented
<1>6. ASSUME NEW c \in Connections, connections' = Mark(c, "connected") \/ connections' = Mark(c, "error") \/ UNCHANGED connections
      PROVE  /\ connections'[c] \in Connection /\ connections' = [connections EXCEPT ![c] = connections'[c]]
             /\ connections'[c].token \in consented[c] \cup {None}
  <2>1. ASSUME NEW status \in {"connected", "error"}, connections' = Mark(c, status)
        PROVE  /\ connections'[c] = [connections[c] EXCEPT !.status = status]
               /\ connections' = [connections EXCEPT ![c] = connections'[c]]
    BY <1>1, <2>1 DEF Mark
  <2>2. ASSUME NEW status \in {"connected", "error"}, connections' = Mark(c, status)
        PROVE  connections'[c] \in Connection /\ connections'[c].token = connections[c].token
    BY <1>1, <2>1, <2>2 DEF Connection
  <2>3. CASE UNCHANGED connections
    BY <1>4, <2>3
  <2> QED BY <1>4, <1>6, <2>1, <2>2, <2>3
<1>7. ASSUME Return(r), requests[r].conn \in Connections, UNCHANGED <<attempts, calendars, registry, forms, exchanges, consented>>,
             \/ connections' = Mark(requests[r].conn, "connected") \/ connections' = Mark(requests[r].conn, "error")
             \/ UNCHANGED connections
      PROVE  IInv'
  <2>1. requests'[r] = IdleRequest /\ requests' = [requests EXCEPT ![r] = requests'[r]]
    BY <1>1, <1>7 DEF Return
  <2> QED BY <1>3, <1>4, <1>6, <1>7, <2>1, RecordTypes DEF Knows
<1>8. ASSUME Refused(r), requests[r].conn \in Connections, UNCHANGED <<attempts, registry, forms, exchanges, consented>> PROVE IInv'
  BY <1>7, <1>8 DEF Refused
<1>9. ASSUME NEW pc \in {"build", "discover", "finish", "refresh"}, Goto(r, pc)
      PROVE  /\ requests' = [requests EXCEPT ![r] = requests'[r]] /\ requests'[r] \in Request /\ requests'[r].pc = pc
             /\ requests'[r].conn = requests[r].conn /\ requests'[r].seen = requests[r].seen
  BY <1>1, <1>9 DEF Goto, Request
<1>10. CASE MarkConnected(r)
  <2>1. requests[r].conn \in Connections
    BY <1>2, <1>10 DEF MarkConnected, At, Knows
  <2>2. CASE Exists(requests[r].conn)
    <3>1. /\ connections' = Mark(requests[r].conn, "connected") /\ Goto(r, "build")
          /\ UNCHANGED <<attempts, calendars, registry, forms, exchanges, consented>>
      BY <1>10, <2>2 DEF MarkConnected
    <3>2. Knows(requests[r])'
      BY <1>9, <2>1, <3>1 DEF Knows
    <3> QED BY <1>3, <1>4, <1>6, <1>9, <2>1, <3>1, <3>2
  <2>3. CASE ~Exists(requests[r].conn)
    BY <1>7, <1>10, <2>1, <2>3 DEF MarkConnected
  <2> QED BY <2>2, <2>3
<1>11. CASE Finish(r)
  <2>1. requests[r].conn \in Connections
    BY <1>2, <1>11 DEF Finish, At, Knows
  <2>2. CASE Exists(requests[r].conn)
    <3>1. /\ connections' = Mark(requests[r].conn, "connected") /\ Goto(r, "refresh")
          /\ UNCHANGED <<attempts, calendars, registry, forms, exchanges, consented>>
      BY <1>11, <2>2 DEF Finish
    <3>2. Knows(requests[r])'
      BY <1>9, <2>1, <3>1 DEF Knows
    <3> QED BY <1>3, <1>4, <1>6, <1>9, <2>1, <3>1, <3>2
  <2>3. CASE ~Exists(requests[r].conn)
    BY <1>7, <1>11, <2>1, <2>3 DEF Finish
  <2> QED BY <2>2, <2>3
<1>12. CASE ListAccount(r)
  <2> DEFINE c == requests[r].conn
             a == requests[r].account
  <2>1. c \in Connections /\ a \in consented[c] /\ a \in Accounts
    BY <1>1, <1>2, <1>12 DEF ListAccount, At, Knows
  <2>2. UNCHANGED <<attempts, registry, forms, exchanges, consented>>
    BY <1>12 DEF ListAccount
  <2>3. CASE Refused(r)
    BY <1>8, <2>1, <2>2, <2>3
  <2>4. ASSUME NEW seen \in {a, None}, connections' = WriteBack(c, a), UNCHANGED calendars,
               requests' = [requests EXCEPT ![r].pc = "identify", ![r].account = None, ![r].seen = seen]
        PROVE  IInv'
    <3>1. /\ connections'[c] \in {connections[c], [connections[c] EXCEPT !.token = a]}
          /\ connections' = [connections EXCEPT ![c] = connections'[c]]
      BY <1>1, <2>1, <2>4 DEF WriteBack, Persist
    <3>2. connections'[c] \in Connection /\ connections'[c].token \in consented[c] \cup {None}
      <4>1. CASE connections'[c] = connections[c]
        BY <1>4, <2>1, <4>1
      <4>2. CASE connections'[c] = [connections[c] EXCEPT !.token = a]
        BY <1>1, <2>1, <4>2 DEF Connection
      <4> QED BY <3>1, <4>1, <4>2
    <3>3. requests'[r] = [requests[r] EXCEPT !.pc = "identify", !.account = None, !.seen = seen]
      BY <1>1, <2>4
    <3>4. requests' = [requests EXCEPT ![r] = requests'[r]]
      BY <1>1, <2>4
    <3>5. /\ requests'[r] \in Request /\ requests'[r].pc = "identify" /\ requests'[r].conn = c
          /\ requests'[r].seen = seen
      <4>1. requests[r] \in Request /\ seen \in Accounts \cup {None}
        BY <1>1, <2>1
      <4> HIDE <1>1
      <4> QED BY <3>3, <4>1 DEF Request
    <3>6. Knows(requests[r])'
      BY <2>1, <2>2, <3>5 DEF Knows
    <3> QED BY <1>3, <1>4, <2>1, <2>2, <2>4, <3>1, <3>2, <3>4, <3>5, <3>6
  <2> QED BY <1>12, <2>3, <2>4 DEF ListAccount
<1>13. CASE Identify(r)
  <2> DEFINE c == requests[r].conn
  <2>1. c \in Connections /\ requests[r].seen \in consented[c] \cup {None}
    BY <1>2, <1>13 DEF Identify, At, Knows
  <2>2. UNCHANGED <<attempts, registry, forms, exchanges, consented>>
    BY <1>13 DEF Identify
  <2>3. CASE Refused(r)
    BY <1>8, <2>1, <2>2, <2>3
  <2>4. CASE /\ connections' = [connections EXCEPT ![c].fingerprint = Identity(r)]
             /\ Goto(r, "discover") /\ UNCHANGED calendars
    <3>1. Identity(r) \in Accounts \cup Connections \cup {None}
      BY <1>1, <2>1 DEF Identity, Connection
    <3>2. /\ connections'[c] = [connections[c] EXCEPT !.fingerprint = Identity(r)]
          /\ connections' = [connections EXCEPT ![c] = connections'[c]]
      BY <1>1, <2>1, <2>4
    <3>3. connections'[c] \in Connection /\ connections'[c].token = connections[c].token
      <4>1. connections[c] \in Connection
        BY <1>4, <2>1
      <4> QED BY <3>1, <3>2, <4>1 DEF Connection
    <3>4. Knows(requests[r])'
      BY <1>9, <2>1, <2>2, <2>4 DEF Knows
    <3> QED BY <1>3, <1>4, <1>9, <2>1, <2>2, <2>4, <3>2, <3>3, <3>4
  <2> QED BY <1>13, <2>3, <2>4 DEF Identify
<1>14. CASE Discover(r)
  <2> DEFINE c == requests[r].conn
  <2>1. c \in Connections /\ requests[r].seen \in consented[c] \cup {None}
    BY <1>2, <1>14 DEF Discover, At, Knows
  <2>2. UNCHANGED <<attempts, registry, forms, exchanges, consented>>
    BY <1>14 DEF Discover
  <2>3. CASE Refused(r)
    BY <1>8, <2>1, <2>2, <2>3
  <2>4. CASE /\ calendars' = IF requests[r].seen = None THEN calendars ELSE Discovered(c, requests[r].seen)
             /\ Goto(r, "finish") /\ UNCHANGED connections
    <3>1. calendars' = [calendars EXCEPT ![c] = calendars'[c]] /\ calendars'[c] \subseteq consented[c]
      BY <1>1, <1>4, <2>1, <2>4 DEF Discovered
    <3>2. Knows(requests[r])'
      BY <1>9, <2>1, <2>4 DEF Knows
    <3> QED BY <1>3, <1>6, <1>9, <2>1, <2>2, <2>4, <3>1, <3>2
  <2> QED BY <1>14, <2>3, <2>4 DEF Discover
<1>15. CASE RegisterDiscoveredCalendar(r)
  <2> DEFINE c == requests[r].conn
  <2>1. c \in Connections /\ requests[r].seen \in consented[c]
    BY <1>2, <1>15 DEF RegisterDiscoveredCalendar, At, Knows
  <2>2. calendars' = [calendars EXCEPT ![c] = calendars'[c]] /\ calendars'[c] \subseteq consented[c]
    BY <1>1, <1>4, <1>15, <2>1 DEF RegisterDiscoveredCalendar, Discovered
  <2>3. Return(r) /\ UNCHANGED <<attempts, connections, registry, forms, exchanges, consented>>
    BY <1>15 DEF RegisterDiscoveredCalendar
  <2>4. requests'[r] = IdleRequest /\ requests' = [requests EXCEPT ![r] = requests'[r]]
    BY <1>1, <2>3 DEF Return
  <2> QED BY <1>3, <1>6, <2>1, <2>2, <2>3, <2>4, RecordTypes DEF Knows
<1>16. ASSUME NEW c \in Connections, DeleteConnection(r, c) PROVE IInv'
  <2>1. /\ connections'[c] = [Unused EXCEPT !.status = "deleted"] /\ calendars'[c] = {}
        /\ connections' = [connections EXCEPT ![c] = connections'[c]]
        /\ calendars' = [calendars EXCEPT ![c] = calendars'[c]]
        /\ Goto(r, "refresh") /\ UNCHANGED <<attempts, registry, forms, exchanges, consented>>
    BY <1>1, <1>16 DEF DeleteConnection
  <2>2. connections'[c] \in Connection /\ connections'[c].token = None
    BY <2>1 DEF Unused, Connection
  <2>3. Knows(requests[r])'
    BY <1>9, <2>1 DEF Knows
  <2> QED BY <1>3, <1>9, <2>1, <2>2, <2>3
<1>17. ASSUME NEW c \in Connections, ListCalendars(r, c) PROVE IInv'
  <2>1. /\ registry[c] \in consented[c] /\ registry[c] \in Accounts
        /\ UNCHANGED <<attempts, calendars, registry, forms, exchanges, consented>>
    BY <1>1, <1>4, <1>17 DEF ListCalendars
  <2>2. /\ connections'[c] \in {connections[c], [connections[c] EXCEPT !.token = registry[c]]}
        /\ connections' = [connections EXCEPT ![c] = connections'[c]]
    BY <1>1, <1>17 DEF ListCalendars, WriteBack, Persist
  <2>3. connections'[c] \in Connection /\ connections'[c].token \in consented[c] \cup {None}
    <3>1. CASE connections'[c] = connections[c]
      BY <1>4, <3>1
    <3>2. CASE connections'[c] = [connections[c] EXCEPT !.token = registry[c]]
      BY <1>1, <2>1, <3>2 DEF Connection
    <3> QED BY <2>2, <3>1, <3>2
  <2>4. /\ requests'[r] = [IdleRequest EXCEPT !.pc = "register", !.conn = c, !.seen = registry[c]]
        /\ requests' = [requests EXCEPT ![r] = requests'[r]]
    BY <1>1, <1>17 DEF ListCalendars
  <2>5. requests'[r] \in Request /\ requests'[r].pc = "register" /\ requests'[r].conn = c /\ requests'[r].seen = registry[c]
    BY <2>1, <2>4 DEF IdleRequest, Request
  <2>6. Knows(requests[r])'
    BY <2>1, <2>5 DEF Knows
  <2> QED BY <1>3, <1>4, <2>1, <2>2, <2>3, <2>4, <2>5, <2>6
<1> QED BY <1>10, <1>11, <1>12, <1>13, <1>14, <1>15, <1>16, <1>17

(* A restart forgets the handlers; a stuttering step changes nothing.      *)
LEMMA RestartInv == IInv /\ (Restart \/ UNCHANGED vars) => IInv'
<1> SUFFICES ASSUME IInv, Restart \/ UNCHANGED vars PROVE IInv'
  OBVIOUS
<1>1. CASE Restart
  <2>1. /\ requests' = [r \in Requests |-> IdleRequest] /\ registry' = Build
        /\ UNCHANGED <<attempts, connections, calendars, forms, exchanges, consented>>
    BY <1>1 DEF Restart
  <2>2. TypeOK'
    <3>1. requests' \in [Requests -> Request] /\ registry' \in [Connections -> Accounts \cup {None}]
      BY <2>1, BuildWasConsented, RecordTypes
    <3> QED BY <2>1, <3>1, RecordTypes DEF IInv, TypeOK, Request, Connection
  <2>3. \A r \in Requests : requests'[r] = IdleRequest /\ requests'[r].pc = "idle"
    BY <2>1, RecordTypes
  <2>4. AttemptsAreClaimed' /\ HandlersKnow'
    BY <2>1, <2>3 DEF IInv, AttemptsAreClaimed, Claims, HandlersKnow, Knows
  <2>5. RegistryWasConsented' /\ CalendarsWereConsented'
    BY <2>1, BuildWasConsented DEF IInv, RegistryWasConsented, CalendarsWereConsented
  <2> QED BY <2>2, <2>4, <2>5 DEF IInv
<1>2. CASE UNCHANGED vars
  BY <1>2 DEF vars, IInv, TypeOK, AttemptsAreClaimed, Claims, HandlersKnow, Knows, RegistryWasConsented, CalendarsWereConsented
<1> QED BY <1>1, <1>2

(* Every step keeps the invariant.                                         *)
LEMMA NextInv == IInv /\ [Next]_vars => IInv'
BY ReaderInv, AttemptInv, ConnectInv, VerifyInv, RestartInv DEF Next, Handler

(* Every reachable state satisfies it.                                     *)
LEMMA Invariant == Spec => []IInv
BY InitInv, NextInv, PTL DEF Spec

-----------------------------------------------------------------------------
(* Rows, handlers and the registry keep their types.                       *)
THEOREM TypeCorrect == Spec => []TypeOK
<1>1. IInv => TypeOK
  BY DEF IInv
<1> QED BY <1>1, Invariant, PTL

(* However often and however late the state of an attempt comes back, in   *)
(* however many handlers at once, its code is exchanged at most once       *)
(* (Store.ConsumeOAuthAttempt).                                            *)
THEOREM ConsentUsedOnce == Spec => []ConsentIsUsedOnce
<1>1. IInv => ConsentIsUsedOnce
  BY DEF IInv, AttemptsAreClaimed, ConsentIsUsedOnce
<1> QED BY <1>1, Invariant, PTL

(* Whichever handler verified a connection, whichever client wrote a token *)
(* back and whenever the server was restarted, a connection holds only     *)
(* what is of accounts whose owner connected them to it                    *)
(* (VerifyAndDiscover, databaseTokenStore.Save,                            *)
(* RegisterDiscoveredCalendar).                                            *)
THEOREM OnlyConsentedCalendars == Spec => []CalendarsWereConsented
<1>1. IInv => CalendarsWereConsented
  BY DEF IInv
<1> QED BY <1>1, Invariant, PTL
=============================================================================
