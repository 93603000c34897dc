-------------------------- MODULE ExtensionLinkProofs --------------------------
(***************************************************************************)
(* Theorems about ExtensionLink, for any number of endpoints, tokens,      *)
(* sockets, changes of the configuration and faults.                       *)
(***************************************************************************)
EXTENDS ExtensionLink, FiniteSetTheorems, TLAPS

-----------------------------------------------------------------------------
(* The inductive invariant                                                   *)

\* The client's fields and its sockets agree: only this.ws can be taken for the
\* extension, it stands for a configuration that is valid and not refused, and
\* connectPromise and handshakeComplete say how far it has come ...
SocketsAgree(k) ==
  /\ k.config \in {NoConfig, DefaultConfig} \/ Valid(k.config)
  /\ k.config = NoConfig => k.rejected = Null
  /\ \A c \in Sockets : k.socket[c].st \in Live => k.ws = c
  /\ k.ws /= None =>
       /\ k.socket[k.ws].st \in Live \cup {"lost"}
       /\ k.config /= NoConfig /\ ~k.intentional /\ ~isCurrentTokenRejected(k)
       /\ k.socket[k.ws].st \in Live \ {"up"} => k.connecting
       /\ k.socket[k.ws].st = "up" => k.shaken /\ ~k.connecting
  /\ k.connecting => k.ws /= None
  /\ k.intentional => isCurrentTokenRejected(k)

\* ... and a client that may connect does, or is about to.
Armed(k) ==
  Valid(k.config) /\ ~isCurrentTokenRejected(k) /\ ~k.gaveUp => k.ws /= None \/ k.timer

LinkAgrees == SocketsAgree(link) /\ Armed(link)

\* Before the worker is ready its client is the new one, which nothing has told to
\* connect unless the worker has failed to start.
IdleUntilReady ==
  /\ worker /= "ready" =>
       link.config = DefaultConfig /\ \A i \in DOMAIN sw.writes : sw.writes[i].then = None
  /\ worker \in {"down", "loading", "syncing"} =>
       link.ws = None /\ ~link.timer /\ sw.writes = <<>>
  /\ worker = "stuck" => ~BrowserWorks

\* A new client is used only where the reconnect alarm or timer has found it.
InUse(k) == k.config /= NoConfig /\ (k.config = DefaultConfig => k.ws /= None \/ k.timer)

\* The configuration that prevails.
Effective(config) == IF Valid(config) THEN config ELSE NoConfig

\* The client has the newest configuration, or the removal of the marker it waits for
\* is queued once.
Deferred == {i \in DOMAIN sw.writes : sw.writes[i].then /= None}
LatestApplies ==
  /\ worker \in {"syncing", "ready"} => sw.pending /= None
  /\ worker = "ready" =>
       /\ sw.valid = Valid(sw.pending)
       /\ \A i \in Deferred : sw.writes[i].then = sw.pending
       /\ \A i, j \in Deferred : i = j
       /\ Deferred = {} => link.config = Effective(sw.pending)
       /\ InUse(link) => Valid(sw.pending)

\* The newest change of a key has its stored value ...
ChangesFollow ==
  \A i \in DOMAIN changes :
    /\ changes[i] /= NoPatch
    /\ \A k \in DOMAIN changes[i] :
         (\A j \in DOMAIN changes : j > i => k \notin DOMAIN changes[j]) => changes[i][k] = stored[k]

\* ... and the worker has the stored configuration but for the changes it has not heard of.
Follows(config) ==
  \A k \in DOMAIN config : (\A i \in DOMAIN changes : k \notin DOMAIN changes[i]) => config[k] = stored[k]
StorageFollowed ==
  /\ worker \in {"down", "loading"} => sw.pending = None /\ Follows(sw.patch)
  /\ worker \in {"syncing", "ready"} /\ BrowserWorks => Follows(sw.pending)

\* The last write of the marker, or the marker m, leaves what the worker takes for
\* stored, and that is the token the client suppresses.
EndsAsPersisted(w, m) ==
  /\ w.writes = <<>> => m = AsRead(w.persisted)
  /\ w.writes /= <<>> => w.writes[Len(w.writes)].token = w.persisted
MarkerFollows ==
  worker \in {"syncing", "ready"} =>
    /\ BrowserWorks => EndsAsPersisted(sw, marker)
    /\ worker = "ready" /\ Deferred = {} /\ isCurrentTokenRejected(link) =>
         link.rejected = sw.persisted

\* A refused token is suppressed, or will be when the worker is ready.
RefusalKept ==
  /\ refused /= Null /\ worker = "ready" /\ sw.patch = NoPatch /\ BrowserWorks =>
       link.config.token = refused /\ link.rejected = refused /\ Valid(sw.pending)
  /\ refused /= Null /\ worker = "syncing" /\ sw.patch = NoPatch /\ BrowserWorks =>
       sw.persisted = refused /\ sw.pending.token = refused /\ Valid(sw.pending)
  /\ refused /= Null /\ worker \in {"down", "loading"} /\ sw.patch = NoPatch /\ changes = <<>> /\ BrowserWorks =>
       marker = refused /\ stored.token = refused /\ Valid(stored)

\* What is stored is valid as soon as the popup has saved it, and nothing else is used.
SavedIsValid == ~Valid(stored) => changes = <<>> /\ (BrowserWorks => refused = Null)

Inv ==
  /\ TypeOK /\ LinkAgrees /\ IdleUntilReady /\ LatestApplies
  /\ ChangesFollow /\ StorageFollowed /\ MarkerFollows /\ RefusalKept /\ SavedIsValid

-----------------------------------------------------------------------------
(* WebSocketClient                                                           *)

LEMMA NoConfigInvalid == ~Valid(NoConfig) /\ NoConfig \in Config
BY DEF Valid, NoConfig, Config

LEMMA DefaultFields ==
  /\ DefaultConfig \in Config /\ ~Valid(DefaultConfig) /\ DefaultConfig # NoConfig
  /\ DefaultConfig.url # None /\ DefaultConfig.token = None
BY LinkAssumption DEF DefaultConfig, Config, Valid, NoConfig

\* What an operation leaves alone.
SameIntent(v, k) ==
  v.config = k.config /\ v.rejected = k.rejected /\ v.intentional = k.intentional
  /\ v.gaveUp = k.gaveUp

\* No socket of v can be taken for the extension, and those that were free are.
AllGone(v, k) ==
  /\ v.ws = None
  /\ \A c \in Sockets : v.socket[c].st \notin Live
  /\ \A c \in Sockets : k.socket[c].st = "none" => v.socket[c].st = "none"

OnlyOwnLive(k) ==
  /\ \A c \in Sockets : k.socket[c].st \in Live => k.ws = c
  /\ k.ws # None => k.socket[k.ws].st # "none"

\* A socket goes to another state.
LEMMA SocketFields ==
  ASSUME NEW k \in Link, NEW c \in Sockets, NEW st \in {"none", "lost", "closing"} \cup Live
  PROVE  LET v == [k EXCEPT !.socket[c].st = st]
         IN  /\ v \in Link /\ SameIntent(v, k)
             /\ v.state = k.state /\ v.ws = k.ws /\ v.connecting = k.connecting /\ v.shaken = k.shaken
             /\ v.timer = k.timer /\ v.alarm = k.alarm
             /\ v.socket[c].st = st
             /\ \A d \in Sockets \ {c} : v.socket[d] = k.socket[d]
<1>1. k.socket[c] \in Socket
  BY DEF Link
<1>2. PICK s : s = [k.socket[c] EXCEPT !.st = st]
  OBVIOUS
<1>3. s \in Socket /\ s.st = st
  BY <1>1, <1>2 DEF Socket
<1>4. PICK f \in [Sockets -> Socket] : f = [k.socket EXCEPT ![c] = s]
  BY <1>3 DEF Link
<1>5. [k EXCEPT !.socket[c].st = st] = [k EXCEPT !.socket = f]
  BY <1>2, <1>4
<1> QED
  BY <1>3, <1>4, <1>5 DEF Link, SameIntent

\* A closed socket cannot be taken for the extension.
LEMMA ClosedFields ==
  ASSUME NEW k \in Link, OnlyOwnLive(k)
  PROVE  LET v == Closed(k)
         IN  /\ v \in Link /\ SameIntent(v, k) /\ AllGone(v, k)
             /\ v.connecting = k.connecting /\ v.timer = k.timer
<1>1. k.ws \in Sockets \cup {None} /\ None \notin Sockets
  BY LinkAssumption DEF Link
<1>2. CASE k.ws = None
  BY <1>1, <1>2 DEF Closed, SameIntent, AllGone, OnlyOwnLive
<1>3. CASE k.ws # None
  <2>1. PICK c \in Sockets : c = k.ws
    BY <1>1, <1>3
  <2>2. PICK u : u = [k EXCEPT !.socket[c].st = "closing"]
    OBVIOUS
  <2>3. /\ u \in Link /\ SameIntent(u, k) /\ u.connecting = k.connecting /\ u.timer = k.timer
        /\ u.socket[c].st = "closing" /\ \A d \in Sockets \ {c} : u.socket[d] = k.socket[d]
    BY <2>2, SocketFields
  <2>4. Closed(k) = [u EXCEPT !.ws = None]
    BY <1>3, <2>1, <2>2 DEF Closed
  <2>5. /\ Closed(k) \in Link /\ SameIntent(Closed(k), u) /\ Closed(k).ws = None
        /\ Closed(k).connecting = u.connecting /\ Closed(k).timer = u.timer
        /\ Closed(k).socket = u.socket
    BY <2>3, <2>4 DEF Link, SameIntent
  <2>6. ASSUME NEW d \in Sockets
        PROVE  u.socket[d].st \notin Live /\ (k.socket[d].st = "none" => u.socket[d].st = "none")
    <3>1. CASE d = c
      BY <1>3, <2>1, <2>3, <3>1 DEF OnlyOwnLive, Live
    <3>2. CASE d # c
      BY <2>1, <2>3, <3>2 DEF OnlyOwnLive
    <3> QED
      BY <3>1, <3>2
  <2>7. AllGone(Closed(k), k)
    BY <2>5, <2>6 DEF AllGone
  <2> QED
    BY <2>3, <2>5, <2>7 DEF SameIntent
<1> QED
  BY <1>2, <1>3

\* Every way to end a connection leaves no socket, no timer and nobody waiting.
LEMMA DroppedFields ==
  ASSUME NEW k \in Link, OnlyOwnLive(k)
  PROVE  LET v == Dropped(k)
         IN  /\ v \in Link /\ SameIntent(v, k) /\ AllGone(v, k) /\ ~v.connecting /\ ~v.timer
<1>1. PICK u \in Link : u = Closed(k) /\ SameIntent(u, k) /\ AllGone(u, k)
  BY ClosedFields
<1>2. PICK v : v = [u EXCEPT !.shaken = FALSE, !.connecting = FALSE, !.timer = FALSE, !.alarm = FALSE]
  OBVIOUS
<1>3. Dropped(k) = v
  BY <1>1, <1>2 DEF Dropped
<1>4. /\ v \in Link /\ SameIntent(v, u) /\ v.ws = u.ws /\ v.socket = u.socket
      /\ ~v.connecting /\ ~v.timer
  BY <1>2 DEF Link, SameIntent
<1> QED
  BY <1>1, <1>3, <1>4 DEF SameIntent, AllGone

\* A client without a socket is as it should be unless it remembers a disconnect.
LEMMA AllGoneAgrees ==
  ASSUME NEW v, NEW k, AllGone(v, k), ~v.connecting,
         v.config \in {NoConfig, DefaultConfig} \/ Valid(v.config),
         v.config = NoConfig => v.rejected = Null, v.intentional => isCurrentTokenRejected(v)
  PROVE  SocketsAgree(v)
BY DEF AllGone, SocketsAgree

LEMMA SettledFields ==
  ASSUME NEW k \in Link
  PROVE  LET v == Settled(k)
         IN  /\ v \in Link /\ SameIntent(v, k) /\ v.connecting = k.connecting /\ v.timer = k.timer
             /\ v.ws = k.ws /\ v.socket = k.socket
BY DEF Settled, Link, SameIntent

LEMMA AgreesOwnsLive ==
  ASSUME NEW k, SocketsAgree(k)
  PROVE  OnlyOwnLive(k)
BY DEF SocketsAgree, OnlyOwnLive, Live

LEMMA EffectiveFields ==
  ASSUME NEW config \in Config
  PROVE  LET new == Effective(config)
         IN  /\ new \in Config /\ (new = NoConfig \/ Valid(new))
             /\ Valid(config) <=> new # NoConfig
             /\ Valid(config) => new = config
BY NoConfigInvalid DEF Effective

\* setConfig: the client keeps its socket if nothing changes, and a refusal if only the
\* endpoint does.
LEMMA SetConfigFields ==
  ASSUME NEW k \in Link, SocketsAgree(k), NEW config \in Config
  PROVE  LET v == setConfig(k, config)
         IN  /\ v \in Link /\ SocketsAgree(v) /\ v.config = Effective(config)
             /\ v.rejected = IF v.config.token = k.config.token /\ Valid(config)
                             THEN k.rejected ELSE Null
             /\ \A c \in Sockets : k.socket[c].st = "none" => v.socket[c].st = "none"
<1>1. PICK new \in Config : new = Effective(config)
  BY EffectiveFields
<1>2. new = NoConfig \/ Valid(new)
  BY <1>1, EffectiveFields
<1>3. CASE new = k.config
  <2>1. setConfig(k, config) = k
    BY <1>1, <1>3 DEF setConfig, Effective
  <2> QED
    BY <1>1, <1>2, <1>3, <2>1, EffectiveFields DEF SocketsAgree
<1>4. CASE new # k.config
  <2>1. PICK u \in Link : u = Dropped(k) /\ SameIntent(u, k) /\ AllGone(u, k) /\ ~u.connecting
    BY DroppedFields, AgreesOwnsLive
  <2>2. PICK rejected \in Tokens \cup {None, Null} :
          rejected = IF Valid(new) /\ new.token = k.config.token THEN u.rejected ELSE Null
    BY DEF Link
  <2>3. PICK w : w = [u EXCEPT !.config = new, !.intentional = FALSE, !.rejected = rejected]
    OBVIOUS
  <2>4. /\ w \in Link /\ w.config = new /\ ~w.intentional /\ w.rejected = rejected
        /\ ~w.connecting /\ w.ws = u.ws /\ w.socket = u.socket
    BY <2>1, <2>3 DEF Link
  <2>5. setConfig(k, config) = Settled(w)
    BY <1>1, <1>4, <2>1, <2>2, <2>3 DEF setConfig, replaceConfig, Effective
  <2>6. PICK v \in Link : v = Settled(w) /\ SameIntent(v, w) /\ v.connecting = w.connecting
                          /\ v.ws = w.ws /\ v.socket = w.socket
    BY <2>4, SettledFields
  <2>7. AllGone(v, k)
    BY <2>1, <2>4, <2>6 DEF AllGone
  <2>8. v.config = new /\ ~v.intentional /\ v.rejected = rejected /\ ~v.connecting
    BY <2>4, <2>6 DEF SameIntent
  <2>9. SocketsAgree(v)
    BY <1>2, <2>2, <2>7, <2>8, NoConfigInvalid, AllGoneAgrees
  <2>10. rejected = IF Valid(new) /\ new.token = k.config.token THEN k.rejected ELSE Null
    BY <2>1, <2>2 DEF SameIntent
  <2> QED
    BY <1>1, <1>2, <2>5, <2>6, <2>7, <2>8, <2>9, <2>10, EffectiveFields DEF AllGone
<1> QED
  BY <1>3, <1>4

\* restoreRejectedToken of the client's own token: it is not presented again.
LEMMA RestoreFields ==
  ASSUME NEW k \in Link, SocketsAgree(k), Valid(k.config)
  PROVE  LET v == restoreRejectedToken(k, k.config.token)
         IN  /\ v \in Link /\ SocketsAgree(v) /\ Armed(v)
             /\ v.config = k.config /\ v.rejected = k.config.token /\ isCurrentTokenRejected(v)
<1>1. k.config.token \in Tokens
  BY DEF Link, Config, Valid
<1>2. PICK u : u = [k EXCEPT !.rejected = k.config.token]
  OBVIOUS
<1>3. /\ u \in Link /\ u.rejected = k.config.token /\ u.config = k.config
      /\ u.ws = k.ws /\ u.socket = k.socket
  BY <1>1, <1>2 DEF Link
<1>4. OnlyOwnLive(u)
  BY <1>3, AgreesOwnsLive DEF OnlyOwnLive
<1>5. PICK w \in Link : w = Dropped(u) /\ SameIntent(w, u) /\ AllGone(w, u) /\ ~w.connecting
  BY <1>3, <1>4, DroppedFields
<1>6. PICK x : x = [w EXCEPT !.intentional = TRUE]
  OBVIOUS
<1>7. /\ x \in Link /\ x.config = w.config /\ x.rejected = w.rejected
      /\ x.ws = w.ws /\ x.socket = w.socket /\ x.connecting = w.connecting
  BY <1>6 DEF Link
<1>8. restoreRejectedToken(k, k.config.token) = Settled(x)
  BY <1>2, <1>5, <1>6 DEF restoreRejectedToken, disconnect
<1>9. PICK v \in Link : v = Settled(x) /\ SameIntent(v, x) /\ v.connecting = x.connecting
                        /\ v.ws = x.ws /\ v.socket = x.socket
  BY <1>7, SettledFields
<1>10. v.config = k.config /\ v.rejected = k.config.token /\ ~v.connecting
  BY <1>3, <1>5, <1>7, <1>9 DEF SameIntent
<1>11. isCurrentTokenRejected(v)
  BY <1>1, <1>10, LinkAssumption DEF isCurrentTokenRejected
<1>12. AllGone(v, u)
  BY <1>5, <1>7, <1>9 DEF AllGone
<1>13. SocketsAgree(v)
  BY <1>10, <1>11, <1>12, NoConfigInvalid, AllGoneAgrees
<1>14. Armed(v)
  BY <1>11 DEF Armed
<1> QED
  BY <1>8, <1>9, <1>10, <1>11, <1>13, <1>14

\* connect: there is no second attempt, and one there is unless it cannot be made.
LEMMA ConnectFields ==
  ASSUME NEW k \in Link, SocketsAgree(k), \E c \in Sockets : k.socket[c].st = "none"
  PROVE  LET v == connect(k)
         IN  /\ v \in Link /\ SocketsAgree(v) /\ Armed(v)
             /\ v.config = k.config /\ v.rejected = k.rejected
<1>1. k.ws \in Sockets \cup {None} /\ None \notin Sockets /\ k.config \in Config
  BY LinkAssumption DEF Link
<1>2. CASE Connected(k) \/ k.connecting
  <2>1. connect(k) = k
    BY <1>2 DEF connect
  <2>2. k.ws # None
    BY <1>2 DEF Connected, SocketsAgree
  <2> QED
    BY <2>1, <2>2 DEF Armed
<1>3. CASE ~(Connected(k) \/ k.connecting) /\ k.config.url = None
  <2>1. connect(k) = [k EXCEPT !.state = "idle"]
    BY <1>3 DEF connect
  <2> QED
    BY <1>3, <2>1 DEF Armed, SocketsAgree, Link, isCurrentTokenRejected, Valid
<1>4. CASE ~(Connected(k) \/ k.connecting) /\ k.config.url # None /\ isCurrentTokenRejected(k)
  <2>1. connect(k) = [k EXCEPT !.state = "auth_failed"]
    BY <1>4 DEF connect
  <2> QED
    BY <1>4, <2>1 DEF Armed, SocketsAgree, Link, isCurrentTokenRejected
<1>5. CASE ~(Connected(k) \/ k.connecting) /\ k.config.url # None /\ ~isCurrentTokenRejected(k)
  <2>1. PICK c \in Sockets : c = NewSocket(k) /\ k.socket[c].st = "none"
    BY DEF NewSocket
  <2>2. PICK s : s = [st |-> "opening", config |-> k.config]
    OBVIOUS
  <2>3. s \in Socket /\ s.st = "opening"
    BY <1>1, <2>2 DEF Socket, Live
  <2>4. PICK f : f = [k.socket EXCEPT ![c] = s]
    OBVIOUS
  <2>5. f \in [Sockets -> Socket] /\ f[c] = s /\ \A d \in Sockets \ {c} : f[d] = k.socket[d]
    BY <2>3, <2>4 DEF Link
  <2>6. PICK v : v = [k EXCEPT !.ws = c, !.connecting = TRUE, !.state = "connecting",
                 !.timer = FALSE, !.intentional = FALSE, !.shaken = FALSE, !.gaveUp = FALSE,
                 !.socket = f]
    OBVIOUS
  <2>7. connect(k) = v
    BY <1>5, <2>1, <2>2, <2>4, <2>6 DEF connect
  <2>8. /\ v \in Link /\ v.ws = c /\ v.connecting /\ ~v.intentional /\ v.socket = f
        /\ v.config = k.config /\ v.rejected = k.rejected
    BY <2>5, <2>6 DEF Link
  <2>9. \A d \in Sockets \ {c} : f[d].st \notin Live
    <3> SUFFICES ASSUME NEW d \in Sockets \ {c}, k.socket[d].st \in Live PROVE FALSE
      BY <2>5
    <3>1. k.ws = d
      BY DEF SocketsAgree
    <3>2. k.socket[d].st # "up"
      BY <1>1, <1>5, <3>1 DEF SocketsAgree, Connected
    <3> QED
      BY <1>1, <1>5, <3>1, <3>2 DEF SocketsAgree
  <2>10. ~isCurrentTokenRejected(v)
    BY <1>5, <2>8 DEF isCurrentTokenRejected
  <2>11. v.ws # None /\ v.socket[v.ws].st = "opening"
    BY <1>1, <2>3, <2>5, <2>8
  <2>12. v.config # NoConfig
    BY <1>5, <2>8 DEF NoConfig
  <2>13. SocketsAgree(v)
    BY <1>5, <2>3, <2>5, <2>8, <2>9, <2>10, <2>11, <2>12 DEF SocketsAgree, Live
  <2> QED
    BY <2>7, <2>8, <2>11, <2>13 DEF Armed
<1> QED
  BY <1>2, <1>3, <1>4, <1>5

\* handleReconnect: a timer is set unless there is one or a refusal.
LEMMA ReconnectFields ==
  ASSUME NEW k \in Link, SocketsAgree(k)
  PROVE  LET v == handleReconnect(k)
         IN  /\ v \in Link /\ SocketsAgree(v) /\ Armed(v)
             /\ v.config = k.config /\ v.rejected = k.rejected
<1>1. CASE k.intentional \/ k.timer \/ isCurrentTokenRejected(k)
  <2>1. handleReconnect(k) = k
    BY <1>1 DEF handleReconnect
  <2> QED
    BY <1>1, <2>1 DEF SocketsAgree, Armed
<1>2. CASE ~(k.intentional \/ k.timer \/ isCurrentTokenRejected(k))
  <2>1. PICK v : v = [k EXCEPT !.timer = TRUE, !.alarm = TRUE]
    OBVIOUS
  <2>2. handleReconnect(k) = v
    BY <1>2, <2>1 DEF handleReconnect
  <2>3. /\ v \in Link /\ SameIntent(v, k) /\ v.ws = k.ws /\ v.socket = k.socket
        /\ v.connecting = k.connecting /\ v.shaken = k.shaken /\ v.timer
    BY <2>1 DEF Link, SameIntent
  <2>4. SocketsAgree(v) /\ Armed(v)
    BY <2>3 DEF SocketsAgree, Armed, SameIntent, isCurrentTokenRejected
  <2> QED
    BY <2>2, <2>3, <2>4 DEF SameIntent
<1> QED
  BY <1>1, <1>2

\* onSuspend: the connection is given up and will be tried again.
LEMMA SuspendFields ==
  ASSUME NEW k \in Link, SocketsAgree(k)
  PROVE  LET v == prepareForSuspend(k)
         IN  /\ v \in Link /\ SocketsAgree(v) /\ Armed(v)
             /\ v.config = k.config /\ v.rejected = k.rejected
<1>1. CASE isCurrentTokenRejected(k)
  <2>1. PICK v : v = [k EXCEPT !.timer = FALSE, !.alarm = FALSE, !.state = "auth_failed"]
    OBVIOUS
  <2>2. prepareForSuspend(k) = v
    BY <1>1, <2>1 DEF prepareForSuspend
  <2>3. /\ v \in Link /\ SameIntent(v, k) /\ v.ws = k.ws /\ v.socket = k.socket
        /\ v.connecting = k.connecting /\ v.shaken = k.shaken
    BY <2>1 DEF Link, SameIntent
  <2>4. SocketsAgree(v) /\ Armed(v)
    BY <1>1, <2>3 DEF SocketsAgree, Armed, SameIntent, isCurrentTokenRejected
  <2> QED
    BY <2>2, <2>3, <2>4 DEF SameIntent
<1>2. CASE ~isCurrentTokenRejected(k)
  <2>1. PICK u \in Link : u = Dropped(k) /\ SameIntent(u, k) /\ AllGone(u, k) /\ ~u.connecting
    BY DroppedFields, AgreesOwnsLive
  <2>2. PICK w : w = [u EXCEPT !.alarm = k.alarm, !.state = "idle"]
    OBVIOUS
  <2>3. /\ w \in Link /\ SameIntent(w, u) /\ w.ws = u.ws /\ w.socket = u.socket
        /\ w.connecting = u.connecting
    BY <2>1, <2>2 DEF Link, SameIntent
  <2>4. SameIntent(w, k) /\ AllGone(w, k) /\ ~w.connecting
    BY <2>1, <2>3 DEF SameIntent, AllGone
  <2>5. SocketsAgree(w)
    BY <2>4, AllGoneAgrees DEF SameIntent, SocketsAgree, isCurrentTokenRejected
  <2>6. prepareForSuspend(k) = handleReconnect(w)
    BY <1>2, <2>1, <2>2 DEF prepareForSuspend
  <2> QED
    BY <2>3, <2>4, <2>5, <2>6, ReconnectFields DEF SameIntent
<1> QED
  BY <1>1, <1>2

-----------------------------------------------------------------------------
(* The service worker                                                        *)

\* A queued write is that of the token the worker takes for stored.
Queues(w, token) ==
  sw'.writes = Append(w.writes, [token |-> token, then |-> None]) /\ sw'.persisted = token

\* Apply: the client gets the configuration, and a refused token is suppressed and its
\* marker queued unless it is stored.
LEMMA ApplyFields ==
  ASSUME link \in Link, SocketsAgree(link), CanOpen, refused \in Tokens \cup {None, Null},
         NEW w \in WorkerVariables, NEW config \in Config, w.valid = Valid(config),
         Apply(w, config)
  PROVE  /\ link' \in Link /\ SocketsAgree(link') /\ Armed(link')
         /\ link'.config = Effective(config)
         /\ sw' \in WorkerVariables /\ sw'.pending = w.pending /\ sw'.patch = w.patch
         /\ sw'.valid = w.valid
         /\ \/ sw'.writes = w.writes /\ sw'.persisted = w.persisted
            \/ \E token \in Tokens : Queues(w, token)
         /\ isCurrentTokenRejected(link') => link'.rejected = sw'.persisted
         /\ refused' \in {refused, Null}
         /\ Valid(config) /\ refused' # Null => config.token = refused
         /\ /\ Valid(config) /\ config.token = refused
            /\ w.persisted = refused \/ (link.config.token = refused /\ link.rejected = refused)
            => link'.rejected = refused
<1>1. PICK k \in Link : k = setConfig(link, config)
  BY SetConfigFields
<1>2. /\ SocketsAgree(k) /\ k.config = Effective(config)
      /\ k.rejected = IF k.config.token = link.config.token /\ Valid(config)
                       THEN link.rejected ELSE Null
      /\ \A c \in Sockets : link.socket[c].st = "none" => k.socket[c].st = "none"
  BY <1>1, SetConfigFields
<1>3. \E c \in Sockets : k.socket[c].st = "none"
  BY <1>2 DEF CanOpen
<1>4. PICK suppressed \in BOOLEAN :
        suppressed <=> (w.persisted = config.token \/ isCurrentTokenRejected(k))
  OBVIOUS
<1>5. /\ link' = IF ~w.valid THEN k
                ELSE IF suppressed THEN restoreRejectedToken(k, config.token)
                ELSE connect(k)
      /\ sw' = IF w.valid /\ suppressed /\ w.persisted # config.token
               THEN [w EXCEPT !.persisted = config.token,
                              !.writes = Append(@, [token |-> config.token, then |-> None])]
               ELSE w
      /\ refused' = IF link'.config.token \in {None, refused} THEN refused ELSE Null
  BY <1>1, <1>4 DEF Apply, connectClient
<1>6. refused' \in {refused, Null}
  BY <1>5
<1>7. CASE ~w.valid
  <2>1. link' = k /\ sw' = w /\ k.config = NoConfig
    BY <1>2, <1>5, <1>7 DEF Effective
  <2>2. ~isCurrentTokenRejected(k)
    BY <1>2, <2>1 DEF isCurrentTokenRejected, SocketsAgree
  <2> QED
    BY <1>2, <1>6, <1>7, <2>1, <2>2, NoConfigInvalid DEF Armed
<1>8. CASE w.valid
  <2>1. k.config = config /\ Valid(config) /\ config.token \in Tokens /\ config.token # None
    BY <1>2, <1>8 DEF Effective, Valid, Config
  <2>2. PICK token \in Tokens : token = config.token
    BY <2>1
  <2>3. CASE suppressed
    <3>1. /\ link' \in Link /\ SocketsAgree(link') /\ Armed(link')
          /\ link'.config = config /\ link'.rejected = token /\ isCurrentTokenRejected(link')
      BY <1>2, <1>5, <1>8, <2>1, <2>2, <2>3, RestoreFields
    <3>2. CASE w.persisted = token
      <4>1. sw' = w
        BY <1>5, <2>2, <3>2
      <4> QED
        BY <1>2, <1>5, <1>6, <1>8, <2>1, <2>2, <3>1, <3>2, <4>1
    <3>3. CASE w.persisted # token
      <4>1. PICK write \in Write : write = [token |-> token, then |-> None]
        BY DEF Write
      <4>2. PICK writes : writes = Append(w.writes, write)
        OBVIOUS
      <4>6. writes \in Seq(Write)
        BY <4>2 DEF WorkerVariables
      <4>3. sw' = [w EXCEPT !.persisted = token, !.writes = writes]
        BY <1>5, <1>8, <2>2, <2>3, <3>3, <4>1, <4>2 DEF WorkerVariables
      <4>4. /\ sw' \in WorkerVariables /\ sw'.pending = w.pending /\ sw'.patch = w.patch
            /\ sw'.valid = w.valid /\ sw'.writes = writes /\ sw'.persisted = token
        BY <4>3, <4>6 DEF WorkerVariables
      <4>5. Queues(w, token)
        BY <4>1, <4>2, <4>4 DEF Queues
      <4> QED
        BY <1>2, <1>5, <1>6, <1>8, <2>1, <2>2, <3>1, <4>4, <4>5
    <3> QED
      BY <3>2, <3>3
  <2>4. CASE ~suppressed
    <3>1. link' = connect(k) /\ sw' = w
      BY <1>5, <1>8, <2>4
    <3>2. /\ link' \in Link /\ SocketsAgree(link') /\ Armed(link')
          /\ link'.config = k.config /\ link'.rejected = k.rejected
      BY <1>2, <1>3, <3>1, ConnectFields
    <3>3. ~isCurrentTokenRejected(link') /\ ~isCurrentTokenRejected(k) /\ w.persisted # config.token
      BY <1>4, <2>4, <3>2 DEF isCurrentTokenRejected
    <3>4. ~(config.token = refused /\ link.config.token = refused /\ link.rejected = refused)
      BY <1>2, <2>1, <3>3, LinkAssumption DEF isCurrentTokenRejected
    <3> QED
      BY <1>2, <1>5, <1>6, <1>8, <2>1, <3>1, <3>2, <3>3, <3>4
  <2> QED
    BY <2>3, <2>4
<1> QED
  BY <1>7, <1>8 DEF WorkerVariables

\* A write of the marker that goes on with nothing leaves the applications queued alone.
LEMMA AppendedDeferred ==
  ASSUME NEW writes \in Seq(Write), NEW token \in Tokens \cup {None, Null}, NEW next \in Config \cup {None}
  PROVE  LET all == Append(writes, [token |-> token, then |-> next])
         IN  /\ all \in Seq(Write) /\ all # <<>> /\ all[Len(all)].token = token
             /\ all[Len(all)].then = next
             /\ DOMAIN all = DOMAIN writes \cup {Len(all)} /\ Len(all) \notin DOMAIN writes
             /\ \A i \in DOMAIN writes : all[i] = writes[i]
<1>1. PICK write \in Write : write = [token |-> token, then |-> next]
  BY DEF Write
<1>2. write.token = token /\ write.then = next
  BY <1>1
<1> QED
  BY <1>1, <1>2

\* What the application of a configuration establishes in a worker that is ready.
AppliedTo(w, config) ==
  /\ link' \in Link /\ LinkAgrees'
  /\ sw' \in WorkerVariables /\ sw'.pending = config /\ sw'.patch = w.patch
  /\ refused' \in {refused, Null}
  /\ LatestApplies' /\ MarkerFollows' /\ RefusalKept'

\* The situation it starts from, with the marker m: a refused token is suppressed, or is
\* the one the worker was started with.
MayApply(w, config, m, works) ==
  /\ link \in Link /\ LinkAgrees /\ CanOpen /\ refused \in Tokens \cup {None, Null}
  /\ w \in WorkerVariables /\ config \in Config /\ w.pending = config
  /\ works => EndsAsPersisted(w, m)
  /\ InUse(link) => Valid(config)
  /\ refused # Null /\ w.patch = NoPatch /\ works =>
       /\ Valid(config)
       /\ \/ link.config.token = refused /\ link.rejected = refused
          \/ w.persisted = refused /\ config.token = refused

\* applyConnectionConfig from setConfig on, right away or after the write it waited for.
LEMMA ApplyKeeps ==
  ASSUME NEW w, NEW config, MayApply(w, config, marker', BrowserWorks'),
         w.valid = Valid(config), \A i \in DOMAIN w.writes : w.writes[i].then = None,
         worker' = "ready", Apply(w, config)
  PROVE  AppliedTo(w, config)
<1>1. /\ link \in Link /\ SocketsAgree(link) /\ CanOpen /\ refused \in Tokens \cup {None, Null}
      /\ w \in WorkerVariables /\ config \in Config /\ w.pending = config
  BY DEF MayApply, LinkAgrees
<1>2. /\ link' \in Link /\ SocketsAgree(link') /\ Armed(link') /\ link'.config = Effective(config)
      /\ sw' \in WorkerVariables /\ sw'.pending = w.pending /\ sw'.patch = w.patch
      /\ sw'.valid = w.valid
      /\ \/ sw'.writes = w.writes /\ sw'.persisted = w.persisted
         \/ \E token \in Tokens : Queues(w, token)
      /\ isCurrentTokenRejected(link') => link'.rejected = sw'.persisted
      /\ refused' \in {refused, Null}
      /\ Valid(config) /\ refused' # Null => config.token = refused
      /\ /\ Valid(config) /\ config.token = refused
         /\ w.persisted = refused \/ (link.config.token = refused /\ link.rejected = refused)
         => link'.rejected = refused
  BY <1>1, ApplyFields
<1>3. LinkAgrees'
  BY <1>2 DEF LinkAgrees, SocketsAgree, Armed, isCurrentTokenRejected
<1>4. /\ \A i \in DOMAIN sw'.writes : sw'.writes[i].then = None
      /\ BrowserWorks' => EndsAsPersisted(sw, marker)'
  <2>1. CASE sw'.writes = w.writes /\ sw'.persisted = w.persisted
    BY <2>1 DEF MayApply, EndsAsPersisted
  <2>2. ASSUME NEW token \in Tokens, Queues(w, token)
        PROVE  /\ \A i \in DOMAIN sw'.writes : sw'.writes[i].then = None
               /\ BrowserWorks' => EndsAsPersisted(sw, marker)'
    <3>1. w.writes \in Seq(Write)
      BY <1>1 DEF WorkerVariables
    <3>2. PICK all : all = Append(w.writes, [token |-> token, then |-> None])
      OBVIOUS
    <3>3. /\ all # <<>> /\ all[Len(all)].token = token /\ all[Len(all)].then = None
          /\ DOMAIN all = DOMAIN w.writes \cup {Len(all)}
          /\ \A i \in DOMAIN w.writes : all[i] = w.writes[i]
      BY <3>1, <3>2, AppendedDeferred
    <3>4. sw'.writes = all /\ sw'.persisted = token
      BY <2>2, <3>2 DEF Queues
    <3> QED
      BY <3>3, <3>4 DEF EndsAsPersisted
  <2> QED
    BY <1>2, <2>1, <2>2
<1>5. Deferred' = {}
  BY <1>4 DEF Deferred
<1>6. LatestApplies'
  <2>1. sw'.pending # None
    BY <1>1, <1>2, LinkAssumption DEF Config
  <2>2. InUse(link') => Valid(config)
    BY <1>2 DEF Effective, InUse
  <2> QED
    BY <1>1, <1>2, <1>5, <2>1, <2>2 DEF LatestApplies, Effective, Valid
<1>7. MarkerFollows'
  BY <1>2, <1>4, <1>5 DEF MarkerFollows, isCurrentTokenRejected
<1>8. RefusalKept'
  <2> SUFFICES ASSUME refused' # Null, sw'.patch = NoPatch, BrowserWorks'
               PROVE  /\ link'.config.token = refused' /\ link'.rejected = refused'
                      /\ Valid(sw'.pending)
    BY DEF RefusalKept
  <2>1. refused' = refused /\ w.patch = NoPatch
    BY <1>2
  <2>2. /\ Valid(config)
        /\ \/ link.config.token = refused /\ link.rejected = refused
           \/ w.persisted = refused /\ config.token = refused
    BY <2>1 DEF MayApply
  <2>3. config.token = refused /\ link'.config = config
    BY <1>2, <2>2 DEF Effective
  <2>4. link'.rejected = refused
    BY <1>2, <2>2, <2>3
  <2> QED
    BY <1>1, <1>2, <2>1, <2>2, <2>3, <2>4
<1> QED
  BY <1>1, <1>2, <1>3, <1>6, <1>7, <1>8 DEF AppliedTo

\* No superseded application goes on, and the writes stay queued.
LEMMA SupersededFields ==
  ASSUME NEW writes \in Seq(Write)
  PROVE  LET all == Superseded(writes)
         IN  /\ all \in Seq(Write) /\ Len(all) = Len(writes)
             /\ \A i \in DOMAIN all : all[i].then = None /\ all[i].token = writes[i].token
<1>1. DOMAIN writes = 1..Len(writes) /\ Len(writes) \in Nat
  OBVIOUS
<1>2. ASSUME NEW i \in DOMAIN writes
      PROVE  LET write == [writes[i] EXCEPT !.then = None]
             IN  write \in Write /\ write.then = None /\ write.token = writes[i].token
  <2>1. writes[i] \in Write
    OBVIOUS
  <2> QED
    BY <2>1 DEF Write
<1>3. Superseded(writes) \in [1..Len(writes) -> Write]
  BY <1>1, <1>2 DEF Superseded
<1>4. Superseded(writes) \in Seq(Write) /\ Len(Superseded(writes)) = Len(writes)
  BY <1>1, <1>3
<1> QED
  BY <1>1, <1>2, <1>4 DEF Superseded

\* applyConnectionConfig: a newer configuration is applied, or waits alone for the
\* removal of the marker of another token.
LEMMA ApplicationKeeps ==
  ASSUME NEW w, NEW config, MayApply(w, config, marker, BrowserWorks'),
         marker' = marker, worker' = "ready", applyConnectionConfig(w, config)
  PROVE  AppliedTo(w, config)
<1>1. /\ link \in Link /\ LinkAgrees /\ refused \in Tokens \cup {None, Null}
      /\ w \in WorkerVariables /\ config \in Config /\ w.pending = config
  BY DEF MayApply
<1>2. PICK writes : writes = Superseded(w.writes)
  OBVIOUS
<1>3. /\ writes \in Seq(Write) /\ Len(writes) = Len(w.writes)
      /\ \A i \in DOMAIN writes : writes[i].then = None /\ writes[i].token = w.writes[i].token
  BY <1>1, <1>2, SupersededFields DEF WorkerVariables
<1>4. PICK valid \in BOOLEAN : valid = Valid(config)
  BY DEF Valid
<1>5. PICK now : now = [w EXCEPT !.valid = valid, !.writes = writes]
  OBVIOUS
<1>6. /\ now \in WorkerVariables /\ now.pending = config /\ now.patch = w.patch
      /\ now.valid = Valid(config) /\ now.persisted = w.persisted /\ now.writes = writes
  BY <1>1, <1>3, <1>4, <1>5 DEF WorkerVariables
<1>7. BrowserWorks' => EndsAsPersisted(now, marker)
  <2>1. w.writes \in Seq(Write)
    BY <1>1 DEF WorkerVariables
  <2>2. (writes = <<>> <=> w.writes = <<>>) /\ (writes # <<>> => Len(writes) \in DOMAIN writes)
    BY <1>3, <2>1
  <2> QED
    BY <1>3, <1>6, <2>2 DEF MayApply, EndsAsPersisted
<1>8. CASE config.token # None /\ w.persisted \notin {Null, config.token}
  <2>1. /\ sw' = [now EXCEPT !.persisted = Null,
                             !.writes = Append(@, [token |-> Null, then |-> config])]
        /\ link' = link /\ refused' = refused
    BY <1>2, <1>4, <1>5, <1>8 DEF applyConnectionConfig
  <2>2. PICK none \in Tokens \cup {None, Null} : none = Null
    OBVIOUS
  <2>3. PICK next \in Config \cup {None} : next = config
    BY <1>1
  <2>4. PICK all : all = Append(writes, [token |-> none, then |-> next])
    OBVIOUS
  <2>5. /\ all \in Seq(Write) /\ all # <<>> /\ all[Len(all)].token = none
        /\ all[Len(all)].then = next
        /\ DOMAIN all = DOMAIN writes \cup {Len(all)} /\ Len(all) \notin DOMAIN writes
        /\ \A i \in DOMAIN writes : all[i] = writes[i]
    BY <1>3, <2>4, AppendedDeferred
  <2>6. sw' = [now EXCEPT !.persisted = Null, !.writes = all]
    BY <1>6, <2>1, <2>2, <2>3, <2>4 DEF WorkerVariables
  <2>7. /\ sw' \in WorkerVariables /\ sw'.pending = config /\ sw'.patch = w.patch
        /\ sw'.valid = Valid(config) /\ sw'.persisted = Null /\ sw'.writes = all
    BY <1>6, <2>5, <2>6 DEF WorkerVariables
  <2>8. config # None
    BY <1>1, LinkAssumption DEF Config
  <2>9. Deferred' = {Len(all)}
    BY <1>3, <2>3, <2>5, <2>7, <2>8 DEF Deferred
  <2>10. LatestApplies'
    <3>1. InUse(link') => Valid(config)
      BY <2>1 DEF MayApply
    <3> QED
      BY <2>3, <2>5, <2>7, <2>8, <2>9, <3>1 DEF LatestApplies, Valid
  <2>11. MarkerFollows'
    BY <2>2, <2>5, <2>7, <2>9 DEF MarkerFollows, EndsAsPersisted
  <2>12. RefusalKept'
    BY <1>8, <2>1, <2>7 DEF RefusalKept, MayApply
  <2>13. LinkAgrees'
    BY <1>1, <2>1 DEF LinkAgrees, SocketsAgree, Armed, isCurrentTokenRejected
  <2> QED
    BY <1>1, <2>1, <2>7, <2>10, <2>11, <2>12, <2>13 DEF AppliedTo
<1>9. CASE ~(config.token # None /\ w.persisted \notin {Null, config.token})
  <2>1. Apply(now, config)
    BY <1>2, <1>4, <1>5, <1>9 DEF applyConnectionConfig
  <2>2. MayApply(now, config, marker', BrowserWorks')
    BY <1>6, <1>7 DEF MayApply
  <2>3. AppliedTo(now, config)
    BY <1>3, <1>6, <2>1, <2>2, ApplyKeeps
  <2> QED
    BY <1>6, <2>3 DEF AppliedTo
<1> QED
  BY <1>8, <1>9
-----------------------------------------------------------------------------
(* Changes of the configuration                                              *)

\* The keys a change names, and their values.
LEMMA PatchFields ==
  ASSUME NEW p \in Patches
  PROVE  /\ DOMAIN p \subseteq {"url", "token"}
         /\ "url" \in DOMAIN p => p["url"] \in Urls
         /\ "token" \in DOMAIN p => p["token"] \in Tokens
         /\ p = [k \in DOMAIN p |-> p[k]]
<1>1. PICK keys \in SUBSET {"url", "token"} : p \in [keys -> Urls \cup Tokens]
  BY DEF Patches
<1> QED
  BY <1>1 DEF Patches

\* Without a change the configuration stays; a change never makes it invalid.
LEMMA PatchedFields ==
  ASSUME NEW config \in Config, NEW p \in Patches
  PROVE  LET v == Patched(config, p)
         IN  /\ v \in Config /\ DOMAIN v = {"url", "token"}
             /\ \A k \in {"url", "token"} : v[k] = IF k \in DOMAIN p THEN p[k] ELSE config[k]
             /\ Valid(config) => Valid(v)
             /\ p = NoPatch => v = config
<1>1. DOMAIN config = {"url", "token"} /\ config["url"] = config.url /\ config["token"] = config.token
  BY DEF Config
<1>2. PICK v : v = Patched(config, p)
  OBVIOUS
<1>3. v = [k \in {"url", "token"} |-> IF k \in DOMAIN p THEN p[k] ELSE config[k]]
  BY <1>1, <1>2, PatchFields DEF Patched
<1>4. v["url"] \in Urls \cup {None} /\ v["token"] \in Tokens \cup {None}
  BY <1>1, <1>3, PatchFields DEF Config
<1>5. v = [url |-> v["url"], token |-> v["token"]]
  BY <1>3
<1>6. v \in Config
  BY <1>4, <1>5 DEF Config
<1>7. Valid(config) => Valid(v)
  BY <1>1, <1>3, PatchFields, LinkAssumption DEF Valid
<1>8. p = NoPatch => v = config
  <2> SUFFICES ASSUME p = NoPatch PROVE v = config
    OBVIOUS
  <2>1. DOMAIN p = {}
    BY DEF NoPatch
  <2> QED
    BY <1>1, <1>3, <2>1 DEF Config
<1> QED
  BY <1>2, <1>3, <1>6, <1>7, <1>8

\* Two changes make a change.
LEMMA PatchedPatches ==
  ASSUME NEW p \in Patches, NEW q \in Patches
  PROVE  LET v == Patched(p, q)
         IN  v \in Patches /\ (q # NoPatch => v # NoPatch)
<1>1. PICK v : v = Patched(p, q)
  OBVIOUS
<1>2. DOMAIN v = DOMAIN p \cup DOMAIN q
      /\ v = [k \in DOMAIN v |-> IF k \in DOMAIN q THEN q[k] ELSE p[k]]
  BY <1>1 DEF Patched
<1>3. DOMAIN v \subseteq {"url", "token"}
  BY <1>2, PatchFields
<1>4. /\ "url" \in DOMAIN v => v["url"] \in Urls
      /\ "token" \in DOMAIN v => v["token"] \in Tokens
  BY <1>2, PatchFields
<1>5. v \in [DOMAIN v -> Urls \cup Tokens]
  BY <1>2, <1>3, <1>4
<1>6. v \in Patches
  BY <1>3, <1>4, <1>5 DEF Patches
<1>7. q # NoPatch => DOMAIN q # {}
  <2> SUFFICES ASSUME DOMAIN q = {} PROVE q = NoPatch
    OBVIOUS
  <2> QED
    BY PatchFields DEF NoPatch
<1>8. q # NoPatch => v # NoPatch
  BY <1>2, <1>7 DEF NoPatch
<1> QED
  BY <1>1, <1>6, <1>8

\* chrome.storage.onChanged: what follows the storage still does with the change it is told.
LEMMA TailFollows ==
  ASSUME changes \in Seq(Patches), changes # <<>>, ChangesFollow,
         changes' = Tail(changes), stored' = stored
  PROVE  /\ changes' \in Seq(Patches) /\ Head(changes) \in Patches /\ Head(changes) # NoPatch
         /\ ChangesFollow'
<1>1. /\ changes' \in Seq(Patches) /\ Len(changes) \in Nat /\ Len(changes) > 0
      /\ DOMAIN changes = 1..Len(changes) /\ DOMAIN changes' = 1..(Len(changes) - 1)
      /\ \A i \in DOMAIN changes' : changes'[i] = changes[i + 1]
      /\ Head(changes) = changes[1] /\ changes[1] \in Patches
  OBVIOUS
<1>2. Head(changes) # NoPatch
  BY <1>1 DEF ChangesFollow
<1>3. ChangesFollow'
  <2> SUFFICES ASSUME NEW i \in DOMAIN changes'
               PROVE  /\ changes'[i] # NoPatch
                      /\ \A k \in DOMAIN changes'[i] :
                           (\A j \in DOMAIN changes' : j > i => k \notin DOMAIN changes'[j])
                             => changes'[i][k] = stored'[k]
    BY DEF ChangesFollow
  <2>1. i + 1 \in DOMAIN changes /\ changes'[i] = changes[i + 1]
    BY <1>1
  <2>2. ASSUME NEW k \in DOMAIN changes'[i],
               \A j \in DOMAIN changes' : j > i => k \notin DOMAIN changes'[j]
        PROVE  changes'[i][k] = stored'[k]
    <3>1. \A j \in DOMAIN changes : j > i + 1 => j - 1 \in DOMAIN changes' /\ j - 1 > i
                                                /\ changes'[j - 1] = changes[j]
      BY <1>1
    <3>2. \A j \in DOMAIN changes : j > i + 1 => k \notin DOMAIN changes[j]
      BY <2>2, <3>1
    <3> QED
      BY <2>1, <3>2 DEF ChangesFollow
  <2> QED
    BY <2>1, <2>2 DEF ChangesFollow
<1> QED
  BY <1>1, <1>2, <1>3

\* What was told and patched in is what is stored, unless a later change names the key.
LEMMA PatchedFollows ==
  ASSUME changes \in Seq(Patches), changes # <<>>, ChangesFollow,
         changes' = Tail(changes), stored' = stored,
         NEW config, NEW v, v = Patched(config, Head(changes)), Follows(config)
  PROVE  Follows(v)'
<1>1. /\ Len(changes) \in Nat /\ Len(changes) > 0
      /\ DOMAIN changes = 1..Len(changes) /\ DOMAIN changes' = 1..(Len(changes) - 1)
      /\ \A i \in DOMAIN changes' : changes'[i] = changes[i + 1]
      /\ Head(changes) = changes[1]
  OBVIOUS
<1>2. /\ DOMAIN v = DOMAIN config \cup DOMAIN changes[1]
      /\ \A k \in DOMAIN v : v[k] = IF k \in DOMAIN changes[1] THEN changes[1][k] ELSE config[k]
  BY <1>1 DEF Patched
<1>3. ASSUME NEW k \in DOMAIN v, \A i \in DOMAIN changes' : k \notin DOMAIN changes'[i]
      PROVE  v[k] = stored[k]
  <2>1. \A j \in DOMAIN changes : j > 1 => j - 1 \in DOMAIN changes' /\ changes'[j - 1] = changes[j]
    BY <1>1
  <2>2. \A j \in DOMAIN changes : j > 1 => k \notin DOMAIN changes[j]
    BY <1>3, <2>1
  <2>3. CASE k \in DOMAIN changes[1]
    BY <1>1, <1>2, <2>2, <2>3 DEF ChangesFollow
  <2>4. CASE k \notin DOMAIN changes[1]
    <3>1. \A j \in DOMAIN changes : j = 1 \/ j > 1
      BY <1>1
    <3>2. \A j \in DOMAIN changes : k \notin DOMAIN changes[j]
      BY <2>2, <2>4, <3>1
    <3> QED
      BY <1>2, <2>4, <3>2 DEF Follows
  <2> QED
    BY <2>3, <2>4
<1> QED
  BY <1>3 DEF Follows
\* saveConfig: a change names what differs, and nothing else is behind.
LEMMA DiffFields ==
  ASSUME NEW old \in Config, NEW new \in [url : Urls, token : Tokens], new # old
  PROVE  LET p == Patch(old, new)
         IN  /\ p \in Patches /\ p # NoPatch
             /\ \A k \in {"url", "token"} : k \in DOMAIN p => p[k] = new[k]
             /\ \A k \in {"url", "token"} : k \notin DOMAIN p => old[k] = new[k]
<1>1. PICK p : p = Patch(old, new)
  OBVIOUS
<1>2. DOMAIN p = {k \in {"url", "token"} : old[k] # new[k]} /\ p = [k \in DOMAIN p |-> new[k]]
  BY <1>1 DEF Patch
<1>3. /\ new["url"] \in Urls /\ new["token"] \in Tokens
      /\ new = [url |-> new["url"], token |-> new["token"]]
      /\ old = [url |-> old["url"], token |-> old["token"]]
  BY DEF Config
<1>4. p \in [DOMAIN p -> Urls \cup Tokens] /\ DOMAIN p \in SUBSET {"url", "token"}
  BY <1>2, <1>3
<1>5. p \in Patches
  BY <1>2, <1>3, <1>4 DEF Patches
<1>6. DOMAIN p # {}
  BY <1>2, <1>3
<1>7. p # NoPatch
  BY <1>6 DEF NoPatch
<1> QED
  BY <1>1, <1>2, <1>5, <1>7

\* A save leaves behind what it changes, and nothing else.
LEMMA SavedFollows ==
  ASSUME changes \in Seq(Patches), ChangesFollow, stored \in Config,
         NEW config \in [url : Urls, token : Tokens], config # stored,
         stored' = config, changes' = Append(changes, Patch(stored, config))
  PROVE  /\ changes' \in Seq(Patches) /\ changes' # <<>> /\ ChangesFollow'
         /\ \A c : DOMAIN c \subseteq {"url", "token"} =>
              (Follows(c) =>
                 \A k \in DOMAIN c :
                   (\A i \in DOMAIN changes' : k \notin DOMAIN changes'[i]) => c[k] = stored'[k])
<1>1. PICK p \in Patches :
        /\ p = Patch(stored, config) /\ p # NoPatch
        /\ \A k \in {"url", "token"} : k \in DOMAIN p => p[k] = config[k]
        /\ \A k \in {"url", "token"} : k \notin DOMAIN p => stored[k] = config[k]
  BY DiffFields
<1>2. PICK n \in Nat : n = Len(changes)
  OBVIOUS
<1>3. /\ changes' \in Seq(Patches) /\ changes' # <<>> /\ changes'[n + 1] = p
      /\ DOMAIN changes = 1..n /\ DOMAIN changes' = 1..(n + 1)
      /\ \A i \in 1..n : changes'[i] = changes[i]
  BY <1>1, <1>2
<1>4. \A i \in 1..(n + 1) : i \in 1..n \/ i = n + 1
  BY <1>2
<1>5. n + 1 \in 1..(n + 1) /\ \A i \in 1..n : i \in 1..(n + 1) /\ n + 1 > i
  BY <1>2
<1>6. ChangesFollow'
  <2> SUFFICES ASSUME NEW i \in 1..(n + 1)
               PROVE  /\ changes'[i] # NoPatch
                      /\ \A k \in DOMAIN changes'[i] :
                           (\A j \in 1..(n + 1) : j > i => k \notin DOMAIN changes'[j])
                             => changes'[i][k] = config[k]
    BY <1>3 DEF ChangesFollow
  <2>1. CASE i = n + 1
    BY <1>1, <1>3, <2>1, PatchFields
  <2>2. CASE i \in 1..n
    <3>1. changes'[i] = changes[i] /\ changes[i] # NoPatch /\ changes[i] \in Patches
      BY <1>3, <2>2 DEF ChangesFollow
    <3>2. ASSUME NEW k \in DOMAIN changes[i],
                 \A j \in 1..(n + 1) : j > i => k \notin DOMAIN changes'[j]
          PROVE  changes[i][k] = config[k]
      <4>1. \A j \in 1..n : j > i => k \notin DOMAIN changes[j]
        BY <1>3, <1>5, <3>2
      <4>2. changes[i][k] = stored[k]
        BY <1>3, <2>2, <4>1 DEF ChangesFollow
      <4>3. k \notin DOMAIN p
        BY <1>3, <1>5, <2>2, <3>2
      <4>4. k \in {"url", "token"}
        BY <3>1, PatchFields
      <4> QED
        BY <1>1, <4>2, <4>3, <4>4
    <3> QED
      BY <3>1, <3>2
  <2> QED
    BY <1>4, <2>1, <2>2
<1>7. ASSUME NEW c, DOMAIN c \subseteq {"url", "token"}, Follows(c), NEW k \in DOMAIN c,
             \A i \in DOMAIN changes' : k \notin DOMAIN changes'[i]
      PROVE  c[k] = config[k]
  <2>1. \A i \in DOMAIN changes : k \notin DOMAIN changes[i]
    BY <1>3, <1>5, <1>7
  <2>2. k \notin DOMAIN p
    BY <1>3, <1>5, <1>7
  <2>3. c[k] = stored[k]
    BY <1>7, <2>1 DEF Follows
  <2>4. k \in {"url", "token"}
    BY <1>7
  <2> QED
    BY <1>1, <2>2, <2>3, <2>4
<1> QED
  BY <1>3, <1>6, <1>7
-----------------------------------------------------------------------------
(* The invariant is inductive                                                *)

Faults == [browser : 0..MaxFaults, outside : 0..MaxFaults]

\* Faults are counted within their bound.
LEMMA FaultFields ==
  ASSUME TypeOK, NEW kind \in {"browser", "outside"}, Fault(kind)
  PROVE  /\ faults' \in Faults
         /\ kind = "outside" => faults'.browser = faults.browser
         /\ kind = "browser" => ~BrowserWorks'
<1>1. /\ MaxFaults \in Nat /\ faults.browser \in 0..MaxFaults /\ faults.outside \in 0..MaxFaults
      /\ faults \in Faults
  BY LinkAssumption DEF TypeOK, Faults
<1>2. faults.browser + faults.outside < MaxFaults /\ faults' = [faults EXCEPT ![kind] = @ + 1]
  BY DEF Fault
<1>3. CASE kind = "browser"
  <2>1. faults' = [faults EXCEPT !.browser = faults.browser + 1]
    BY <1>1, <1>2, <1>3 DEF Faults
  <2>2. faults.browser + 1 \in 0..MaxFaults /\ faults.browser + 1 # 0
    BY <1>1, <1>2
  <2>3. faults' \in Faults /\ faults'.browser = faults.browser + 1
    BY <1>1, <2>1, <2>2 DEF Faults
  <2> QED
    BY <1>3, <2>2, <2>3 DEF BrowserWorks
<1>4. CASE kind = "outside"
  <2>1. faults' = [faults EXCEPT !.outside = faults.outside + 1]
    BY <1>1, <1>2, <1>4 DEF Faults
  <2>2. faults.outside + 1 \in 0..MaxFaults
    BY <1>1, <1>2
  <2> QED
    BY <1>1, <1>4, <2>1, <2>2 DEF Faults
<1> QED
  BY <1>3, <1>4

\* A client with a socket or a timer belongs to a worker that has started, or has
\* failed to, and connects for a configuration that is valid.
Used ==
  /\ worker \in {"ready", "stuck"}
  /\ worker = "ready" /\ link.config # NoConfig => Valid(sw.pending)

LEMMA LinkUsed ==
  ASSUME Inv, link.ws # None \/ link.timer
  PROVE  Used
<1>1. worker \in {"ready", "stuck"}
  BY DEF Inv, TypeOK, IdleUntilReady
<1> QED
  BY <1>1 DEF Inv, LatestApplies, InUse, Used

\* A step of the client that keeps its configuration and its refusal.
LEMMA LinkStep ==
  ASSUME Inv, link' \in Link, SocketsAgree(link'), Armed(link'),
         link'.config = link.config, link'.rejected = link.rejected,
         Used \/ (link'.ws = link.ws /\ link'.timer = link.timer),
         UNCHANGED <<stored, changes, marker, worker, sw, refused, saves>>,
         brokerUp' \in BOOLEAN, faults' \in Faults, faults'.browser = faults.browser
  PROVE  Inv'
<1>1. isCurrentTokenRejected(link') <=> isCurrentTokenRejected(link)
  BY DEF isCurrentTokenRejected
<1>2. BrowserWorks' <=> BrowserWorks
  BY DEF BrowserWorks
<1>3. Deferred' = Deferred
  BY DEF Deferred
<1>4. TypeOK'
  BY DEF Inv, TypeOK, Faults
<1>5. LinkAgrees'
  BY DEF LinkAgrees, SocketsAgree, Armed, isCurrentTokenRejected
<1>6. IdleUntilReady' /\ LatestApplies'
  <2>1. worker = "ready" /\ InUse(link') => Valid(sw.pending)
    BY DEF Inv, LatestApplies, InUse, Used
  <2>2. IdleUntilReady'
    BY <1>2 DEF Inv, IdleUntilReady, Used
  <2> QED
    BY <1>3, <2>1, <2>2 DEF Inv, LatestApplies
<1>7. ChangesFollow' /\ StorageFollowed'
  BY <1>2 DEF Inv, ChangesFollow, StorageFollowed, Follows
<1>8. MarkerFollows'
  BY <1>1, <1>2, <1>3 DEF Inv, MarkerFollows, EndsAsPersisted, isCurrentTokenRejected
<1>9. RefusalKept' /\ SavedIsValid'
  BY <1>2 DEF Inv, RefusalKept, SavedIsValid
<1> QED
  BY <1>4, <1>5, <1>6, <1>7, <1>8, <1>9 DEF Inv

\* A worker starts with a client that has nothing, and knows nothing itself.
LEMMA NewLinkFields ==
  ASSUME NEW alarm \in BOOLEAN
  PROVE  LET v == NewLink(alarm)
         IN  /\ v \in Link /\ SocketsAgree(v) /\ Armed(v)
             /\ v.config = DefaultConfig /\ v.ws = None /\ ~v.timer
<1>1. PICK socket : socket = [c \in Sockets |-> NoSocket]
  OBVIOUS
<1>2. socket \in [Sockets -> Socket] /\ \A c \in Sockets : socket[c].st = "none"
  BY <1>1, NoConfigInvalid DEF NoSocket, Socket
<1>3. PICK v : v = [config |-> DefaultConfig, rejected |-> Null, state |-> "idle", ws |-> None,
             connecting |-> FALSE, shaken |-> FALSE, timer |-> FALSE, alarm |-> alarm,
             intentional |-> FALSE, gaveUp |-> FALSE, socket |-> socket]
  OBVIOUS
<1>4. NewLink(alarm) = v
  BY <1>1, <1>3 DEF NewLink
<1>5. v \in Link
  BY <1>2, <1>3, DefaultFields DEF Link
<1>6. SocketsAgree(v) /\ Armed(v)
  BY <1>2, <1>3, DefaultFields DEF SocketsAgree, Armed, Live
<1> QED
  BY <1>3, <1>4, <1>5, <1>6

LEMMA NewWorkerFields ==
  /\ NewWorker \in WorkerVariables /\ NewWorker.pending = None
  /\ NewWorker.patch = NoPatch /\ DOMAIN NoPatch = {} /\ NewWorker.writes = <<>>
<1>1. DOMAIN NoPatch = {} /\ NoPatch \in [{} -> Urls \cup Tokens]
  BY DEF NoPatch
<1>2. NoPatch \in Patches
  BY <1>1 DEF Patches
<1> QED
  BY <1>1, <1>2 DEF NewWorker, WorkerVariables

LEMMA InitInv == Init => Inv
<1> SUFFICES ASSUME Init PROVE Inv
  OBVIOUS
<1>1. link = NewLink(FALSE) /\ sw = NewWorker
  BY DEF Init
<1>2. /\ link \in Link /\ LinkAgrees
      /\ link.config = DefaultConfig /\ link.ws = None /\ ~link.timer
  BY <1>1, NewLinkFields DEF LinkAgrees
<1>3. sw \in WorkerVariables /\ sw.pending = None /\ sw.patch = NoPatch /\ sw.writes = <<>>
  BY <1>1, NewWorkerFields
<1>4. /\ stored \in Config /\ changes = <<>> /\ marker = Null /\ worker = "loading"
      /\ refused = Null /\ saves = 0 /\ brokerUp \in BOOLEAN
  BY DEF Init
<1>5. faults \in Faults
  BY LinkAssumption DEF Init, Faults
<1>6. TypeOK
  BY <1>2, <1>3, <1>4, <1>5, LinkAssumption DEF TypeOK, Faults
<1>7. IdleUntilReady
  BY <1>2, <1>3, <1>4 DEF IdleUntilReady
<1>8. LatestApplies /\ MarkerFollows /\ RefusalKept /\ SavedIsValid
  BY <1>4 DEF LatestApplies, MarkerFollows, RefusalKept, SavedIsValid
<1>9. ChangesFollow /\ StorageFollowed
  BY <1>3, <1>4, NewWorkerFields DEF ChangesFollow, StorageFollowed, Follows
<1> QED
  BY <1>2, <1>6, <1>7, <1>8, <1>9 DEF Inv

\* The fields of a client that only loses its timer or its alarm.
LEMMA DisarmedFields ==
  ASSUME NEW k \in Link, SocketsAgree(k), NEW timer \in BOOLEAN, NEW alarm \in BOOLEAN
  PROVE  LET v == [k EXCEPT !.timer = timer, !.alarm = alarm]
         IN  /\ v \in Link /\ SocketsAgree(v) /\ SameIntent(v, k)
             /\ v.ws = k.ws /\ v.socket = k.socket /\ v.timer = timer
             /\ isCurrentTokenRejected(v) <=> isCurrentTokenRejected(k)
<1>1. PICK v : v = [k EXCEPT !.timer = timer, !.alarm = alarm]
  OBVIOUS
<1>2. /\ v \in Link /\ SameIntent(v, k) /\ v.ws = k.ws /\ v.socket = k.socket /\ v.timer = timer
      /\ v.connecting = k.connecting /\ v.shaken = k.shaken
  BY <1>1 DEF Link, SameIntent
<1>3. isCurrentTokenRejected(v) <=> isCurrentTokenRejected(k)
  BY <1>2 DEF SameIntent, isCurrentTokenRejected
<1>4. SocketsAgree(v)
  BY <1>2, <1>3 DEF SocketsAgree, SameIntent
<1> QED
  BY <1>1, <1>2, <1>3, <1>4

LEMMA TimerFiresKeeps ==
  ASSUME Inv, TimerFires
  PROVE  Inv'
<1>1. link \in Link /\ SocketsAgree(link) /\ Armed(link) /\ link.alarm \in BOOLEAN
  BY DEF Inv, TypeOK, LinkAgrees, Link
<1>2. PICK alarm \in BOOLEAN : alarm = link.alarm
  BY <1>1
<1>3. PICK k : k = [link EXCEPT !.timer = FALSE, !.alarm = alarm]
  OBVIOUS
<1>4. /\ k \in Link /\ SocketsAgree(k) /\ SameIntent(k, link)
      /\ k.ws = link.ws /\ k.socket = link.socket
  BY <1>1, <1>3, DisarmedFields
<1>5. k = [link EXCEPT !.timer = FALSE]
  BY <1>1, <1>2, <1>3 DEF Link
<1>6. link' = IF k.intentional \/ isCurrentTokenRejected(k) THEN k ELSE connect(k)
  BY <1>5 DEF TimerFires
<1>7. \E c \in Sockets : k.socket[c].st = "none"
  BY <1>4 DEF TimerFires, CanOpen
<1>8. /\ link' \in Link /\ SocketsAgree(link') /\ Armed(link')
      /\ link'.config = link.config /\ link'.rejected = link.rejected
  <2>1. CASE k.intentional \/ isCurrentTokenRejected(k)
    <3>1. Armed(k)
      BY <1>4, <2>1 DEF SocketsAgree, Armed
    <3> QED
      BY <1>4, <1>6, <2>1, <3>1 DEF SameIntent
  <2>2. CASE ~(k.intentional \/ isCurrentTokenRejected(k))
    BY <1>4, <1>6, <1>7, <2>2, ConnectFields DEF SameIntent
  <2> QED
    BY <2>1, <2>2
<1>9. Used
  BY LinkUsed DEF TimerFires
<1> QED
  BY <1>8, <1>9, LinkStep DEF TimerFires, Inv, TypeOK, Faults

LEMMA AlarmFiresKeeps ==
  ASSUME Inv, AlarmFires
  PROVE  Inv'
<1>1. link \in Link /\ SocketsAgree(link) /\ Armed(link) /\ link.timer \in BOOLEAN
  BY DEF Inv, TypeOK, LinkAgrees, Link
<1>2. PICK timer \in BOOLEAN : timer = link.timer
  BY <1>1
<1>3. PICK k : k = [link EXCEPT !.timer = timer, !.alarm = FALSE]
  OBVIOUS
<1>4. /\ k \in Link /\ SocketsAgree(k) /\ SameIntent(k, link)
      /\ k.ws = link.ws /\ k.socket = link.socket /\ k.timer = timer
      /\ isCurrentTokenRejected(k) <=> isCurrentTokenRejected(link)
  BY <1>1, <1>3, DisarmedFields
<1>5. k = [link EXCEPT !.alarm = FALSE]
  BY <1>1, <1>2, <1>3 DEF Link
<1>6. link' \in {k, connect(k)}
  BY <1>5 DEF AlarmFires, connectClient
<1>7. \E c \in Sockets : k.socket[c].st = "none"
  BY <1>4 DEF AlarmFires, CanOpen
<1>8. /\ link' \in Link /\ SocketsAgree(link') /\ Armed(link')
      /\ link'.config = link.config /\ link'.rejected = link.rejected
      /\ Used \/ (link'.ws = link.ws /\ link'.timer = link.timer)
  <2>1. CASE link' = k
    <3>1. Armed(k)
      BY <1>1, <1>2, <1>4 DEF Armed, SameIntent
    <3> QED
      BY <1>2, <1>4, <2>1, <3>1 DEF SameIntent
  <2>2. CASE link' = connect(k) /\ link' # k
    <3>1. worker = "ready" /\ sw.valid
      BY <1>5, <2>2 DEF AlarmFires
    <3>2. Used
      BY <3>1 DEF Inv, LatestApplies, Used
    <3> QED
      BY <1>4, <1>7, <2>2, <3>2, ConnectFields DEF SameIntent
  <2> QED
    BY <1>6, <2>1, <2>2
<1> QED
  BY <1>8, LinkStep DEF AlarmFires, Inv, TypeOK, Faults

LEMMA WakeUpKeeps ==
  ASSUME Inv, WakeUp
  PROVE  Inv'
<1>1. link \in Link /\ SocketsAgree(link) /\ Armed(link)
      /\ link.timer \in BOOLEAN /\ link.alarm \in BOOLEAN
  BY DEF Inv, TypeOK, LinkAgrees, Link
<1>2. PICK timer \in BOOLEAN : timer = link.timer
  BY <1>1
<1>3. PICK alarm \in BOOLEAN : link' = [link EXCEPT !.alarm = alarm]
  BY <1>1 DEF WakeUp
<1>4. PICK k : k = [link EXCEPT !.timer = timer, !.alarm = alarm]
  OBVIOUS
<1>5. /\ k \in Link /\ SocketsAgree(k) /\ SameIntent(k, link)
      /\ k.ws = link.ws /\ k.timer = timer
      /\ isCurrentTokenRejected(k) <=> isCurrentTokenRejected(link)
  BY <1>1, <1>4, DisarmedFields
<1>6. link' = k
  BY <1>1, <1>2, <1>3, <1>4 DEF Link
<1>7. /\ link'.config = link.config /\ Armed(link')
      /\ link'.ws = link.ws /\ link'.timer = link.timer
  BY <1>1, <1>2, <1>5, <1>6 DEF Armed, SameIntent
<1>8. TypeOK'
  BY <1>5, <1>6 DEF WakeUp, Inv, TypeOK
<1>9. LinkAgrees'
  BY <1>5, <1>6, <1>7 DEF LinkAgrees, SocketsAgree, Armed, isCurrentTokenRejected
<1>10. IdleUntilReady' /\ LatestApplies' /\ MarkerFollows'
  BY <1>7 DEF WakeUp, Inv, IdleUntilReady, LatestApplies, MarkerFollows
<1>11. ChangesFollow' /\ StorageFollowed'
  BY DEF WakeUp, Inv, ChangesFollow, StorageFollowed, Follows
<1>12. RefusalKept' /\ SavedIsValid'
  BY DEF WakeUp, Inv, RefusalKept, SavedIsValid, BrowserWorks
<1> QED
  BY <1>8, <1>9, <1>10, <1>11, <1>12 DEF Inv

LEMMA SuspendKeeps ==
  ASSUME Inv, Suspend
  PROVE  Inv'
<1>1. link \in Link /\ SocketsAgree(link) /\ TypeOK
  BY DEF Inv, TypeOK, LinkAgrees
<1>2. /\ link' \in Link /\ SocketsAgree(link') /\ Armed(link')
      /\ link'.config = link.config /\ link'.rejected = link.rejected
  BY <1>1, SuspendFields DEF Suspend
<1>3. faults' \in Faults /\ faults'.browser = faults.browser
  BY <1>1, FaultFields DEF Suspend
<1>4. Used
  <2>1. CASE worker = "ready"
    <3>1. Deferred = {}
      BY DEF Suspend, Deferred
    <3> QED
      BY <2>1, <3>1 DEF Inv, LatestApplies, Effective, Used
  <2>2. CASE worker # "ready"
    BY <2>2 DEF Suspend, Used
  <2> QED
    BY <2>1, <2>2
<1> QED
  BY <1>1, <1>2, <1>3, <1>4, LinkStep DEF Suspend, TypeOK

\* The extension's own socket is on its way, or is lost.
LEMMA MovesAgree ==
  ASSUME NEW k \in Link, SocketsAgree(k), Armed(k), NEW c \in Sockets, NEW st,
         \/ k.socket[c].st \in Live /\ st = "lost"
         \/ k.socket[c].st \in Live \ {"up"} /\ st \in Live \ {"up"}
  PROVE  LET v == [k EXCEPT !.socket[c].st = st]
         IN  /\ v \in Link /\ SocketsAgree(v) /\ Armed(v) /\ v.ws = c /\ v.shaken = k.shaken
             /\ v.connecting = k.connecting /\ SameIntent(v, k)
<1>1. st \in {"none", "lost", "closing"} \cup Live
  OBVIOUS
<1>2. PICK v : v = [k EXCEPT !.socket[c].st = st]
  OBVIOUS
<1>3. /\ v \in Link /\ SameIntent(v, k) /\ v.ws = k.ws /\ v.connecting = k.connecting
      /\ v.shaken = k.shaken /\ v.timer = k.timer /\ v.socket[c].st = st
      /\ \A d \in Sockets \ {c} : v.socket[d] = k.socket[d]
  BY <1>1, <1>2, SocketFields
<1>4. k.ws = c /\ c # None
  BY LinkAssumption DEF SocketsAgree
<1>5. isCurrentTokenRejected(v) <=> isCurrentTokenRejected(k)
  BY <1>3 DEF SameIntent, isCurrentTokenRejected
<1>6. \A d \in Sockets : v.socket[d].st \in Live => v.ws = d
  BY <1>3, <1>4 DEF SocketsAgree
<1>7. st \in Live \cup {"lost"} /\ st # "up" /\ (st \in Live => v.connecting)
  BY <1>3, <1>4 DEF SocketsAgree, Live
<1>8. /\ v.config = DefaultConfig \/ Valid(v.config)
      /\ v.config # NoConfig /\ ~v.intentional /\ ~isCurrentTokenRejected(v)
  BY <1>3, <1>4, <1>5 DEF SocketsAgree, SameIntent
<1>9. SocketsAgree(v)
  BY <1>3, <1>4, <1>6, <1>7, <1>8 DEF SocketsAgree
<1>10. Armed(v)
  BY <1>3, <1>4 DEF Armed
<1> QED
  BY <1>2, <1>3, <1>4, <1>9, <1>10

LEMMA ArrivalKeeps ==
  ASSUME Inv, NEW c \in Sockets, CannotConnect(c) \/ BrokerAnswers(c) \/ ConnectionDrops(c)
  PROVE  Inv'
<1>1. link \in Link /\ SocketsAgree(link) /\ Armed(link) /\ TypeOK
  BY DEF Inv, TypeOK, LinkAgrees
<1>2. PICK st : /\ link' = [link EXCEPT !.socket[c].st = st]
                /\ \/ link.socket[c].st \in Live /\ st = "lost"
                   \/ link.socket[c].st \in Live \ {"up"} /\ st \in Live \ {"up"}
  BY DEF CannotConnect, BrokerAnswers, ConnectionDrops, BecomesOf, Live
<1>3. /\ link' \in Link /\ SocketsAgree(link') /\ Armed(link') /\ SameIntent(link', link)
  BY <1>1, <1>2, MovesAgree
<1>4. faults' \in Faults /\ faults'.browser = faults.browser
  BY <1>1, FaultFields
    DEF CannotConnect, BrokerAnswers, ConnectionDrops, OnlyLink, TypeOK, Faults
<1>5. Used
  BY <1>1, <1>2, LinkUsed, LinkAssumption DEF SocketsAgree
<1> QED
  BY <1>1, <1>3, <1>4, <1>5, LinkStep
    DEF CannotConnect, BrokerAnswers, ConnectionDrops, OnlyLink, TypeOK, SameIntent

LEMMA OpensKeeps ==
  ASSUME Inv, NEW c \in Sockets, Opens(c)
  PROVE  Inv'
<1>1. link \in Link /\ SocketsAgree(link) /\ Armed(link) /\ TypeOK
  BY DEF Inv, TypeOK, LinkAgrees
<1>2. link.socket[c].st \in Live \ {"up"} /\ "open" \in Live \ {"up"}
  BY DEF Opens, Live
<1>3. PICK v : v = [link EXCEPT !.socket[c].st = "open"]
  OBVIOUS
<1>4. v \in Link /\ SocketsAgree(v) /\ Armed(v) /\ v.ws = c /\ SameIntent(v, link)
  BY <1>1, <1>2, <1>3, MovesAgree
<1>5. link.ws = c /\ ~v.intentional
  BY <1>1, <1>2, <1>4, LinkAssumption DEF SocketsAgree
<1>6. link' = [v EXCEPT !.intentional = FALSE]
  BY <1>3, <1>5 DEF Opens, IsCurrent
<1>7. link' = v
  BY <1>4, <1>5, <1>6 DEF Link
<1>8. Used
  BY <1>5, LinkUsed, LinkAssumption
<1> QED
  BY <1>1, <1>4, <1>7, <1>8, LinkStep DEF Opens, OnlyLink, TypeOK, Faults, SameIntent

LEMMA OnWelcomeKeeps ==
  ASSUME Inv, NEW c \in Sockets, OnWelcome(c)
  PROVE  Inv'
<1>1. link \in Link /\ SocketsAgree(link) /\ TypeOK
  BY DEF Inv, TypeOK, LinkAgrees
<1>2. link.socket[c].st = "welcomed" /\ "welcomed" \in Live /\ "up" \in Live
  BY DEF OnWelcome, Live
<1>3. link.ws = c /\ c # None
  BY <1>1, <1>2, LinkAssumption DEF SocketsAgree
<1>4. PICK u : u = [link EXCEPT !.socket[c].st = "up"]
  OBVIOUS
<1>5. /\ u \in Link /\ SameIntent(u, link) /\ u.ws = c /\ u.socket[c].st = "up"
      /\ \A d \in Sockets \ {c} : u.socket[d] = link.socket[d]
  BY <1>1, <1>2, <1>3, <1>4, SocketFields
<1>6. link' = [u EXCEPT !.shaken = TRUE, !.connecting = FALSE, !.state = "connected",
                        !.timer = FALSE, !.alarm = FALSE]
  BY <1>3, <1>4 DEF OnWelcome, IsCurrent
<1>7. /\ link' \in Link /\ SameIntent(link', u) /\ link'.ws = c /\ link'.socket = u.socket
      /\ link'.shaken /\ ~link'.connecting
  BY <1>5, <1>6 DEF Link, SameIntent
<1>8. SameIntent(link', link)
  BY <1>5, <1>7 DEF SameIntent
<1>9. \A d \in Sockets : link'.socket[d].st \in Live => link'.ws = d
  BY <1>1, <1>3, <1>5, <1>7 DEF SocketsAgree
<1>10. isCurrentTokenRejected(link') <=> isCurrentTokenRejected(link)
  BY <1>8 DEF SameIntent, isCurrentTokenRejected
<1>11. /\ link'.config = DefaultConfig \/ Valid(link'.config)
       /\ link'.config # NoConfig /\ ~link'.intentional /\ ~isCurrentTokenRejected(link')
  BY <1>1, <1>3, <1>8, <1>10 DEF SocketsAgree, SameIntent
<1>12. SocketsAgree(link') /\ Armed(link')
  BY <1>2, <1>3, <1>5, <1>7, <1>9, <1>11 DEF SocketsAgree, Armed
<1>13. Used
  BY <1>3, LinkUsed
<1> QED
  BY <1>1, <1>7, <1>8, <1>12, <1>13, LinkStep DEF OnWelcome, OnlyLink, TypeOK, Faults, SameIntent

LEMMA OnStrangeWelcomeKeeps ==
  ASSUME Inv, NEW c \in Sockets, OnStrangeWelcome(c)
  PROVE  Inv'
<1>1. link \in Link /\ SocketsAgree(link) /\ TypeOK
  BY DEF Inv, TypeOK, LinkAgrees
<1>2. link.ws = c
  BY <1>1 DEF OnStrangeWelcome, Live, SocketsAgree
<1>3. PICK u \in Link : u = Dropped(link) /\ SameIntent(u, link) /\ AllGone(u, link) /\ ~u.connecting
  BY <1>1, DroppedFields, AgreesOwnsLive
<1>4. link' = [u EXCEPT !.state = "idle", !.gaveUp = TRUE]
  BY <1>2, <1>3 DEF OnStrangeWelcome, IsCurrent
<1>5. /\ link' \in Link /\ link'.config = u.config /\ link'.rejected = u.rejected
      /\ link'.intentional = u.intentional /\ link'.ws = u.ws /\ link'.socket = u.socket
      /\ link'.connecting = u.connecting /\ link'.gaveUp
  BY <1>4 DEF Link
<1>6. link'.config = link.config /\ link'.rejected = link.rejected
      /\ link'.intentional = link.intentional
  BY <1>3, <1>5 DEF SameIntent
<1>7. AllGone(link', link)
  BY <1>3, <1>5 DEF AllGone
<1>8. SocketsAgree(link')
  BY <1>1, <1>3, <1>5, <1>6, <1>7, AllGoneAgrees DEF SocketsAgree, isCurrentTokenRejected
<1>9. Armed(link')
  BY <1>5 DEF Armed
<1>10. Used
  BY <1>2, LinkUsed, LinkAssumption
<1> QED
  BY <1>1, <1>5, <1>6, <1>8, <1>9, <1>10, LinkStep DEF OnStrangeWelcome, OnlyLink, TypeOK, Faults
\* A socket that is gone.
LEMMA GoneFields ==
  ASSUME NEW k \in Link, NEW c \in Sockets
  PROVE  LET v == [k EXCEPT !.socket[c] = NoSocket]
         IN  /\ v \in Link /\ SameIntent(v, k) /\ v.ws = k.ws /\ v.connecting = k.connecting
             /\ v.shaken = k.shaken /\ v.timer = k.timer
             /\ v.socket[c].st = "none" /\ \A d \in Sockets \ {c} : v.socket[d] = k.socket[d]
<1>1. NoSocket \in Socket /\ NoSocket.st = "none"
  BY NoConfigInvalid DEF NoSocket, Socket
<1>2. PICK f : f = [k.socket EXCEPT ![c] = NoSocket]
  OBVIOUS
<1>3. f \in [Sockets -> Socket] /\ f[c] = NoSocket /\ \A d \in Sockets \ {c} : f[d] = k.socket[d]
  BY <1>1, <1>2 DEF Link
<1>4. PICK v : v = [k EXCEPT !.socket = f]
  OBVIOUS
<1>5. [k EXCEPT !.socket[c] = NoSocket] = v
  BY <1>2, <1>4
<1>6. /\ v \in Link /\ SameIntent(v, k) /\ v.ws = k.ws /\ v.connecting = k.connecting
      /\ v.shaken = k.shaken /\ v.timer = k.timer /\ v.socket = f
  BY <1>3, <1>4 DEF Link, SameIntent
<1> QED
  BY <1>1, <1>3, <1>5, <1>6

LEMMA OnCloseKeeps ==
  ASSUME Inv, NEW c \in Sockets, OnClose(c)
  PROVE  Inv'
<1>1. link \in Link /\ SocketsAgree(link) /\ Armed(link) /\ TypeOK /\ None \notin Sockets
  BY LinkAssumption DEF Inv, TypeOK, LinkAgrees
<1>2. link.socket[c].st \in {"lost", "closing"} /\ link.socket[c].st \notin Live
  BY DEF OnClose, Live
<1>3. PICK gone : gone = [link EXCEPT !.socket[c] = NoSocket]
  OBVIOUS
<1>4. /\ gone \in Link /\ SameIntent(gone, link) /\ gone.ws = link.ws
      /\ gone.connecting = link.connecting /\ gone.shaken = link.shaken /\ gone.timer = link.timer
      /\ gone.socket[c].st = "none" /\ \A d \in Sockets \ {c} : gone.socket[d] = link.socket[d]
  BY <1>1, <1>3, GoneFields
<1>5. isCurrentTokenRejected(gone) <=> isCurrentTokenRejected(link)
  BY <1>4 DEF SameIntent, isCurrentTokenRejected
<1>6. "none" \notin Live
  BY DEF Live
<1>7. CASE link.ws = c
  <2>1. ~link.intentional
    BY <1>1, <1>7 DEF SocketsAgree
  <2>2. PICK k : k = [gone EXCEPT !.ws = None, !.shaken = FALSE, !.connecting = FALSE,
                                  !.state = "idle"]
    OBVIOUS
  <2>3. /\ k \in Link /\ SameIntent(k, gone) /\ k.ws = None /\ ~k.connecting
        /\ k.socket = gone.socket
    BY <1>4, <2>2 DEF Link, SameIntent
  <2>4. link' = handleReconnect(k)
    BY <1>3, <1>7, <2>1, <2>2 DEF OnClose, IsCurrent
  <2>5. \A d \in Sockets : k.socket[d].st \notin Live
    BY <1>1, <1>4, <1>6, <1>7, <2>3 DEF SocketsAgree
  <2>6. /\ k.config = DefaultConfig \/ Valid(k.config)
        /\ k.config # NoConfig
    BY <1>1, <1>4, <1>7, <2>3 DEF SocketsAgree, SameIntent
  <2>7. ~k.intentional
    BY <1>4, <2>1, <2>3 DEF SameIntent
  <2>8. SocketsAgree(k)
    BY <2>3, <2>5, <2>6, <2>7 DEF SocketsAgree
  <2>9. /\ link' \in Link /\ SocketsAgree(link') /\ Armed(link')
        /\ link'.config = k.config /\ link'.rejected = k.rejected
    BY <2>3, <2>4, <2>8, ReconnectFields
  <2>10. link'.config = link.config /\ link'.rejected = link.rejected
    BY <1>4, <2>3, <2>9 DEF SameIntent
  <2>11. Used
    BY <1>1, <1>7, LinkUsed
  <2> QED
    BY <1>1, <2>9, <2>10, <2>11, LinkStep DEF OnClose, OnlyLink, TypeOK, Faults
<1>8. CASE link.ws # c
  <2>1. link' = gone
    BY <1>3, <1>8 DEF OnClose, IsCurrent
  <2>2. \A d \in Sockets : gone.socket[d].st \in Live => gone.ws = d
    BY <1>1, <1>4, <1>6 DEF SocketsAgree
  <2>3. gone.ws # None => gone.ws \in Sockets \ {c}
    BY <1>4, <1>8 DEF Link
  <2>4. gone.ws # None => gone.socket[gone.ws] = link.socket[link.ws]
    BY <1>4, <2>3
  <2>5. SocketsAgree(gone)
    BY <1>1, <1>4, <1>5, <2>2, <2>4 DEF SocketsAgree, SameIntent
  <2>6. Armed(gone)
    BY <1>1, <1>4, <1>5 DEF Armed, SameIntent
  <2> QED
    BY <1>1, <1>4, <2>1, <2>5, <2>6, LinkStep DEF OnClose, OnlyLink, TypeOK, Faults, SameIntent
<1> QED
  BY <1>7, <1>8

LEMMA HeartbeatFailsKeeps ==
  ASSUME Inv, HeartbeatFails
  PROVE  Inv'
<1>1. link \in Link /\ SocketsAgree(link) /\ TypeOK
  BY DEF Inv, TypeOK, LinkAgrees
<1>2. PICK u \in Link : u = Closed(link) /\ SameIntent(u, link) /\ AllGone(u, link)
                        /\ u.connecting = link.connecting
  BY <1>1, ClosedFields, AgreesOwnsLive
<1>3. PICK k : k = [u EXCEPT !.shaken = FALSE, !.state = "idle"]
  OBVIOUS
<1>4. /\ k \in Link /\ SameIntent(k, u) /\ k.ws = u.ws /\ k.socket = u.socket
      /\ k.connecting = u.connecting
  BY <1>3 DEF Link, SameIntent
<1>5. link' = handleReconnect(k)
  BY <1>2, <1>3 DEF HeartbeatFails
<1>6. SameIntent(k, link) /\ AllGone(k, link)
  BY <1>2, <1>4 DEF SameIntent, AllGone
<1>7. ~k.connecting /\ ~k.intentional
  BY <1>1, <1>2, <1>4, <1>6 DEF HeartbeatFails, Connected, SocketsAgree, SameIntent
<1>8. SocketsAgree(k)
  BY <1>1, <1>6, <1>7, AllGoneAgrees DEF SocketsAgree, SameIntent
<1>9. /\ link' \in Link /\ SocketsAgree(link') /\ Armed(link')
      /\ link'.config = link.config /\ link'.rejected = link.rejected
  BY <1>4, <1>5, <1>6, <1>8, ReconnectFields DEF SameIntent
<1>10. faults' \in Faults /\ faults'.browser = faults.browser
  BY <1>1, FaultFields DEF HeartbeatFails
<1>11. Used
  BY LinkUsed DEF HeartbeatFails, Connected
<1> QED
  BY <1>1, <1>9, <1>10, <1>11, LinkStep DEF HeartbeatFails, TypeOK

LEMMA BrokerStartsKeeps ==
  ASSUME Inv, BrokerStarts
  PROVE  Inv'
<1>1. link \in Link /\ SocketsAgree(link) /\ Armed(link) /\ TypeOK
  BY DEF Inv, TypeOK, LinkAgrees
<1> QED
  BY <1>1, LinkStep DEF BrokerStarts, TypeOK, Faults

LEMMA BrokerEndsKeeps ==
  ASSUME Inv, BrokerEnds
  PROVE  Inv'
<1>1. link \in Link /\ SocketsAgree(link) /\ Armed(link) /\ TypeOK
  BY DEF Inv, TypeOK, LinkAgrees
<1>2. PICK f : f = [c \in Sockets |-> IF link.socket[c].st \in Live
                                      THEN [link.socket[c] EXCEPT !.st = "lost"] ELSE link.socket[c]]
  OBVIOUS
<1>3. ASSUME NEW c \in Sockets
      PROVE  /\ f[c] \in Socket /\ f[c].st \notin Live
             /\ link.socket[c].st \in Live \cup {"lost"} => f[c].st = "lost"
  <2>1. link.socket[c] \in Socket
    BY <1>1 DEF Link
  <2>2. [link.socket[c] EXCEPT !.st = "lost"] \in Socket
        /\ [link.socket[c] EXCEPT !.st = "lost"].st = "lost"
    BY <2>1 DEF Socket
  <2> QED
    BY <1>2, <2>1, <2>2 DEF Live
<1>4. f \in [Sockets -> Socket]
  BY <1>2, <1>3
<1>5. link' = [link EXCEPT !.socket = f]
  BY <1>2 DEF BrokerEnds
<1>6. /\ link' \in Link /\ SameIntent(link', link) /\ link'.ws = link.ws /\ link'.socket = f
      /\ link'.connecting = link.connecting /\ link'.timer = link.timer
  BY <1>1, <1>4, <1>5 DEF Link, SameIntent
<1>7. isCurrentTokenRejected(link') <=> isCurrentTokenRejected(link)
  BY <1>6 DEF SameIntent, isCurrentTokenRejected
<1>8. link.ws # None => f[link.ws].st = "lost"
  BY <1>1, <1>3 DEF SocketsAgree, Link
<1>9. SocketsAgree(link')
  BY <1>1, <1>3, <1>6, <1>7, <1>8 DEF SocketsAgree, SameIntent, Live
<1>10. Armed(link')
  BY <1>1, <1>6, <1>7 DEF Armed, SameIntent
<1>11. faults' \in Faults /\ faults'.browser = faults.browser
  BY <1>1, FaultFields DEF BrokerEnds
<1> QED
  BY <1>1, <1>6, <1>9, <1>10, <1>11, LinkStep DEF BrokerEnds, TypeOK, SameIntent

\* A configuration that follows the storage is the stored one once all changes are heard of.
LEMMA AllHeard ==
  ASSUME NEW config \in Config, stored \in Config, changes = <<>>, Follows(config)
  PROVE  config = stored
<1>1. DOMAIN config = {"url", "token"}
  BY DEF Config
<1>2. config["url"] = stored["url"] /\ config["token"] = stored["token"]
  BY <1>1 DEF Follows
<1> QED
  BY <1>2 DEF Config

\* A refusal is of the configuration in use, which is stored and valid if nothing changes it.
LEMMA OnAuthFailedKeeps ==
  ASSUME Inv, NEW c \in Sockets, OnAuthFailed(c)
  PROVE  Inv'
<1>1. /\ link \in Link /\ SocketsAgree(link) /\ TypeOK /\ None \notin Sockets
      /\ sw \in WorkerVariables
  BY LinkAssumption DEF Inv, TypeOK, LinkAgrees
<1>2. link.ws = c
  BY <1>1 DEF OnAuthFailed, Live, SocketsAgree
<1>3. /\ link.config # NoConfig
      /\ link.config = DefaultConfig \/ Valid(link.config)
      /\ ~link.intentional
  BY <1>1, <1>2 DEF SocketsAgree
<1>4. /\ worker \in {"ready", "stuck"}
      /\ worker = "ready" => Valid(sw.pending)
      /\ worker = "stuck" => ~BrowserWorks
  BY <1>1, <1>2, <1>3, LinkUsed DEF Used, Inv, IdleUntilReady
<1>5. PICK token \in Tokens \cup {None} : token = link.config.token /\ token # Null
  BY <1>1, LinkAssumption DEF Link, Config
<1>6. PICK gone : gone = [link EXCEPT !.socket[c] = NoSocket]
  OBVIOUS
<1>7. /\ gone \in Link /\ SameIntent(gone, link) /\ gone.ws = link.ws
      /\ gone.socket[c].st = "none" /\ \A d \in Sockets \ {c} : gone.socket[d] = link.socket[d]
  BY <1>1, <1>6, GoneFields
<1>8. /\ link' = [gone EXCEPT !.ws = None, !.shaken = FALSE, !.connecting = FALSE,
                    !.timer = FALSE, !.alarm = FALSE, !.rejected = token, !.state = "auth_failed"]
      /\ sw' = [sw EXCEPT !.persisted = token,
                          !.writes = Append(@, [token |-> token, then |-> None])]
      /\ refused' = token
      /\ UNCHANGED <<stored, changes, marker, worker, brokerUp, saves, faults>>
  BY <1>2, <1>5, <1>6 DEF OnAuthFailed, IsCurrent
<1>9. /\ link' \in Link /\ link'.config = link.config /\ link'.rejected = token
      /\ ~link'.intentional /\ link'.ws = None /\ link'.socket = gone.socket /\ ~link'.connecting
  BY <1>3, <1>7, <1>8 DEF Link, SameIntent
<1>10. isCurrentTokenRejected(link')
  BY <1>5, <1>9 DEF isCurrentTokenRejected
<1>11. LinkAgrees'
  <2>1. "none" \notin Live
    BY DEF Live
  <2>2. \A d \in Sockets : link'.socket[d].st \notin Live
    BY <1>1, <1>2, <1>7, <1>9, <2>1 DEF SocketsAgree
  <2>3. SocketsAgree(link') /\ Armed(link')
    BY <1>3, <1>9, <1>10, <2>2 DEF SocketsAgree, Armed
  <2> QED
    BY <2>3 DEF LinkAgrees, SocketsAgree, Armed, isCurrentTokenRejected
<1>12. PICK all : all = Append(sw.writes, [token |-> token, then |-> None])
  OBVIOUS
<1>13. /\ all \in Seq(Write) /\ all # <<>> /\ all[Len(all)].token = token
       /\ all[Len(all)].then = None
       /\ DOMAIN all = DOMAIN sw.writes \cup {Len(all)} /\ Len(all) \notin DOMAIN sw.writes
       /\ \A i \in DOMAIN sw.writes : all[i] = sw.writes[i]
  BY <1>1, <1>12, AppendedDeferred DEF WorkerVariables
<1>14. sw' = [sw EXCEPT !.persisted = token, !.writes = all]
  BY <1>1, <1>8, <1>12 DEF WorkerVariables
<1>15. /\ sw' \in WorkerVariables /\ sw'.pending = sw.pending /\ sw'.patch = sw.patch
       /\ sw'.valid = sw.valid /\ sw'.persisted = token /\ sw'.writes = all
  BY <1>1, <1>13, <1>14 DEF WorkerVariables
<1>16. Deferred' = Deferred /\ \A i \in Deferred : sw'.writes[i] = sw.writes[i]
  BY <1>13, <1>15 DEF Deferred
<1>17. TypeOK'
  BY <1>1, <1>8, <1>9, <1>15 DEF TypeOK
<1>18. BrowserWorks' <=> BrowserWorks
  BY <1>8 DEF BrowserWorks
<1>19. IdleUntilReady' /\ LatestApplies'
  <2>1. (\A i \in DOMAIN sw.writes : sw.writes[i].then = None)
          => \A i \in DOMAIN sw'.writes : sw'.writes[i].then = None
    <3> SUFFICES ASSUME \A i \in DOMAIN sw.writes : sw.writes[i].then = None, NEW i \in DOMAIN all
                 PROVE  all[i].then = None
      BY <1>15
    <3>1. CASE i = Len(all)
      BY <1>13, <3>1
    <3>2. CASE i \in DOMAIN sw.writes
      <4>1. all[i] = sw.writes[i]
        BY <1>13, <3>2
      <4> QED
        BY <3>2, <4>1
    <3> QED
      BY <1>13, <3>1, <3>2
  <2>2. IdleUntilReady'
    BY <1>4, <1>8, <1>9, <1>18, <2>1 DEF Inv, IdleUntilReady
  <2>3. worker = "ready" =>
          /\ \A i \in Deferred' : sw'.writes[i].then = sw'.pending
          /\ Deferred' = {} => link'.config = Effective(sw'.pending)
    BY <1>9, <1>15, <1>16 DEF Inv, LatestApplies
  <2> QED
    BY <1>4, <1>8, <1>15, <1>16, <2>2, <2>3 DEF Inv, LatestApplies
<1>20. ChangesFollow' /\ StorageFollowed'
  BY <1>4, <1>8, <1>15, <1>18 DEF Inv, ChangesFollow, StorageFollowed, Follows
<1>21. MarkerFollows'
  BY <1>9, <1>13, <1>15 DEF MarkerFollows, EndsAsPersisted
<1>22. RefusalKept'
  BY <1>4, <1>5, <1>8, <1>9, <1>15, <1>18 DEF RefusalKept
<1>23. SavedIsValid'
  <2> SUFFICES ASSUME ~Valid(stored), BrowserWorks PROVE FALSE
    BY <1>8, <1>18 DEF Inv, SavedIsValid
  <2>1. changes = <<>> /\ Follows(sw.pending) /\ sw.pending # None /\ Valid(sw.pending)
    BY <1>3, <1>4 DEF Inv, SavedIsValid, StorageFollowed, LatestApplies
  <2>2. sw.pending \in Config /\ stored \in Config
    BY <1>1, <2>1 DEF WorkerVariables, TypeOK
  <2> QED
    BY <2>1, <2>2, AllHeard
<1> QED
  BY <1>11, <1>17, <1>19, <1>20, <1>21, <1>22, <1>23 DEF Inv

LEMMA LoadKeeps ==
  ASSUME Inv, Load
  PROVE  Inv'
<1>1. /\ TypeOK /\ stored \in Config /\ sw \in WorkerVariables /\ sw.patch \in Patches
      /\ marker \in Tokens \cup {Null} /\ sw.writes = <<>> /\ Follows(sw.patch)
      /\ link.config = DefaultConfig /\ link.ws = None /\ ~link.timer
  BY DEF Inv, TypeOK, WorkerVariables, IdleUntilReady, StorageFollowed, Load
<1>2. PICK base \in Config, token \in Tokens \cup {Null} :
        /\ sw' = [sw EXCEPT !.pending = Patched(base, sw.patch), !.persisted = token]
        /\ BrowserWorks' => base = stored /\ token = marker /\ BrowserWorks
        /\ faults' \in Faults
  <2>1. PICK base \in Config, token \in Tokens \cup {Null} :
          /\ sw' = [sw EXCEPT !.pending = Patched(base, sw.patch), !.persisted = token]
          /\ IF base = stored /\ token = marker THEN UNCHANGED faults ELSE Fault("browser")
    BY <1>1, DefaultFields DEF Load
  <2>2. CASE base = stored /\ token = marker
    BY <1>1, <2>1, <2>2 DEF TypeOK, Faults, BrowserWorks
  <2>3. CASE ~(base = stored /\ token = marker)
    <3>1. faults' \in Faults /\ ~BrowserWorks'
      BY <1>1, <2>1, <2>3, FaultFields
    <3> QED
      BY <2>1, <3>1
  <2> QED
    BY <2>2, <2>3
<1>3. PICK v : v = Patched(base, sw.patch)
  OBVIOUS
<1>4. /\ v \in Config /\ DOMAIN v = {"url", "token"}
      /\ \A k \in {"url", "token"} : v[k] = IF k \in DOMAIN sw.patch THEN sw.patch[k] ELSE base[k]
      /\ Valid(base) => Valid(v)
      /\ sw.patch = NoPatch => v = base
  BY <1>1, <1>3, PatchedFields
<1>5. /\ sw' \in WorkerVariables /\ sw'.pending = v /\ sw'.patch = sw.patch
      /\ sw'.persisted = token /\ sw'.writes = <<>>
  BY <1>1, <1>2, <1>3, <1>4 DEF WorkerVariables
<1>6. /\ worker = "loading" /\ worker' = "syncing" /\ changes = <<>>
      /\ UNCHANGED <<stored, changes, marker, link, brokerUp, refused, saves>>
  BY DEF Load
<1>7. TypeOK'
  BY <1>1, <1>2, <1>5, <1>6 DEF TypeOK, Faults
<1>8. LinkAgrees' /\ IdleUntilReady'
  BY <1>1, <1>5, <1>6
    DEF Inv, LinkAgrees, SocketsAgree, Armed, isCurrentTokenRejected, IdleUntilReady
<1>9. v # None
  BY <1>4, LinkAssumption DEF Config
<1>10. LatestApplies'
  BY <1>5, <1>6, <1>9 DEF LatestApplies
<1>11. ChangesFollow' /\ StorageFollowed'
  <2>1. BrowserWorks' => \A k \in DOMAIN v : v[k] = stored[k]
    BY <1>1, <1>2, <1>4, <1>6 DEF Follows
  <2> QED
    BY <1>5, <1>6, <2>1 DEF Inv, ChangesFollow, StorageFollowed, Follows
<1>12. MarkerFollows'
  <2>1. BrowserWorks' => EndsAsPersisted(sw', marker')
    BY <1>1, <1>2, <1>5, <1>6, LinkAssumption DEF EndsAsPersisted, AsRead
  <2> QED
    BY <1>6, <2>1 DEF MarkerFollows, EndsAsPersisted
<1>13. RefusalKept'
  BY <1>2, <1>4, <1>5, <1>6 DEF Inv, RefusalKept
<1>14. SavedIsValid'
  BY <1>2, <1>6 DEF Inv, SavedIsValid
<1> QED
  BY <1>7, <1>8, <1>10, <1>11, <1>12, <1>13, <1>14 DEF Inv

\* The worker's configuration is applied as soon as the tabs are synchronised.
LEMMA TabsSyncedKeeps ==
  ASSUME Inv, TabsSynced
  PROVE  Inv'
<1>1. /\ TypeOK /\ sw \in WorkerVariables /\ link \in Link /\ LinkAgrees
      /\ link.config = DefaultConfig /\ link.ws = None /\ ~link.timer
      /\ sw.writes = <<>> /\ sw.pending # None /\ refused \in Tokens \cup {None, Null}
  BY DEF Inv, TypeOK, IdleUntilReady, LatestApplies, TabsSynced
<1>2. worker = "syncing" /\ CanOpen /\ UNCHANGED <<stored, changes, marker, brokerUp, saves>>
  BY DEF TabsSynced
<1>3. CASE worker' = "ready" /\ applyConnectionConfig(sw, sw.pending) /\ UNCHANGED faults
  <2>1. BrowserWorks' <=> BrowserWorks
    BY <1>3 DEF BrowserWorks
  <2>2. PICK config \in Config : config = sw.pending
    BY <1>1 DEF WorkerVariables
  <2>3. BrowserWorks' => EndsAsPersisted(sw, marker)
    BY <1>2, <2>1 DEF Inv, MarkerFollows
  <2>4. refused # Null /\ sw.patch = NoPatch /\ BrowserWorks' =>
          Valid(config) /\ sw.persisted = refused /\ config.token = refused
    BY <1>2, <2>1, <2>2 DEF Inv, RefusalKept
  <2>5. MayApply(sw, config, marker, BrowserWorks')
    BY <1>1, <1>2, <2>2, <2>3, <2>4 DEF MayApply, InUse
  <2>6. AppliedTo(sw, config)
    BY <1>2, <1>3, <2>2, <2>5, ApplicationKeeps
  <2>7. TypeOK' /\ LinkAgrees' /\ LatestApplies' /\ MarkerFollows' /\ RefusalKept'
    BY <1>1, <1>2, <1>3, <2>6 DEF AppliedTo, TypeOK
  <2>8. IdleUntilReady'
    BY <1>3 DEF IdleUntilReady
  <2>9. ChangesFollow' /\ StorageFollowed'
    BY <1>2, <1>3, <2>1, <2>2, <2>6 DEF AppliedTo, Inv, ChangesFollow, StorageFollowed, Follows
  <2>10. SavedIsValid'
    BY <1>2, <2>1, <2>6 DEF AppliedTo, Inv, SavedIsValid
  <2> QED
    BY <2>7, <2>8, <2>9, <2>10 DEF Inv
<1>4. CASE Fault("browser") /\ worker' = "stuck" /\ UNCHANGED <<sw, link, refused>>
  <2>1. faults' \in Faults /\ ~BrowserWorks'
    BY <1>1, <1>4, FaultFields
  <2>2. TypeOK' /\ LinkAgrees' /\ IdleUntilReady'
    BY <1>1, <1>2, <1>4, <2>1 DEF TypeOK, Faults, LinkAgrees, SocketsAgree, Armed,
         isCurrentTokenRejected, IdleUntilReady
  <2>3. LatestApplies' /\ MarkerFollows' /\ RefusalKept' /\ StorageFollowed'
    BY <1>4 DEF LatestApplies, MarkerFollows, RefusalKept, StorageFollowed
  <2>4. ChangesFollow' /\ SavedIsValid'
    BY <1>2, <2>1 DEF Inv, ChangesFollow, SavedIsValid
  <2> QED
    BY <2>2, <2>3, <2>4 DEF Inv
<1> QED
  BY <1>3, <1>4 DEF TabsSynced
\* The worker hears of a change: it prevails over what the worker had, or over what the
\* worker will read.
LEMMA StorageChangedKeeps ==
  ASSUME Inv, StorageChanged
  PROVE  Inv'
<1>1. /\ TypeOK /\ sw \in WorkerVariables /\ link \in Link /\ LinkAgrees
      /\ refused \in Tokens \cup {None, Null} /\ changes \in Seq(Patches) /\ changes # <<>>
      /\ stored' = stored /\ changes' = Tail(changes) /\ ChangesFollow /\ CanOpen
      /\ UNCHANGED <<stored, marker, worker, brokerUp, saves, faults>>
  BY DEF Inv, TypeOK, StorageChanged
<1>2. PICK p \in Patches : p = Head(changes) /\ p # NoPatch
  BY <1>1, TailFollows
<1>3. changes' \in Seq(Patches) /\ ChangesFollow'
  BY <1>1, TailFollows
<1>4. BrowserWorks' <=> BrowserWorks
  BY <1>1 DEF BrowserWorks
<1>5. PICK patched : patched = Patched(sw.pending, p)
  OBVIOUS
<1>6. sw.pending # None => patched \in Config /\ patched # None
  <2>1. sw.pending # None => sw.pending \in Config
    BY <1>1 DEF WorkerVariables
  <2> QED
    BY <1>5, <2>1, PatchedFields, LinkAssumption DEF Config
<1>7. Follows(sw.pending) => Follows(patched)'
  BY <1>1, <1>2, <1>5, PatchedFollows
<1>8. CASE worker = "ready"
  <2>1. PICK w : w = [sw EXCEPT !.pending = patched]
    OBVIOUS
  <2>2. sw.pending # None /\ sw.pending \in Config
    BY <1>1, <1>8 DEF Inv, LatestApplies, WorkerVariables
  <2>3. /\ w \in WorkerVariables /\ w.pending = patched /\ w.patch = sw.patch
        /\ w.writes = sw.writes /\ w.persisted = sw.persisted
    BY <1>1, <1>6, <2>1, <2>2 DEF WorkerVariables
  <2>4. applyConnectionConfig(w, patched)
    BY <1>2, <1>5, <1>8, <2>1 DEF StorageChanged
  <2>5. Valid(sw.pending) => Valid(patched)
    BY <1>5, <2>2, PatchedFields
  <2>6. InUse(link) => Valid(patched)
    BY <1>8, <2>5 DEF Inv, LatestApplies
  <2>7. BrowserWorks' => EndsAsPersisted(w, marker)
    BY <1>4, <1>8, <2>3 DEF Inv, MarkerFollows, EndsAsPersisted
  <2>8. refused # Null /\ w.patch = NoPatch /\ BrowserWorks' =>
          Valid(patched) /\ link.config.token = refused /\ link.rejected = refused
    BY <1>4, <1>8, <2>3, <2>5 DEF Inv, RefusalKept
  <2>9. MayApply(w, patched, marker, BrowserWorks')
    BY <1>1, <1>6, <2>2, <2>3, <2>6, <2>7, <2>8 DEF MayApply
  <2>10. AppliedTo(w, patched)
    BY <1>1, <1>8, <2>4, <2>9, ApplicationKeeps
  <2>11. TypeOK' /\ LinkAgrees' /\ LatestApplies' /\ MarkerFollows' /\ RefusalKept'
    BY <1>1, <1>3, <2>10 DEF AppliedTo, TypeOK
  <2>12. IdleUntilReady'
    BY <1>1, <1>8 DEF IdleUntilReady
  <2>13. StorageFollowed'
    BY <1>1, <1>4, <1>7, <1>8, <2>10 DEF AppliedTo, Inv, StorageFollowed, Follows
  <2>14. SavedIsValid'
    BY <1>1, <1>4, <2>10 DEF AppliedTo, Inv, SavedIsValid
  <2> QED
    BY <1>3, <2>11, <2>12, <2>13, <2>14 DEF Inv
<1>9. CASE worker # "ready"
  <2>1. PICK patch : patch = Patched(sw.patch, p)
    OBVIOUS
  <2>2. patch \in Patches /\ patch # NoPatch
    BY <1>1, <1>2, <2>1, PatchedPatches DEF WorkerVariables
  <2>3. /\ sw' = [sw EXCEPT !.patch = patch,
                            !.pending = IF sw.pending = None THEN None ELSE patched]
        /\ link' = link /\ refused' = refused
    BY <1>1, <1>2, <1>5, <1>9, <2>1 DEF StorageChanged, WorkerVariables
  <2>4. /\ sw' \in WorkerVariables /\ sw'.patch = patch /\ sw'.writes = sw.writes
        /\ sw'.persisted = sw.persisted
        /\ sw'.pending = IF sw.pending = None THEN None ELSE patched
    BY <1>1, <1>6, <2>2, <2>3 DEF WorkerVariables
  <2>5. TypeOK' /\ LinkAgrees'
    BY <1>1, <1>3, <2>3, <2>4 DEF Inv, TypeOK, LinkAgrees, SocketsAgree, Armed,
         isCurrentTokenRejected
  <2>11. IdleUntilReady'
    BY <1>1, <1>4, <2>3, <2>4 DEF Inv, IdleUntilReady
  <2>6. LatestApplies'
    BY <1>1, <1>6, <1>9, <2>4 DEF Inv, LatestApplies
  <2>7. StorageFollowed'
    <3>1. Follows(sw.patch) => Follows(patch)'
      BY <1>1, <1>2, <2>1, PatchedFollows
    <3>2. worker \in {"down", "loading"} => sw'.pending = None /\ Follows(patch)'
      BY <2>4, <3>1 DEF Inv, StorageFollowed
    <3>3. worker = "syncing" /\ BrowserWorks => sw'.pending = patched /\ Follows(patched)'
      BY <1>7, <2>4 DEF Inv, StorageFollowed, LatestApplies
    <3> QED
      BY <1>1, <1>4, <1>9, <2>4, <3>2, <3>3 DEF StorageFollowed, Follows
  <2>8. MarkerFollows'
    <3>1. Deferred' = Deferred
      BY <2>4 DEF Deferred
    <3> QED
      BY <1>1, <1>4, <2>3, <2>4, <3>1 DEF Inv, MarkerFollows, EndsAsPersisted, isCurrentTokenRejected
  <2>9. RefusalKept'
    BY <1>1, <1>9, <2>2, <2>4 DEF RefusalKept
  <2>10. SavedIsValid'
    BY <1>1, <1>4, <2>3 DEF Inv, SavedIsValid
  <2> QED
    BY <1>3, <2>5, <2>6, <2>7, <2>8, <2>9, <2>10, <2>11 DEF Inv
<1> QED
  BY <1>8, <1>9

\* A write of the marker is done, and the application that waited for it goes on.
LEMMA WriteMarkerKeeps ==
  ASSUME Inv, WriteMarker
  PROVE  Inv'
<1>1. /\ TypeOK /\ sw \in WorkerVariables /\ link \in Link /\ LinkAgrees
      /\ refused \in Tokens \cup {None, Null} /\ marker \in Tokens \cup {Null}
      /\ sw.writes \in Seq(Write) /\ sw.writes # <<>> /\ CanOpen
      /\ UNCHANGED <<stored, changes, worker, brokerUp, saves>>
  BY DEF Inv, TypeOK, WriteMarker, WorkerVariables
<1>2. /\ worker \in {"ready", "stuck"} /\ worker' = worker
      /\ worker = "stuck" => ~BrowserWorks /\ \A i \in DOMAIN sw.writes : sw.writes[i].then = None
  BY <1>1 DEF Inv, TypeOK, IdleUntilReady
<1>3. PICK first \in Write : first = Head(sw.writes) /\ first = sw.writes[1]
  BY <1>1
<1>4. /\ marker' \in Tokens \cup {Null} /\ faults' \in Faults
      /\ BrowserWorks' => BrowserWorks /\ marker' = AsRead(first.token)
  <2>1. CASE marker' = AsRead(Head(sw.writes).token) /\ UNCHANGED faults
    BY <1>1, <1>3, <2>1 DEF TypeOK, Faults, Write, BrowserWorks, AsRead
  <2>2. CASE Fault("browser") /\ marker' = marker
    BY <1>1, <2>2, FaultFields
  <2> QED
    BY <2>1, <2>2 DEF WriteMarker
<1>5. PICK writes : writes = Tail(sw.writes)
  OBVIOUS
<1>6. writes \in Seq(Write) /\ Len(writes) \in Nat
  <2>1. PICK all : all = sw.writes
    OBVIOUS
  <2>2. all \in Seq(Write) /\ all # <<>> /\ writes = Tail(all)
    BY <1>1, <1>5, <2>1
  <2> QED
    BY <2>2
<1>7. PICK n \in Nat : /\ writes \in Seq(Write) /\ DOMAIN writes = 1..n
                       /\ DOMAIN sw.writes = 1..(n + 1) /\ Len(sw.writes) = n + 1
                       /\ \A i \in 1..n : writes[i] = sw.writes[i + 1]
                       /\ writes = <<>> <=> n = 0
  <2>1. PICK n : n = Len(writes)
    OBVIOUS
  <2>2. n \in Nat
    BY <1>6, <2>1
  <2>3. PICK all : all = sw.writes
    OBVIOUS
  <2>4. all \in Seq(Write) /\ all # <<>> /\ writes = Tail(all)
    BY <1>1, <1>5, <2>3
  <2>5. /\ DOMAIN writes = 1..n /\ DOMAIN all = 1..(n + 1)
        /\ Len(all) = n + 1 /\ \A i \in 1..n : writes[i] = all[i + 1]
    BY <2>1, <2>4
  <2>6. writes = <<>> <=> n = 0
    BY <1>6, <2>1, <2>5
  <2> QED
    BY <1>6, <2>2, <2>3, <2>5, <2>6
<1>8. PICK rest : rest = [sw EXCEPT !.writes = writes]
  OBVIOUS
<1>9. /\ rest \in WorkerVariables /\ rest.pending = sw.pending /\ rest.patch = sw.patch
      /\ rest.valid = sw.valid /\ rest.persisted = sw.persisted /\ rest.writes = writes
  BY <1>1, <1>7, <1>8 DEF WorkerVariables
<1>10. worker = "ready" /\ BrowserWorks' => EndsAsPersisted(rest, marker')
  <2> SUFFICES ASSUME worker = "ready", BrowserWorks' PROVE EndsAsPersisted(rest, marker')
    OBVIOUS
  <2>1. sw.writes[n + 1].token = sw.persisted
    BY <1>1, <1>2, <1>4, <1>7 DEF Inv, MarkerFollows, EndsAsPersisted
  <2>2. CASE n = 0
    BY <1>3, <1>4, <1>7, <1>9, <2>1, <2>2 DEF EndsAsPersisted
  <2>3. CASE n # 0
    <3>1. n \in 1..n
      BY <1>6, <2>3
    <3> QED
      BY <1>6, <1>7, <1>9, <2>1, <2>3, <3>1 DEF EndsAsPersisted
  <2> QED
    BY <2>2, <2>3
<1>11. worker = "ready" =>
       /\ sw.pending # None /\ sw.valid = Valid(sw.pending)
       /\ \A i \in Deferred : sw.writes[i].then = sw.pending
       /\ \A i, j \in Deferred : i = j
       /\ Deferred = {} => link.config = Effective(sw.pending)
       /\ InUse(link) => Valid(sw.pending)
  BY <1>2 DEF Inv, LatestApplies
<1>12. CASE first.then = None
  <2>1. sw' = rest /\ link' = link /\ refused' = refused
    BY <1>3, <1>5, <1>8, <1>12 DEF WriteMarker
  <2>2. \A i \in Deferred' : i + 1 \in Deferred /\ i \in 1..n
    BY <1>6, <1>7, <1>9, <2>1 DEF Deferred
  <2>3. \A i \in Deferred : i - 1 \in Deferred'
    <3> SUFFICES ASSUME NEW i \in Deferred PROVE i - 1 \in Deferred'
      OBVIOUS
    <3>1. i \in 1..(n + 1) /\ sw.writes[i].then # None
      BY <1>7 DEF Deferred
    <3>2. i # 1
      BY <1>3, <1>12, <3>1
    <3>3. i - 1 \in 1..n /\ writes[i - 1] = sw.writes[i]
      BY <1>6, <1>7, <3>1, <3>2
    <3> QED
      BY <1>7, <1>9, <2>1, <3>1, <3>3 DEF Deferred
  <2>4. Deferred' = {} => Deferred = {}
    BY <2>3
  <2>5. LatestApplies'
    <3> SUFFICES ASSUME worker = "ready" PROVE LatestApplies'
      BY <1>2 DEF LatestApplies
    <3>1. \A i \in Deferred' : sw'.writes[i].then = sw.pending
      BY <1>7, <1>9, <1>11, <2>1, <2>2
    <3>2. \A i, j \in Deferred' : i = j
      <4> SUFFICES ASSUME NEW i \in Deferred', NEW j \in Deferred' PROVE i = j
        OBVIOUS
      <4>1. i + 1 = j + 1 /\ i \in 1..n /\ j \in 1..n
        BY <1>11, <2>2
      <4> QED
        BY <1>6, <4>1
    <3> QED
      BY <1>2, <1>9, <1>11, <2>1, <2>4, <3>1, <3>2 DEF LatestApplies
  <2>6. MarkerFollows'
    BY <1>2, <1>9, <1>10, <2>1, <2>4 DEF Inv, MarkerFollows, EndsAsPersisted, isCurrentTokenRejected
  <2>7. TypeOK' /\ LinkAgrees'
    BY <1>1, <1>2, <1>4, <1>9, <2>1 DEF TypeOK, Faults, LinkAgrees, SocketsAgree, Armed,
         isCurrentTokenRejected
  <2>10. IdleUntilReady'
    <3>1. worker = "stuck" => \A i \in 1..n : writes[i].then = None
      <4> SUFFICES ASSUME worker = "stuck", NEW i \in 1..n PROVE writes[i].then = None
        OBVIOUS
      <4>1. i + 1 \in DOMAIN sw.writes /\ writes[i] = sw.writes[i + 1]
        BY <1>7
      <4> QED
        BY <1>2, <4>1
    <3> QED
      BY <1>1, <1>2, <1>4, <1>7, <1>9, <2>1, <3>1 DEF Inv, IdleUntilReady
  <2>8. ChangesFollow' /\ StorageFollowed'
    BY <1>1, <1>2, <1>4, <1>9, <2>1 DEF Inv, ChangesFollow, StorageFollowed, Follows
  <2>9. RefusalKept' /\ SavedIsValid'
    BY <1>1, <1>2, <1>4, <1>9, <2>1 DEF Inv, RefusalKept, SavedIsValid
  <2> QED
    BY <2>5, <2>6, <2>7, <2>8, <2>9, <2>10 DEF Inv
<1>13. CASE first.then # None
  <2>14. worker = "ready"
    BY <1>2, <1>3, <1>6, <1>7, <1>13
  <2>1. PICK config \in Config : config = first.then
    BY <1>13 DEF Write
  <2>2. config # None
    BY <1>13, <2>1
  <2>3. Apply(rest, config)
    BY <1>3, <1>5, <1>8, <1>13, <2>1 DEF WriteMarker
  <2>4. 1 \in Deferred
    BY <1>3, <1>6, <1>7, <1>13 DEF Deferred
  <2>5. config = sw.pending
    BY <1>3, <1>11, <2>1, <2>4, <2>14
  <2>6. \A i \in DOMAIN rest.writes : rest.writes[i].then = None
    <3> SUFFICES ASSUME NEW i \in 1..n, writes[i].then # None PROVE FALSE
      BY <1>7, <1>9
    <3>1. i + 1 \in Deferred
      BY <1>6, <1>7 DEF Deferred
    <3>2. i + 1 = 1
      BY <1>11, <2>4, <2>14, <3>1
    <3> QED
      BY <1>6, <3>2
  <2>7. refused # Null /\ rest.patch = NoPatch /\ BrowserWorks' =>
          Valid(config) /\ link.config.token = refused /\ link.rejected = refused
    BY <1>4, <1>9, <2>5, <2>14 DEF Inv, RefusalKept
  <2>8. MayApply(rest, config, marker', BrowserWorks')
    BY <1>1, <1>9, <1>10, <1>11, <2>5, <2>7, <2>14 DEF MayApply
  <2>9. AppliedTo(rest, config)
    BY <1>2, <1>9, <1>11, <2>3, <2>5, <2>6, <2>8, <2>14, ApplyKeeps
  <2>10. TypeOK' /\ LinkAgrees' /\ LatestApplies' /\ MarkerFollows' /\ RefusalKept'
    BY <1>1, <1>4, <2>9 DEF AppliedTo, TypeOK, Faults
  <2>11. IdleUntilReady'
    BY <1>2, <2>14 DEF IdleUntilReady
  <2>12. ChangesFollow' /\ StorageFollowed'
    BY <1>1, <1>2, <1>4, <2>5, <2>9, <2>14 DEF AppliedTo, Inv, ChangesFollow, StorageFollowed, Follows
  <2>13. SavedIsValid'
    BY <1>1, <1>4, <2>9 DEF AppliedTo, Inv, SavedIsValid
  <2> QED
    BY <2>10, <2>11, <2>12, <2>13 DEF Inv
<1> QED
  BY <1>12, <1>13

\* Only what has been stored outlives the worker.
LEMMA TerminateKeeps ==
  ASSUME Inv, Terminate
  PROVE  Inv'
<1>1. TypeOK /\ link \in Link /\ link.alarm \in BOOLEAN /\ refused \in Tokens \cup {None, Null}
  BY DEF Inv, TypeOK, Link
<1>2. /\ worker' = "down" /\ sw' = NewWorker /\ link' = NewLink(link.alarm)
      /\ refused' = IF marker = refused /\ stored.token = refused /\ changes = <<>>
                    THEN refused ELSE Null
      /\ UNCHANGED <<stored, changes, marker, brokerUp, saves>>
  BY DEF Terminate
<1>3. faults' \in Faults /\ faults'.browser = faults.browser
  BY <1>1, FaultFields DEF Terminate
<1>4. BrowserWorks' <=> BrowserWorks
  BY <1>3 DEF BrowserWorks
<1>5. /\ link' \in Link /\ SocketsAgree(link') /\ Armed(link')
      /\ link'.config = DefaultConfig /\ link'.ws = None /\ ~link'.timer
  BY <1>1, <1>2, NewLinkFields
<1>6. sw' \in WorkerVariables /\ sw'.pending = None /\ sw'.patch = NoPatch /\ sw'.writes = <<>>
  BY <1>2, NewWorkerFields
<1>7. TypeOK'
  BY <1>1, <1>2, <1>3, <1>5, <1>6 DEF TypeOK, Faults
<1>8. LinkAgrees' /\ IdleUntilReady'
  BY <1>2, <1>5, <1>6 DEF LinkAgrees, SocketsAgree, Armed, isCurrentTokenRejected, IdleUntilReady
<1>9. LatestApplies' /\ MarkerFollows'
  BY <1>2 DEF LatestApplies, MarkerFollows
<1>10. ChangesFollow' /\ StorageFollowed'
  BY <1>2, <1>6, NewWorkerFields DEF Inv, ChangesFollow, StorageFollowed, Follows
<1>11. RefusalKept' /\ SavedIsValid'
  BY <1>2, <1>4 DEF Inv, RefusalKept, SavedIsValid
<1> QED
  BY <1>7, <1>8, <1>9, <1>10, <1>11 DEF Inv

LEMMA saveConfigKeeps ==
  ASSUME Inv, NEW config \in [url : Urls, token : Tokens], saveConfig(config)
  PROVE  Inv'
<1>1. /\ TypeOK /\ stored \in Config /\ changes \in Seq(Patches) /\ ChangesFollow
      /\ sw \in WorkerVariables /\ saves \in 0..MaxSaves /\ MaxSaves \in Nat
  BY LinkAssumption DEF Inv, TypeOK
<1>2. /\ saves < MaxSaves /\ config # stored /\ saves' = saves + 1 /\ stored' = config
      /\ changes' = Append(changes, Patch(stored, config))
      /\ UNCHANGED <<marker, worker, sw, link, brokerUp, refused, faults>>
  BY DEF saveConfig
<1>3. /\ changes' \in Seq(Patches) /\ changes' # <<>> /\ ChangesFollow'
      /\ \A c : DOMAIN c \subseteq {"url", "token"} =>
           (Follows(c) =>
              \A k \in DOMAIN c :
                (\A i \in DOMAIN changes' : k \notin DOMAIN changes'[i]) => c[k] = stored'[k])
  BY <1>1, <1>2, SavedFollows
<1>4. config \in Config /\ Valid(config)
  BY LinkAssumption DEF Config, Valid
<1>5. BrowserWorks' <=> BrowserWorks
  BY <1>2 DEF BrowserWorks
<1>6. saves' \in 0..MaxSaves
  BY <1>1, <1>2
<1>7. TypeOK'
  BY <1>1, <1>2, <1>3, <1>4, <1>6 DEF TypeOK
<1>8. LinkAgrees' /\ IdleUntilReady' /\ LatestApplies' /\ MarkerFollows'
  BY <1>2, <1>5 DEF Inv, LinkAgrees, SocketsAgree, Armed, isCurrentTokenRejected,
       IdleUntilReady, LatestApplies, MarkerFollows, EndsAsPersisted, Deferred
<1>9. StorageFollowed'
  <2>1. worker \in {"down", "loading"} =>
          \A k \in DOMAIN sw.patch :
            (\A i \in DOMAIN changes' : k \notin DOMAIN changes'[i]) => sw.patch[k] = stored'[k]
    BY <1>1, <1>3, PatchFields DEF Inv, StorageFollowed, WorkerVariables
  <2>2. worker \in {"syncing", "ready"} => sw.pending \in Config
    BY <1>1 DEF Inv, LatestApplies, WorkerVariables
  <2>3. sw.pending \in Config => DOMAIN sw.pending \subseteq {"url", "token"}
    BY DEF Config
  <2>4. worker \in {"syncing", "ready"} /\ BrowserWorks =>
          \A k \in DOMAIN sw.pending :
            (\A i \in DOMAIN changes' : k \notin DOMAIN changes'[i]) => sw.pending[k] = stored'[k]
    BY <1>3, <2>2, <2>3 DEF Inv, StorageFollowed
  <2> QED
    BY <1>2, <1>5, <2>1, <2>4 DEF Inv, StorageFollowed, Follows
<1>10. RefusalKept'
  BY <1>2, <1>3, <1>5 DEF Inv, RefusalKept
<1>11. SavedIsValid'
  BY <1>2, <1>4 DEF SavedIsValid
<1> QED
  BY <1>3, <1>7, <1>8, <1>9, <1>10, <1>11 DEF Inv

LEMMA NextInv == Inv /\ [Next]_vars => Inv'
<1> SUFFICES ASSUME Inv, [Next]_vars PROVE Inv'
  OBVIOUS
<1>1. CASE WorkerSteps
  BY <1>1, LoadKeeps, TabsSyncedKeeps, StorageChangedKeeps, WriteMarkerKeeps, TimerFiresKeeps,
     AlarmFiresKeeps, WakeUpKeeps DEF WorkerSteps
<1>2. CASE Suspend \/ Terminate \/ HeartbeatFails \/ BrokerStarts \/ BrokerEnds
  BY <1>2, SuspendKeeps, TerminateKeeps, HeartbeatFailsKeeps, BrokerStartsKeeps, BrokerEndsKeeps
<1>3. ASSUME NEW c \in Sockets, SocketSteps(c) \/ ConnectionDrops(c)
      PROVE  Inv'
  BY <1>3, ArrivalKeeps, OpensKeeps, OnWelcomeKeeps, OnStrangeWelcomeKeeps, OnAuthFailedKeeps,
     OnCloseKeeps DEF SocketSteps
<1>4. ASSUME NEW config \in [url : Urls, token : Tokens], saveConfig(config)
      PROVE  Inv'
  BY <1>4, saveConfigKeeps
<1>5. CASE UNCHANGED vars
  <2>1. /\ stored' = stored /\ changes' = changes /\ marker' = marker /\ worker' = worker
        /\ sw' = sw /\ link' = link /\ brokerUp' = brokerUp /\ refused' = refused
        /\ saves' = saves /\ faults' = faults
    BY <1>5 DEF vars
  <2>2. LinkAgrees /\ TypeOK
    BY DEF Inv
  <2> QED
    BY <2>1, <2>2, LinkStep DEF LinkAgrees, TypeOK, Faults
<1> QED
  BY <1>1, <1>2, <1>3, <1>4, <1>5 DEF Next
-----------------------------------------------------------------------------
(* Theorems                                                                  *)

\* Every state of a run satisfies the inductive invariant.
THEOREM Invariance == Spec => []Inv
BY InitInv, NextInv, PTL DEF Spec

\* The worker, its client and the storage keep their types: changes name valid values,
\* and the client's state, sockets and timers stay within what the code distinguishes.
THEOREM TypeCorrect == Spec => []TypeOK
<1>1. Inv => TypeOK
  BY DEF Inv
<1> QED
  BY <1>1, Invariance, PTL

\* Whatever dropped connections, failed heartbeats, suspended workers, ended Brokers and
\* changed configurations there are: the client never has two sockets a Broker could take
\* for its extension, and when no change is under way one that may connect does, or has a
\* timer set (connect, handleReconnect, replaceConfig, recoverFromHeartbeatFailure).
THEOREM OneAttemptAlways == Spec => []OneAttempt
<1>1. ASSUME Inv PROVE OneLiveSocket
  <2> DEFINE S == {c \in Sockets : link.socket[c].st \in Live}
  <2>1. S \subseteq {link.ws}
    BY <1>1 DEF Inv, LinkAgrees, SocketsAgree
  <2>2. IsFiniteSet({link.ws}) /\ Cardinality({link.ws}) = 1
    BY FS_Singleton
  <2>3. Cardinality(S) <= 1
    BY <2>1, <2>2, FS_Subset
  <2> QED
    BY <2>3 DEF OneLiveSocket
<1>2. ASSUME Inv PROVE RecoveryArmed
  <2> SUFFICES ASSUME Quiescent, sw.valid, ~isCurrentTokenRejected(link), ~link.gaveUp
               PROVE  link.ws # None \/ link.timer
    BY DEF RecoveryArmed
  <2>1. Deferred = {} /\ worker = "ready"
    BY DEF Quiescent, Deferred
  <2>2. link.config = sw.pending /\ Valid(sw.pending)
    BY <1>2, <2>1 DEF Inv, LatestApplies, Effective
  <2> QED
    BY <1>2, <2>2 DEF Inv, LinkAgrees, Armed
<1>3. Inv => OneAttempt
  BY <1>1, <1>2 DEF OneAttempt
<1> QED
  BY <1>3, Invariance, PTL

\* A token a Broker has refused is not presented again while it stays configured, across
\* changes back and forth, writes of the marker still queued, and restarts of the worker
\* (enterAuthFailed, restoreRejectedToken, applyConnectionConfig, initialize).
THEOREM RefusedNotRetried == Spec => []NoRetryOfRefused
<1>1. ASSUME Inv PROVE NoRetryOfRefused
  <2> SUFFICES ASSUME sw.patch = NoPatch, BrowserWorks, link.ws # None
               PROVE  link.config.token # refused
    BY DEF NoRetryOfRefused, RoundTripSuppressed
  <2>1. ~isCurrentTokenRejected(link) /\ link.config.token \in Tokens \cup {None}
    BY <1>1 DEF Inv, TypeOK, Link, Config, LinkAgrees, SocketsAgree
  <2>2. worker = "ready"
    BY <1>1, LinkUsed DEF Inv, IdleUntilReady, Used
  <2>3. CASE refused = Null
    BY <2>1, <2>3, LinkAssumption
  <2>4. CASE refused # Null
    <3>1. link.config.token = refused /\ link.rejected = refused
      BY <1>1, <2>2, <2>4 DEF Inv, RefusalKept
    <3> QED
      BY <2>1, <2>4, <3>1 DEF isCurrentTokenRejected
  <2> QED
    BY <2>3, <2>4
<1>2. Inv => NoRetryOfRefused
  BY <1>1
<1> QED
  BY <1>2, Invariance, PTL

\* When no change is under way the client has the stored configuration, and when the
\* queued writes are done the marker in the storage is the token it suppresses
\* (applyConnectionConfig, whose applications supersede one another, and the patch of a
\* worker that is still starting).
THEOREM StorageMatched == Spec => []WorkerMatchesStorage
<1>1. ASSUME Inv PROVE LatestConfigWins
  <2> SUFFICES ASSUME BrowserWorks, Quiescent
               PROVE  link.config = Effective(stored)
    BY DEF LatestConfigWins, Effective
  <2>1. Deferred = {} /\ worker = "ready" /\ changes = <<>>
    BY DEF Quiescent, Deferred
  <2>2. link.config = Effective(sw.pending) /\ sw.pending # None /\ Follows(sw.pending)
    BY <1>1, <2>1 DEF Inv, LatestApplies, StorageFollowed
  <2>3. sw.pending \in Config /\ stored \in Config
    BY <1>1, <2>2 DEF Inv, TypeOK, WorkerVariables
  <2>4. sw.pending = stored
    BY <2>1, <2>2, <2>3, AllHeard
  <2> QED
    BY <2>2, <2>4
<1>2. ASSUME Inv PROVE MarkerMatches
  <2> SUFFICES ASSUME BrowserWorks, Quiescent, sw.writes = <<>>
               PROVE  /\ marker = AsRead(sw.persisted)
                      /\ isCurrentTokenRejected(link) => marker = link.rejected
    BY DEF MarkerMatches
  <2>1. Deferred = {} /\ worker = "ready"
    BY DEF Quiescent, Deferred
  <2>2. marker = AsRead(sw.persisted)
    BY <1>2, <2>1 DEF Inv, MarkerFollows, EndsAsPersisted
  <2>3. ASSUME isCurrentTokenRejected(link) PROVE marker = link.rejected
    <3>1. link.config = Effective(sw.pending) /\ link.rejected = sw.persisted
      BY <1>2, <2>1, <2>3 DEF Inv, LatestApplies, MarkerFollows
    <3>2. Valid(link.config) /\ link.config.token = link.rejected
      BY <1>2, <2>3, <3>1 DEF Inv, LinkAgrees, SocketsAgree, Effective, isCurrentTokenRejected
    <3> QED
      BY <2>2, <3>1, <3>2 DEF Valid, AsRead
  <2> QED
    BY <2>2, <2>3
<1>3. Inv => WorkerMatchesStorage
  BY <1>1, <1>2 DEF WorkerMatchesStorage
<1> QED
  BY <1>3, Invariance, PTL
=============================================================================
