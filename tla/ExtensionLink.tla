---------------------------- MODULE ExtensionLink ----------------------------
(***************************************************************************)
(* The extension's end of the connection: the WebSocketClient of           *)
(* extension/src/background/websocket-client.ts, the part of               *)
(* service-worker.ts that configures it, wakes it up and remembers the     *)
(* token a Broker refused, and the popup that saves a configuration.       *)
(*                                                                         *)
(* Generations: a socket's handlers act only while connectionGeneration is *)
(* the one the socket was opened in.  Every operation that increments it   *)
(* also gives up this.ws, and connect() sets both, so "same generation" is *)
(* "this.ws is this socket".  Whatever increments the generation finds or  *)
(* leaves no reconnect timer of an older one, so the timer is a flag.      *)
(* Delays, and with them the number of attempts, are left out: a timer may *)
(* fire whenever it is set.                                                *)
(***************************************************************************)
EXTENDS Naturals, Sequences, FiniteSets

CONSTANTS
  Urls,          \* valid endpoints
  Tokens,        \* valid tokens
  GoodTokens,    \* those the Broker accepts
  StrangeUrls,   \* endpoints whose welcome names another protocol version
  DefaultUrl,    \* the endpoint of a client that has not been configured
  Sockets,       \* identities of sockets, used again once they are gone
  MaxSaves,      \* bound on the changes of the configuration
  MaxFaults,     \* bound on dropped connections, ended workers, ended Brokers
                 \* and failing calls of chrome.storage and chrome.tabs
  None,          \* no value, and an invalid URL or token
  Null           \* no refused token: an invalid one may be refused, too

ASSUME LinkAssumption ==
  /\ GoodTokens \subseteq Tokens
  /\ StrangeUrls \subseteq Urls /\ DefaultUrl \in Urls
  /\ IsFiniteSet(Sockets)
  /\ MaxSaves \in Nat /\ MaxFaults \in Nat
  /\ None \notin Urls \cup Tokens \cup Sockets
  /\ Null \notin Tokens \cup {None}
  /\ None \notin [url : Urls \cup {None}, token : Tokens \cup {None}]

VARIABLES
  stored,    \* the configuration in chrome.storage.local
  changes,   \* changes of it the worker has not heard of
  marker,    \* the refused token in chrome.storage.session
  worker,    \* the service worker: down, loading, syncing, ready or stuck
  sw,        \* its variables
  link,      \* its WebSocketClient, the alarm, and the sockets
  brokerUp,  \* whether a Broker listens
  refused,   \* the token a Broker has refused last and that is still in use
  saves,     \* changes of the configuration so far
  faults     \* faults so far, the browser's and the others

vars == <<stored, changes, marker, worker, sw, link, brokerUp, refused, saves, faults>>

Config == [url : Urls \cup {None}, token : Tokens \cup {None}]
NoConfig == [url |-> None, token |-> None]
DefaultConfig == [url |-> DefaultUrl, token |-> None]
Valid(config) == config.url /= None /\ config.token /= None

\* A change names the keys whose values have changed.
Patch(old, new) == [k \in {x \in {"url", "token"} : old[x] /= new[x]} |-> new[k]]
NoPatch == [k \in {} |-> None]
Patches ==
  {p \in UNION {[keys -> Urls \cup Tokens] : keys \in SUBSET {"url", "token"}} :
     /\ "url" \in DOMAIN p => p["url"] \in Urls
     /\ "token" \in DOMAIN p => p["token"] \in Tokens}

\* { ...config, ...patch }
Patched(config, patch) ==
  [k \in DOMAIN config \cup DOMAIN patch |-> IF k \in DOMAIN patch THEN patch[k] ELSE config[k]]

(***************************************************************************)
(* A socket: opening; open (hello sent); answered by a welcome, a welcome  *)
(* of another version or AUTH_FAILED that is still under way; up; lost     *)
(* (the close event is still to come); closing (the client closed it).     *)
(***************************************************************************)
Live == {"opening", "open", "welcomed", "strange", "refused", "up"}
Socket == [st : {"none", "lost", "closing"} \cup Live, config : Config]
NoSocket == [st |-> "none", config |-> NoConfig]

\* handshakeComplete is shaken, connectPromise /= null is connecting;
\* gaveUp: the last handshake failed for good (failHandshake).
Link ==
  [config : Config, rejected : Tokens \cup {None, Null},
   state : {"idle", "connecting", "connected", "auth_failed"},
   ws : Sockets \cup {None}, connecting : BOOLEAN, shaken : BOOLEAN,
   timer : BOOLEAN, alarm : BOOLEAN, intentional : BOOLEAN, gaveUp : BOOLEAN,
   socket : [Sockets -> Socket]]

\* writes: queued writes of the marker; then is the application of a
\* configuration that goes on after the write, unless it has been superseded.
Write == [token : Tokens \cup {None, Null}, then : Config \cup {None}]
WorkerVariables ==
  [pending : Config \cup {None}, patch : Patches, valid : BOOLEAN,
   persisted : Tokens \cup {None, Null}, writes : Seq(Write)]
\* An invalid token in the storage is read as no marker.
AsRead(token) == IF token = None THEN Null ELSE token

NewWorker ==
  [pending |-> None, patch |-> NoPatch, valid |-> FALSE, persisted |-> Null,
   writes |-> <<>>]

NewLink(alarm) ==
  [config |-> DefaultConfig, rejected |-> Null, state |-> "idle", ws |-> None,
   connecting |-> FALSE, shaken |-> FALSE, timer |-> FALSE, alarm |-> alarm,
   intentional |-> FALSE, gaveUp |-> FALSE, socket |-> [c \in Sockets |-> NoSocket]]

TypeOK ==
  /\ stored \in Config
  /\ changes \in Seq(Patches)
  /\ marker \in Tokens \cup {Null}
  /\ worker \in {"down", "loading", "syncing", "ready", "stuck"}
  /\ sw \in WorkerVariables
  /\ link \in Link
  /\ brokerUp \in BOOLEAN
  /\ refused \in Tokens \cup {None, Null}
  /\ saves \in 0..MaxSaves
  /\ faults \in [browser : 0..MaxFaults, outside : 0..MaxFaults]

Init ==
  /\ stored \in Config
  /\ changes = <<>>
  /\ marker = Null
  /\ worker = "loading"
  /\ sw = NewWorker
  /\ link = NewLink(FALSE)
  /\ brokerUp \in BOOLEAN
  /\ refused = Null
  /\ saves = 0
  /\ faults = [browser |-> 0, outside |-> 0]

Fault(kind) == /\ faults.browser + faults.outside < MaxFaults
               /\ faults' = [faults EXCEPT ![kind] = @ + 1]

-----------------------------------------------------------------------------
(* WebSocketClient: each operation as the client it leaves behind.         *)

Connected(k) == k.shaken /\ k.ws /= None /\ k.socket[k.ws].st = "up"
isCurrentTokenRejected(k) == k.rejected /= Null /\ k.config.token = k.rejected

Closed(k) ==
  IF k.ws = None THEN k
  ELSE [k EXCEPT !.socket[k.ws].st = "closing", !.ws = None]

\* What every way to end a connection does: the socket closes, no timer and
\* no alarm is left, and whoever waits for connect() hears of it.
Dropped(k) ==
  [Closed(k) EXCEPT !.shaken = FALSE, !.connecting = FALSE,
                    !.timer = FALSE, !.alarm = FALSE]

Settled(k) ==
  [k EXCEPT !.state = IF isCurrentTokenRejected(k) THEN "auth_failed" ELSE "idle"]

replaceConfig(k, config) ==
  Settled([Dropped(k) EXCEPT
    !.config = config, !.intentional = FALSE,
    !.rejected = IF Valid(config) /\ config.token = k.config.token THEN @ ELSE Null])

setConfig(k, config) ==
  LET new == IF Valid(config) THEN config ELSE NoConfig
  IN IF new = k.config THEN k ELSE replaceConfig(k, new)

disconnect(k) == Settled([Dropped(k) EXCEPT !.intentional = TRUE])

restoreRejectedToken(k, token) ==
  IF token = k.config.token THEN disconnect([k EXCEPT !.rejected = token]) ELSE k

CanOpen == \E c \in Sockets : link.socket[c].st = "none"
NewSocket(k) == CHOOSE c \in Sockets : k.socket[c].st = "none"

connect(k) ==
  IF Connected(k) \/ k.connecting THEN k
  ELSE IF k.config.url = None THEN [k EXCEPT !.state = "idle"]
  ELSE IF isCurrentTokenRejected(k) THEN [k EXCEPT !.state = "auth_failed"]
  ELSE [k EXCEPT !.ws = NewSocket(k), !.connecting = TRUE, !.state = "connecting",
                 !.timer = FALSE, !.intentional = FALSE, !.shaken = FALSE, !.gaveUp = FALSE,
                 !.socket[NewSocket(k)] = [st |-> "opening", config |-> k.config]]

handleReconnect(k) ==
  IF k.intentional \/ k.timer \/ isCurrentTokenRejected(k) THEN k
  ELSE [k EXCEPT !.timer = TRUE, !.alarm = TRUE]

\* A bug: a suspended client counts on the worker being started again.
suspendForGood(k) == [Dropped(k) EXCEPT !.state = "idle"]

prepareForSuspend(k) ==
  IF isCurrentTokenRejected(k)
  THEN [k EXCEPT !.timer = FALSE, !.alarm = FALSE, !.state = "auth_failed"]
  ELSE handleReconnect([Dropped(k) EXCEPT !.alarm = k.alarm, !.state = "idle"])

-----------------------------------------------------------------------------
(* The service worker.                                                     *)

connectClient(k, valid) == IF valid THEN connect(k) ELSE k

\* applyConnectionConfig from setConfig on.
Apply(w, config) ==
  LET k == setConfig(link, config)
      suppressed == w.persisted = config.token \/ isCurrentTokenRejected(k)
  IN /\ link' = IF ~w.valid THEN k
                ELSE IF suppressed THEN restoreRejectedToken(k, config.token)
                ELSE connectClient(k, TRUE)
     /\ sw' = IF w.valid /\ suppressed /\ w.persisted /= config.token
              THEN [w EXCEPT !.persisted = config.token,
                             !.writes = Append(@, [token |-> config.token, then |-> None])]
              ELSE w
     /\ refused' = IF link'.config.token \in {None, refused} THEN refused ELSE Null

\* A bug: an older application goes on where it waited.
NotSuperseded(writes) == writes

Superseded(writes) == [i \in DOMAIN writes |-> [writes[i] EXCEPT !.then = None]]

\* applyConnectionConfig: a newer call supersedes those that still wait for
\* the removal of the marker.
applyConnectionConfig(w, config) ==
  LET now == [w EXCEPT !.valid = Valid(config), !.writes = Superseded(@)]
  IN IF config.token /= None /\ w.persisted \notin {Null, config.token}
     THEN /\ sw' = [now EXCEPT !.persisted = Null,
                               !.writes = Append(@, [token |-> Null, then |-> config])]
          /\ UNCHANGED <<link, refused>>
     ELSE Apply(now, config)

\* A bug: the marker is not read.
LoadNoMarker ==
  /\ worker = "loading"
  /\ changes = <<>>
  /\ worker' = "syncing"
  /\ sw' = [sw EXCEPT !.pending = Patched(stored, sw.patch)]
  /\ UNCHANGED <<stored, changes, marker, link, brokerUp, refused, saves, faults>>

\* initialize: the configuration and the marker are read.  A failing read of
\* the one yields the default URL without a token, of the other no marker; one
\* fault stands for either or both.  Chrome announces a change before it
\* answers a read that reflects it.
Load ==
  /\ worker = "loading"
  /\ changes = <<>>
  /\ worker' = "syncing"
  /\ \E config \in {stored, DefaultConfig}, token \in {marker, Null} :
       /\ sw' = [sw EXCEPT !.pending = Patched(config, sw.patch), !.persisted = token]
       /\ IF config = stored /\ token = marker THEN UNCHANGED faults ELSE Fault("browser")
  /\ UNCHANGED <<stored, changes, marker, link, brokerUp, refused, saves>>

\* syncExistingTabs has ended; if it throws, initialize() ends with it.
TabsSynced ==
  /\ worker = "syncing"
  /\ CanOpen
  /\ \/ worker' = "ready" /\ applyConnectionConfig(sw, sw.pending) /\ UNCHANGED faults
     \/ Fault("browser") /\ worker' = "stuck" /\ UNCHANGED <<sw, link, refused>>
  /\ UNCHANGED <<stored, changes, marker, brokerUp, saves>>

\* chrome.storage.onChanged
StorageChanged ==
  /\ changes /= <<>>
  /\ worker \notin {"down"}
  /\ CanOpen
  /\ changes' = Tail(changes)
  /\ LET patched == Patched(sw.pending, Head(changes))
     IN IF worker = "ready"
        THEN applyConnectionConfig([sw EXCEPT !.pending = patched], patched)
        ELSE /\ sw' = [sw EXCEPT !.patch = Patched(@, Head(changes)),
                                 !.pending = IF @ = None THEN None ELSE patched]
             /\ UNCHANGED <<link, refused>>
  /\ UNCHANGED <<stored, marker, worker, brokerUp, saves, faults>>

\* The next write of the rejection marker is done; its failure is logged.
WriteMarker ==
  /\ worker /= "down" /\ sw.writes /= <<>>
  /\ CanOpen
  /\ \/ marker' = AsRead(Head(sw.writes).token) /\ UNCHANGED faults
     \/ Fault("browser") /\ marker' = marker
  /\ LET rest == [sw EXCEPT !.writes = Tail(@)]
         config == Head(sw.writes).then
     IN IF config = None
        THEN sw' = rest /\ UNCHANGED <<link, refused>>
        ELSE Apply(rest, config)
  /\ UNCHANGED <<stored, changes, worker, brokerUp, saves>>

\* The reconnect timer of handleReconnect.
TimerFires ==
  /\ link.timer /\ CanOpen
  /\ link' = LET k == [link EXCEPT !.timer = FALSE]
             IN IF k.intentional \/ isCurrentTokenRejected(k) THEN k ELSE connect(k)
  /\ UNCHANGED <<stored, changes, marker, worker, sw, brokerUp, refused, saves, faults>>

\* The ws-reconnect alarm, in a worker that is there.
AlarmFires ==
  /\ link.alarm /\ worker /= "down" /\ CanOpen
  /\ link' = LET k == [link EXCEPT !.alarm = FALSE]
             IN IF worker = "ready" /\ sw.valid /\ ~Connected(k) /\ ~isCurrentTokenRejected(k)
                THEN connectClient(k, sw.valid)
                ELSE k
  /\ UNCHANGED <<stored, changes, marker, worker, sw, brokerUp, refused, saves, faults>>

\* An alarm (keepAlive comes every minute), a change of the configuration or
\* any other event starts the worker.
WakeUp ==
  /\ worker = "down"
  /\ worker' = "loading"
  /\ link' \in {[link EXCEPT !.alarm = a] : a \in {FALSE, link.alarm}}
  /\ UNCHANGED <<stored, changes, marker, sw, brokerUp, refused, saves, faults>>

\* Chrome suspends an idle worker, not one that waits for an answer of
\* chrome.storage or chrome.tabs.  One whose initialize() has thrown is idle,
\* too: its client then tries the default URL with the empty token.
Suspend ==
  /\ Fault("outside")
  /\ worker \in {"ready", "stuck"} /\ sw.writes = <<>>
  /\ link' = prepareForSuspend(link)
  /\ UNCHANGED <<stored, changes, marker, worker, sw, brokerUp, refused, saves>>

\* Chrome ends the worker, after onSuspend or without it.  Only the alarm and
\* what has been written to the storage are left.
Terminate ==
  /\ Fault("outside")
  /\ worker /= "down"
  /\ worker' = "down"
  /\ sw' = NewWorker
  /\ link' = NewLink(link.alarm)
  /\ refused' = IF marker = refused /\ stored.token = refused /\ changes = <<>> THEN refused ELSE Null
  /\ UNCHANGED <<stored, changes, marker, brokerUp, saves>>

-----------------------------------------------------------------------------
(* The sockets.                                                            *)

IsCurrent(c) == link.ws = c
BecomesOf(c, st) == link' = [link EXCEPT !.socket[c].st = st]
OnlyLink == UNCHANGED <<stored, changes, marker, worker, sw, brokerUp, refused, saves, faults>>

\* onopen: the hello goes out.
Opens(c) ==
  /\ link.socket[c].st = "opening" /\ brokerUp
  /\ link' = [link EXCEPT !.socket[c].st = "open",
                          !.intentional = IF IsCurrent(c) THEN FALSE ELSE @]
  /\ OnlyLink

CannotConnect(c) ==
  /\ link.socket[c].st = "opening" /\ ~brokerUp
  /\ BecomesOf(c, "lost")
  /\ OnlyLink

BrokerAnswers(c) ==
  /\ link.socket[c].st = "open" /\ brokerUp
  /\ BecomesOf(c, IF link.socket[c].config.token \notin GoodTokens THEN "refused"
                  ELSE IF link.socket[c].config.url \in StrangeUrls THEN "strange"
                  ELSE "welcomed")
  /\ OnlyLink

OnWelcome(c) ==
  /\ link.socket[c].st = "welcomed"
  /\ link' = IF IsCurrent(c)
             THEN [link EXCEPT !.socket[c].st = "up", !.shaken = TRUE, !.connecting = FALSE,
                               !.state = "connected", !.timer = FALSE, !.alarm = FALSE]
             ELSE [link EXCEPT !.socket[c].st = "up"]
  /\ OnlyLink

\* failHandshake
OnStrangeWelcome(c) ==
  /\ link.socket[c].st = "strange"
  /\ link' = IF IsCurrent(c)
             THEN [Dropped(link) EXCEPT !.state = "idle", !.gaveUp = TRUE]
             ELSE [link EXCEPT !.socket[c].st = "closing"]
  /\ OnlyLink

\* onclose with AUTH_FAILED: enterAuthFailed
OnAuthFailed(c) ==
  /\ link.socket[c].st = "refused"
  /\ LET gone == [link EXCEPT !.socket[c] = NoSocket]
         token == link.config.token
     IN IF IsCurrent(c)
        THEN /\ link' = [gone EXCEPT !.ws = None, !.shaken = FALSE, !.connecting = FALSE,
                           !.timer = FALSE, !.alarm = FALSE,
                           !.rejected = token, !.state = "auth_failed"]
             /\ sw' = [sw EXCEPT !.persisted = token,
                                 !.writes = Append(@, [token |-> token, then |-> None])]
             /\ refused' = token
        ELSE link' = gone /\ UNCHANGED <<sw, refused>>
  /\ UNCHANGED <<stored, changes, marker, worker, brokerUp, saves, faults>>

\* onclose of any other kind
OnClose(c) ==
  /\ link.socket[c].st \in {"lost", "closing"}
  /\ LET gone == [link EXCEPT !.socket[c] = NoSocket]
     IN link' = IF IsCurrent(c) /\ ~link.intentional
                THEN handleReconnect([gone EXCEPT !.ws = None, !.shaken = FALSE,
                                        !.connecting = FALSE, !.state = "idle"])
                ELSE gone
  /\ OnlyLink

\* A bug: handleReconnect gets the generation from before the failure.
HeartbeatFailsOldGeneration ==
  /\ Fault("outside")
  /\ Connected(link)
  /\ link' = [Closed(link) EXCEPT !.shaken = FALSE, !.state = "idle"]
  /\ UNCHANGED <<stored, changes, marker, worker, sw, brokerUp, refused, saves>>

\* recoverFromHeartbeatFailure: the send of a heartbeat throws.
HeartbeatFails ==
  /\ Fault("outside")
  /\ Connected(link)
  /\ link' = handleReconnect([Closed(link) EXCEPT !.shaken = FALSE, !.state = "idle"])
  /\ UNCHANGED <<stored, changes, marker, worker, sw, brokerUp, refused, saves>>

ConnectionDrops(c) ==
  /\ Fault("outside")
  /\ link.socket[c].st \in Live
  /\ BecomesOf(c, "lost")
  /\ UNCHANGED <<stored, changes, marker, worker, sw, brokerUp, refused, saves>>

-----------------------------------------------------------------------------
(* The Broker and the user.                                                *)

BrokerStarts ==
  /\ ~brokerUp
  /\ brokerUp' = TRUE
  /\ UNCHANGED <<stored, changes, marker, worker, sw, link, refused, saves, faults>>

BrokerEnds ==
  /\ Fault("outside")
  /\ brokerUp
  /\ brokerUp' = FALSE
  /\ link' = [link EXCEPT !.socket = [c \in Sockets |->
       IF @[c].st \in Live THEN [@[c] EXCEPT !.st = "lost"] ELSE @[c]]]
  /\ UNCHANGED <<stored, changes, marker, worker, sw, refused, saves>>

\* saveConfig of the popup, which saves valid pairs only; an unchanged pair
\* changes nothing.
saveConfig(config) ==
  /\ saves < MaxSaves
  /\ config /= stored
  /\ stored' = config
  /\ changes' = Append(changes, Patch(stored, config))
  /\ saves' = saves + 1
  /\ UNCHANGED <<marker, worker, sw, link, brokerUp, refused, faults>>

-----------------------------------------------------------------------------
WorkerSteps ==
  Load \/ TabsSynced \/ StorageChanged \/ WriteMarker \/ TimerFires \/ AlarmFires \/ WakeUp

SocketSteps(c) ==
  \/ Opens(c) \/ CannotConnect(c) \/ BrokerAnswers(c)
  \/ OnWelcome(c) \/ OnStrangeWelcome(c) \/ OnAuthFailed(c) \/ OnClose(c)

Next ==
  \/ WorkerSteps \/ Suspend \/ Terminate \/ HeartbeatFails
  \/ BrokerStarts \/ BrokerEnds
  \/ \E c \in Sockets : SocketSteps(c) \/ ConnectionDrops(c)
  \/ \E config \in [url : Urls, token : Tokens] : saveConfig(config)

Spec == Init /\ [][Next]_vars

\* Chrome runs the handlers of events and fires timers and alarms; the
\* network delivers.  Nothing is assumed of faults, users and Brokers.
FairSpec ==
  /\ Spec
  /\ WF_vars(Load) /\ WF_vars(TabsSynced) /\ WF_vars(StorageChanged)
  /\ WF_vars(WriteMarker) /\ WF_vars(TimerFires) /\ WF_vars(AlarmFires) /\ WF_vars(WakeUp)
  /\ \A c \in Sockets : WF_vars(SocketSteps(c))

-----------------------------------------------------------------------------
(* Properties                                                              *)

\* Nothing that changes the configuration is under way.
Quiescent ==
  /\ worker = "ready" /\ changes = <<>>
  /\ \A i \in DOMAIN sw.writes : sw.writes[i].then = None

BrowserWorks == faults.browser = 0

\* A token the Broker has refused is not presented again before another one
\* has taken its place, however fast the token is changed and changed back,
\* also after a restart of the worker, if the refusal had been stored by then
\* and no change was under way (rejectedToken and its marker).  Not so by itself:
\* two quick changes while a worker starts make it try once more.
RoundTripSuppressed == BrowserWorks /\ link.ws /= None => link.config.token /= refused

\* The same for a worker whose configuration did not change while it started.
NoRetryOfRefused == sw.patch = NoPatch => RoundTripSuppressed

\* When no change is under way any more, the client has the stored
\* configuration: a superseded application of an older one, or one patched
\* into a worker that was still starting, has not prevailed
\* (applyConnectionConfig).
LatestConfigWins ==
  BrowserWorks /\ Quiescent => link.config = IF Valid(stored) THEN stored ELSE NoConfig

\* A client that may connect and does not is about to try again.
RecoveryArmed ==
  Quiescent /\ sw.valid /\ ~isCurrentTokenRejected(link) /\ ~link.gaveUp
    => link.ws /= None \/ link.timer

\* The client never has two sockets the Broker could take for its extension.
OneLiveSocket == Cardinality({c \in Sockets : link.socket[c].st \in Live}) <= 1

\* Both: there is one attempt to be connected, neither none nor two.
OneAttempt == RecoveryArmed /\ OneLiveSocket

\* What the storage remembers is what the worker does: when all writes are
\* done, the marker is the token the client suppresses.
MarkerMatches ==
  BrowserWorks /\ Quiescent /\ sw.writes = <<>> =>
    /\ marker = AsRead(sw.persisted)
    /\ isCurrentTokenRejected(link) => marker = link.rejected

\* Not so: only a saved configuration is presented.  While a worker that starts waits
\* for the removal of an old marker its client is the default one, and the
\* reconnect alarm makes it connect (AlarmFires), although the browser works.
ConfiguredOnly == BrowserWorks /\ link.ws /= None => Valid(link.config)

\* Both: the worker ends up with the configuration and the refusal that are
\* stored, so that its successor goes on with them (applyConnectionConfig).
WorkerMatchesStorage == LatestConfigWins /\ MarkerMatches

\* Once a Broker stays up and the configuration it accepts stays saved, the
\* extension gets connected, whatever has happened before, unless the browser
\* has failed a call (handleReconnect, the alarm, recoverFromHeartbeatFailure).
EventuallyConnected ==
  <>[](BrowserWorks /\ brokerUp /\ stored.url \in Urls \ StrangeUrls /\ stored.token \in GoodTokens)
    => <>[]Connected(link)
=============================================================================
