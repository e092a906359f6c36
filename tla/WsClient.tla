------------------------------ MODULE WsClient ------------------------------
(***************************************************************************)
(* The phone's connection to the core, apps/android/src/wsClient.ts, with  *)
(* the sockets it creates.  A socket is a number, in the order of          *)
(* creation; a socket that is dropped for want of heartbeats is not        *)
(* closed, so several may be connecting or open at once.                   *)
(*                                                                         *)
(* One tick is a second.  MaxDrops bounds the calls of handleDrop that     *)
(* schedule a reconnect.                                                   *)
(***************************************************************************)
EXTENDS Timer, FiniteSets

CONSTANTS HeartbeatTimeout, MaxDrops

ASSUME WsClientAssumption == HeartbeatTimeout \in Nat \ {0} /\ MaxDrops \in Nat \ {0}

VARIABLES
    phase,          \* of each socket
    created,        \* sockets created
    socket,         \* this.socket; NoSocket is null
    hasOpened, attempt, stopped,
    heartbeatTimer,
    drops,          \* reconnects scheduled; this.reconnectTimer is the last of them
    reconnect,      \* the timer of each: one that is overwritten still runs
    reported,       \* the last state given to onStateChange
    greeted         \* sockets on which hello was sent

wsClientVars == <<phase, created, socket, hasOpened, attempt, stopped, heartbeatTimer,
          drops, reconnect, reported, greeted>>

NoSocket == 0
Sockets == 1 .. (MaxDrops + 1)
Phases == {"unborn", "connecting", "open", "closing", "closed"}
ConnectionState == {"connecting", "connected", "tunnel-down", "server-down"}

\* It doubles from one second up to the cap of 30.
NextBackoff(n) == IF n < 5 THEN <<1, 2, 4, 8, 16>>[n + 1] ELSE 30

\* A new client on which connect() has been called: the mount effect of App.tsx.
ClientInit ==
    /\ phase = [s \in Sockets |-> IF s = 1 THEN "connecting" ELSE "unborn"]
    /\ created = 1 /\ socket = 1
    /\ hasOpened = FALSE /\ attempt = 0 /\ stopped = FALSE
    /\ heartbeatTimer = Off
    /\ drops = 0 /\ reconnect = [d \in 1 .. MaxDrops |-> Off]
    /\ reported = "connecting"
    /\ greeted = {}

ResetHeartbeatDeadline == heartbeatTimer' = HeartbeatTimeout

-----------------------------------------------------------------------------

\* Mutant: a drop is acted on only if no reconnect was ever scheduled.
DropsOnce(reason) ==
    IF stopped \/ drops > 0
    THEN UNCHANGED <<heartbeatTimer, reported, attempt, drops, reconnect>>
    ELSE /\ heartbeatTimer' = Off
         /\ reported' = reason
         /\ attempt' = attempt + 1
         /\ drops' = drops + 1
         /\ reconnect' = [reconnect EXCEPT ![drops + 1] = NextBackoff(attempt)]

\* Mutant: after two attempts the failure is only reported.
GivesUpAfterTwo(reason) ==
    IF stopped
    THEN UNCHANGED <<heartbeatTimer, reported, attempt, drops, reconnect>>
    ELSE /\ drops < MaxDrops
         /\ heartbeatTimer' = Off
         /\ reported' = reason
         /\ attempt' = attempt + 1
         /\ drops' = drops + 1
         /\ reconnect' = IF attempt < 2
                         THEN [reconnect EXCEPT ![drops + 1] = NextBackoff(attempt)]
                         ELSE reconnect

HandleDrop(reason) ==
    IF stopped
    THEN UNCHANGED <<heartbeatTimer, reported, attempt, drops, reconnect>>
    ELSE /\ drops < MaxDrops
         /\ heartbeatTimer' = Off
         /\ reported' = reason
         /\ attempt' = attempt + 1
         /\ drops' = drops + 1
         /\ reconnect' = [reconnect EXCEPT ![drops + 1] = NextBackoff(attempt)]

\* onclose, at any time: the reason is the client's last connection's, not s's.
Closes(s) ==
    /\ phase[s] \in {"connecting", "open", "closing"}
    /\ phase' = [phase EXCEPT ![s] = "closed"]
    /\ HandleDrop(IF hasOpened THEN "server-down" ELSE "tunnel-down")
    /\ UNCHANGED <<created, socket, hasOpened, stopped, greeted>>

HeartbeatTimerFires ==
    /\ Due(heartbeatTimer)
    /\ HandleDrop("server-down")
    /\ UNCHANGED <<phase, created, socket, hasOpened, stopped, greeted>>

\* onopen: hello goes to this.socket, and send throws on one that is not open.
Opens(s) ==
    /\ phase[s] = "connecting"
    /\ phase' = [phase EXCEPT ![s] = "open"]
    /\ hasOpened' = TRUE
    /\ attempt' = 0
    /\ reported' = "connected"
    /\ ResetHeartbeatDeadline
    /\ greeted' = IF socket # NoSocket /\ (phase')[socket] = "open"
                  THEN greeted \cup {socket}
                  ELSE greeted
    /\ UNCHANGED <<created, socket, stopped, drops, reconnect>>

\* onmessage; the frame's own effects are the application's.
Receives(s) ==
    /\ phase[s] \in {"open", "closing"}
    /\ ~stopped
    /\ ResetHeartbeatDeadline
    /\ UNCHANGED <<phase, created, socket, hasOpened, attempt, stopped, drops,
                   reconnect, reported, greeted>>

\* connect, called back by the d-th reconnect timer.
Reconnects(d) ==
    /\ Due(reconnect[d])
    /\ reconnect' = [reconnect EXCEPT ![d] = Off]
    /\ stopped' = FALSE
    /\ hasOpened' = FALSE
    /\ reported' = "connecting"
    /\ created' = created + 1
    /\ socket' = created + 1
    /\ phase' = [phase EXCEPT ![created + 1] = "connecting"]
    /\ UNCHANGED <<attempt, heartbeatTimer, drops, greeted>>

\* The unmount effect of App.tsx.
Disconnect ==
    /\ ~stopped
    /\ stopped' = TRUE
    /\ heartbeatTimer' = Off
    /\ reconnect' = IF drops = 0 THEN reconnect ELSE [reconnect EXCEPT ![drops] = Off]
    /\ phase' = [phase EXCEPT ![socket] = IF @ = "closed" THEN @ ELSE "closing"]
    /\ socket' = NoSocket
    /\ UNCHANGED <<created, hasOpened, attempt, drops, reported, greeted>>

ClientTick ==
    /\ heartbeatTimer' = Elapse(heartbeatTimer)
    /\ reconnect' = [d \in DOMAIN reconnect |-> Elapse(reconnect[d])]
    /\ UNCHANGED <<phase, created, socket, hasOpened, attempt, stopped, drops, reported, greeted>>

SocketEvent(s) == Opens(s) \/ Closes(s) \/ Receives(s)

ClientNext ==
    \/ \E s \in Sockets : SocketEvent(s)
    \/ \E d \in DOMAIN reconnect : Reconnects(d)
    \/ HeartbeatTimerFires
    \/ Disconnect
    \/ ClientTick

\* The JavaScript runtime runs due callbacks; sockets may stay silent for ever.
ClientFairness ==
    /\ \A d \in 1 .. MaxDrops : WF_wsClientVars(Reconnects(d))
    /\ WF_wsClientVars(HeartbeatTimerFires)
    /\ WF_wsClientVars(ClientTick)

WsClientSpec == ClientInit /\ [][ClientNext]_wsClientVars /\ ClientFairness

-----------------------------------------------------------------------------

ClientTypeOK ==
    /\ phase \in [Sockets -> Phases]
    /\ created \in Sockets /\ socket \in Sockets \cup {NoSocket}
    /\ hasOpened \in BOOLEAN /\ stopped \in BOOLEAN
    /\ attempt \in 0 .. MaxDrops /\ drops \in 0 .. MaxDrops
    /\ heartbeatTimer \in Countdown(HeartbeatTimeout)
    /\ reconnect \in [1 .. MaxDrops -> Countdown(30)]
    /\ reported \in ConnectionState
    /\ greeted \subseteq Sockets

\* The reconnects that are pending.
Awaited == {d \in DOMAIN reconnect : Pending(reconnect[d])}

\* Every socket after the first is the answer to one drop: a drop, however it
\* is noticed, never starts two connections (wsClient.ts:119-125).
ClientInv ==
    /\ ClientTypeOK
    /\ created + Cardinality(Awaited) <= 1 + drops
    /\ stopped => socket = NoSocket

\* A client that has not been told to stop always has something that will move
\* it on: a socket whose opening or closing the platform will report, a deadline
\* on the silence of an open one, or a reconnect (wsClient.ts:52-87, 114-125).
NeverStranded ==
    ~stopped =>
        \/ phase[socket] = "connecting"
        \/ Pending(heartbeatTimer)
        \/ \E d \in DOMAIN reconnect : Pending(reconnect[d])

\* `connected' is shown only under a heartbeat deadline that can take it back,
\* also when sockets of earlier connections open, speak or close in between
\* (wsClient.ts:58-63, 114-121).
ConnectedIsSupervised ==
    reported = "connected" /\ ~stopped => Pending(heartbeatTimer)

\* The connection that frames go out on has been greeted once it is open, so the
\* core has answered or will answer it with a snapshot (wsClient.ts:57-63, 109-112).
CurrentIsGreeted == socket # NoSocket /\ phase[socket] = "open" => socket \in greeted

\* A reported failure is followed by a new attempt, unless the client is stopped
\* (wsClient.ts:119-125).
FailureIsRetried ==
    (reported \in {"tunnel-down", "server-down"})
        ~> (stopped \/ reported \in {"connecting", "connected"})

\* wsClient.test.ts:110: disconnect() stops all pending timers and prevents any
\* further reconnect attempts.
DisconnectIsFinal == [][stopped => created' = created]_wsClientVars

\* All of this at once, whichever socket's events come when: one connection per
\* drop, something always pending, a deadline behind every `connected' and a hello
\* on the connection in use (wsClient.ts:52-125).
ConnectionInv == ClientInv /\ NeverStranded /\ ConnectedIsSupervised /\ CurrentIsGreeted
=============================================================================
