---------------------------- MODULE PluginProofs ----------------------------
(***************************************************************************)
(* What holds of a plugin's worker for any restart budget, call timeout    *)
(* and number of calls, of the permission enforcer whatever arguments      *)
(* plugins come up with, and of what the plugins show on the phone for any *)
(* number of polls under way.                                              *)
(***************************************************************************)
EXTENDS WorkerHost, PluginPermissions, WidgetFeed, NowPlaying, FiniteSetTheorems, TLAPS

(***************************************************************************)
(* The permissions.                                                        *)
(***************************************************************************)

\* Only one rule of the allowlist lets a request through that changes the
\* display, and likewise for what plays, what is read and the network.
LEMMA RulesFit ==
  ASSUME NEW plugin, NEW request \in Requests, Allowed(plugin, request)
  PROVE  /\ Touches(request) = "display" => "sys:control-display" \in Granted(plugin)
         /\ Touches(request) = "media" => "sys:control-media" \in Granted(plugin)
         /\ Touches(request) = "stats" => "sys:read-stats" \in Granted(plugin)
         /\ Touches(request) = "net" => "net:api.weather" \in Granted(plugin)
<1>1. PICK rule \in Allowlist : /\ rule.permission \in Granted(plugin)
                                /\ rule.command = request.command /\ request.arg \in rule.args
  BY DEF Allowed, PermissionsFor
<1>2. /\ rule.command = "fetch" => rule.permission = "net:api.weather"
      /\ rule.command = "caffeinate" => rule.permission = "sys:control-display"
      /\ rule.command = "pgrep" => rule.permission = "sys:read-stats"
      /\ rule.command = "pmset" =>
            \/ rule.permission = "sys:read-stats" /\ rule.args = {"-g"}
            \/ rule.permission = "sys:control-display" /\ rule.args = {"displaysleepnow"}
      /\ rule.command = "nowplaying-cli" =>
            \/ rule.permission = "sys:read-stats" /\ rule.args = {"get"}
            \/ rule.permission = "sys:control-media" /\ rule.args = MediaActions
  BY DEF Allowlist, Rule
<1>3. "get" \notin MediaActions
  BY DEF MediaActions
<1>4. CASE request.command \in {"fetch", "caffeinate", "pgrep"}
  BY <1>1, <1>2, <1>4 DEF Touches, Request
<1>5. CASE request.command = "pmset"
  BY <1>1, <1>2, <1>5 DEF Touches, Request
<1>6. CASE request.command = "nowplaying-cli"
  BY <1>1, <1>2, <1>3, <1>6 DEF Touches, Request
<1>7. CASE request.command \notin {"fetch", "caffeinate", "pgrep", "pmset", "nowplaying-cli"}
  BY <1>1, <1>7 DEF Allowlist, Rule
<1>8. QED
  BY <1>4, <1>5, <1>6, <1>7

\* A plugin keeps to its permissions, whatever arguments it comes up with.
THEOREM KeepsToPermissionsHolds == PermissionsSpec => []KeepsToPermissions
<1> DEFINE Inv == touched \in [Plugins -> SUBSET {"net", "stats", "display", "media", "else"}]
                  /\ KeepsToPermissions
<1>1. PermissionsInit => Inv
  BY DEF PermissionsInit, KeepsToPermissions
<1>2. Inv /\ UNCHANGED permissionVars => Inv'
  BY DEF KeepsToPermissions, permissionVars
<1>3. ASSUME Inv, NEW p \in Plugins, NEW r \in Requests, Asks(p, r) PROVE Inv'
  <2>1. CASE Allowed(p, r)
    <3>1. touched' = [touched EXCEPT ![p] = @ \cup {Touches(r)}]
      BY <1>3, <2>1 DEF Asks
    <3>2. Touches(r) \in {"net", "stats", "display", "media", "else"}
      BY DEF Touches
    <3>3. QED
      BY <1>3, <2>1, <3>1, <3>2, RulesFit DEF KeepsToPermissions
  <2>2. CASE ~Allowed(p, r)
    BY <1>3, <2>2 DEF Asks, KeepsToPermissions
  <2>3. QED
    BY <2>1, <2>2
<1>4. Inv /\ [PermissionsNext]_permissionVars => Inv'
  BY <1>2, <1>3 DEF PermissionsNext
<1>5. QED
  BY <1>1, <1>4, PTL DEF PermissionsSpec

\* Each request that a plugin's source makes has its rule, and the rule its grant.
LEMMA OwnRequestsAreAllowed ==
  ASSUME NEW p \in Plugins, NEW r \in RequestsOf(p)
  PROVE  Allowed(p, r)
<1>1. SUFFICES \E rule \in Allowlist : /\ rule.permission \in Granted(p)
                                       /\ rule.command = r.command /\ r.arg \in rule.args
  BY DEF Allowed, PermissionsFor
<1>2. /\ Rule("net:api.weather", "fetch", Anything) \in Allowlist
      /\ Rule("sys:read-stats", "pmset", {"-g"}) \in Allowlist
      /\ Rule("sys:read-stats", "nowplaying-cli", {"get"}) \in Allowlist
      /\ Rule("sys:read-stats", "pgrep", {"-i"}) \in Allowlist
      /\ Rule("sys:control-display", "pmset", {"displaysleepnow"}) \in Allowlist
      /\ Rule("sys:control-display", "caffeinate", Anything) \in Allowlist
      /\ Rule("sys:control-media", "nowplaying-cli", MediaActions) \in Allowlist
  BY DEF Allowlist
<1>3. r.arg \in Anything
  BY DEF Anything, Requests
<1>4. CASE p = "weather"
  <2>1. r.command = "fetch" /\ "net:api.weather" \in Granted(p)
    BY <1>4 DEF RequestsOf, Request, Granted
  <2>2. QED
    BY <1>2, <1>3, <2>1 DEF Rule
<1>5. CASE p = "energy-saver"
  <2>1. /\ "sys:control-display" \in Granted(p)
        /\ (r.command = "pmset" /\ r.arg = "displaysleepnow") \/ r.command = "caffeinate"
    BY <1>5 DEF RequestsOf, Request, Granted
  <2>2. QED
    BY <1>2, <1>3, <2>1 DEF Rule
<1>6. CASE p = "system-stats"
  <2>1. {"sys:read-stats", "sys:control-media"} \subseteq Granted(p)
    BY <1>6 DEF Granted
  <2>2. \/ r.command = "pmset" /\ r.arg = "-g"
        \/ r.command = "pgrep" /\ r.arg = "-i"
        \/ r.command = "nowplaying-cli" /\ (r.arg = "get" \/ r.arg \in MediaActions)
    BY <1>6 DEF RequestsOf, Request
  <2>3. QED
    BY <1>2, <2>1, <2>2 DEF Rule
<1>7. QED
  BY <1>4, <1>5, <1>6 DEF Plugins

\* No plugin is denied what its own source asks for.
THEOREM OwnRequestsPassHolds == PermissionsSpec => []OwnRequestsPass
<1>1. PermissionsInit => OwnRequestsPass
  BY DEF PermissionsInit, OwnRequestsPass
<1>2. OwnRequestsPass /\ [PermissionsNext]_permissionVars => OwnRequestsPass'
  BY OwnRequestsAreAllowed DEF OwnRequestsPass, PermissionsNext, Asks, permissionVars
<1>3. QED
  BY <1>1, <1>2, PTL DEF PermissionsSpec

\* Grants and allowlist agree with the plugins, whatever else these may ask for.
THEOREM PermissionsAgreeHolds == PermissionsSpec => []PermissionsAgree
  BY KeepsToPermissionsHolds, OwnRequestsPassHolds, PTL DEF PermissionsAgree

(***************************************************************************)
(* The worker host.                                                        *)
(***************************************************************************)

Messages == [kind : {"ready", "getWidgetsResult", "error"}, call : 0 .. MaxCalls]

Heard(w) == \A i \in DOMAIN outbox[w] : outbox[w][i] # Message("ready", 0)

\* Workers come one after the other, and only the last one may be alive.
InTurn ==
    /\ \A w \in Workers : w > spawned => phase[w] = "unborn"
    /\ \A w \in Workers : w < spawned => phase[w] = "exited"
    /\ phase[spawned] # "unborn"

\* A worker that has not started, or has been seen to exit, has posted nothing
\* that is still to be handled.
Quiet == \A w \in Workers : phase[w] \in {"unborn", "loading", "exited"} => outbox[w] = <<>>

\* A restart is counted when the last worker has exited, and is pending only then.
Paid ==
    /\ restarts = spawned - 1 \/ (restarts = spawned /\ phase[spawned] = "exited")
    /\ \A n \in 1 .. MaxRestarts : Pending(respawn[n]) => n = restarts /\ n = spawned

\* Giving up takes more restarts than the budget has.
Spent == status = "failed" => restarts = MaxRestarts + 1

\* A serving worker has been heard, which made the status running, or will be.
Served == phase[spawned] = "serving" /\ Heard(spawned) => status = "running"

HostIInv ==
    /\ HostTypeOK /\ outbox \in [Workers -> Seq(Messages)]
    /\ InTurn /\ Quiet /\ Paid /\ Spent /\ Served

\* The backoff is one of the delays of the timer's type.
LEMMA BackoffType ==
  ASSUME NEW count \in Nat \ {0}
  PROVE  Backoff(count) \in 1 .. 30
<1>1. CASE count <= 5
  <2>1. count \in {1, 2, 3, 4, 5}
    BY <1>1
  <2>2. QED
    BY <2>1 DEF Backoff
<1>2. CASE ~(count <= 5)
  BY <1>2 DEF Backoff
<1>3. QED
  BY <1>1, <1>2

\* What a worker does on its own: it becomes ready, answers, crashes or leaves.
LEMMA WorkerActs ==
  ASSUME HostIInv, NEW w \in Workers, WorkerStep(w)
  PROVE  HostIInv'
<1> USE WorkerHostAssumption
<1>0. /\ w = spawned /\ w \in Nat /\ MaxRestarts \in Nat /\ MaxCalls \in Nat
      /\ phase[w] \in Alive
      /\ UNCHANGED hostVars
  <2>1. phase[w] \in Alive /\ UNCHANGED hostVars
    BY DEF WorkerStep, BecomesReady, Answers, ThrowsUncaught, ExitsWith, Enters, Alive
  <2>2. w = spawned
    BY <2>1 DEF HostIInv, InTurn, Alive, HostTypeOK, Workers
  <2>3. QED
    BY <2>1, <2>2 DEF Workers
<1>1. CASE BecomesReady(w)
  <2>1. outbox[w] = <<>> /\ phase' = [phase EXCEPT ![w] = "serving"]
    BY <1>1, <1>0 DEF HostIInv, Quiet, BecomesReady, Enters
  <2>2. outbox' = [outbox EXCEPT ![w] = Append(@, Message("ready", 0))]
    BY <1>1 DEF BecomesReady, Post
  <2>3. Message("ready", 0) \in Messages
    BY <1>0 DEF Messages, Message
  <2>4. outbox' \in [Workers -> Seq(Messages)] /\ outbox'[w] = <<Message("ready", 0)>>
    BY <2>1, <2>2, <2>3 DEF HostIInv
  <2>5. ~Heard(spawned)'
    BY <1>0, <2>4 DEF hostVars, Heard
  <2>6. QED
    <3>1. phase' \in [Workers -> Phases] /\ answered' = answered
      BY <1>1, <2>1 DEF HostIInv, HostTypeOK, Phases, BecomesReady
    <3>2. InTurn' /\ Paid' /\ Spent'
      BY <1>0, <2>1 DEF HostIInv, HostTypeOK, InTurn, Paid, Spent, hostVars, Alive
    <3>3. Quiet'
      BY <2>1, <2>2 DEF HostIInv, HostTypeOK, Quiet
    <3>4. QED
      BY <1>0, <2>4, <2>5, <3>1, <3>2, <3>3 DEF HostIInv, HostTypeOK, Served, hostVars
<1>2. ASSUME NEW c \in Calls, Answers(w, c) PROVE HostIInv'
  <2>1. /\ phase[w] = "serving" /\ phase' = phase
        /\ answered' = answered \cup {c}
        /\ outbox' = [outbox EXCEPT ![w] = Append(@, Message("getWidgetsResult", c))]
    BY <1>2 DEF Answers, Post
  <2>2. Message("getWidgetsResult", c) \in Messages
    BY <1>0 DEF Messages, Message, Calls
  <2>3. /\ outbox' \in [Workers -> Seq(Messages)]
        /\ outbox'[w] = Append(outbox[w], Message("getWidgetsResult", c))
        /\ outbox[w] \in Seq(Messages)
    BY <2>1, <2>2 DEF HostIInv
  <2>4. Heard(spawned)' => Heard(spawned)
    <3>1. \A i \in DOMAIN outbox[w] : i \in DOMAIN outbox'[w] /\ outbox'[w][i] = outbox[w][i]
      BY <2>2, <2>3
    <3>2. QED
      BY <1>0, <3>1 DEF hostVars, Heard
  <2>5. QED
    BY <1>0, <2>1, <2>3, <2>4
       DEF HostIInv, HostTypeOK, InTurn, Quiet, Paid, Spent, Served, hostVars
<1>3. CASE ThrowsUncaught(w)
  <2>1. phase' = [phase EXCEPT ![w] = "crashing"] /\ answered' = answered
    BY <1>3 DEF ThrowsUncaught, Enters
  <2>2. outbox' = [outbox EXCEPT ![w] = Append(@, Message("error", 0))]
    BY <1>3 DEF ThrowsUncaught, Post
  <2>3. Message("error", 0) \in Messages
    BY <1>0 DEF Messages, Message
  <2>4. outbox' \in [Workers -> Seq(Messages)]
    BY <2>2, <2>3 DEF HostIInv
  <2>5. QED
    BY <1>0, <2>1, <2>2, <2>4
       DEF HostIInv, HostTypeOK, InTurn, Quiet, Paid, Spent, Served, hostVars, Phases, Alive
<1>4. ASSUME NEW ending \in {"crashing", "leaving"}, ExitsWith(w, ending) PROVE HostIInv'
  <2>1. phase' = [phase EXCEPT ![w] = ending] /\ UNCHANGED <<outbox, answered>>
    BY <1>4 DEF ExitsWith, Enters
  <2>2. QED
    BY <1>0, <2>1
       DEF HostIInv, HostTypeOK, InTurn, Quiet, Paid, Spent, Served, hostVars, Phases, Alive
<1>5. QED
  BY <1>1, <1>2, <1>3, <1>4 DEF WorkerStep

\* The host takes a worker's next message.
LEMMA MessageIsHandled ==
  ASSUME HostIInv, NEW w \in Workers, HandleMessage(w)
  PROVE  HostIInv'
<1> USE WorkerHostAssumption
<1>1. /\ outbox[w] \in Seq(Messages) /\ outbox[w] # <<>>
      /\ outbox' = [outbox EXCEPT ![w] = Tail(@)]
      /\ UNCHANGED <<phase, answered, restarts, respawn, spawned, requestCounter, sentTo>>
  BY DEF HostIInv, HandleMessage, HandleReady, HandleResult, HandleError, Receive, hostVars
<1>2. outbox' \in [Workers -> Seq(Messages)] /\ outbox'[w] = Tail(outbox[w])
  BY <1>1 DEF HostIInv
<1>3. phase[w] \notin {"unborn", "loading", "exited"}
  BY <1>1 DEF HostIInv, Quiet
<1>4. w = spawned
  BY <1>3 DEF HostIInv, InTurn, HostTypeOK, Workers
<1>5. status' \in {"starting", "running", "degraded", "failed"} /\ Spent' /\ Served'
      /\ deadline' \in [Calls -> Countdown(CallTimeout)]
  <2>1. CASE HandleReady(w)
    BY <1>1, <2>1 DEF HandleReady, HostIInv, HostTypeOK, Spent, Served
  <2>2. CASE HandleResult(w) \/ HandleError(w)
    <3>1. status' = status /\ Spent'
      BY <1>1, <2>2 DEF HandleResult, HandleError, HostIInv, Spent, hostVars
    <3>2. deadline' \in [Calls -> Countdown(CallTimeout)]
      <4>1. deadline' = deadline \/ deadline' = [deadline EXCEPT ![Head(outbox[w]).call] = Off]
        BY <2>2 DEF HandleResult, HandleError, hostVars
      <4>2. deadline \in [Calls -> Countdown(CallTimeout)] /\ Off \in Countdown(CallTimeout)
        BY DEF HostIInv, HostTypeOK, Countdown, Off
      <4>3. QED
        BY <4>1, <4>2
    <3>3. Head(outbox[w]).kind # "ready"
      BY <2>2 DEF HandleResult, HandleError, Receive
    <3>4. outbox[w][1] # Message("ready", 0)
      BY <1>1, <3>3 DEF Message
    <3>5. Heard(spawned)' => Heard(spawned)
      <4>1. \A i \in DOMAIN outbox[w] :
               i = 1 \/ (i - 1 \in DOMAIN outbox'[w] /\ outbox'[w][i - 1] = outbox[w][i])
        BY <1>1, <1>2
      <4>2. SUFFICES ASSUME Heard(w)', NEW i \in DOMAIN outbox[w]
                     PROVE  outbox[w][i] # Message("ready", 0)
        BY <1>1, <1>4 DEF Heard
      <4>3. CASE i = 1
        BY <3>4, <4>3
      <4>4. CASE i # 1
        BY <4>1, <4>2, <4>4 DEF Heard
      <4>5. QED
        BY <4>3, <4>4
    <3>6. status' \in {"starting", "running", "degraded", "failed"}
      BY <3>1 DEF HostIInv, HostTypeOK
    <3>7. Served'
      BY <1>1, <3>1, <3>5 DEF HostIInv, Served
    <3>8. QED
      BY <3>1, <3>2, <3>6, <3>7
  <2>3. QED
    BY <2>1, <2>2 DEF HandleMessage
<1>6. QED
  BY <1>1, <1>2, <1>3, <1>5 DEF HostIInv, HostTypeOK, InTurn, Quiet, Paid

\* The exit of a worker, and the restart it may lead to.
LEMMA ExitIsHandled ==
  ASSUME HostIInv, NEW w \in Workers, HandleExit(w)
  PROVE  HostIInv'
<1> USE WorkerHostAssumption
<1>1. /\ phase[w] \in {"crashing", "terminated", "leaving"} /\ outbox[w] = <<>>
      /\ phase' = [phase EXCEPT ![w] = "exited"]
      /\ UNCHANGED <<outbox, answered, spawned, requestCounter, deadline, sentTo>>
  BY DEF HandleExit, IsGone
<1>2. /\ w = spawned /\ w \in 1 .. MaxRestarts + 1 /\ MaxRestarts \in Nat
      /\ restarts = spawned - 1
  <2>1. w \in 1 .. MaxRestarts + 1 /\ spawned \in 1 .. MaxRestarts + 1 /\ MaxRestarts \in Nat
    BY DEF HostIInv, HostTypeOK, Workers
  <2>2. ~(w > spawned) /\ ~(w < spawned)
    BY <1>1 DEF HostIInv, InTurn
  <2>3. w = spawned
    BY <2>1, <2>2
  <2>4. QED
    BY <1>1, <2>1, <2>3 DEF HostIInv, Paid
<1>3. \A n \in 1 .. MaxRestarts : ~Pending(respawn[n])
  BY <1>2 DEF HostIInv, Paid
<1>4. phase' \in [Workers -> Phases] /\ InTurn' /\ Quiet' /\ Served'
  BY <1>1, <1>2 DEF HostIInv, HostTypeOK, InTurn, Quiet, Served, Phases
<1>5. CASE HandleCrash
  <2>1. restarts' = spawned /\ phase'[spawned] = "exited" /\ restarts' \in 0 .. MaxRestarts + 1
    BY <1>1, <1>2, <1>5 DEF HandleCrash, HostIInv, HostTypeOK
  <2>2. CASE spawned > MaxRestarts
    <3>1. respawn' = respawn /\ status' = "failed" /\ restarts' = MaxRestarts + 1
      BY <1>2, <1>5, <2>1, <2>2 DEF HandleCrash
    <3>2. QED
      BY <1>1, <1>2, <1>3, <1>4, <2>1, <3>1 DEF HostIInv, HostTypeOK, Paid, Spent
  <2>3. CASE ~(spawned > MaxRestarts)
    <3>1. /\ respawn' = [respawn EXCEPT ![spawned] = Backoff(spawned)] /\ status' = status
          /\ spawned \in 1 .. MaxRestarts
      BY <1>2, <1>5, <2>3 DEF HandleCrash
    <3>2. Backoff(spawned) \in 1 .. 30
      BY <3>1, BackoffType
    <3>3. respawn' \in [1 .. MaxRestarts -> Countdown(30)]
      <4>1. Backoff(spawned) \in Countdown(30)
        BY <3>2 DEF Countdown, Off
      <4>2. QED
        BY <3>1, <4>1 DEF HostIInv, HostTypeOK
    <3>4. Spent'
      BY <1>2, <3>1 DEF HostIInv, Spent
    <3>5. Paid'
      BY <1>1, <1>2, <1>3, <2>1, <3>1 DEF Paid
    <3>6. QED
      BY <1>1, <1>2, <1>4, <2>1, <3>1, <3>3, <3>4, <3>5 DEF HostIInv, HostTypeOK
  <2>4. QED
    BY <2>2, <2>3
<1>6. CASE UNCHANGED <<status, restarts, respawn>>
  BY <1>1, <1>2, <1>3, <1>4, <1>6 DEF HostIInv, HostTypeOK, Paid, Spent
<1>7. QED
  BY <1>5, <1>6 DEF HandleExit

\* A backoff timer starts the next worker.
LEMMA RespawnStep ==
  ASSUME HostIInv, NEW n \in 1 .. MaxRestarts, Respawns(n)
  PROVE  HostIInv'
<1> USE WorkerHostAssumption
<1>1. /\ respawn[n] = 0
      /\ respawn' = [respawn EXCEPT ![n] = Off]
      /\ status' = "starting" /\ spawned' = spawned + 1
      /\ phase' = [phase EXCEPT ![spawned + 1] = "loading"]
      /\ phase[spawned + 1] = "unborn"
      /\ UNCHANGED <<restarts, requestCounter, deadline, sentTo, outbox, answered>>
  BY DEF Respawns, Due, Enters
<1>2. /\ n = restarts /\ n = spawned /\ phase[spawned] = "exited"
      /\ spawned + 1 \in Workers /\ spawned \in Nat
  BY <1>1 DEF HostIInv, Paid, Pending, Off, HostTypeOK, Workers
<1>3. InTurn' /\ Quiet'
  <2>1. /\ phase'[spawned + 1] = "loading"
        /\ \A w \in Workers : w # spawned + 1 => phase'[w] = phase[w]
    BY <1>1, <1>2 DEF HostIInv, HostTypeOK
  <2>2. ASSUME NEW w \in Workers, w > spawned + 1 PROVE phase'[w] = "unborn"
    BY <1>2, <2>1, <2>2 DEF HostIInv, InTurn, Workers
  <2>3. ASSUME NEW w \in Workers, w < spawned + 1 PROVE phase'[w] = "exited"
    <3>1. w < spawned \/ w = spawned
      BY <1>2, <2>3 DEF Workers
    <3>2. phase'[w] = phase[w]
      BY <2>1, <2>3, <1>2 DEF Workers
    <3>3. QED
      BY <1>2, <3>1, <3>2 DEF HostIInv, InTurn
  <2>4. InTurn'
    BY <1>1, <2>1, <2>2, <2>3 DEF InTurn
  <2>5. Quiet'
    BY <1>1, <1>2, <2>1 DEF HostIInv, Quiet
  <2>6. QED
    BY <2>4, <2>5
<1>4. Paid' /\ Spent' /\ Served'
  BY <1>1, <1>2 DEF HostIInv, HostTypeOK, Paid, Spent, Served, Pending
<1>5. QED
  BY <1>1, <1>2, <1>3, <1>4 DEF HostIInv, HostTypeOK, Countdown, Off, Phases

\* A call's deadline terminates the worker of the day.
LEMMA DeadlineStep ==
  ASSUME HostIInv, NEW c \in Calls, DeadlineFires(c)
  PROVE  HostIInv'
<1> USE WorkerHostAssumption
<1>1. /\ deadline' = [deadline EXCEPT ![c] = Off]
      /\ status' = "degraded"
      /\ phase' = [phase EXCEPT ![spawned] = IF @ \in Alive THEN "terminated" ELSE @]
      /\ UNCHANGED <<restarts, respawn, spawned, requestCounter, sentTo, outbox, answered>>
  BY DEF DeadlineFires, TerminateAndDegrade
<1>2. /\ \A w \in Workers : w # spawned => phase'[w] = phase[w]
      /\ phase'[spawned] = IF phase[spawned] \in Alive THEN "terminated" ELSE phase[spawned]
      /\ phase' \in [Workers -> Phases] /\ spawned \in Workers
  BY <1>1 DEF HostIInv, HostTypeOK, Phases
<1>3. InTurn' /\ Quiet'
  BY <1>1, <1>2 DEF HostIInv, InTurn, Quiet, Alive, Workers
<1>4. Paid' /\ Spent' /\ Served'
  BY <1>1, <1>2 DEF HostIInv, Paid, Spent, Served, Alive
<1>5. deadline' \in [Calls -> Countdown(CallTimeout)]
  BY <1>1 DEF HostIInv, HostTypeOK, Countdown, Off
<1>6. QED
  BY <1>1, <1>2, <1>3, <1>4, <1>5 DEF HostIInv, HostTypeOK

\* The invariant that makes the host correct, for any restart budget.
THEOREM HostIInvHolds == WorkerHostSpec => []HostIInv
<1> USE WorkerHostAssumption
<1>1. HostInit => HostIInv
  <2> SUFFICES ASSUME HostInit PROVE HostIInv
    OBVIOUS
  <2>1. HostTypeOK
    BY DEF HostInit, HostTypeOK, Workers, Calls, Phases, Countdown, Off
  <2>2. outbox \in [Workers -> Seq(Messages)]
    BY DEF HostInit
  <2>3. InTurn /\ Quiet /\ Paid /\ Spent /\ Served
    BY DEF HostInit, InTurn, Quiet, Paid, Spent, Served, Workers, Pending, Off
  <2>4. QED
    BY <2>1, <2>2, <2>3 DEF HostIInv
<1>2. HostIInv /\ UNCHANGED workerHostVars => HostIInv'
  BY DEF HostIInv, HostTypeOK, InTurn, Quiet, Paid, Spent, Served, Heard, workerHostVars,
         hostVars, workerVars
<1>3. HostIInv /\ HostNext => HostIInv'
  <2> SUFFICES ASSUME HostIInv, HostNext PROVE HostIInv'
    OBVIOUS
  <2>1. CASE \E w \in Workers : WorkerStep(w) \/ HandleMessage(w) \/ HandleExit(w)
    BY <2>1, WorkerActs, MessageIsHandled, ExitIsHandled
  <2>2. CASE TimerFires
    <3>1. DOMAIN respawn = 1 .. MaxRestarts
      BY DEF HostIInv, HostTypeOK
    <3>2. QED
      BY <2>2, <3>1, RespawnStep, DeadlineStep DEF TimerFires
  <2>3. CASE GetWidgets
    <3>1. /\ requestCounter' = requestCounter + 1 /\ requestCounter < MaxCalls
          /\ deadline' = [deadline EXCEPT ![requestCounter + 1] = CallTimeout]
          /\ sentTo' = [sentTo EXCEPT ![requestCounter + 1] = spawned]
          /\ UNCHANGED <<status, restarts, respawn, spawned, phase, outbox, answered>>
      BY <2>3 DEF GetWidgets, workerVars
    <3>2. HostTypeOK'
      <4>1. requestCounter + 1 \in Calls /\ requestCounter' \in 0 .. MaxCalls
        BY <3>1 DEF HostIInv, HostTypeOK, Calls
      <4>2. CallTimeout \in Countdown(CallTimeout) /\ spawned \in 0 .. MaxRestarts + 1
        BY DEF HostIInv, HostTypeOK, Countdown, Off, Workers
      <4>3. /\ deadline' \in [Calls -> Countdown(CallTimeout)]
            /\ sentTo' \in [Calls -> 0 .. (MaxRestarts + 1)]
        BY <3>1, <4>1, <4>2 DEF HostIInv, HostTypeOK
      <4>4. QED
        BY <3>1, <4>1, <4>3 DEF HostIInv, HostTypeOK
    <3>3. QED
      BY <3>1, <3>2 DEF HostIInv, InTurn, Quiet, Paid, Spent, Served, Heard
  <2>4. CASE HostTick
    <3>1. /\ respawn' = [n \in 1 .. MaxRestarts |-> Elapse(respawn[n])]
          /\ deadline' = [c \in Calls |-> Elapse(deadline[c])]
          /\ UNCHANGED <<status, restarts, spawned, requestCounter, sentTo, phase, outbox, answered>>
      BY <2>4 DEF HostTick, workerVars, HostIInv, HostTypeOK
    <3>2. \A n \in 1 .. MaxRestarts :
             respawn'[n] \in Countdown(30) /\ (Pending(respawn'[n]) => Pending(respawn[n]))
      BY <3>1 DEF HostIInv, HostTypeOK, Elapse, Countdown, Off, Pending
    <3>3. deadline' \in [Calls -> Countdown(CallTimeout)]
      BY <3>1 DEF HostIInv, HostTypeOK, Elapse, Countdown, Off
    <3>4. respawn' \in [1 .. MaxRestarts -> Countdown(30)]
      BY <3>1, <3>2
    <3>5. QED
      BY <3>1, <3>2, <3>3, <3>4
         DEF HostIInv, HostTypeOK, InTurn, Quiet, Paid, Spent, Served, Heard
  <2>5. QED
    BY <2>1, <2>2, <2>3, <2>4 DEF HostNext
<1>4. QED
  BY <1>1, <1>2, <1>3, PTL DEF WorkerHostSpec

\* A plugin never has two workers at once.
THEOREM AtMostOneWorkerHolds == WorkerHostSpec => []AtMostOneWorker
<1>1. HostIInv => AtMostOneWorker
  <2> SUFFICES ASSUME HostIInv, NEW w \in Workers, phase[w] \in Alive PROVE w = spawned
    BY DEF AtMostOneWorker
  <2>1. w \in 1 .. MaxRestarts + 1 /\ spawned \in 1 .. MaxRestarts + 1 /\ MaxRestarts \in Nat
    BY WorkerHostAssumption DEF HostIInv, HostTypeOK, Workers
  <2>2. ~(w > spawned) /\ ~(w < spawned)
    BY DEF HostIInv, InTurn, Alive
  <2>3. QED
    BY <2>1, <2>2
<1>2. QED
  BY <1>1, HostIInvHolds, PTL

\* A serving worker that has been heard is the one calls go to.
THEOREM ReadyWorkerIsUsedHolds == WorkerHostSpec => []ReadyWorkerIsUsed
<1>1. HostIInv => ReadyWorkerIsUsed
  <2> SUFFICES ASSUME HostIInv, NEW w \in Workers, phase[w] = "serving",
                      Message("ready", 0) \notin {outbox[w][i] : i \in DOMAIN outbox[w]}
               PROVE  status = "running" /\ w = spawned
    BY DEF ReadyWorkerIsUsed
  <2>1. w = spawned
    BY WorkerHostAssumption DEF HostIInv, InTurn, HostTypeOK, Workers
  <2>2. Heard(spawned)
    BY <2>1 DEF Heard
  <2>3. QED
    BY <2>1, <2>2 DEF HostIInv, Served
<1>2. QED
  BY <1>1, HostIInvHolds, PTL

\* A plugin given up for good has no worker and none to come.
THEOREM GivenUpMeansStoppedHolds == WorkerHostSpec => []GivenUpMeansStopped
<1>1. HostIInv => GivenUpMeansStopped
  <2> SUFFICES ASSUME HostIInv, status = "failed" PROVE GivenUpMeansStopped
    BY DEF GivenUpMeansStopped
  <2>1. /\ MaxRestarts \in Nat /\ restarts = MaxRestarts + 1 /\ spawned = MaxRestarts + 1
        /\ phase[spawned] = "exited"
    BY WorkerHostAssumption DEF HostIInv, Spent, Paid, HostTypeOK, Workers
  <2>2. \A n \in DOMAIN respawn : ~Pending(respawn[n])
    BY <2>1 DEF HostIInv, Paid, HostTypeOK
  <2>3. \A w \in Workers : phase[w] = "exited"
    BY <2>1 DEF HostIInv, InTurn, Workers
  <2>4. QED
    BY <2>2, <2>3 DEF GivenUpMeansStopped, Alive
<1>2. QED
  BY <1>1, HostIInvHolds, PTL

\* Every restart is paid for by one exit, every worker after the first by one restart.
THEOREM HostInvHolds == WorkerHostSpec => []HostInv
<1>1. HostIInv => HostInv
  <2> SUFFICES ASSUME HostIInv PROVE HostInv
    OBVIOUS
  <2> DEFINE exited == {w \in Workers : phase[w] = "exited"}
             pending == {n \in DOMAIN respawn : Pending(respawn[n])}
  <2>0. /\ MaxRestarts \in Nat /\ restarts \in Nat /\ spawned \in 1 .. MaxRestarts + 1
        /\ restarts = spawned - 1 \/ restarts = spawned
        /\ DOMAIN respawn = 1 .. MaxRestarts
    BY WorkerHostAssumption DEF HostIInv, HostTypeOK, Paid, Workers
  <2>1. restarts <= Cardinality(exited)
    <3>1. 1 .. restarts \subseteq exited
      BY <2>0 DEF HostIInv, InTurn, Paid, Workers
    <3>2. IsFiniteSet(Workers) /\ IsFiniteSet(exited)
      <4>1. IsFiniteSet(Workers)
        BY <2>0, FS_Interval DEF Workers
      <4>2. QED
        BY <4>1, FS_Subset
    <3>3. Cardinality(1 .. restarts) = restarts
      BY <2>0, FS_Interval
    <3>4. QED
      BY <3>1, <3>2, <3>3, FS_Subset
  <2>2. spawned + Cardinality(pending) <= restarts + 1
    <3>1. CASE restarts = spawned - 1
      <4>1. pending = {}
        BY <2>0, <3>1 DEF HostIInv, Paid
      <4>2. Cardinality(pending) = 0
        BY <4>1, FS_EmptySet
      <4>3. QED
        BY <2>0, <3>1, <4>2
    <3>2. CASE restarts = spawned
      <4>1. pending \subseteq {restarts}
        BY <2>0, <3>2 DEF HostIInv, Paid
      <4>2. IsFiniteSet({restarts}) /\ Cardinality({restarts}) = 1
        BY FS_Singleton
      <4>3. Cardinality(pending) <= 1 /\ Cardinality(pending) \in Nat
        BY <4>1, <4>2, FS_Subset, FS_CardinalityType
      <4>4. QED
        BY <2>0, <3>2, <4>3
    <3>3. QED
      BY <2>0, <3>1, <3>2
  <2>3. QED
    BY <2>1, <2>2 DEF HostInv, HostIInv
<1>2. QED
  BY <1>1, HostIInvHolds, PTL

\* The host's whole invariant, for any budget and any number of calls.
THEOREM WorkersInvHolds == WorkerHostSpec => []WorkersInv
  BY HostInvHolds, AtMostOneWorkerHolds, ReadyWorkerIsUsedHolds, GivenUpMeansStoppedHolds, PTL
     DEF WorkersInv

(***************************************************************************)
(* What is playing.  PlayingIInv follows the one poll there is while no    *)
(* two overlap, from the moment it has seen the registered song playing.   *)
(***************************************************************************)
Infos == [title : Titles \cup {NoTitle}, playing : BOOLEAN]

PlayingTypeOK ==
    /\ registered \in Titles \cup {NoTitle} /\ playing \in BOOLEAN /\ playerRuns \in BOOLEAN
    /\ step \in [Reads -> [at : {"none", "pgrep", "cli", "read", "done", "failed"}, read : Infos]]
    /\ age \in 0 .. PausedGrace /\ kept \in 0 .. PausedGrace
    /\ overlapped \in BOOLEAN /\ pgrepFailed \in BOOLEAN

\* Only a song with a title plays, and only that is read.
PlayingHasTitle ==
    /\ playing => registered # NoTitle
    /\ \A p \in Reads : step[p].read.playing => step[p].read.title # NoTitle

Kept == kept < PausedGrace /\ ~overlapped /\ ~pgrepFailed

\* The song is still there, the plugin remembers it, and whichever poll is under
\* way has read it or has not looked yet.
KeptIsKnown ==
    /\ playerRuns /\ registered # NoTitle
    /\ lastPlayingTitle = registered /\ age <= kept
    /\ \A p, q \in Reads : step[p] # Idle /\ step[q] # Idle => p = q
    /\ \A p \in Reads : step[p].at \in {"read", "done"} => step[p].read.title = registered

PlayingIInv == PlayingTypeOK /\ PlayingHasTitle /\ (Kept => KeptIsKnown)

LEMMA PlayingTypeStep ==
  ASSUME PlayingTypeOK, PlayingHasTitle, [PlayingNext]_playingVars
  PROVE  PlayingTypeOK' /\ PlayingHasTitle'
<1> USE NowPlayingAssumption DEF PlayingTypeOK, PlayingHasTitle, Outside
<1>1. Unavailable \in Infos /\ ~Unavailable.playing
  BY DEF Unavailable, Info, Infos
<1>2. ASSUME NEW p \in Reads, ReadStarts(p) PROVE PlayingTypeOK' /\ PlayingHasTitle'
  BY <1>2 DEF ReadStarts, Busy
<1>3. ASSUME NEW p \in Reads, PgrepEnds(p) PROVE PlayingTypeOK' /\ PlayingHasTitle'
  BY <1>3 DEF PgrepEnds
<1>4. ASSUME NEW p \in Reads, PgrepFails(p) PROVE PlayingTypeOK' /\ PlayingHasTitle'
  BY <1>4 DEF PgrepFails
<1>5. ASSUME NEW p \in Reads, CliReads(p) PROVE PlayingTypeOK' /\ PlayingHasTitle'
  BY <1>5 DEF CliReads, Step, Info, Infos
<1>6. ASSUME NEW p \in Reads, CliFails(p) PROVE PlayingTypeOK' /\ PlayingHasTitle'
  BY <1>6 DEF CliFails
<1>7. ASSUME NEW p \in Reads, Reading(p) PROVE PlayingTypeOK' /\ PlayingHasTitle'
  <2> DEFINE left == step'[p].read
  <2>1. step[p].read \in Infos
    OBVIOUS
  <2>2. /\ left \in {step[p].read, Unavailable}
        /\ step' = [step EXCEPT ![p] = Step("done", left)]
    BY <1>7 DEF Reading, Step
  <2>3. step' \in [Reads -> [at : {"none", "pgrep", "cli", "read", "done", "failed"}, read : Infos]]
    BY <1>1, <2>1, <2>2 DEF Step
  <2>4. \A q \in Reads : step'[q].read.playing => step'[q].read.title # NoTitle
    BY <1>1, <2>2 DEF Step
  <2>5. age' \in 0 .. PausedGrace
    BY <1>7 DEF Reading
  <2>6. kept' \in 0 .. PausedGrace /\ overlapped' \in BOOLEAN /\ pgrepFailed' \in BOOLEAN
    <3>1. kept' \in {0, kept}
      BY <1>7 DEF Reading
    <3>2. \/ overlapped' = overlapped
          \/ overlapped' = \E q \in Reads \ {p} : step[q] # Idle
      BY <1>7 DEF Reading
    <3>3. overlapped' \in BOOLEAN
      BY <3>2, Zenon
    <3>4. kept' \in 0 .. PausedGrace
      BY <3>1
    <3>5. pgrepFailed' \in BOOLEAN
      BY <1>7 DEF Reading
    <3>6. QED
      BY <3>3, <3>4, <3>5
  <2>7. UNCHANGED <<registered, playing, playerRuns>>
    BY <1>7 DEF Reading
  <2>8. QED
    BY <2>3, <2>4, <2>5, <2>6, <2>7
<1>8. ASSUME NEW p \in Reads, Published(p) PROVE PlayingTypeOK' /\ PlayingHasTitle'
  BY <1>1, <1>8 DEF Published, Idle, Step
<1>9. ASSUME NEW title \in Titles \cup {NoTitle}, NEW on \in BOOLEAN, NEW runs \in BOOLEAN,
             PlayerBecomes(title, on, runs)
      PROVE  PlayingTypeOK' /\ PlayingHasTitle'
  BY <1>9 DEF PlayerBecomes
<1>10. CASE PlayingTick
  BY <1>10 DEF PlayingTick
<1>11. CASE UNCHANGED playingVars
  BY <1>11 DEF playingVars
<1>12. QED
  BY <1>2, <1>3, <1>4, <1>5, <1>6, <1>7, <1>8, <1>9, <1>10, <1>11 DEF PlayingNext, ReadProceeds

\* A poll that starts or looks learns nothing yet; after pgrep failed nothing is promised.
LEMMA LookingStep ==
  ASSUME PlayingIInv, NEW p \in Reads,
         \/ ReadStarts(p) \/ PgrepEnds(p) \/ PgrepFails(p)
         \/ CliReads(p) \/ CliFails(p) \/ Published(p),
         Kept'
  PROVE  KeptIsKnown'
<1> USE DEF PlayingIInv, PlayingTypeOK, Outside
<1>1. kept' = kept /\ Kept
  <2>1. CASE ReadStarts(p)
    BY <2>1 DEF ReadStarts, Kept
  <2>2. CASE PgrepEnds(p) \/ CliReads(p) \/ CliFails(p) \/ Published(p)
    BY <2>2 DEF PgrepEnds, CliReads, CliFails, Published, Kept
  <2>3. CASE PgrepFails(p)
    BY <2>3 DEF PgrepFails, Kept
  <2>4. QED
    BY <2>1, <2>2, <2>3
<1>2. KeptIsKnown
  BY <1>1
<1>3. ~PgrepFails(p)
  BY DEF PgrepFails, Kept
<1>4. UNCHANGED <<registered, playerRuns, age>>
  BY <1>3 DEF ReadStarts, PgrepEnds, CliReads, CliFails, Published
<1>5. lastPlayingTitle' = lastPlayingTitle
  BY <1>2, <1>3 DEF ReadStarts, PgrepEnds, CliReads, CliFails, Published, KeptIsKnown
<1>6. \A q \in Reads : q # p => step'[q] = step[q]
  BY <1>3 DEF ReadStarts, PgrepEnds, CliReads, CliFails, Published
<1>7. \A q, r \in Reads : step'[q] # Idle /\ step'[r] # Idle => q = r
  <2>1. CASE ReadStarts(p)
    <3>1. \A q \in Reads : step[q] = Idle
      BY <2>1 DEF ReadStarts, Busy, Kept
    <3>2. QED
      BY <1>6, <3>1
  <2>2. CASE ~ReadStarts(p)
    <3>1. step[p] # Idle
      BY <1>3, <2>2 DEF PgrepEnds, CliReads, CliFails, Published, Idle, Step
    <3>2. QED
      BY <1>2, <1>6, <3>1 DEF KeptIsKnown
  <2>3. QED
    BY <2>1, <2>2
<1>8. step'[p].at \in {"read", "done"} => step'[p].read.title = registered
  <2>1. CASE CliReads(p)
    BY <2>1 DEF CliReads, Step, Info
  <2>2. CASE ReadStarts(p) \/ Published(p)
    BY <2>2 DEF ReadStarts, Published, Idle, Step
  <2>3. CASE PgrepEnds(p)
    BY <1>2, <2>3 DEF PgrepEnds, KeptIsKnown
  <2>4. CASE CliFails(p)
    BY <2>4 DEF CliFails
  <2>5. QED
    BY <1>3, <2>1, <2>2, <2>3, <2>4
<1>9. \A q \in Reads : step'[q].at \in {"read", "done"} => step'[q].read.title = registered
  BY <1>2, <1>6, <1>8 DEF KeptIsKnown
<1>10. /\ playerRuns' /\ registered' # NoTitle
       /\ lastPlayingTitle' = registered' /\ age' <= kept'
  BY <1>1, <1>2, <1>4, <1>5 DEF KeptIsKnown
<1>11. QED
  BY <1>4, <1>7, <1>9, <1>10, Zenon DEF KeptIsKnown

\* A poll that reads sees the song play, and begins its grace anew, or paused.
LEMMA ReadingStep ==
  ASSUME PlayingIInv, NEW p \in Reads, Reading(p), Kept'
  PROVE  KeptIsKnown'
<1> DEFINE read == step[p].read
<1> USE DEF PlayingIInv
<1>1. /\ step[p] # Idle /\ step[p].at = "read"
      /\ step' = [step EXCEPT ![p] = Step("done",
              IF read.title # NoTitle /\ (read.playing \/ WithinPausedGrace(read.title))
              THEN read ELSE Unavailable)]
      /\ UNCHANGED <<registered, playerRuns>>
  BY DEF Reading, Outside, Idle, Step
<1>2. \A q \in Reads : q # p => step'[q] = step[q]
  BY <1>1 DEF PlayingTypeOK
<1>3. step'[p] = Step("done",
              IF read.title # NoTitle /\ (read.playing \/ WithinPausedGrace(read.title))
              THEN read ELSE Unavailable)
  BY <1>1 DEF PlayingTypeOK
<1>4. CASE read = Info(registered, TRUE) /\ playerRuns
  <2>1. read.title = registered /\ read.playing
    BY <1>4 DEF Info
  <2>2. registered # NoTitle
    BY <2>1 DEF PlayingHasTitle
  <2>3. lastPlayingTitle' = registered /\ age' = 0
    BY <2>1, <2>2 DEF Reading, SeenPlaying
  <2>4. kept' = 0 /\ overlapped' = \E q \in Reads \ {p} : step[q] # Idle
    BY <1>4 DEF Reading
  <2>5. \A q \in Reads : q # p => step'[q] = Idle
    BY <1>2, <2>4 DEF Kept
  <2>6. step'[p].read.title = registered
    BY <1>3, <2>1, <2>2 DEF Step
  <2>7. Idle.at = "none"
    BY DEF Idle, Step
  <2>8. \A q \in Reads : step'[q].at \in {"read", "done"} => step'[q].read.title = registered
    BY <2>5, <2>6, <2>7
  <2>9. \A q, r \in Reads : step'[q] # Idle /\ step'[r] # Idle => q = r
    BY <2>5
  <2>10. age' <= kept'
    BY <2>3, <2>4
  <2>11. registered' = registered /\ playerRuns' = playerRuns
    BY <1>1
  <2>12. QED
    BY <1>4, <2>2, <2>3, <2>8, <2>9, <2>10, <2>11 DEF KeptIsKnown
<1>5. CASE ~(read = Info(registered, TRUE) /\ playerRuns)
  <2>1. kept' = kept /\ Kept /\ KeptIsKnown
    <3>1. UNCHANGED <<kept, overlapped, pgrepFailed>>
      BY <1>5 DEF Reading
    <3>2. QED
      BY <3>1 DEF Kept
  <2>2. read.title = registered /\ read \in Infos
    BY <1>1, <2>1 DEF KeptIsKnown, PlayingTypeOK
  <2>3. ~read.playing
    BY <1>5, <2>1, <2>2 DEF KeptIsKnown, Info, Infos
  <2>4. lastPlayingTitle' = lastPlayingTitle /\ age' = age
    BY <2>1, <2>2, <2>3 DEF Reading, SeenPlaying, KeptIsKnown
  <2>5. WithinPausedGrace(read.title)
    <3>1. age \in Nat /\ kept \in Nat /\ PausedGrace \in Nat
      BY NowPlayingAssumption DEF PlayingTypeOK
    <3>2. age <= kept /\ kept < PausedGrace /\ lastPlayingTitle = registered
      BY <2>1 DEF KeptIsKnown, Kept
    <3>3. age' < PausedGrace
      BY <2>4, <3>1, <3>2
    <3>4. QED
      BY <2>2, <2>4, <3>2, <3>3 DEF WithinPausedGrace
  <2>6. step'[p].read.title = registered
    BY <1>3, <2>1, <2>2, <2>5 DEF Step, KeptIsKnown
  <2>7. QED
    BY <1>1, <1>2, <2>1, <2>4, <2>6 DEF KeptIsKnown
<1>6. QED
  BY <1>4, <1>5

\* The Mac's player and the clock: a song that changes is no longer kept.
LEMMA PlayerStep ==
  ASSUME PlayingIInv, Kept',
         \/ \E title \in Titles \cup {NoTitle}, on, runs \in BOOLEAN : PlayerBecomes(title, on, runs)
         \/ PlayingTick
         \/ UNCHANGED playingVars
  PROVE  KeptIsKnown'
<1> USE NowPlayingAssumption DEF PlayingIInv
<1>1. ASSUME NEW title \in Titles \cup {NoTitle}, NEW on \in BOOLEAN, NEW runs \in BOOLEAN,
             PlayerBecomes(title, on, runs)
      PROVE  KeptIsKnown'
  <2>1. /\ title = registered /\ runs /\ kept' = kept
        /\ UNCHANGED <<step, lastPlayingTitle, age, overlapped, pgrepFailed>>
        /\ registered' = title /\ playerRuns' = runs
    BY <1>1 DEF PlayerBecomes, Kept
  <2>2. KeptIsKnown
    BY <2>1 DEF Kept
  <2>3. QED
    BY <2>1, <2>2 DEF KeptIsKnown
<1>2. CASE PlayingTick
  <2>1. /\ Kept /\ kept' = kept + 1 /\ age' \in {age, age + 1}
        /\ UNCHANGED <<registered, playerRuns, step, lastPlayingTitle>>
    BY <1>2 DEF PlayingTick, Kept, PlayingTypeOK
  <2>2. QED
    BY <2>1 DEF KeptIsKnown, PlayingTypeOK
<1>3. CASE UNCHANGED playingVars
  BY <1>3 DEF playingVars, Kept, KeptIsKnown
<1>4. QED
  BY <1>1, <1>2, <1>3

\* PlayingIInv holds in every reachable state.
THEOREM PlayingIInvHolds == PlayingSpec => []PlayingIInv
<1>1. PlayingInit => PlayingIInv
  <2> SUFFICES ASSUME PlayingInit PROVE PlayingIInv
    OBVIOUS
  <2> USE NowPlayingAssumption DEF PlayingInit, Idle, Step, Unavailable, Info
  <2>1. overlapped \in BOOLEAN /\ pgrepFailed \in BOOLEAN /\ playing \in BOOLEAN /\ playerRuns \in BOOLEAN /\ ~playing
    OBVIOUS
  <2>2. PlayingTypeOK
    BY <2>1 DEF PlayingTypeOK, Infos
  <2>3. PlayingHasTitle
    BY DEF PlayingHasTitle
  <2>4. ~Kept
    BY DEF Kept
  <2>5. QED
    BY <2>2, <2>3, <2>4 DEF PlayingIInv
<1>2. PlayingIInv /\ [PlayingNext]_playingVars => PlayingIInv'
  <2> SUFFICES ASSUME PlayingIInv, [PlayingNext]_playingVars PROVE PlayingIInv'
    OBVIOUS
  <2>1. PlayingTypeOK' /\ PlayingHasTitle'
    BY PlayingTypeStep DEF PlayingIInv
  <2>2. Kept' => KeptIsKnown'
    BY LookingStep, ReadingStep, PlayerStep DEF PlayingNext, ReadProceeds
  <2>3. QED
    BY <2>1, <2>2 DEF PlayingIInv
<1>3. QED
  BY <1>1, <1>2, PTL DEF PlayingSpec

\* A song that is paused keeps its card for the whole grace, whatever its length and
\* however many polls, unless polls overlapped or pgrep failed.
THEOREM PausedCardStaysHolds == PlayingSpec => []PausedCardStays
<1>1. PlayingIInv => PausedCardStays
  BY DEF PlayingIInv, Kept, KeptIsKnown, PausedCardStays
<1>2. QED
  BY <1>1, PlayingIInvHolds, PTL

(***************************************************************************)
(* A widget on its way.  FeedIInv says what the messages under way will    *)
(* have told the phone once each of them is read.                          *)
(***************************************************************************)
Readings == Skies \cup {NoReading}
FeedWidgets == [reading : Readings, stale : BOOLEAN]
FeedMessages == [kind : {"publish", "answer", "unheard"}, widget : FeedWidgets]

FeedTypeOK ==
    /\ sky \in Skies
    /\ stage \in [Polls -> {"none", "asked", "answered"}] /\ body \in [Polls -> Readings]
    /\ \A p \in Polls : stage[p] = "answered" => body[p] \in Skies
    /\ lastGood \in Readings /\ currentStale \in BOOLEAN /\ running \in BOOLEAN
    /\ messages \in Seq(FeedMessages)
    /\ link \in BOOLEAN /\ hello \in {"none", "asked", "collected"} /\ overtaken \in BOOLEAN

\* The last widget published before position i of the queue q, or last where there is none.
Told(q, last, i, widget) ==
    \/ /\ \A k \in 1 .. Len(q) : k < i => q[k].kind # "publish"
       /\ widget = last
    \/ \E j \in 1 .. Len(q) :
          /\ j < i /\ q[j].kind = "publish" /\ q[j].widget = widget
          /\ \A k \in 1 .. Len(q) : j < k /\ k < i => q[k].kind # "publish"

QueueIsTrue ==
    /\ ~running => messages = <<>> /\ current = Nothing
    /\ running => Told(messages, current, Len(messages) + 1, Widget(lastGood, currentStale))
    /\ \A i \in 1 .. Len(messages) :
          /\ messages[i].kind = "publish" => messages[i].widget # Nothing
          /\ messages[i].kind = "answer" =>
                hello = "asked" /\ Told(messages, current, i, messages[i].widget)
    /\ \A i, j \in 1 .. Len(messages) :
          messages[i].kind = "answer" /\ messages[j].kind = "answer" => i = j

PhoneIsTrue ==
    /\ ~link => hello = "none"
    /\ hello = "collected" /\ ~overtaken => answer = current
    /\ link /\ hello = "none" =>
          /\ tileList = Configured
          /\ current # Nothing /\ ~overtaken => weather = current

FeedIInv == FeedTypeOK /\ QueueIsTrue /\ PhoneIsTrue

\* A message at the end of the queue changes nothing of what those before it tell.
LEMMA AppendFacts ==
  ASSUME NEW S, NEW q \in Seq(S), NEW m \in S
  PROVE  /\ Append(q, m) \in Seq(S) /\ Len(Append(q, m)) = Len(q) + 1
         /\ \A k \in 1 .. Len(q) : Append(q, m)[k] = q[k]
         /\ Append(q, m)[Len(q) + 1] = m
         /\ Len(q) \in Nat
  OBVIOUS

LEMMA ToldAppend ==
  ASSUME NEW S, NEW q \in Seq(S), NEW m \in S, NEW last, NEW widget,
         NEW i \in 1 .. Len(q) + 1, Told(q, last, i, widget)
  PROVE  /\ Told(Append(q, m), last, i, widget)
         /\ i = Len(q) + 1 /\ m.kind # "publish"
               => Told(Append(q, m), last, Len(q) + 2, widget)
<1> DEFINE r == Append(q, m)
           n == Len(q)
<1>1. /\ n \in Nat /\ Len(r) = n + 1 /\ r[n + 1] = m
      /\ \A k \in 1 .. n : r[k] = q[k]
  BY AppendFacts
<1> HIDE DEF r, n
<1>2. CASE widget = last /\ \A k \in 1 .. n : k < i => q[k].kind # "publish"
  <2>1. \A k \in 1 .. n + 1 : k < i => r[k].kind # "publish"
    BY <1>1, <1>2 DEF n
  <2>2. Told(r, last, i, widget)
    BY <1>1, <1>2, <2>1 DEF Told
  <2>3. ASSUME i = n + 1, m.kind # "publish" PROVE Told(r, last, n + 2, widget)
    <3>1. \A k \in 1 .. n + 1 : r[k].kind # "publish"
      BY <1>1, <1>2, <2>3
    <3>2. QED
      BY <1>1, <1>2, <3>1 DEF Told
  <2>4. QED
    BY <2>2, <2>3 DEF r, n
<1>3. ASSUME NEW j \in 1 .. n, j < i, q[j].kind = "publish", q[j].widget = widget,
             \A k \in 1 .. n : j < k /\ k < i => q[k].kind # "publish"
      PROVE  /\ Told(r, last, i, widget)
             /\ i = n + 1 /\ m.kind # "publish" => Told(r, last, n + 2, widget)
  <2>1. j \in 1 .. n + 1 /\ r[j].kind = "publish" /\ r[j].widget = widget
    BY <1>1, <1>3
  <2>2. \A k \in 1 .. n + 1 : j < k /\ k < i => r[k].kind # "publish"
    BY <1>1, <1>3 DEF n
  <2>3. Told(r, last, i, widget)
    BY <1>1, <1>3, <2>1, <2>2 DEF Told
  <2>4. ASSUME i = n + 1, m.kind # "publish" PROVE Told(r, last, n + 2, widget)
    <3>1. \A k \in 1 .. n + 1 : j < k => r[k].kind # "publish"
      BY <1>1, <1>3, <2>4
    <3>2. j < n + 2
      BY <1>1
    <3>3. QED
      BY <1>1, <2>1, <3>1, <3>2 DEF Told
  <2>5. QED
    BY <2>3, <2>4
<1>4. QED
  BY <1>2, <1>3 DEF Told, n, r

\* What was just published is what the queue tells in the end.
LEMMA ToldPublish ==
  ASSUME NEW S, NEW q \in Seq(S), NEW m \in S, m.kind = "publish", NEW last
  PROVE  Told(Append(q, m), last, Len(q) + 2, m.widget)
<1> DEFINE r == Append(q, m)
           n == Len(q)
<1>1. n \in Nat /\ Len(r) = n + 1 /\ r[n + 1] = m
  BY AppendFacts
<1> HIDE DEF r, n
<1>2. \A k \in 1 .. n + 1 : n + 1 < k /\ k < n + 2 => r[k].kind # "publish"
  BY <1>1
<1>3. n + 1 \in 1 .. n + 1 /\ n + 1 < n + 2
  BY <1>1
<1>4. Told(r, last, n + 2, m.widget)
  BY <1>1, <1>2, <1>3 DEF Told
<1>5. QED
  BY <1>4 DEF r, n

\* Reading the head of the queue moves what it said into last.
LEMMA ToldTail ==
  ASSUME NEW S, NEW q \in Seq(S), q # <<>>, NEW last, NEW widget,
         NEW i \in 2 .. Len(q) + 1, Told(q, last, i, widget)
  PROVE  Told(Tail(q), IF q[1].kind = "publish" THEN q[1].widget ELSE last, i - 1, widget)
<1> DEFINE r == Tail(q)
           n == Len(q)
           now == IF q[1].kind = "publish" THEN q[1].widget ELSE last
<1>1. n \in Nat /\ n >= 1
  OBVIOUS
<1>2. Len(r) = n - 1 /\ \A k \in 1 .. n - 1 : r[k] = q[k + 1]
  OBVIOUS
<1> HIDE DEF r, n
<1>3. CASE widget = last /\ \A k \in 1 .. n : k < i => q[k].kind # "publish"
  <2>1. q[1].kind # "publish"
    BY <1>1, <1>3 DEF n
  <2>2. \A k \in 1 .. n - 1 : k < i - 1 => r[k].kind # "publish"
    BY <1>1, <1>2, <1>3 DEF n
  <2>3. QED
    BY <1>2, <1>3, <2>1, <2>2 DEF Told, r
<1>4. ASSUME NEW j \in 1 .. n, j < i, q[j].kind = "publish", q[j].widget = widget,
             \A k \in 1 .. n : j < k /\ k < i => q[k].kind # "publish"
      PROVE  Told(r, now, i - 1, widget)
  <2>1. CASE j = 1
    <3>1. now = widget
      BY <1>4, <2>1
    <3>2. \A k \in 1 .. n - 1 : k < i - 1 => r[k].kind # "publish"
      BY <1>1, <1>2, <1>4, <2>1 DEF n
    <3>3. QED
      BY <1>2, <3>1, <3>2 DEF Told
  <2>2. CASE j # 1
    <3>1. /\ j - 1 \in 1 .. n - 1 /\ j - 1 < i - 1
          /\ r[j - 1].kind = "publish" /\ r[j - 1].widget = widget
      BY <1>1, <1>2, <1>4, <2>2 DEF n
    <3>2. \A k \in 1 .. n - 1 : j - 1 < k /\ k < i - 1 => r[k].kind # "publish"
      BY <1>1, <1>2, <1>4, <2>2 DEF n
    <3> HIDE DEF now
    <3>3. QED
      BY <1>2, <3>1, <3>2 DEF Told
  <2>3. QED
    BY <2>1, <2>2
<1>5. QED
  BY <1>3, <1>4 DEF Told, n, r

\* What a message tells does not depend on whether an answer is still heard.
LEMMA ToldUnheard ==
  ASSUME NEW q \in Seq(FeedMessages), NEW last, NEW widget, NEW i, Told(q, last, i, widget)
  PROVE  Told([k \in DOMAIN q |-> Unheard(q[k])], last, i, widget)
<1> DEFINE r == [k \in DOMAIN q |-> Unheard(q[k])]
<1>1. DOMAIN q = 1 .. Len(q) /\ Len(q) \in Nat
  OBVIOUS
<1>2. Len(r) = Len(q)
  BY <1>1
<1>3. \A k \in 1 .. Len(q) : r[k].kind = "publish" <=> q[k].kind = "publish"
  BY <1>1 DEF Unheard, FromWorker
<1>4. \A k \in 1 .. Len(q) : r[k].widget = q[k].widget
  BY <1>1 DEF Unheard, FromWorker
<1> HIDE DEF r
<1>5. Told(r, last, i, widget)
  BY <1>2, <1>3, <1>4 DEF Told
<1>6. QED
  BY <1>5 DEF r

LEMMA FeedTypeStep ==
  ASSUME FeedTypeOK, [FeedNext]_feedVars
  PROVE  FeedTypeOK'
<1> USE FeedAssumption DEF FeedTypeOK, HostIdle, pluginVars
<1>1. ASSUME NEW w \in FeedWidgets, NEW kind \in {"publish", "answer"}
      PROVE  Append(messages, FromWorker(kind, w)) \in Seq(FeedMessages)
  BY DEF FromWorker, FeedMessages
<1>2. ASSUME NEW p \in Polls, PollStarts(p) PROVE FeedTypeOK'
  BY <1>2 DEF PollStarts
<1>3. ASSUME NEW p \in Polls, ForecastRead(p) PROVE FeedTypeOK'
  BY <1>3 DEF ForecastRead, Readings
<1>4. ASSUME NEW p \in Polls, PollSucceeds(p) PROVE FeedTypeOK'
  <2>1. body[p] \in Skies /\ Widget(body[p], FALSE) \in FeedWidgets
    BY <1>4 DEF PollSucceeds, Widget, FeedWidgets, Readings
  <2>2. messages' \in Seq(FeedMessages)
    BY <1>1, <1>4, <2>1 DEF PollSucceeds, Publish
  <2>3. QED
    BY <1>4, <2>1, <2>2 DEF PollSucceeds, PollOver, Readings
<1>5. ASSUME NEW p \in Polls, PollFails(p) PROVE FeedTypeOK'
  <2>1. Widget(lastGood, TRUE) \in FeedWidgets
    BY DEF Widget, FeedWidgets
  <2>2. messages' \in Seq(FeedMessages)
    BY <1>1, <1>5, <2>1 DEF PollFails, Publish
  <2>3. QED
    BY <1>5, <2>2 DEF PollFails, PollOver, Readings
<1>6. CASE Connects
  <2>1. Widget(lastGood, currentStale) \in FeedWidgets
    BY DEF Widget, FeedWidgets
  <2>2. messages' \in Seq(FeedMessages)
    BY <1>1, <1>6, <2>1 DEF Connects
  <2>3. QED
    BY <1>6, <2>2 DEF Connects
<1>7. CASE Disconnects
  <2>1. \A k \in DOMAIN messages : Unheard(messages[k]) \in FeedMessages
    <3>1. \A k \in DOMAIN messages : messages[k] \in FeedMessages
      OBVIOUS
    <3>2. \A w \in FeedWidgets : FromWorker("unheard", w) \in FeedMessages
      BY DEF FromWorker, FeedMessages
    <3>3. \A message \in FeedMessages : message.widget \in FeedWidgets
      BY DEF FeedMessages
    <3>4. QED
      BY <3>1, <3>2, <3>3 DEF Unheard
  <2>2. messages' \in Seq(FeedMessages)
    BY <1>7, <2>1 DEF Disconnects
  <2>3. QED
    BY <1>7, <2>2 DEF Disconnects
<1>8. CASE HostReads
  <2>1. messages' \in Seq(FeedMessages)
    BY <1>8 DEF HostReads
  <2>2. overtaken' \in BOOLEAN /\ hello' \in {"none", "asked", "collected"}
    BY <1>8 DEF HostReads, HandlesPublish, HandlesAnswer
  <2>3. UNCHANGED <<sky, stage, body, lastGood, currentStale, running, link>>
    BY <1>8 DEF HostReads
  <2>4. QED
    BY <2>1, <2>2, <2>3
<1>9. CASE SnapshotSent
  BY <1>9 DEF SnapshotSent
<1>10. CASE CoreRestarts
  <2>1. InitPolls \in [Polls -> {"none", "asked", "answered"}]
        /\ \A p \in Polls : InitPolls[p] # "answered"
    BY DEF InitPolls
  <2>2. NoBodies \in [Polls -> Readings]
    BY DEF NoBodies, Readings
  <2>3. stage' = InitPolls /\ body' = NoBodies
    BY <1>10 DEF CoreRestarts
  <2>4. /\ sky' \in Skies /\ lastGood' \in Readings /\ currentStale' \in BOOLEAN
        /\ running' \in BOOLEAN /\ link' \in BOOLEAN
        /\ hello' \in {"none", "asked", "collected"} /\ overtaken' \in BOOLEAN
    BY <1>10 DEF CoreRestarts, Readings
  <2>5. messages' \in Seq(FeedMessages)
    BY <1>10 DEF CoreRestarts
  <2>6. QED
    BY <2>1, <2>2, <2>3, <2>4, <2>5
<1>11. ASSUME NEW new \in Skies, SkyBecomes(new) PROVE FeedTypeOK'
  BY <1>11 DEF SkyBecomes
<1>12. CASE UNCHANGED feedVars
  BY <1>12 DEF feedVars
<1>13. QED
  BY <1>2, <1>3, <1>4, <1>5, <1>6, <1>7, <1>8, <1>9, <1>10, <1>11, <1>12
     DEF FeedNext, PollProceeds

\* A poll that ends says what the worker has come to hold.
LEMMA PublishStep ==
  ASSUME FeedTypeOK, QueueIsTrue, NEW widget \in FeedWidgets, widget # Nothing,
         Publish(widget), HostIdle, running',
         Widget(lastGood', currentStale') = widget
  PROVE  QueueIsTrue'
<1> DEFINE m == FromWorker("publish", widget)
           n == Len(messages)
<1>1. m \in FeedMessages /\ m.kind = "publish" /\ m.widget = widget
  BY DEF FromWorker, FeedMessages
<1>2. messages' = Append(messages, m) /\ current' = current /\ hello' = hello
  BY DEF Publish, HostIdle
<1>3. messages \in Seq(FeedMessages)
  BY DEF FeedTypeOK
<1>4. /\ Len(messages') = n + 1 /\ n \in Nat /\ messages'[n + 1] = m
      /\ \A k \in 1 .. n : messages'[k] = messages[k]
  BY <1>1, <1>2, <1>3, AppendFacts
<1> HIDE DEF m, n
<1>5. Told(messages', current', Len(messages') + 1, widget)
  <2>1. Told(Append(messages, m), current, Len(messages) + 2, m.widget)
    BY <1>1, <1>3, ToldPublish
  <2>2. Len(messages') + 1 = Len(messages) + 2
    BY <1>4 DEF n
  <2>3. QED
    BY <1>1, <1>2, <2>1, <2>2
<1>6. ASSUME NEW i \in 1 .. n + 1
      PROVE  /\ messages'[i].kind = "publish" => messages'[i].widget # Nothing
             /\ messages'[i].kind = "answer" =>
                   hello' = "asked" /\ Told(messages', current', i, messages'[i].widget)
  <2>1. CASE i = n + 1
    BY <1>1, <1>4, <2>1
  <2>2. CASE i # n + 1
    <3>1. i \in 1 .. n /\ messages'[i] = messages[i]
      BY <1>4, <2>2
    <3>2. /\ messages[i].kind = "publish" => messages[i].widget # Nothing
          /\ messages[i].kind = "answer" =>
                hello = "asked" /\ Told(messages, current, i, messages[i].widget)
      BY <3>1 DEF QueueIsTrue, n
    <3>3. Told(messages, current, i, messages[i].widget)
              => Told(messages', current, i, messages[i].widget)
      <4>1. i \in 1 .. Len(messages) + 1
        BY <1>4 DEF n
      <4>2. QED
        BY <1>1, <1>2, <1>3, <4>1, ToldAppend
    <3>4. QED
      BY <1>2, <3>1, <3>2, <3>3
  <2>3. QED
    BY <2>1, <2>2
<1>7. ASSUME NEW i \in 1 .. n + 1, NEW j \in 1 .. n + 1,
             messages'[i].kind = "answer", messages'[j].kind = "answer"
      PROVE  i = j
  <2>1. i # n + 1 /\ j # n + 1
    BY <1>1, <1>4, <1>7
  <2>2. i \in 1 .. n /\ j \in 1 .. n
    BY <1>4, <2>1
  <2>3. messages[i].kind = "answer" /\ messages[j].kind = "answer"
    BY <1>4, <1>7, <2>2
  <2>4. QED
    BY <2>2, <2>3 DEF QueueIsTrue, n
<1>8. QED
  BY <1>4, <1>5, <1>6, <1>7 DEF QueueIsTrue, n

\* hello asks the worker for what it holds.
LEMMA AskedStep ==
  ASSUME FeedTypeOK, QueueIsTrue, PhoneIsTrue, Connects
  PROVE  QueueIsTrue' /\ PhoneIsTrue'
<1> DEFINE widget == Widget(lastGood, currentStale)
           m == FromWorker("answer", widget)
           n == Len(messages)
<1>1. UNCHANGED <<running, lastGood, currentStale, current, overtaken>> /\ link'
      /\ hello = "none" /\ messages \in Seq(FeedMessages)
  BY DEF Connects, pluginVars, PhoneIsTrue, FeedTypeOK
<1>2. CASE ~running
  <2>1. messages' = messages /\ hello' = "collected" /\ answer' = Nothing
    BY <1>2 DEF Connects
  <2>2. messages = <<>> /\ current = Nothing
    BY <1>2 DEF QueueIsTrue
  <2>3. Len(messages') = 0
    BY <2>1, <2>2
  <2>4. QueueIsTrue'
    BY <1>1, <1>2, <2>1, <2>2, <2>3 DEF QueueIsTrue
  <2>5. QED
    BY <1>1, <2>1, <2>2, <2>4 DEF PhoneIsTrue
<1>3. CASE running
  <2>1. messages' = Append(messages, m) /\ hello' = "asked"
    BY <1>3 DEF Connects
  <2>2. m \in FeedMessages /\ m.kind = "answer" /\ m.widget = widget
    BY DEF FromWorker, FeedMessages, Widget, FeedWidgets, FeedTypeOK
  <2>3. /\ Len(messages') = n + 1 /\ n \in Nat /\ messages'[n + 1] = m
        /\ \A k \in 1 .. n : messages'[k] = messages[k]
    BY <1>1, <2>1, <2>2, AppendFacts
  <2> HIDE DEF m, n
  <2>4. Told(messages, current, n + 1, widget)
    BY <1>3 DEF QueueIsTrue, n
  <2>5. Told(messages', current, n + 1, widget) /\ Told(messages', current, n + 2, widget)
    <3>1. n + 1 \in 1 .. Len(messages) + 1 /\ n + 1 = Len(messages) + 1 /\ n + 2 = Len(messages) + 2
      BY <2>3 DEF n
    <3>2. QED
      BY <1>1, <2>1, <2>2, <2>4, <3>1, ToldAppend
  <2>6. \A k \in 1 .. n : messages[k].kind # "answer"
    BY <1>1 DEF QueueIsTrue, n
  <2>7. \A k \in 1 .. n + 1 : messages'[k].kind = "answer" => k = n + 1
    BY <2>3, <2>6
  <2>8. \A k \in 1 .. n + 1 : messages'[k].kind = "publish" => messages'[k].widget # Nothing
    <3>1. \A k \in 1 .. n : messages[k].kind = "publish" => messages[k].widget # Nothing
      BY DEF QueueIsTrue, n
    <3>2. QED
      BY <2>2, <2>3, <3>1
  <2>9. Len(messages') + 1 = n + 2 /\ running' /\ current' = current
        /\ Widget(lastGood', currentStale') = widget
    BY <1>1, <1>3, <2>3
  <2>10. QueueIsTrue'
    BY <2>1, <2>2, <2>3, <2>5, <2>7, <2>8, <2>9 DEF QueueIsTrue
  <2>11. QED
    BY <1>1, <2>1, <2>10 DEF PhoneIsTrue
<1>4. QED
  BY <1>2, <1>3

\* The connection drops, and the answer on its way to it is not heard.
LEMMA DroppedStep ==
  ASSUME FeedTypeOK, QueueIsTrue, PhoneIsTrue, Disconnects
  PROVE  QueueIsTrue' /\ PhoneIsTrue'
<1> DEFINE n == Len(messages)
<1>1. /\ UNCHANGED <<running, lastGood, currentStale, current>>
      /\ ~link' /\ hello' = "none" /\ messages \in Seq(FeedMessages)
      /\ messages' = [k \in DOMAIN messages |-> Unheard(messages[k])]
  BY DEF Disconnects, pluginVars, FeedTypeOK
<1>2. DOMAIN messages = 1 .. n /\ n \in Nat
  BY <1>1
<1>3. Len(messages') = n /\ \A k \in 1 .. n : messages'[k] = Unheard(messages[k])
  BY <1>1, <1>2
<1> HIDE DEF n
<1>4. \A k \in 1 .. n : /\ messages'[k].kind # "answer"
                        /\ messages'[k].widget = messages[k].widget
                        /\ messages'[k].kind = "publish" => messages[k].kind = "publish"
  BY <1>3 DEF Unheard, FromWorker
<1>5. \A k \in 1 .. n : messages'[k].kind = "publish" => messages'[k].widget # Nothing
  BY <1>4 DEF QueueIsTrue, n
<1>6. running' => Told(messages', current', n + 1, Widget(lastGood', currentStale'))
  <2>1. running => Told(messages, current, n + 1, Widget(lastGood, currentStale))
    BY DEF QueueIsTrue, n
  <2>2. QED
    BY <1>1, <2>1, ToldUnheard
<1>7. ~running' => messages' = <<>> /\ current' = Nothing
  <2>1. ~running => messages = <<>> /\ current = Nothing
    BY DEF QueueIsTrue
  <2>2. messages = <<>> => n = 0
    BY DEF n
  <2>3. n = 0 => messages' = <<>>
    BY <1>1, <1>2
  <2>4. QED
    BY <1>1, <2>1, <2>2, <2>3
<1>8. QueueIsTrue'
  BY <1>3, <1>4, <1>5, <1>6, <1>7 DEF QueueIsTrue
<1>9. QED
  BY <1>1, <1>8 DEF PhoneIsTrue

\* The host reads a message: the queue tells the same of what is left of it.
LEMMA ReadStep ==
  ASSUME FeedTypeOK, QueueIsTrue, PhoneIsTrue, HostReads
  PROVE  QueueIsTrue' /\ PhoneIsTrue'
<1> DEFINE n == Len(messages)
           head == messages[1]
<1>1. /\ UNCHANGED <<running, lastGood, currentStale, link>>
      /\ messages \in Seq(FeedMessages) /\ messages # <<>>
      /\ messages' = Tail(messages) /\ Head(messages) = head
  BY DEF HostReads, pluginVars, FeedTypeOK
<1>2. /\ n \in Nat /\ n >= 1 /\ Len(messages') = n - 1
      /\ \A k \in 1 .. n - 1 : messages'[k] = messages[k + 1]
  BY <1>1
<1>3. 1 \in 1 .. n /\ \A k \in 1 .. n - 1 : k + 1 \in 1 .. n /\ k + 1 \in 2 .. n + 1
  BY <1>2
<1> HIDE DEF n, head
<1>4. running
  BY <1>1 DEF QueueIsTrue
<1>5. /\ head.kind = "publish" => head.widget # Nothing
      /\ head.kind = "answer" =>
            hello = "asked" /\ Told(messages, current, 1, head.widget)
  BY <1>3 DEF QueueIsTrue, n, head
<1>6. current' = IF head.kind = "publish" THEN head.widget ELSE current
  BY <1>1 DEF HostReads, HandlesPublish, HandlesAnswer
<1>7. ASSUME NEW i \in 2 .. n + 1, NEW widget, Told(messages, current, i, widget)
      PROVE  Told(messages', current', i - 1, widget)
  BY <1>1, <1>6, <1>7, ToldTail DEF n, head
<1>8. head.kind = "answer" => head.widget = current
  <2>1. Told(messages, current, 1, head.widget) => head.widget = current
    BY <1>2 DEF Told, n
  <2>2. QED
    BY <1>5, <2>1
<1>9. /\ head.kind = "answer" => \A k \in 1 .. n - 1 : messages'[k].kind # "answer"
      /\ head.kind # "answer" => hello' = hello
  <2>1. head.kind = "answer" => \A k \in 1 .. n - 1 : messages'[k].kind # "answer"
    <3>1. \A k \in 1 .. n : head.kind = "answer" /\ messages[k].kind = "answer" => k = 1
      BY <1>3 DEF QueueIsTrue, n, head
    <3>2. QED
      BY <1>2, <1>3, <3>1
  <2>2. head.kind # "answer" => hello' = hello
    BY <1>1 DEF HostReads, HandlesPublish
  <2>3. QED
    BY <2>1, <2>2
<1>10. QueueIsTrue'
  <2>1. Told(messages', current', n, Widget(lastGood', currentStale'))
    <3>1. Told(messages, current, n + 1, Widget(lastGood, currentStale))
      BY <1>4 DEF QueueIsTrue, n
    <3>2. n + 1 \in 2 .. n + 1 /\ (n + 1) - 1 = n
      BY <1>2
    <3>3. QED
      BY <1>1, <1>7, <3>1, <3>2
  <2>2. ASSUME NEW i \in 1 .. n - 1
        PROVE  /\ messages'[i].kind = "publish" => messages'[i].widget # Nothing
               /\ messages'[i].kind = "answer" =>
                     hello' = "asked" /\ Told(messages', current', i, messages'[i].widget)
    <3>1. messages'[i] = messages[i + 1] /\ i + 1 \in 1 .. n /\ i + 1 \in 2 .. n + 1
      BY <1>2, <1>3
    <3>2. /\ messages[i + 1].kind = "publish" => messages[i + 1].widget # Nothing
          /\ messages[i + 1].kind = "answer" =>
                hello = "asked" /\ Told(messages, current, i + 1, messages[i + 1].widget)
      BY <3>1 DEF QueueIsTrue, n
    <3>3. (i + 1) - 1 = i
      BY <1>2
    <3>4. Told(messages, current, i + 1, messages[i + 1].widget)
              => Told(messages', current', i, messages[i + 1].widget)
      BY <1>7, <3>1, <3>3
    <3>5. QED
      BY <1>9, <3>1, <3>2, <3>4
  <2>3. \A i, j \in 1 .. n - 1 :
           messages'[i].kind = "answer" /\ messages'[j].kind = "answer" => i = j
    <3>1. \A i, j \in 1 .. n :
             messages[i].kind = "answer" /\ messages[j].kind = "answer" => i = j
      BY DEF QueueIsTrue, n
    <3>2. ASSUME NEW i \in 1 .. n - 1, NEW j \in 1 .. n - 1, i + 1 = j + 1 PROVE i = j
      BY <1>2, <3>2
    <3>3. QED
      BY <1>2, <1>3, <3>1, <3>2
  <2>4. Len(messages') + 1 = n /\ running'
    BY <1>1, <1>2, <1>4
  <2>5. QED
    BY <1>2, <2>1, <2>2, <2>3, <2>4 DEF QueueIsTrue
<1>11. PhoneIsTrue'
  <2>1. CASE head.kind = "publish"
    <3>1. HandlesPublish(head.widget)
      BY <1>1, <2>1 DEF HostReads
    <3>2. /\ hello' = hello /\ answer' = answer /\ current' = head.widget
          /\ overtaken' = (hello = "collected")
          /\ link => weather' = head.widget /\ tileList' = tileList
      BY <1>5, <2>1, <3>1 DEF HandlesPublish, Merges
    <3>3. QED
      BY <1>1, <3>2 DEF PhoneIsTrue
  <2>2. CASE head.kind = "answer"
    <3>1. HandlesAnswer(head.widget)
      BY <1>1, <2>2 DEF HostReads
    <3>2. hello' = "collected" /\ answer' = current /\ current' = current /\ hello = "asked"
      BY <1>5, <1>8, <2>2, <3>1 DEF HandlesAnswer
    <3>3. QED
      BY <1>1, <3>2 DEF PhoneIsTrue
  <2>3. CASE head.kind \notin {"publish", "answer"}
    <3>1. UNCHANGED <<hello, answer, weather, tileList, current, overtaken>>
      BY <1>1, <2>3 DEF HostReads
    <3>2. QED
      BY <1>1, <3>1 DEF PhoneIsTrue
  <2>4. QED
    BY <2>1, <2>2, <2>3
<1>12. QED
  BY <1>10, <1>11

\* The rest: the plugin's own steps, the snapshot, and a core that restarts.
LEMMA FeedStep ==
  ASSUME FeedIInv, [FeedNext]_feedVars
  PROVE  FeedIInv'
<1>1. FeedTypeOK /\ QueueIsTrue /\ PhoneIsTrue
  BY DEF FeedIInv
<1>2. FeedTypeOK'
  BY <1>1, FeedTypeStep
<1>3. ASSUME NEW p \in Polls, PollStarts(p) \/ ForecastRead(p) PROVE QueueIsTrue' /\ PhoneIsTrue'
  <2>1. UNCHANGED <<lastGood, currentStale, running, messages,
                    link, hello, answer, weather, tileList, current, overtaken>>
    BY <1>3 DEF PollStarts, ForecastRead, HostIdle
  <2>2. QED
    BY <1>1, <2>1 DEF QueueIsTrue, PhoneIsTrue
<1>4. ASSUME NEW p \in Polls, PollSucceeds(p) PROVE QueueIsTrue' /\ PhoneIsTrue'
  <2>1. body[p] \in Skies
    BY <1>1, <1>4 DEF PollSucceeds, FeedTypeOK
  <2>2. Widget(body[p], FALSE) \in FeedWidgets /\ Widget(body[p], FALSE) # Nothing
    BY <2>1, FeedAssumption DEF Widget, FeedWidgets, Nothing, Readings
  <2>3. /\ Publish(Widget(body[p], FALSE)) /\ HostIdle /\ running'
        /\ Widget(lastGood', currentStale') = Widget(body[p], FALSE)
    BY <1>4 DEF PollSucceeds, PollOver
  <2>4. QueueIsTrue'
    BY <1>1, <2>2, <2>3, PublishStep
  <2>5. PhoneIsTrue'
    BY <1>1, <2>3 DEF HostIdle, PhoneIsTrue
  <2>6. QED
    BY <2>4, <2>5
<1>5. ASSUME NEW p \in Polls, PollFails(p) PROVE QueueIsTrue' /\ PhoneIsTrue'
  <2>1. Widget(lastGood, TRUE) \in FeedWidgets /\ Widget(lastGood, TRUE) # Nothing
    BY <1>1 DEF Widget, FeedWidgets, Nothing, FeedTypeOK
  <2>2. /\ Publish(Widget(lastGood, TRUE)) /\ HostIdle /\ running'
        /\ Widget(lastGood', currentStale') = Widget(lastGood, TRUE)
    BY <1>5 DEF PollFails, PollOver
  <2>3. QueueIsTrue'
    BY <1>1, <2>1, <2>2, PublishStep
  <2>4. PhoneIsTrue'
    BY <1>1, <2>2 DEF HostIdle, PhoneIsTrue
  <2>5. QED
    BY <2>3, <2>4
<1>6. ASSUME SnapshotSent PROVE QueueIsTrue' /\ PhoneIsTrue'
  <2>1. QueueIsTrue'
    <3>1. hello # "asked" /\ UNCHANGED <<running, messages, current, lastGood, currentStale>>
      BY <1>6 DEF SnapshotSent, pluginVars
    <3>2. QED
      BY <1>1, <3>1 DEF QueueIsTrue
  <2>2. /\ hello = "collected" /\ hello' = "none"
        /\ UNCHANGED <<link, current, overtaken>> /\ Merges(answer, Configured)
    BY <1>6 DEF SnapshotSent
  <2>3. link => /\ tileList' = Configured
                /\ answer # Nothing => weather' = answer
    BY <2>2, FeedAssumption DEF Merges
  <2>4. PhoneIsTrue'
    BY <1>1, <2>2, <2>3 DEF PhoneIsTrue
  <2>5. QED
    BY <2>1, <2>4
<1>7. ASSUME CoreRestarts PROVE QueueIsTrue' /\ PhoneIsTrue'
  <2>1. ~running' /\ messages' = <<>> /\ current' = Nothing /\ ~link' /\ hello' = "none"
    BY <1>7 DEF CoreRestarts
  <2>2. Len(messages') = 0
    BY <2>1
  <2>3. QED
    BY <2>1, <2>2 DEF QueueIsTrue, PhoneIsTrue
<1>8. ASSUME NEW new \in Skies, SkyBecomes(new) PROVE QueueIsTrue' /\ PhoneIsTrue'
  BY <1>1, <1>8 DEF SkyBecomes, pluginVars, QueueIsTrue, PhoneIsTrue
<1>9. ASSUME UNCHANGED feedVars PROVE QueueIsTrue' /\ PhoneIsTrue'
  BY <1>1, <1>9 DEF feedVars, pluginVars, QueueIsTrue, PhoneIsTrue
<1>10. QueueIsTrue' /\ PhoneIsTrue'
  BY <1>1, <1>3, <1>4, <1>5, <1>6, <1>7, <1>8, <1>9, AskedStep, DroppedStep, ReadStep
     DEF FeedNext, PollProceeds
<1>11. QED
  BY <1>2, <1>10 DEF FeedIInv

\* FeedIInv holds in every reachable state, without the bound on the messages under way.
THEOREM FeedIInvHolds == FeedSpec => []FeedIInv
<1>1. FeedInit => FeedIInv
  <2> SUFFICES ASSUME FeedInit PROVE FeedIInv
    OBVIOUS
  <2>1. InitPolls \in [Polls -> {"none", "asked", "answered"}]
        /\ \A p \in Polls : InitPolls[p] # "answered"
    BY DEF InitPolls
  <2>2. NoBodies \in [Polls -> Readings]
    BY DEF NoBodies, Readings
  <2>3. Len(<<>>) = 0 /\ <<>> \in Seq(FeedMessages)
    OBVIOUS
  <2>4. FeedTypeOK
    BY <2>1, <2>2, <2>3 DEF FeedInit, FeedTypeOK, Readings
  <2>5. QueueIsTrue
    <3>1. messages = <<>> /\ current = Nothing /\ ~running
      BY DEF FeedInit
    <3>2. 1 .. Len(messages) = {}
      BY <2>3, <3>1
    <3>3. QED
      BY <3>1, <3>2 DEF QueueIsTrue
  <2>6. PhoneIsTrue
    BY DEF FeedInit, PhoneIsTrue
  <2>7. QED
    BY <2>4, <2>5, <2>6 DEF FeedIInv
<1>2. FeedIInv /\ [FeedNext]_feedVars => FeedIInv'
  BY FeedStep
<1>3. QED
  BY <1>1, <1>2, PTL DEF FeedSpec

\* A connected phone to which nothing is under way shows the last widget published,
\* for any readings and any number of overlapping polls, unless a broadcast passed
\* the snapshot.
THEOREM PhoneShowsTheLastHolds == FeedSpec => []PhoneShowsTheLast
<1>1. FeedIInv => PhoneShowsTheLast
  BY DEF FeedIInv, PhoneIsTrue, PhoneShowsTheLast
<1>2. QED
  BY <1>1, FeedIInvHolds, PTL
=============================================================================
