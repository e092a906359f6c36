----------------------------- MODULE WorkerHost -----------------------------
(***************************************************************************)
(* The plugin worker host, packages/core/src/workerHost.ts, for one plugin *)
(* (the maps of WorkerHost keep the plugins apart), with the worker        *)
(* threads it spawns (workerEntry.ts).                                     *)
(*                                                                         *)
(* A worker is a number, in the order of spawning; the one in the map      *)
(* `workers' is always the last.  Node delivers a worker's messages in the *)
(* order they were posted, all of them before its exit event.              *)
(*                                                                         *)
(* One tick is a second.  MaxCalls bounds the calls of getWidgets.         *)
(***************************************************************************)
EXTENDS Timer, FiniteSets, Sequences

CONSTANTS MaxRestarts, CallTimeout, MaxCalls

ASSUME WorkerHostAssumption ==
    MaxRestarts \in Nat /\ CallTimeout \in Nat \ {0} /\ MaxCalls \in Nat

VARIABLES
    status, restarts,
    respawn,            \* the backoff timer of each restart: several may be pending
    spawned,            \* the worker in `workers'
    requestCounter,     \* getWidgets calls made
    deadline,           \* per call; pending while pendingResolvers has the call
    sentTo,             \* the worker the call was posted to
    phase,              \* of each worker thread
    outbox,             \* messages posted by each worker and not handled
    answered            \* calls some worker has answered

hostVars == <<status, restarts, respawn, spawned, requestCounter, deadline, sentTo>>
workerVars == <<phase, outbox, answered>>
workerHostVars == <<hostVars, workerVars>>

Workers == 1 .. (MaxRestarts + 1)
Calls == 1 .. MaxCalls

\* crashing and terminated will exit with a code other than 0, leaving with 0.
Phases == {"unborn", "loading", "serving", "crashing", "terminated", "leaving", "exited"}
Alive == {"loading", "serving"}

Message(kind, call) == [kind |-> kind, call |-> call]
Post(w, message) == outbox' = [outbox EXCEPT ![w] = Append(@, message)]

\* It doubles from one second up to the cap of 30.
Backoff(count) == IF count <= 5 THEN <<1, 2, 4, 8, 16>>[count] ELSE 30

HostInit ==
    /\ status = "starting" /\ restarts = 0 /\ spawned = 1
    /\ respawn = [n \in 1 .. MaxRestarts |-> Off]
    /\ requestCounter = 0
    /\ deadline = [c \in Calls |-> Off]
    /\ sentTo = [c \in Calls |-> 0]
    /\ phase = [w \in Workers |-> IF w = 1 THEN "loading" ELSE "unborn"]
    /\ outbox = [w \in Workers |-> <<>>]
    /\ answered = {}

-----------------------------------------------------------------------------
(* The worker thread.                                                      *)

Enters(w, from, to) == phase[w] = from /\ phase' = [phase EXCEPT ![w] = to]

BecomesReady(w) ==
    /\ Enters(w, "loading", "serving")
    /\ Post(w, Message("ready", 0))
    /\ UNCHANGED <<hostVars, answered>>

\* A handler that throws, hangs or never settles just does not answer.
Answers(w, c) ==
    /\ phase[w] = "serving" /\ sentTo[c] = w /\ c \notin answered
    /\ answered' = answered \cup {c}
    /\ Post(w, Message("getWidgetsResult", c))
    /\ UNCHANGED <<hostVars, phase>>

\* An uncaught exception emits `error' before `exit'; process.exit does not.
ThrowsUncaught(w) ==
    /\ \E from \in Alive : Enters(w, from, "crashing")
    /\ Post(w, Message("error", 0))
    /\ UNCHANGED <<hostVars, answered>>

ExitsWith(w, ending) ==
    /\ \E from \in Alive : Enters(w, from, ending)
    /\ UNCHANGED <<hostVars, outbox, answered>>

WorkerStep(w) ==
    \/ BecomesReady(w)
    \/ \E c \in Calls : Answers(w, c)
    \/ ThrowsUncaught(w)
    \/ \E ending \in {"crashing", "leaving"} : ExitsWith(w, ending)

-----------------------------------------------------------------------------
(* The host.                                                               *)

HandleCrash ==
    /\ restarts' = restarts + 1
    /\ IF restarts + 1 > MaxRestarts
       THEN status' = "failed" /\ UNCHANGED respawn
       ELSE /\ respawn' = [respawn EXCEPT ![restarts + 1] = Backoff(restarts + 1)]
            /\ UNCHANGED status

Receive(w, kind) ==
    /\ outbox[w] # <<>> /\ Head(outbox[w]).kind = kind
    /\ outbox' = [outbox EXCEPT ![w] = Tail(@)]
    /\ UNCHANGED <<phase, answered>>

HandleReady(w) ==
    /\ Receive(w, "ready")
    /\ status' = "running"
    /\ UNCHANGED <<restarts, respawn, spawned, requestCounter, deadline, sentTo>>

HandleResult(w) ==
    /\ Receive(w, "getWidgetsResult")
    /\ deadline' = [deadline EXCEPT ![Head(outbox[w]).call] = Off]
    /\ UNCHANGED <<status, restarts, respawn, spawned, requestCounter, sentTo>>

\* Mutant: the crash is counted at its error event as well as at its exit.
ErrorIsCrash(w) ==
    /\ Receive(w, "error")
    /\ HandleCrash
    /\ UNCHANGED <<spawned, requestCounter, deadline, sentTo>>

\* Only logged: the exit event that follows is the crash.
HandleError(w) == Receive(w, "error") /\ UNCHANGED hostVars

IsGone(w) ==
    /\ phase[w] \in {"crashing", "terminated", "leaving"} /\ outbox[w] = <<>>
    /\ phase' = [phase EXCEPT ![w] = "exited"]
    /\ UNCHANGED <<outbox, answered, spawned, requestCounter, deadline, sentTo>>

\* Mutant: only a running plugin is restarted.
RestartsRunningOnly(w) ==
    /\ IsGone(w)
    /\ IF phase[w] # "leaving" /\ status = "running"
       THEN HandleCrash
       ELSE UNCHANGED <<status, restarts, respawn>>

HandleExit(w) ==
    /\ IsGone(w)
    /\ IF phase[w] # "leaving" /\ status \notin {"failed", "degraded"}
       THEN HandleCrash
       ELSE UNCHANGED <<status, restarts, respawn>>

\* spawn, called back by the timer of the n-th restart.
Respawns(n) ==
    /\ Due(respawn[n])
    /\ respawn' = [respawn EXCEPT ![n] = Off]
    /\ status' = "starting"
    /\ spawned' = spawned + 1
    /\ Enters(spawned + 1, "unborn", "loading")
    /\ UNCHANGED <<restarts, requestCounter, deadline, sentTo, outbox, answered>>

\* getWidgets of a running plugin; for any other it returns [] at once.
GetWidgets ==
    /\ status = "running" /\ requestCounter < MaxCalls
    /\ requestCounter' = requestCounter + 1
    /\ deadline' = [deadline EXCEPT ![requestCounter + 1] = CallTimeout]
    /\ sentTo' = [sentTo EXCEPT ![requestCounter + 1] = spawned]
    /\ UNCHANGED <<status, restarts, respawn, spawned, workerVars>>

\* terminate() of a worker that is already ending changes nothing.
TerminateAndDegrade ==
    /\ status' = "degraded"
    /\ phase' = [phase EXCEPT ![spawned] = IF @ \in Alive THEN "terminated" ELSE @]

\* Mutant: a deadline that finds the plugin not running is dropped.
DeadlineOfRunningFires(c) ==
    /\ Due(deadline[c]) /\ status = "running"
    /\ deadline' = [deadline EXCEPT ![c] = Off]
    /\ TerminateAndDegrade
    /\ UNCHANGED <<restarts, respawn, spawned, requestCounter, sentTo, outbox, answered>>

DeadlineFires(c) ==
    /\ Due(deadline[c])
    /\ deadline' = [deadline EXCEPT ![c] = Off]
    /\ TerminateAndDegrade
    /\ UNCHANGED <<restarts, respawn, spawned, requestCounter, sentTo, outbox, answered>>

HostTick ==
    /\ respawn' = [n \in DOMAIN respawn |-> Elapse(respawn[n])]
    /\ deadline' = [c \in Calls |-> Elapse(deadline[c])]
    /\ UNCHANGED <<status, restarts, spawned, requestCounter, sentTo, workerVars>>

HandleMessage(w) == HandleReady(w) \/ HandleResult(w) \/ HandleError(w)

TimerFires == (\E n \in DOMAIN respawn : Respawns(n)) \/ (\E c \in Calls : DeadlineFires(c))

HostNext ==
    \/ \E w \in Workers : WorkerStep(w) \/ HandleMessage(w) \/ HandleExit(w)
    \/ TimerFires
    \/ GetWidgets
    \/ HostTick

\* Node runs due callbacks and delivers what workers post and their exits;
\* nothing is assumed of plugin code or of callers.
HostFairness ==
    /\ \A w \in Workers : WF_workerHostVars(HandleMessage(w)) /\ WF_workerHostVars(HandleExit(w))
    /\ \A n \in 1 .. MaxRestarts : WF_workerHostVars(Respawns(n))
    /\ \A c \in Calls : WF_workerHostVars(DeadlineFires(c))
    /\ WF_workerHostVars(HostTick)

WorkerHostSpec == HostInit /\ [][HostNext]_workerHostVars /\ HostFairness

-----------------------------------------------------------------------------

HostTypeOK ==
    /\ status \in {"starting", "running", "degraded", "failed"}
    /\ restarts \in 0 .. (MaxRestarts + 1)
    /\ respawn \in [1 .. MaxRestarts -> Countdown(30)]
    /\ spawned \in Workers
    /\ requestCounter \in 0 .. MaxCalls
    /\ deadline \in [Calls -> Countdown(CallTimeout)]
    /\ sentTo \in [Calls -> 0 .. (MaxRestarts + 1)]
    /\ phase \in [Workers -> Phases]
    /\ answered \subseteq Calls

\* Every restart is paid for by one exit, and every worker after the first by one
\* restart: error and exit of one crash count once (workerHost.ts:81-103).
HostInv ==
    /\ HostTypeOK
    /\ restarts <= Cardinality({w \in Workers : phase[w] = "exited"})
    /\ spawned + Cardinality({n \in DOMAIN respawn : Pending(respawn[n])}) <= restarts + 1

\* A plugin never has two workers at once, whatever crashes, deadlines and
\* backoff timers overlap (workerHost.ts:84-103): two would publish every
\* widget and event twice.
AtMostOneWorker ==
    \A v, w \in Workers : phase[v] \in Alive /\ phase[w] \in Alive => v = w

\* A worker that is serving and has been heard is the one calls go to: neither
\* a crash of its predecessor nor a deadline leaves it alive behind a status
\* that refuses every call (workerHost.ts:105-107, 135-138).
ReadyWorkerIsUsed ==
    \A w \in Workers :
        phase[w] = "serving" /\ Message("ready", 0) \notin {outbox[w][i] : i \in DOMAIN outbox[w]}
            => status = "running" /\ w = spawned

\* A plugin given up for good has no worker and none to come (workerHost.ts:96-100).
GivenUpMeansStopped ==
    status = "failed" =>
        /\ \A w \in Workers : phase[w] \notin Alive
        /\ \A n \in DOMAIN respawn : ~Pending(respawn[n])

\* Every getWidgets promise settles, so a snapshot is never held up for ever by
\* a worker that crashed or hangs (workerHost.ts:108-120).
CallsSettle == \A c \in Calls : Pending(deadline[c]) ~> ~Pending(deadline[c])

\* Every crash is followed by a new worker, or the plugin is visibly given up
\* (workerHost.ts:84-103).
CrashIsHandled ==
    \A w \in Workers :
        phase[w] = "crashing" ~> (spawned > w \/ status \in {"failed", "degraded"})

\* docs/guides/writing-a-plugin.md:139-141: what gets a worker terminated is a
\* getWidgets of its own that has taken too long.
OnlyTheSlowAreTerminated ==
    [][\A w \in Workers :
        phase[w] # "terminated" /\ (phase[w])' = "terminated" =>
            \E c \in Calls : Due(deadline[c]) /\ sentTo[c] = w]_workerHostVars

\* What crashes, hangs, deadlines and backoffs leave true of one plugin, however
\* they overlap: its budget is spent once per crash, it has one worker at most, the
\* one that calls go to, and none once it is given up (workerHost.ts:60-140).
WorkersInv == HostInv /\ AtMostOneWorker /\ ReadyWorkerIsUsed /\ GivenUpMeansStopped
=============================================================================
