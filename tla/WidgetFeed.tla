----------------------------- MODULE WidgetFeed -----------------------------
(***************************************************************************)
(* A widget on its way to the phone: the polls of the weather plugin       *)
(* (weather/src/index.ts), its worker's messages, the snapshot that        *)
(* answers hello and the broadcasts that may overtake it (wsGateway.ts,    *)
(* main.ts), and what the phone makes of them (App.tsx).                   *)
(*                                                                         *)
(* The other plugins count only in that the snapshot waits for them, and   *)
(* may wait longer than for the weather.  At most one snapshot is awaited: *)
(* a phone says hello once to a connection, and an answer to an old one    *)
(* goes nowhere.                                                           *)
(***************************************************************************)
EXTENDS Naturals, Sequences

CONSTANTS
    Skies,          \* readings of the weather
    NoReading,      \* null; FALLBACK_READING when shown
    Configured,     \* config.visibleWidgets
    ShowsAll,       \* the phone's list before the first
    Polls           \* names for polls under way

ASSUME FeedAssumption == NoReading \notin Skies /\ ShowsAll # Configured

VARIABLES
    sky,                    \* the weather itself
    stage, body,            \* of each poll, and the response it has
    lastGood, currentStale,
    running,                \* init has ended, and with it the first poll
    messages,               \* from the worker, not yet read by the host
    link,                   \* is the phone connected?
    hello, answer,          \* stage of the snapshot, and the weather's entry in it
    weather, tileList,      \* the phone's widget and visibleWidgets
    current,                \* the last widget published
    overtaken               \* history: a broadcast has passed an older snapshot

pluginVars == <<stage, body, lastGood, currentStale, running>>
feedVars == <<sky, pluginVars, messages, link, hello, answer,
              weather, tileList, current, overtaken>>

Widget(reading, stale) == [reading |-> reading, stale |-> stale]
Nothing == Widget(NoReading, FALSE)     \* no widget at all: a fallback is stale
FromWorker(kind, widget) == [kind |-> kind, widget |-> widget]

\* init polls at once.
InitPolls == [p \in Polls |-> IF p = CHOOSE q \in Polls : TRUE THEN "asked" ELSE "none"]
NoBodies == [p \in Polls |-> NoReading]

FeedInit ==
    /\ sky \in Skies
    /\ stage = InitPolls /\ body = NoBodies
    /\ lastGood = NoReading /\ currentStale = TRUE
    /\ running = FALSE
    /\ messages = <<>> /\ link = FALSE /\ hello = "none" /\ answer = Nothing
    /\ weather = Nothing /\ tileList = ShowsAll
    /\ current = Nothing /\ overtaken = FALSE

-----------------------------------------------------------------------------
(* The plugin.                                                             *)

HostIdle == UNCHANGED <<sky, link, hello, answer, weather, tileList, current, overtaken>>

\* Mutant: polling stops with the first good reading.
PollsUntilGood(p) ==
    /\ running /\ stage[p] = "none" /\ lastGood = NoReading
    /\ stage' = [stage EXCEPT ![p] = "asked"]
    /\ UNCHANGED <<body, lastGood, currentStale, running, messages>>
    /\ HostIdle

\* The interval: polls may overlap.
PollStarts(p) ==
    /\ running /\ stage[p] = "none"
    /\ stage' = [stage EXCEPT ![p] = "asked"]
    /\ UNCHANGED <<body, lastGood, currentStale, running, messages>>
    /\ HostIdle

\* The service has read the sky; the response is under way.
ForecastRead(p) ==
    /\ stage[p] = "asked"
    /\ stage' = [stage EXCEPT ![p] = "answered"] /\ body' = [body EXCEPT ![p] = sky]
    /\ UNCHANGED <<lastGood, currentStale, running, messages>>
    /\ HostIdle

Publish(widget) == messages' = Append(messages, FromWorker("publish", widget))

PollOver(p) ==
    /\ stage' = [stage EXCEPT ![p] = "none"] /\ body' = [body EXCEPT ![p] = NoReading]
    /\ running' = TRUE
    /\ HostIdle

PollSucceeds(p) ==
    /\ stage[p] = "answered"
    /\ lastGood' = body[p] /\ currentStale' = FALSE
    /\ Publish(Widget(body[p], FALSE))
    /\ PollOver(p)

\* Mutant: getWidgets is not told of the failure.
FailsUnnoted(p) ==
    /\ stage[p] # "none"
    /\ Publish(Widget(lastGood, TRUE))
    /\ UNCHANGED <<lastGood, currentStale>> /\ PollOver(p)

\* Of the geocoding, which is made once, or the forecast: the last good reading is
\* shown, or the fallback.
PollFails(p) ==
    /\ stage[p] # "none"
    /\ currentStale' = TRUE /\ UNCHANGED lastGood
    /\ Publish(Widget(lastGood, TRUE))
    /\ PollOver(p)

-----------------------------------------------------------------------------
(* The core and the phone.                                                 *)

\* onFrame, for widget.update: what is not in the frame stays.
Merges(widget, list) ==
    IF link
    THEN /\ weather' = IF widget = Nothing THEN weather ELSE widget
         /\ tileList' = IF list = ShowsAll THEN tileList ELSE list
    ELSE UNCHANGED <<weather, tileList>>

\* hello arrives: a plugin that is not running has nothing to show.
Connects ==
    /\ ~link /\ link' = TRUE
    /\ IF running
       THEN /\ hello' = "asked" /\ answer' = Nothing
            /\ messages' = Append(messages, FromWorker("answer", Widget(lastGood, currentStale)))
       ELSE hello' = "collected" /\ answer' = Nothing /\ UNCHANGED messages
    /\ UNCHANGED <<sky, overtaken, pluginVars, weather, tileList, current>>

\* The answer to a connection that is gone goes nowhere.
Unheard(message) ==
    IF message.kind = "answer" THEN FromWorker("unheard", message.widget) ELSE message

\* The phone keeps what it shows.
Disconnects ==
    /\ link /\ link' = FALSE
    /\ hello' = "none" /\ answer' = Nothing
    /\ messages' = [i \in DOMAIN messages |-> Unheard(messages[i])]
    /\ overtaken' = FALSE
    /\ UNCHANGED <<sky, pluginVars, weather, tileList, current>>

HandlesPublish(widget) ==
    /\ Merges(widget, ShowsAll)
    /\ current' = widget /\ overtaken' = (hello = "collected")
    /\ UNCHANGED <<hello, answer>>

\* Promise.all goes on waiting for the other plugins.
HandlesAnswer(widget) ==
    /\ hello' = "collected" /\ answer' = widget
    /\ UNCHANGED <<weather, tileList, current, overtaken>>

HostReads ==
    /\ messages # <<>> /\ messages' = Tail(messages)
    /\ LET message == Head(messages)
       IN \/ message.kind = "publish" /\ HandlesPublish(message.widget)
          \/ message.kind = "answer" /\ HandlesAnswer(message.widget)
          \/ /\ message.kind = "unheard"
             /\ UNCHANGED <<hello, answer, weather, tileList, current, overtaken>>
    /\ UNCHANGED <<sky, pluginVars, link>>

SnapshotSent ==
    /\ hello = "collected" /\ hello' = "none" /\ answer' = Nothing
    /\ Merges(answer, Configured)
    /\ UNCHANGED <<sky, pluginVars, messages, link, current, overtaken>>

\* With a new worker.
CoreRestarts ==
    /\ stage' = InitPolls /\ body' = NoBodies
    /\ lastGood' = NoReading /\ currentStale' = TRUE
    /\ running' = FALSE
    /\ messages' = <<>> /\ link' = FALSE /\ hello' = "none" /\ answer' = Nothing
    /\ current' = Nothing /\ overtaken' = FALSE
    /\ UNCHANGED <<sky, weather, tileList>>

SkyBecomes(new) ==
    /\ new # sky /\ sky' = new
    /\ UNCHANGED <<pluginVars, messages, link, hello, answer, weather,
                   tileList, current, overtaken>>

\* The bound of the model: so many messages under way.
FewUnderWay == Len(messages) <= 1

PollProceeds(p) ==
    \/ ForecastRead(p)
    \/ FewUnderWay /\ (PollSucceeds(p) \/ PollFails(p))

FeedNext ==
    \/ HostReads \/ SnapshotSent \/ Disconnects \/ CoreRestarts
    \/ \E new \in Skies : SkyBecomes(new)
    \/ FewUnderWay /\ Connects
    \/ \E p \in Polls :
          PollStarts(p) \/ PollProceeds(p)

\* A poll comes round, a request ends one way or the other, and messages are read.
FeedFairness ==
    /\ \A p \in Polls :
          /\ WF_feedVars(PollStarts(p))
          /\ WF_feedVars(PollProceeds(p))
    /\ WF_feedVars(HostReads) /\ WF_feedVars(SnapshotSent)

FeedSpec == FeedInit /\ [][FeedNext]_feedVars /\ FeedFairness

-----------------------------------------------------------------------------

\* A connected phone to which nothing is under way shows the last widget published
\* and the tiles the core is configured with, unless a broadcast has passed the
\* snapshot that was waiting for another plugin (wsGateway.ts:97-113).
PhoneShowsTheLast ==
    link /\ hello = "none" /\ messages = <<>> =>
        /\ tileList = Configured
        /\ current # Nothing /\ ~overtaken => weather = current

FetchFails == \E p \in Polls : stage[p] # "none" /\ stage'[p] = "none" /\ currentStale'

\* Weather that stays, and that can be fetched, reaches a phone that stays
\* connected, whatever snapshot was overtaken and however late older polls end
\* (weather/src/index.ts:119-135).
WeatherArrives ==
    \A s \in Skies :
        <>[](sky = s /\ link) /\ <>[][~FetchFails]_feedVars
            => <>[](weather = Widget(s, FALSE))
=============================================================================
