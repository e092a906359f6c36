---------------------------- MODULE PhoneScreens ----------------------------
(***************************************************************************)
(* What the phone shows: App.tsx holds the current screen, HomeScreen.tsx  *)
(* offers the tiles, AppShell.tsx sends the display to sleep and wakes it, *)
(* and LightScreen.tsx keeps it awake for a while.                         *)
(*                                                                         *)
(* One tick is the 30 s of LightScreen's intervals; the 2 s poll for idle  *)
(* may come at any time.  An interval callback is late by less than a tick *)
(* (InTime).                                                               *)
(***************************************************************************)
EXTENDS Naturals

CONSTANTS
    Graces,         \* idle timeouts that can be configured, in ticks
    LightLimit,     \* AUTO_EXIT_MS, in ticks
    VisibleLists,   \* lists of tiles that the Mac may send
    Everything      \* visibleWidgets before the first list

\* BUMP_ACTIVITY_INTERVAL_MS is one tick, and the shortest preset two.
ASSUME ScreensAssumption ==
    /\ Graces \subseteq Nat \ {0, 1} /\ LightLimit \in Nat \ {0}
    /\ Everything \notin VisibleLists

VARIABLES
    screen,
    visibleWidgets,
    screensaver,    \* the screensaver configuration in force
    sensorPositive, \* face or motion, as AppShell last saw it
    previewRect,    \* is a preview slot known?
    silence,        \* ticks since lastActivityRef, up to the longest grace
    bumpDue,        \* LightScreen's bump interval has run out
    lightAge        \* ticks since LightScreen was mounted, up to LightLimit

screenVars == <<screen, visibleWidgets, screensaver, sensorPositive, previewRect,
                silence, bumpDue, lightAge>>

Tiles == {"clock", "system", "weather", "presence", "playing", "light"}
Screens == Tiles \cup {"idle", "home", "standby", "settings"}
Chromeless == {"idle", "light"}
Configs == [enabled : BOOLEAN, grace : Graces]
LongestGrace == CHOOSE g \in Graces : \A h \in Graces : h <= g

ScreensInit ==
    /\ screen = "home" /\ visibleWidgets = Everything
    /\ screensaver \in Configs
    /\ sensorPositive = FALSE /\ previewRect = FALSE /\ silence = 0
    /\ bumpDue = FALSE /\ lightAge = 0

BumpActivity == silence' = 0

\* setScreenState, with the effects that the change of screen runs.
Shows(next) ==
    /\ screen' = next /\ previewRect' = (previewRect /\ next = "presence")
    /\ bumpDue' = FALSE /\ lightAge' = 0

-----------------------------------------------------------------------------
(* The user: every touch is activity.                                      *)

Touched == BumpActivity /\ UNCHANGED <<visibleWidgets, screensaver, sensorPositive>>

IsVisible(tile) == visibleWidgets # Everything => tile \in visibleWidgets

OpensTile(tile) == screen = "home" /\ IsVisible(tile) /\ Shows(tile) /\ Touched

\* Voice and Steam Deck are always on the home screen.
OpensStandby == screen = "home" /\ Shows("standby") /\ Touched

\* The header's buttons, and SLEEP DISPLAY NOW.
GoesSettings == screen \notin Chromeless /\ Shows("settings") /\ Touched
SleepsNow == screen \notin Chromeless /\ Shows("idle") /\ Touched

GoesBack == screen \notin {"idle", "home"} /\ Shows("home") /\ Touched

TapsToWake == screen = "idle" /\ Shows("home") /\ Touched

\* Anywhere else: only lastActivityRef notices.
Touches ==
    /\ screen # "idle" /\ silence > 0 /\ Touched
    /\ UNCHANGED <<screen, previewRect, bumpDue, lightAge>>

ChangesScreensaver(config) ==
    /\ screen = "settings" /\ screensaver' = config /\ BumpActivity
    /\ UNCHANGED <<screen, visibleWidgets, sensorPositive, previewRect, bumpDue, lightAge>>

UserActs ==
    \/ \E tile \in Tiles : OpensTile(tile)
    \/ OpensStandby \/ GoesSettings \/ SleepsNow \/ GoesBack \/ TapsToWake \/ Touches
    \/ \E config \in Configs : ChangesScreensaver(config)

-----------------------------------------------------------------------------
(* What comes by itself.                                                   *)

\* A frame from the Mac.
MacChangesScreensaver(config) ==
    /\ config # screensaver /\ screensaver' = config
    /\ UNCHANGED <<screen, visibleWidgets, sensorPositive, previewRect, silence, bumpDue, lightAge>>

HelloReply(list) ==
    /\ visibleWidgets' = list
    /\ UNCHANGED <<screen, screensaver, sensorPositive, previewRect, silence, bumpDue, lightAge>>

\* PresenceDetail's onLayout; a slot of size zero is ignored.
LaysOutPreview ==
    /\ screen = "presence" /\ previewRect' = TRUE
    /\ UNCHANGED <<screen, visibleWidgets, screensaver, sensorPositive, silence, bumpDue, lightAge>>

\* The sensor effect: a fresh positive signal wakes, and is no activity.
SensorBecomes(positive) ==
    /\ positive # sensorPositive /\ sensorPositive' = positive
    /\ IF positive /\ screen = "idle"
       THEN Shows("home")
       ELSE UNCHANGED <<screen, previewRect, bumpDue, lightAge>>
    /\ UNCHANGED <<visibleWidgets, screensaver, silence>>

ShouldAutoIdle == screensaver.enabled /\ silence >= screensaver.grace

\* The poll; one that finds the display idle does nothing.
AutoIdles ==
    /\ screen # "idle" /\ ShouldAutoIdle /\ Shows("idle")
    /\ UNCHANGED <<visibleWidgets, screensaver, sensorPositive, silence>>

LightBumps ==
    /\ screen = "light" /\ bumpDue /\ bumpDue' = FALSE
    /\ BumpActivity
    /\ UNCHANGED <<screen, visibleWidgets, screensaver, sensorPositive, previewRect, lightAge>>

\* Mutant: the ceiling is measured from the last activity.
ExitsIfSilent ==
    /\ screen = "light" /\ silence >= LightLimit /\ Shows("home")
    /\ UNCHANGED <<visibleWidgets, screensaver, sensorPositive, silence>>

AutoExits ==
    /\ screen = "light" /\ lightAge >= LightLimit /\ Shows("home")
    /\ UNCHANGED <<visibleWidgets, screensaver, sensorPositive, silence>>

InTime == screen = "light" => ~bumpDue /\ lightAge < LightLimit

ScreensTick ==
    /\ InTime
    /\ silence' = IF silence < LongestGrace THEN silence + 1 ELSE silence
    /\ bumpDue' = (screen = "light")
    /\ lightAge' = IF screen = "light" THEN lightAge + 1 ELSE lightAge
    /\ UNCHANGED <<screen, visibleWidgets, screensaver, sensorPositive, previewRect>>

ScreensNext ==
    \/ UserActs
    \/ \E config \in Configs : MacChangesScreensaver(config)
    \/ \E list \in VisibleLists : HelloReply(list)
    \/ \E positive \in BOOLEAN : SensorBecomes(positive)
    \/ LaysOutPreview \/ AutoIdles \/ LightBumps \/ AutoExits \/ ScreensTick

\* JavaScript's intervals keep running while the app does.
ScreensFairness ==
    /\ WF_screenVars(AutoIdles) /\ WF_screenVars(LightBumps)
    /\ WF_screenVars(AutoExits) /\ WF_screenVars(ScreensTick)

ScreensSpec == ScreensInit /\ [][ScreensNext]_screenVars /\ ScreensFairness

-----------------------------------------------------------------------------

\* The fill light is not put to sleep under a video call, however long nobody
\* touches the phone and whatever timeout either side configures meanwhile
\* (LightScreen.tsx:75-82): activity is bumped well inside every grace.
LightStaysOn == [][screen = "light" => screen' # "idle"]_screenVars

\* A camera preview is portaled onto the presence screen or nowhere, also when
\* the display sleeps by itself and the sensor wakes it (AppShell.tsx:183-204).
PreviewOnlyOnPresence == previewRect => screen = "presence"

\* A phone left alone with the screensaver on falls asleep again and again,
\* whichever screen it was left on: also the light, and also when the sensor keeps
\* waking it (AppShell.tsx:142-164, LightScreen.tsx:84-102).
AbandonedSleeps ==
    <>[][~UserActs /\ screensaver' = screensaver]_screenVars /\ <>[](screensaver.enabled)
        => []<>(screen = "idle")
=============================================================================
