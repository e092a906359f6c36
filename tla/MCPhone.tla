------------------------------ MODULE MCPhone ------------------------------
(***************************************************************************)
(* The parts of the phone, and what feeds its widgets, in one run.  They   *)
(* share no state here: part picks, at the start, which of them moves in a *)
(* behaviour, and the others stay as they are.                             *)
(***************************************************************************)
EXTENDS PhoneScreens, LightScreen, CameraPresence, ScreensaverSync, WsClient,
        WidgetFeed, NowPlaying

VARIABLE part

Signals == <<"face_visible", "motion">>
Views == {NoFace} \cup [face : {TRUE}, gaze : {FALSE}, place : {1, 2}]

shownVars == <<screenVars, lightVars, cameraVars>>
sharedVars == <<saverSyncVars, wsClientVars, feedVars, playingVars>>
phonePartVars == <<part, shownVars, sharedVars>>

\* A part that does not move has one initial state only.
PhonePartsInit ==
    /\ part \in {"screens", "light", "camera", "saver", "client", "feed", "playing"}
    /\ ScreensInit /\ LightInit /\ CameraInit
    /\ SyncInit /\ ClientInit /\ FeedInit /\ PlayingInit
    /\ part # "screens" => screensaver = [enabled |-> FALSE, grace |-> LongestGrace]
    /\ part # "camera" => permission = "denied" /\ found /\ scene = NoFace
    /\ part # "feed" => sky = CHOOSE s \in Skies : TRUE

ShownNext ==
    \/ part = "screens" /\ ScreensNext /\ UNCHANGED <<lightVars, cameraVars>>
    \/ part = "light" /\ LightNext /\ UNCHANGED <<screenVars, cameraVars>>
    \/ part = "camera" /\ CameraNext /\ UNCHANGED <<screenVars, lightVars>>

SharedNext ==
    \/ part = "saver" /\ SyncNext /\ UNCHANGED <<wsClientVars, feedVars, playingVars>>
    \/ part = "client" /\ ClientNext /\ UNCHANGED <<saverSyncVars, feedVars, playingVars>>
    \/ part = "feed" /\ FeedNext /\ UNCHANGED <<saverSyncVars, wsClientVars, playingVars>>
    \/ part = "playing" /\ PlayingNext /\ UNCHANGED <<saverSyncVars, wsClientVars, feedVars>>

PhonePartsNext ==
    \/ ShownNext /\ UNCHANGED <<part, sharedVars>>
    \/ SharedNext /\ UNCHANGED <<part, shownVars>>

\* The fairness of each component's own specification, for the part that moves.
PhonePartsFairness ==
    /\ WF_screenVars(part = "screens" /\ AutoIdles)
    /\ WF_screenVars(part = "screens" /\ LightBumps)
    /\ WF_screenVars(part = "screens" /\ AutoExits)
    /\ WF_screenVars(part = "screens" /\ ScreensTick)
    /\ WF_cameraVars(part = "camera" /\ Observes)
    /\ WF_cameraVars(part = "camera" /\ EffectRuns)
    /\ WF_cameraVars(part = "camera" /\ CameraTick)
    /\ WF_saverSyncVars(part = "saver" /\ LoadAnswered)
    /\ WF_saverSyncVars(part = "saver" /\ Publishes)
    /\ WF_saverSyncVars(part = "saver" /\ CoreReceives)
    /\ WF_saverSyncVars(part = "saver" /\ PhoneReceives)
    /\ WF_saverSyncVars(part = "saver" /\ SnapshotShown)
    /\ \A d \in 1 .. MaxDrops : WF_wsClientVars(part = "client" /\ Reconnects(d))
    /\ WF_wsClientVars(part = "client" /\ HeartbeatTimerFires)
    /\ WF_wsClientVars(part = "client" /\ ClientTick)
    /\ \A p \in Polls :
          /\ WF_feedVars(part = "feed" /\ PollStarts(p))
          /\ WF_feedVars(part = "feed" /\ PollProceeds(p))
    /\ WF_feedVars(part = "feed" /\ HostReads)
    /\ WF_feedVars(part = "feed" /\ SnapshotSent)
    /\ \A p \in Reads :
          /\ WF_playingVars(part = "playing" /\ ReadStarts(p))
          /\ WF_playingVars(part = "playing" /\ ReadProceeds(p))
    /\ WF_playingVars(part = "playing" /\ PlayingTick)

PhonePartsSpec ==
    PhonePartsInit /\ [][PhonePartsNext]_phonePartVars /\ PhonePartsFairness
=============================================================================
