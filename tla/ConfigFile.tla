----------------------------- MODULE ConfigFile -----------------------------
(***************************************************************************)
(* The life of config.json: written by the first run (firstRunConfig.ts)   *)
(* or by hand, edited in the panes of the settings window (PluginsPane,    *)
(* WidgetsPane, PresencePane), saved (configStore.ts) and read by the core *)
(* (configLoader.ts), which builds its plugins, its engine and the phone's *)
(* tiles from it (entrypoint.ts, main.ts).                                 *)
(*                                                                         *)
(* The app and the core are two processes, and the app may be killed       *)
(* between any two system calls of a write.  Hand edits are made while the *)
(* app is not running.  Saves that fail are in SettingsWindow, restarts in *)
(* CoreSupervisor.                                                         *)
(***************************************************************************)
EXTENDS Lists, Functions

CONSTANTS
    DefaultPlugins, \* the registered plugins, in the order of the schema
    DefaultTiles,   \* WIDGET_IDS
    DefaultTimeout, MinTimeout, StepTime,   \* of the absence timeout's stepper
    HandWritten,    \* configurations that somebody may write by hand
    MaxEdits        \* bound: edits of a behaviour

\* A configuration that ConfigSchema accepts; times are whole and not negative.
ConfigShape ==
    [enabledPlugins : Seq(STRING), visibleWidgets : Seq(STRING), absenceTimeout : Nat]

ASSUME ConfigFileAssumption ==
    /\ {DefaultTimeout, MinTimeout, StepTime, MaxEdits} \subseteq Nat
    /\ MinTimeout <= DefaultTimeout
    /\ DefaultPlugins \in Seq(STRING) /\ DefaultTiles \in Seq(STRING)
    /\ \A p \in Range(DefaultPlugins) : Entries(DefaultPlugins, p) = 1
    /\ \A config \in HandWritten : config \in ConfigShape

VARIABLES
    file,           \* config.json: Absent, Garbled or a configuration
    writing,        \* the write under way in the app: <<>> or one record
    appUp,
    shownConfig,    \* useConfig: Absent or a configuration
    restartDue,     \* the debounced restart
    core,           \* what the core has booted with: Absent when it is down
    editCount,
    handmade        \* history: what was last written by hand, less the plugins
                    \* that have been switched since

configFileVars == <<file, writing, appUp, shownConfig, restartDue, core, editCount, handmade>>

NotConfig(what) == [what |-> what]
Absent == NotConfig("absent")
Garbled == NotConfig("garbled")
Config(plugins, tiles, timeout) ==
    [enabledPlugins |-> plugins, visibleWidgets |-> tiles, absenceTimeout |-> timeout]
FirstRunConfig == Config(DefaultPlugins, DefaultTiles, DefaultTimeout)
Registered == Range(DefaultPlugins)

\* Neither missing nor rejected by JSON.parse or ConfigSchema.
Parses(content) == content \notin {Absent, Garbled}

ConfigFileInit ==
    /\ file = Absent /\ writing = <<>> /\ appUp = FALSE
    /\ shownConfig = Absent /\ restartDue = FALSE /\ core = Absent
    /\ editCount = 0 /\ handmade = Absent

-----------------------------------------------------------------------------
(* Writing: a temporary file, then a rename.                               *)

OpensTemp == UNCHANGED file

Writes(config, restart) ==
    /\ writing = <<>>
    /\ writing' = <<[config |-> config, restart |-> restart]>>
    /\ OpensTemp

\* ensureConfigExists, before the core is started.
AppStarts ==
    /\ ~appUp /\ appUp' = TRUE
    /\ IF file = Absent THEN Writes(FirstRunConfig, FALSE) ELSE UNCHANGED <<file, writing>>
    /\ UNCHANGED <<shownConfig, restartDue, core, editCount, handmade>>

\* The entries of list for plugins that a change leaves as they are.
Untouched(list, before, after) ==
    Without(list, {p \in Range(list) : Entries(before, p) # Entries(after, p)})

Renames ==
    /\ writing # <<>> /\ writing' = <<>>
    /\ file' = writing[1].config
    /\ restartDue' = (restartDue \/ writing[1].restart)
    /\ handmade' = IF Parses(handmade)
                   THEN [handmade EXCEPT !.enabledPlugins =
                            Untouched(@, file.enabledPlugins, file'.enabledPlugins)]
                   ELSE Absent
    /\ UNCHANGED <<appUp, shownConfig, core, editCount>>

\* A temporary file that is left behind is never read again: its name has the
\* process id.
AppDies ==
    /\ appUp /\ appUp' = FALSE
    /\ writing' = <<>> /\ shownConfig' = Absent /\ restartDue' = FALSE /\ core' = Absent
    /\ UNCHANGED <<file, editCount, handmade>>

HandEdits(content) ==
    /\ ~appUp /\ editCount < MaxEdits /\ editCount' = editCount + 1
    /\ file' = content /\ handmade' = content
    /\ UNCHANGED <<writing, appUp, shownConfig, restartDue, core>>

-----------------------------------------------------------------------------
(* The window.                                                             *)

\* config:get; a file that does not parse leaves the panes loading for ever.
WindowLoads ==
    /\ appUp /\ writing = <<>> /\ shownConfig = Absent
    /\ Parses(file) /\ shownConfig' = file
    /\ UNCHANGED <<file, writing, appUp, restartDue, core, editCount, handmade>>

WindowCloses ==
    /\ shownConfig # Absent /\ shownConfig' = Absent
    /\ UNCHANGED <<file, writing, appUp, restartDue, core, editCount, handmade>>

\* toggleInList, by a switch that shows whether the list has the id.
Toggles(list, id) ==
    IF id \in Range(list) THEN Without(list, {id}) ELSE Append(list, id)

Decreases(value) == IF value > MinTimeout + StepTime THEN value - StepTime ELSE MinTimeout

PluginEdits(config) ==
    {[config EXCEPT !.enabledPlugins = Toggles(@, p)] : p \in Registered}

WidgetEdits(config) ==
    {[config EXCEPT !.visibleWidgets = Toggles(@, t)] : t \in Range(DefaultTiles)}

PresenceEdits(config) ==
    {[config EXCEPT !.absenceTimeout = Decreases(@)],
     [config EXCEPT !.absenceTimeout = @ + StepTime]}

\* updateConfig and config:set.  What a pane makes of a configuration that
\* parses, parses.
PaneEdits(next) ==
    /\ editCount < MaxEdits /\ editCount' = editCount + 1
    /\ shownConfig' = next
    /\ Writes(next, TRUE)
    /\ UNCHANGED <<appUp, restartDue, core, handmade>>

SomePaneEdits ==
    /\ shownConfig # Absent
    /\ \E next \in PluginEdits(shownConfig) \cup WidgetEdits(shownConfig)
                       \cup PresenceEdits(shownConfig) : PaneEdits(next)

-----------------------------------------------------------------------------
(* The core.                                                               *)

\* loadConfigFromFile: started with the app, restarted for a new configuration
\* or after a crash; it reads while the app may be writing.  What does not parse
\* ends it.
CoreStarts ==
    /\ appUp /\ (core = Absent \/ restartDue)
    /\ writing # <<>> => writing[1].restart
    /\ core' = IF Parses(file) THEN file ELSE Absent
    /\ restartDue' = FALSE
    /\ UNCHANGED <<file, writing, appUp, shownConfig, editCount, handmade>>

CoreFails ==
    /\ core # Absent /\ core' = Absent
    /\ UNCHANGED <<file, writing, appUp, shownConfig, restartDue, editCount, handmade>>

\* Mutant: a plugin that is not registered ends the list.
SpecsUpToUnknown(list) ==
    {i \in DOMAIN list : \A j \in 1 .. i : list[j] \in Registered}

\* buildPluginSpecs: one for each entry that is registered.
PluginSpecs(list) == {i \in DOMAIN list : list[i] \in Registered}

\* WorkerHost.start spawns one for each spec.
WorkersOf(plugin) ==
    IF core = Absent THEN {}
    ELSE {i \in PluginSpecs(core.enabledPlugins) : core.enabledPlugins[i] = plugin}

ConfigFileNext ==
    \/ AppStarts \/ Renames \/ AppDies
    \/ \E content \in HandWritten \cup {Garbled} : HandEdits(content)
    \/ WindowLoads \/ WindowCloses \/ SomePaneEdits
    \/ CoreStarts \/ CoreFails

ConfigFileSpec == ConfigFileInit /\ [][ConfigFileNext]_configFileVars

-----------------------------------------------------------------------------

\* Whatever moment the app is killed at and whatever the core reads meanwhile,
\* config.json parses unless somebody has spoilt it by hand
\* (firstRunConfig.ts:24-29, configStore.ts:9-18).
FileStaysWhole ==
    /\ file = Garbled => handmade = Garbled
    /\ appUp /\ file = Absent => writing # <<>>

CoreSettled == shownConfig # Absent /\ core # Absent /\ ~restartDue /\ writing = <<>>

\* Once no save or restart is under way the panes show what runs: a plugin's
\* switch is on when it has a worker, and tiles and timeout are those of the core,
\* also after crashes, kills and a list with entries nobody knows
\* (entrypoint.ts:24-44, index.ts:131-139).
PanesShowWhatRuns ==
    CoreSettled =>
        /\ \A p \in Registered :
              p \in Range(shownConfig.enabledPlugins) <=> WorkersOf(p) # {}
        /\ shownConfig.visibleWidgets = core.visibleWidgets
        /\ shownConfig.absenceTimeout = core.absenceTimeout

\* A plugin gets two workers only from a list written by hand, and its switch
\* heals that (toggleInList.ts:3-6, workerHost.ts:49-51).
DoublesAreHandmade ==
    \A p \in Registered :
        CoreSettled /\ Cardinality(WorkersOf(p)) > 1 =>
            Parses(handmade) /\ Entries(handmade.enabledPlugins, p) > 1

\* No sequence of clicks takes the absence timeout below its minimum, or below a
\* value written by hand that is lower already (Stepper.tsx:46-60,
\* PresencePane.tsx:143-150).
TimeoutStaysSane ==
    shownConfig # Absent /\ shownConfig.absenceTimeout < MinTimeout =>
        Parses(handmade) /\ handmade.absenceTimeout <= shownConfig.absenceTimeout

\* The app, the core, the window and an editor share one file, and through every
\* kill, save and restart it stays whole and what they make of it agrees
\* (configStore.ts:9-18, entrypoint.ts:24-44, toggleInList.ts:3-6, Stepper.tsx:46-60).
ConfigFileInv == FileStaysWhole /\ PanesShowWhatRuns /\ DoublesAreHandmade /\ TimeoutStaysSane
=============================================================================
