-------------------------- MODULE PluginPermissions --------------------------
(***************************************************************************)
(* What the plugins may do to the Mac: the permissions that main.ts grants *)
(* them, the requests they make (system-stats, weather and energy-saver),  *)
(* and the allowlist that createEnforcedCtx holds against each             *)
(* (permissionEnforcer.ts).  The requests, the grants and the allowlist    *)
(* are written in five files that nothing but their agreement ties.        *)
(***************************************************************************)
EXTENDS Naturals

CONSTANTS
    Others,         \* first arguments that no plugin uses; NoArg among them
    MaxDenials      \* a bound of the model

ASSUME PermissionsAssumption == MaxDenials \in Nat

VARIABLES
    touched,        \* what each plugin has read or changed on the Mac
    denied,         \* plugins that were denied a request of their own
    denialsToday    \* of the control channel

permissionVars == <<touched, denied, denialsToday>>

Plugins == {"system-stats", "weather", "energy-saver"}

\* resolvePluginRegistry.
Granted(plugin) ==
    CASE plugin = "system-stats" -> {"sys:read-stats", "sys:control-media"}
      [] plugin = "weather" -> {"net:api.weather"}
      [] plugin = "energy-saver" -> {"sys:control-display"}

Request(command, arg) == [command |-> command, arg |-> arg]

MediaActions == {"play", "pause", "togglePlayPause", "next", "previous"}

\* What the plugins' source asks for: their polls, and the actions they know.
RequestsOf(plugin) ==
    CASE plugin = "system-stats" ->
            {Request("pmset", "-g"), Request("pgrep", "-i"), Request("nowplaying-cli", "get")}
                \cup {Request("nowplaying-cli", action) : action \in MediaActions}
      [] plugin = "weather" -> {Request("fetch", "url")}
      [] plugin = "energy-saver" ->
            {Request("pmset", "displaysleepnow"), Request("caffeinate", "-u")}

Requests == UNION {RequestsOf(p) : p \in Plugins}
            \cup [command : {"pmset", "pgrep", "nowplaying-cli", "caffeinate", "say"}, arg : Others]

\* The programs themselves: what a request reads or changes.
Touches(request) ==
    CASE request.command = "fetch" -> "net"
      [] request \in {Request("pmset", "-g"), Request("nowplaying-cli", "get")} -> "stats"
      [] request.command = "pgrep" -> "stats"
      [] request = Request("pmset", "displaysleepnow") -> "display"
      [] request.command = "caffeinate" -> "display"
      [] request.command = "nowplaying-cli" /\ request.arg \in MediaActions -> "media"
      [] OTHER -> "else"

\* EXEC_ALLOWLIST, with the permission that http.fetch takes.
Rule(permission, command, args) == [permission |-> permission, command |-> command, args |-> args]

Anything == {r.arg : r \in Requests}

Allowlist ==
    { Rule("net:api.weather", "fetch", Anything),
      Rule("sys:read-stats", "pmset", {"-g"}),
      Rule("sys:read-stats", "nowplaying-cli", {"get"}),
      Rule("sys:read-stats", "pgrep", {"-i"}),
      Rule("sys:control-display", "pmset", {"displaysleepnow"}),
      Rule("sys:control-display", "caffeinate", Anything),
      Rule("sys:control-media", "nowplaying-cli", MediaActions) }

\* Mutant: the first argument is not compared.
PermissionsForCommand(request) ==
    {r.permission : r \in {q \in Allowlist : q.command = request.command}}

\* execPermissionsFor.
PermissionsFor(request) ==
    {r.permission : r \in {q \in Allowlist : q.command = request.command /\ request.arg \in q.args}}

Allowed(plugin, request) == PermissionsFor(request) \cap Granted(plugin) # {}

PermissionsInit ==
    /\ touched = [p \in Plugins |-> {}] /\ denied = {} /\ denialsToday = 0

\* exec.run and http.fetch, of the plugin's own or of any code it loads.
Asks(plugin, request) ==
    IF Allowed(plugin, request)
    THEN /\ touched' = [touched EXCEPT ![plugin] = @ \cup {Touches(request)}]
         /\ UNCHANGED <<denied, denialsToday>>
    ELSE /\ denialsToday < MaxDenials /\ denialsToday' = denialsToday + 1
         /\ denied' = IF request \in RequestsOf(plugin) THEN denied \cup {plugin} ELSE denied
         /\ UNCHANGED touched

PermissionsNext == \E p \in Plugins, r \in Requests : Asks(p, r)

PermissionsSpec == PermissionsInit /\ [][PermissionsNext]_permissionVars

-----------------------------------------------------------------------------

\* A plugin can put the display to sleep, change what is playing, read the Mac's
\* state or reach the network only with the permission named for it, whatever it
\* asks for: no permission to read unlocks control
\* (permissionEnforcer.ts:10-13, main.ts:20-22).
KeepsToPermissions ==
    \A p \in Plugins :
        /\ "display" \in touched[p] => "sys:control-display" \in Granted(p)
        /\ "media" \in touched[p] => "sys:control-media" \in Granted(p)
        /\ "stats" \in touched[p] => "sys:read-stats" \in Granted(p)
        /\ "net" \in touched[p] => "net:api.weather" \in Granted(p)

\* No plugin is denied a request that its own source makes: the grants, the
\* allowlist's pinned first arguments and the five callers agree
\* (permissionEnforcer.ts:14-25, system-stats/src/index.ts:8, 59, 83, 115).
OwnRequestsPass == denied = {}

\* Grants and allowlist are neither too wide nor too narrow for the plugins there
\* are (permissionEnforcer.ts:14-25, main.ts:20-22).
PermissionsAgree == KeepsToPermissions /\ OwnRequestsPass
=============================================================================
