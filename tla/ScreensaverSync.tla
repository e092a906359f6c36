--------------------------- MODULE ScreensaverSync ---------------------------
(***************************************************************************)
(* The screensaver configuration: the phone's (App.tsx), its storage       *)
(* (screensaverConfig.ts), the mirror in the core                          *)
(* (screensaverConfigStore.ts) and what the Mac's window shows             *)
(* (DevicePane.tsx).  Both sides edit it: one field of what they show.     *)
(*                                                                         *)
(* Core, control channel and window are one step apart: a snapshot under   *)
(* way is one that arrives late.  Edits counts the edits of a behaviour.   *)
(***************************************************************************)
EXTENDS Naturals, Sequences

CONSTANTS Minutes, DefaultMinutes, MaxEdits

ASSUME ScreensaverAssumption ==
    Minutes \subseteq Nat \ {0} /\ DefaultMinutes \in Minutes /\ MaxEdits \in Nat

VARIABLES
    config,         \* screensaverConfig of App.tsx; Unset is null
    stored,         \* the phone's storage
    loading,        \* what the load found, if it is not answered: a set
    saves,          \* writes under way to the storage
    publishDue,     \* the publishing effect has yet to run
    wire,           \* the socket: "closed", "open", or "dead" and not known to be
    toCore, toPhone,
    mirror,         \* ScreensaverConfigStore.status
    shown,          \* of the last snapshot the window received
    edits,
    overwritten     \* history: the load replaced a newer configuration

saverSyncVars == <<config, stored, loading, saves, publishDue, wire, toCore, toPhone,
                   mirror, shown, edits, overwritten>>

\* Not a configuration: nothing can be set to no minutes.
Unset == [enabled |-> FALSE, minutes |-> 0]
SaverConfigs == [enabled : BOOLEAN, minutes : Minutes]
DefaultConfig == [enabled |-> TRUE, minutes |-> DefaultMinutes]

\* loadScreensaverConfig: also of what cannot be parsed.
Load == IF stored = Unset THEN DefaultConfig ELSE stored

SyncInit ==
    /\ config = Unset /\ stored = Unset /\ loading = {DefaultConfig} /\ saves = <<>>
    /\ publishDue = FALSE /\ wire = "closed" /\ toCore = <<>> /\ toPhone = <<>>
    /\ mirror = Unset /\ shown = Unset /\ edits = 0 /\ overwritten = FALSE

-----------------------------------------------------------------------------
(* The phone.                                                              *)

\* Until the load is answered the settings screen shows, and edits, the default.
InForce == IF config = Unset THEN DefaultConfig ELSE config

\* setScreensaverConfig; a new object always has the effect run.
SetsConfig(new) == config' = new /\ publishDue' = TRUE

LoadAnswered ==
    /\ loading # {} /\ loading' = {}
    /\ \E found \in loading :
          /\ SetsConfig(found)
          /\ overwritten' = (config \notin {Unset, found})
    /\ UNCHANGED <<stored, saves, wire, toCore, toPhone, mirror, shown, edits>>

EditsOf(base) ==
    {[base EXCEPT !.enabled = ~@]} \cup {[base EXCEPT !.minutes = m] : m \in Minutes}

\* onChangeScreensaverConfig.
PhoneEdits(new) ==
    /\ edits < MaxEdits /\ edits' = edits + 1
    /\ SetsConfig(new) /\ saves' = Append(saves, new)
    /\ UNCHANGED <<stored, loading, wire, toCore, toPhone, mirror, shown, overwritten>>

SaveEnds ==
    /\ saves # <<>> /\ saves' = Tail(saves) /\ stored' = Head(saves)
    /\ UNCHANGED <<config, loading, publishDue, wire, toCore, toPhone, mirror,
                   shown, edits, overwritten>>

Send(queue, frame) == IF wire = "open" THEN Append(queue, frame) ELSE queue

\* The publishing effect: a frame for a wire that is not open is dropped.
Publishes ==
    /\ publishDue /\ publishDue' = FALSE
    /\ toCore' = IF config = Unset THEN toCore ELSE Send(toCore, config)
    /\ UNCHANGED <<config, stored, loading, saves, wire, toPhone, mirror, shown,
                   edits, overwritten>>

\* Mutant: what the Mac sends is applied and not kept.
AppliesOnly(new) == SetsConfig(new) /\ UNCHANGED saves

AppliesAndSaves(new) == SetsConfig(new) /\ saves' = Append(saves, new)

\* onFrame, for phone-display's setScreensaverConfig.
PhoneReceives ==
    /\ toPhone # <<>> /\ toPhone' = Tail(toPhone)
    /\ AppliesAndSaves(Head(toPhone))
    /\ UNCHANGED <<stored, loading, wire, toCore, mirror, shown, edits, overwritten>>

\* The app is killed and started again: a write under way may be lost.
PhoneRestarts ==
    /\ wire = "closed"
    /\ config' = Unset /\ publishDue' = FALSE /\ overwritten' = FALSE
    /\ saves' = <<>> /\ loading' = {Load}
    /\ UNCHANGED <<stored, wire, toCore, toPhone, mirror, shown, edits>>

-----------------------------------------------------------------------------
(* The socket.                                                           *)

\* Mutant: a new connection publishes nothing.
OpensQuietly ==
    /\ wire = "closed" /\ wire' = "open"
    /\ UNCHANGED <<config, stored, loading, saves, publishDue, toCore, toPhone,
                   mirror, shown, edits, overwritten>>

\* connectionEpoch changes.
SyncOpens ==
    /\ wire = "closed" /\ wire' = "open"
    /\ publishDue' = TRUE
    /\ UNCHANGED <<config, stored, loading, saves, toCore, toPhone, mirror,
                   shown, edits, overwritten>>

\* What is under way either way is lost with the connection, or with the core.
SyncDies ==
    /\ wire = "open" /\ wire' = "dead"
    /\ toCore' = <<>> /\ toPhone' = <<>>
    /\ UNCHANGED <<config, stored, loading, saves, publishDue, mirror, shown,
                   edits, overwritten>>

SyncCloses(coreToo) ==
    /\ wire # "closed" /\ wire' = "closed"
    /\ toCore' = <<>> /\ toPhone' = <<>>
    /\ mirror' = IF coreToo THEN Unset ELSE mirror
    /\ UNCHANGED <<config, stored, loading, saves, publishDue, shown, edits,
                   overwritten>>

-----------------------------------------------------------------------------
(* The Mac.                                                                *)

\* The bus brings screensaver.config to the store, which has a snapshot pushed.
CoreReceives ==
    /\ toCore # <<>> /\ toCore' = Tail(toCore)
    /\ mirror' = Head(toCore)
    /\ UNCHANGED <<config, stored, loading, saves, publishDue, wire, toPhone,
                   shown, edits, overwritten>>

SnapshotShown ==
    /\ shown # mirror /\ shown' = mirror
    /\ UNCHANGED <<config, stored, loading, saves, publishDue, wire, toCore,
                   toPhone, mirror, edits, overwritten>>

\* sendScreensaverConfig; the mirror waits for the phone to report.
SendsScreensaverConfig(new) ==
    /\ toPhone' = Send(toPhone, new)
    /\ UNCHANGED mirror

\* handleScreensaverChange; the switches are there once a configuration is shown.
MacEdits(new) ==
    /\ shown # Unset /\ edits < MaxEdits /\ edits' = edits + 1
    /\ SendsScreensaverConfig(new)
    /\ UNCHANGED <<config, stored, loading, saves, publishDue, wire, toCore,
                   shown, overwritten>>

SyncNext ==
    \/ LoadAnswered \/ SaveEnds \/ Publishes \/ PhoneReceives \/ PhoneRestarts
    \/ \E new \in EditsOf(InForce) : PhoneEdits(new)
    \/ SyncOpens \/ SyncDies \/ \E coreToo \in BOOLEAN : SyncCloses(coreToo)
    \/ CoreReceives \/ SnapshotShown
    \/ shown # Unset /\ \E new \in EditsOf(shown) : MacEdits(new)

\* Both programs keep running, and a connection that lasts carries its frames.
SyncFairness ==
    /\ WF_saverSyncVars(LoadAnswered) /\ WF_saverSyncVars(Publishes)
    /\ WF_saverSyncVars(CoreReceives) /\ WF_saverSyncVars(PhoneReceives)
    /\ WF_saverSyncVars(SnapshotShown)

SyncSpec == SyncInit /\ [][SyncNext]_saverSyncVars /\ SyncFairness

-----------------------------------------------------------------------------

\* With nothing under way, the core of a connected Mac holds what the phone
\* enforces, whatever was dropped, lost or restarted before (App.tsx:86-98).
MirrorIsThePhones ==
    wire = "open" /\ ~publishDue /\ toCore = <<>> /\ config # Unset => mirror = config

\* What the phone enforces is what it will enforce after a restart, once its
\* writes are done, unless the load came later than an edit (App.tsx:31-69).
RestartChangesNothing ==
    config # Unset /\ saves = <<>> /\ loading = {} /\ ~overwritten => config = Load

\* At rest the phone's configuration is the one its storage and the core hold, after
\* any crashes, drops and edits on either side (App.tsx:31-98).
SyncInv == MirrorIsThePhones /\ RestartChangesNothing

\* An edit made on either side of a link that lasts comes to rest: the phone, the
\* core and the window agree in the end, and the configuration does not travel
\* back and forth for ever (App.tsx:86-98, controlChannel.ts:147-149).
SidesAgree ==
    <>[](wire = "open") => <>[](config # Unset /\ mirror = config /\ shown = config)

\* screensaverConfigStore.ts:3-5: the phone is the real source of truth (persisted
\* there via AsyncStorage); the core mirrors it.
PhoneIsPersisted == config # Unset /\ saves = <<>> /\ loading = {} => config = Load
=============================================================================
