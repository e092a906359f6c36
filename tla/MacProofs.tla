----------------------------- MODULE MacProofs -----------------------------
(***************************************************************************)
(* What holds of the tray for every version and any number of checks, and  *)
(* of the tunnel supervisor for any number of phones, adb processes and    *)
(* lists read together, of the log pane for any number of lines, and of    *)
(* the screensaver configuration for any minutes and any number of edits.  *)
(***************************************************************************)
EXTENDS TrayMenu, TunnelSupervisor, LogPane, ScreensaverSync, SequenceTheorems,
        FiniteSetTheorems, TLAPS

(***************************************************************************)
(* The tray.                                                               *)
(***************************************************************************)

\* The menu agrees with what it was built from after every step that changes that.
THEOREM MenuIsCurrentHolds == TraySpec => []MenuIsCurrent
<1>1. TrayInit => MenuIsCurrent
  BY DEF TrayInit, MenuIsCurrent
<1>2. MenuIsCurrent /\ UNCHANGED trayVars => MenuIsCurrent'
  BY DEF MenuIsCurrent, trayVars, Menu
<1>3. MenuIsCurrent /\ TrayNext => MenuIsCurrent'
  <2> SUFFICES ASSUME MenuIsCurrent, TrayNext PROVE MenuIsCurrent'
    OBVIOUS
  <2> USE DEF MenuIsCurrent
  <2>1. CASE WhenReady \/ BeforeQuit
    BY <2>1 DEF WhenReady, BeforeQuit
  <2>2. CASE CheckStarts
    BY <2>2 DEF CheckStarts, Menu
  <2>3. ASSUME NEW now, HealthChanges(now) \/ SnapshotArrives(now) PROVE MenuIsCurrent'
    BY <2>3 DEF HealthChanges, SnapshotArrives, Refresh
  <2>4. ASSUME NEW latest, CheckEnds(latest) PROVE MenuIsCurrent'
    <3>1. UNCHANGED <<tray, health, shownState>>
      BY <2>4 DEF CheckEnds
    <3>2. UNCHANGED <<menu, available>> \/ (tray = "up" => menu' = Menu')
      BY <2>4 DEF CheckEnds, Refresh
    <3>3. QED
      BY <3>1, <3>2 DEF Menu
  <2>5. QED
    BY <2>1, <2>2, <2>3, <2>4 DEF TrayNext
<1>4. QED
  BY <1>1, <1>2, <1>3, PTL DEF TraySpec

\* Checks are stopped before the tray is destroyed.
StoppedIfDestroyed == tray = "destroyed" => stopped

\* No answer of GitHub, however late, touches a destroyed tray.
THEOREM ChecksSpareTheDestroyedHolds == TraySpec => []ChecksSpareTheDestroyed
<1> DEFINE Inv == StoppedIfDestroyed /\ ChecksSpareTheDestroyed
<1> USE DEF StoppedIfDestroyed, ChecksSpareTheDestroyed
<1>1. TrayInit => Inv
  BY DEF TrayInit
<1>2. Inv /\ UNCHANGED trayVars => Inv'
  BY DEF trayVars
<1>3. Inv /\ TrayNext => Inv'
  <2> SUFFICES ASSUME Inv, TrayNext PROVE Inv'
    OBVIOUS
  <2>1. CASE WhenReady \/ BeforeQuit \/ CheckStarts
    BY <2>1 DEF WhenReady, BeforeQuit, CheckStarts
  <2>2. ASSUME NEW now, HealthChanges(now) \/ SnapshotArrives(now) PROVE Inv'
    BY <2>2 DEF HealthChanges, SnapshotArrives, Refresh
  <2>3. ASSUME NEW latest, CheckEnds(latest) PROVE Inv'
    BY <2>3 DEF CheckEnds, CheckCounts, Refresh
  <2>4. QED
    BY <2>1, <2>2, <2>3 DEF TrayNext
<1>4. QED
  BY <1>1, <1>2, <1>3, PTL DEF TraySpec

\* Part by part, isNewerVersion decides the order of versions.
LEMMA NewerIsOlder ==
  ASSUME NEW current \in Versions, NEW latest \in Versions, IsNewerVersion(current, latest)
  PROVE  Older(current, latest)
<1>1. \A v \in Versions : v[1] \in Nat /\ v[2] \in Nat /\ v[3] \in Nat
  BY DEF Versions
<1>2. PICK i \in 1 .. 3 : latest[i] > current[i] /\ \A j \in 1 .. i - 1 : latest[j] >= current[j]
  BY DEF IsNewerVersion
<1>3. CASE i = 1
  BY <1>1, <1>2, <1>3 DEF Older
<1>4. CASE i = 2
  <2>1. latest[1] >= current[1]
    BY <1>2, <1>4
  <2>2. QED
    BY <1>1, <1>2, <1>4, <2>1 DEF Older
<1>5. CASE i = 3
  <2>1. latest[1] >= current[1] /\ latest[2] >= current[2]
    BY <1>2, <1>5
  <2>2. QED
    BY <1>1, <1>2, <1>5, <2>1 DEF Older
<1>6. QED
  BY <1>3, <1>4, <1>5

\* Nothing but a later release is ever offered, whatever GitHub reports.
THEOREM OfferIsAnUpgradeHolds == TraySpec => []OfferIsAnUpgrade
<1> USE DEF OfferIsAnUpgrade
<1>1. TrayInit => OfferIsAnUpgrade
  BY DEF TrayInit
<1>2. OfferIsAnUpgrade /\ UNCHANGED trayVars => OfferIsAnUpgrade'
  BY DEF trayVars
<1>3. OfferIsAnUpgrade /\ TrayNext => OfferIsAnUpgrade'
  <2> SUFFICES ASSUME OfferIsAnUpgrade, TrayNext PROVE OfferIsAnUpgrade'
    OBVIOUS
  <2>1. CASE WhenReady \/ BeforeQuit \/ CheckStarts
    BY <2>1 DEF WhenReady, BeforeQuit, CheckStarts
  <2>2. ASSUME NEW now, HealthChanges(now) \/ SnapshotArrives(now) PROVE OfferIsAnUpgrade'
    BY <2>2 DEF HealthChanges, SnapshotArrives
  <2>3. ASSUME NEW latest \in Releases \cup {NoRelease}, CheckEnds(latest) PROVE OfferIsAnUpgrade'
    <3>1. CASE CheckCounts(latest)
      <4>1. available' = latest /\ latest # NoRelease /\ IsNewerVersion(CurrentVersion, latest)
        BY <2>3, <3>1 DEF CheckEnds, CheckCounts
      <4>2. QED
        BY <4>1, NewerIsOlder, TrayAssumption
    <3>2. CASE ~CheckCounts(latest)
      BY <2>3, <3>2 DEF CheckEnds
    <3>3. QED
      BY <3>1, <3>2
  <2>4. QED
    BY <2>1, <2>2, <2>3 DEF TrayNext
<1>4. QED
  BY <1>1, <1>2, <1>3, PTL DEF TraySpec

\* What the tray shows and offers is so, for any releases and number of checks.
THEOREM TrayInvHolds == TraySpec => []TrayInv
  BY MenuIsCurrentHolds, ChecksSpareTheDestroyedHolds, OfferIsAnUpgradeHolds, PTL DEF TrayInv

(***************************************************************************)
(* The tunnel.                                                             *)
(***************************************************************************)

\* The serial is taken from the lists of the chunk, or kept if the chunk lists
\* every phone that was known.
LEMMA ChunkKeepsSerialListed ==
  ASSUME SerialIsListed, NEW n \in 1 .. Len(pipe), ReadChunk(n)
  PROVE  SerialIsListed'
<1> DEFINE seenNow == UNION {pipe[i] : i \in 1 .. n}
           attached == {a \in (1 .. n) \X Phones : a[2] \in pipe[a[1]] \ previouslySeen}
           last == {a[2] : a \in {b \in attached : \A c \in attached : c[1] <= b[1]}}
           gone == previouslySeen \ seenNow
<1>1. previouslySeen' = seenNow /\ NewSerial(last, gone)
  BY DEF ReadChunk
<1>2. last \subseteq seenNow
  <2>1. \A a \in attached : a[1] \in 1 .. n /\ a[2] \in pipe[a[1]]
    OBVIOUS
  <2>2. QED
    BY <2>1
<1> HIDE DEF seenNow, last
<1>3. CASE gone # {}
  BY <1>1, <1>3 DEF NewSerial, SerialIsListed
<1>4. CASE gone = {} /\ last # {}
  BY <1>1, <1>2, <1>4 DEF NewSerial, SerialIsListed
<1>5. CASE gone = {} /\ last = {}
  BY <1>1, <1>5 DEF NewSerial, SerialIsListed
<1>6. QED
  BY <1>3, <1>4, <1>5

\* The pipe may speak of p's docking yet: p is not listed, or a list is on its way
\* that lacks it.
NewsOf(p) == p \notin previouslySeen \/ \E i \in 1 .. Len(pipe) : p \notin pipe[i]

\* The last list written is what is plugged in, and so is what was read when there
\* is none, up to what a chunk hid.
PipeIsTrue ==
    /\ pipe # <<>> => pipe[Len(pipe)] = plugged
    /\ pipe = <<>> => plugged \subseteq previouslySeen /\ previouslySeen \ plugged \subseteq hidden

\* A phone that lacks the tunnel the status speaks of will still be noticed, unless
\* its unplugging was hidden.
TunnelIsDue ==
    \A p \in plugged :
        \/ p \in tunnelled \/ p \in hidden \/ tunnelStatus # "reissued"
        \/ \E c \in ReverseCalls : running[c] > 0
        \/ NewsOf(p)

TunnelIInv == TunnelTypeOK /\ PipeIsTrue /\ TunnelIsDue

\* No command is ever sent to a phone the tracker does not list.
THEOREM SerialIsListedHolds == TunnelSpec => []SerialIsListed
<1>1. TunnelInit => SerialIsListed
  BY DEF TunnelInit, SerialIsListed
<1>2. SerialIsListed /\ UNCHANGED tunnelVars => SerialIsListed'
  BY DEF SerialIsListed, tunnelVars, statusVars, readerVars
<1>3. SerialIsListed /\ TunnelNext => SerialIsListed'
  <2> SUFFICES ASSUME SerialIsListed, TunnelNext PROVE SerialIsListed'
    OBVIOUS
  <2>1. CASE Usb
    BY <2>1 DEF SerialIsListed, Usb, PlugIn, Unplug, readerVars, statusVars
  <2>2. CASE ReadsSome
    <3>1. PICK n \in 1 .. Len(pipe) : ReadChunk(n)
      BY <2>2 DEF ReadsSome
    <3>2. QED
      BY <3>1, ChunkKeepsSerialListed
  <2>3. CASE SomeCallEnds
    <3>1. UNCHANGED <<serial, readerVars>>
      BY <2>3 DEF SomeCallEnds, ReverseEnds, LaunchEnds
    <3>2. QED
      BY <3>1 DEF SerialIsListed, readerVars
  <2>4. CASE Commands
    <3>1. CASE ReissueTunnel
      BY <3>1 DEF SerialIsListed, ReissueTunnel, readerVars, statusVars
    <3>2. CASE LaunchApp
      BY <3>2 DEF SerialIsListed, LaunchApp, readerVars, statusVars
    <3>3. ASSUME NEW enabled \in BOOLEAN, SetLaunchAppOnDock(enabled) PROVE SerialIsListed'
      <4>1. UNCHANGED <<serial, readerVars>>
        BY <3>3 DEF SetLaunchAppOnDock
      <4>2. QED
        BY <4>1 DEF SerialIsListed, readerVars
    <3>4. QED
      BY <2>4, <3>1, <3>2, <3>3 DEF Commands
  <2>5. QED
    BY <2>1, <2>2, <2>3, <2>4 DEF TunnelNext
<1>4. QED
  BY <1>1, <1>2, <1>3, PTL DEF TunnelSpec

\* A chunk that is read: what it says of a phone starts a reissue, or hides the phone.
LEMMA ChunkStep ==
  ASSUME TunnelIInv, NEW n \in 1 .. Len(pipe), ReadChunk(n)
  PROVE  TunnelIInv'
<1> DEFINE lists == {pipe[i] : i \in 1 .. n}
           seenNow == UNION lists
           attached == {a \in (1 .. n) \X Phones : a[2] \in pipe[a[1]] \ previouslySeen}
           last == {a[2] : a \in {b \in attached : \A c \in attached : c[1] <= b[1]}}
           gone == previouslySeen \ seenNow
           reverse == ReverseCall(FALSE)
<1>1. /\ TunnelTypeOK /\ PipeIsTrue /\ TunnelIsDue
      /\ Len(pipe) \in Nat /\ n \in 1 .. Len(pipe) /\ n \in Nat
      /\ \A i \in 1 .. Len(pipe) : pipe[i] \subseteq Phones
  BY DEF TunnelIInv, TunnelTypeOK
<1>2. /\ previouslySeen' = seenNow
      /\ pipe' = SubSeq(pipe, n + 1, Len(pipe))
      /\ Attach(Cardinality(attached)) /\ NewSerial(last, gone)
      /\ UNCHANGED <<plugged, tunnelled, tunnelStatus, appLaunchStatus, launchAppOnDock>>
  BY DEF ReadChunk
<1>3. hidden' = {p \in seenNow : p \notin pipe[n]} \cup
                ((hidden \cup {p \in seenNow : \E list \in lists : p \notin list})
                    \ (gone \cup (seenNow \ previouslySeen)))
  BY DEF ReadChunk
<1>4. /\ Len(pipe') = Len(pipe) - n /\ pipe' \in Seq(SUBSET Phones)
      /\ \A i \in 1 .. Len(pipe) - n : pipe'[i] = pipe[i + n]
  BY <1>1, <1>2 DEF TunnelTypeOK
<1>5. \A p : p \in seenNow <=> \E i \in 1 .. n : p \in pipe[i]
  OBVIOUS
<1>6. seenNow \subseteq Phones
  BY <1>1, <1>5
<1>7. \A p \in seenNow : (\E i \in 1 .. n : p \notin pipe[i]) /\ p \in previouslySeen => p \in hidden'
  BY <1>3
<1>8. Cardinality(attached) \in Nat
      /\ \A p \in seenNow \ previouslySeen : Cardinality(attached) > 0
  <2>1. IsFiniteSet(attached)
    <3>1. IsFiniteSet(1 .. n) /\ IsFiniteSet(Phones)
      BY <1>1, FS_Interval, TunnelAssumption
    <3>2. IsFiniteSet((1 .. n) \X Phones)
      BY <3>1, FS_Product
    <3>3. QED
      BY <3>2, FS_Subset
  <2>2. Cardinality(attached) \in Nat /\ (Cardinality(attached) = 0 <=> attached = {})
    BY <2>1, FS_CardinalityType, FS_EmptySet
  <2>3. ASSUME NEW p \in seenNow \ previouslySeen PROVE attached # {}
    <3>1. PICK i \in 1 .. n : p \in pipe[i]
      BY <1>5
    <3>2. <<i, p>> \in attached
      BY <1>6, <3>1
    <3>3. QED
      BY <3>2
  <2>4. ASSUME NEW m \in Nat, m # 0 PROVE m > 0
    BY <2>4
  <2> HIDE DEF attached
  <2>5. QED
    BY <2>2, <2>3, <2>4
<1>9. /\ running' = [running EXCEPT ![reverse] = @ + Cardinality(attached)]
      /\ reverse \in ReverseCalls /\ reverse \in AdbCalls
  BY <1>2 DEF Attach, ReverseCalls, AdbCalls
<1>10. last \subseteq seenNow
  <2>1. \A a \in attached : a[1] \in 1 .. n /\ a[2] \in pipe[a[1]]
    OBVIOUS
  <2>2. QED
    BY <1>5, <2>1
<1> HIDE DEF lists, attached, last, gone, reverse
<1>11. running' \in [AdbCalls -> Nat]
  BY <1>1, <1>8, <1>9 DEF TunnelTypeOK
<1>12. \A c \in ReverseCalls : running[c] > 0 => running'[c] > 0
  BY <1>1, <1>8, <1>9 DEF TunnelTypeOK, AdbCalls
<1>13. running'[reverse] = running[reverse] + Cardinality(attached)
  BY <1>1, <1>9 DEF TunnelTypeOK
<1>14. TunnelTypeOK'
  <2>1. hidden' \subseteq seenNow
    <3>1. hidden \subseteq previouslySeen
      BY <1>1 DEF TunnelTypeOK
    <3>2. QED
      BY <1>3, <3>1 DEF gone
  <2>2. serial' \in Serials
    BY <1>1, <1>2, <1>6, <1>10 DEF NewSerial, Serials, TunnelTypeOK
  <2>3. QED
    BY <1>1, <1>2, <1>4, <1>6, <1>11, <2>1, <2>2 DEF TunnelTypeOK
<1>15. PipeIsTrue'
  <2>1. pipe # <<>> /\ pipe[Len(pipe)] = plugged
    BY <1>1 DEF PipeIsTrue
  <2>2. CASE n = Len(pipe)
    <3>1. plugged \subseteq seenNow /\ seenNow \ plugged \subseteq hidden'
      BY <1>3, <1>5, <2>1, <2>2
    <3>2. pipe' = <<>>
      BY <1>4, <2>2
    <3>3. QED
      BY <1>2, <3>1, <3>2 DEF PipeIsTrue
  <2>3. CASE n # Len(pipe)
    <3>1. /\ Len(pipe') \in 1 .. Len(pipe) - n /\ Len(pipe') + n = Len(pipe)
      BY <1>1, <1>4, <2>3
    <3>2. pipe'[Len(pipe')] = plugged /\ pipe' # <<>>
      BY <1>4, <2>1, <3>1
    <3>3. QED
      BY <1>2, <3>2 DEF PipeIsTrue
  <2>4. QED
    BY <2>2, <2>3
<1>16. TunnelIsDue'
  <2> SUFFICES ASSUME NEW p \in plugged, p \notin tunnelled, p \notin hidden', tunnelStatus = "reissued",
                      \A c \in ReverseCalls : ~(running'[c] > 0)
               PROVE  p \notin seenNow \/ \E i \in 1 .. Len(pipe') : p \notin pipe'[i]
    BY <1>2 DEF TunnelIsDue, NewsOf
  <2> SUFFICES ASSUME p \in seenNow PROVE \E i \in 1 .. Len(pipe') : p \notin pipe'[i]
    OBVIOUS
  <2>1. p \in previouslySeen
    <3>1. running[reverse] \in Nat
      BY <1>1, <1>9 DEF TunnelTypeOK
    <3>2. QED
      BY <1>8, <1>9, <1>13, <3>1
  <2>2. \A i \in 1 .. n : p \in pipe[i]
    BY <1>7, <2>1
  <2>3. p \notin hidden
    BY <1>3, <2>1 DEF gone
  <2>4. \E i \in 1 .. Len(pipe) : p \notin pipe[i]
    BY <1>1, <1>12, <2>1, <2>3 DEF TunnelIsDue, NewsOf
  <2>5. PICK i \in 1 .. Len(pipe) : p \notin pipe[i]
    BY <2>4
  <2>6. i - n \in 1 .. Len(pipe) - n /\ (i - n) + n = i
    BY <1>1, <2>2, <2>5
  <2>7. QED
    BY <1>4, <2>5, <2>6
<1>17. QED
  BY <1>14, <1>15, <1>16 DEF TunnelIInv

\* A child process that ends, and who starts one.
LEMMA CallStep ==
  ASSUME TunnelIInv, SomeCallEnds \/ Commands
  PROVE  TunnelIInv'
<1>1. TunnelTypeOK /\ PipeIsTrue /\ TunnelIsDue
  BY DEF TunnelIInv
<1>2. /\ ReverseCalls \subseteq AdbCalls /\ LaunchCalls \subseteq AdbCalls
      /\ LaunchCall(serial) \in LaunchCalls
      /\ \A m \in BOOLEAN : ReverseCall(m) \in ReverseCalls
      /\ ReverseCalls \cap LaunchCalls = {}
  <2>1. serial \in Serials
    BY <1>1 DEF TunnelTypeOK
  <2>2. \A c \in ReverseCalls : c.cmd = "reverse"
    BY DEF ReverseCalls, ReverseCall
  <2>3. \A c \in LaunchCalls : c.cmd = "launch"
    BY DEF LaunchCalls, LaunchCall
  <2>4. QED
    BY <2>1, <2>2, <2>3 DEF AdbCalls, ReverseCalls, LaunchCalls
<1>3. running \in [AdbCalls -> Nat]
  BY <1>1 DEF TunnelTypeOK
<1>4. UNCHANGED <<plugged, pipe, previouslySeen, hidden, serial>>
  BY DEF SomeCallEnds, Commands, ReverseEnds, LaunchEnds, ReissueTunnel, LaunchApp,
         SetLaunchAppOnDock, usbVars, readerVars, statusVars
<1>5. PipeIsTrue'
  BY <1>1, <1>4 DEF PipeIsTrue
<1>6. ASSUME NEW call \in AdbCalls, running[call] > 0
      PROVE  /\ Ends(call) \in [AdbCalls -> Nat]
             /\ \A c \in AdbCalls : c # call => Ends(call)[c] = running[c]
  BY <1>3, <1>6 DEF Ends
<1>7. ASSUME NEW f \in [AdbCalls -> Nat], NEW c \in AdbCalls
      PROVE  [f EXCEPT ![c] = @ + 1] \in [AdbCalls -> Nat]
  OBVIOUS
<1>8. ASSUME NEW ok \in BOOLEAN, NEW call \in ReverseCalls, ReverseEnds(call, ok) PROVE TunnelIInv'
  <2>1. call \in AdbCalls /\ running[call] > 0
    BY <1>2, <1>8 DEF ReverseEnds
  <2>2. running' \in [AdbCalls -> Nat]
    <3>1. Ends(call) \in [AdbCalls -> Nat]
      BY <1>6, <2>1
    <3>2. [Ends(call) EXCEPT ![LaunchCall(serial)] = @ + 1] \in [AdbCalls -> Nat]
      BY <1>2, <1>7, <3>1
    <3>3. \/ running' = [Ends(call) EXCEPT ![LaunchCall(serial)] = @ + 1]
          \/ running' = Ends(call)
      BY <1>8 DEF ReverseEnds, OnAttachContinues
    <3>4. QED
      BY <3>1, <3>2, <3>3
  <2>3. /\ tunnelled' = IF ok THEN plugged ELSE tunnelled
        /\ tunnelStatus' = IF ok THEN "reissued" ELSE "failed"
        /\ UNCHANGED <<appLaunchStatus, launchAppOnDock>>
    BY <1>8 DEF ReverseEnds
  <2>4. TunnelTypeOK'
    BY <1>1, <1>4, <2>2, <2>3 DEF TunnelTypeOK
  <2>5. TunnelIsDue'
    BY <1>4, <2>3 DEF TunnelIsDue
  <2>6. QED
    BY <1>5, <2>4, <2>5 DEF TunnelIInv
<1>9. ASSUME UNCHANGED <<tunnelled, tunnelStatus>>,
             \A c \in ReverseCalls : running'[c] >= running[c], running' \in [AdbCalls -> Nat]
      PROVE  TunnelIsDue'
  <2>1. \A c \in ReverseCalls : running[c] \in Nat /\ running'[c] \in Nat
    BY <1>2, <1>3, <1>9
  <2>2. \A c \in ReverseCalls : running[c] > 0 => running'[c] > 0
    BY <1>9, <2>1
  <2>3. \A p : NewsOf(p) => NewsOf(p)'
    BY <1>4 DEF NewsOf
  <2>4. QED
    BY <1>1, <1>4, <1>9, <2>2, <2>3 DEF TunnelIsDue
<1>10. ASSUME NEW ok \in BOOLEAN, NEW call \in LaunchCalls, LaunchEnds(call, ok) PROVE TunnelIInv'
  <2>1. call \in AdbCalls /\ running[call] > 0 /\ running' = Ends(call)
        /\ UNCHANGED <<tunnelled, tunnelStatus, launchAppOnDock>>
        /\ appLaunchStatus' \in {"launched", "failed"}
    BY <1>2, <1>10 DEF LaunchEnds, usbVars
  <2>2. running' \in [AdbCalls -> Nat]
    BY <1>6, <2>1
  <2>3. \A c \in ReverseCalls : running'[c] = running[c] /\ running[c] \in Nat
    BY <1>2, <1>3, <1>6, <2>1
  <2>4. TunnelIsDue'
    BY <1>9, <2>1, <2>2, <2>3
  <2>5. TunnelTypeOK'
    BY <1>1, <1>4, <2>1, <2>2 DEF TunnelTypeOK
  <2>6. QED
    BY <1>5, <2>4, <2>5 DEF TunnelIInv
<1>11. ASSUME NEW call \in AdbCalls, Starts(call), UNCHANGED <<usbVars, readerVars, statusVars>>
       PROVE  TunnelIInv'
  <2>1. running' = [running EXCEPT ![call] = @ + 1]
    BY <1>11 DEF Starts
  <2>2. running' \in [AdbCalls -> Nat]
    BY <1>3, <1>7, <2>1
  <2>3. \A c \in ReverseCalls : running'[c] >= running[c]
    BY <1>2, <1>3, <2>1
  <2>4. UNCHANGED <<tunnelled, tunnelStatus, appLaunchStatus, launchAppOnDock>>
    BY <1>11 DEF usbVars, statusVars
  <2>5. TunnelTypeOK'
    BY <1>1, <1>4, <2>2, <2>4 DEF TunnelTypeOK
  <2>6. QED
    BY <1>5, <1>9, <2>2, <2>3, <2>4, <2>5 DEF TunnelIInv
<1>12. ASSUME NEW enabled \in BOOLEAN, SetLaunchAppOnDock(enabled) PROVE TunnelIInv'
  <2>1. UNCHANGED <<tunnelled, tunnelStatus, appLaunchStatus, running>> /\ launchAppOnDock' \in BOOLEAN
    BY <1>12 DEF SetLaunchAppOnDock, usbVars
  <2>2. \A c \in ReverseCalls : running'[c] >= running[c]
    BY <1>2, <1>3, <2>1
  <2>3. TunnelTypeOK'
    BY <1>1, <1>4, <2>1 DEF TunnelTypeOK
  <2>4. QED
    BY <1>3, <1>5, <1>9, <2>1, <2>2, <2>3 DEF TunnelIInv
<1>13. ReverseCall(TRUE) \in AdbCalls /\ LaunchCall(serial) \in AdbCalls
  BY <1>2
<1>14. CASE SomeCallEnds
  BY <1>8, <1>10, <1>14 DEF SomeCallEnds
<1>15. CASE Commands
  BY <1>11, <1>12, <1>13, <1>15 DEF Commands, ReissueTunnel, LaunchApp
<1>16. QED
  BY <1>14, <1>15

\* A phone that comes or goes is in the list that adb writes.
LEMMA UsbStep ==
  ASSUME TunnelIInv, NEW p \in Phones, PlugIn(p) \/ Unplug(p)
  PROVE  TunnelIInv'
<1>1. TunnelTypeOK /\ PipeIsTrue /\ TunnelIsDue
  BY DEF TunnelIInv
<1>2. /\ UNCHANGED <<previouslySeen, hidden, serial, tunnelStatus, appLaunchStatus,
                     launchAppOnDock, running>>
      /\ pipe' = Append(pipe, plugged')
      /\ plugged' \subseteq plugged \cup {p} /\ plugged \subseteq plugged' \cup {p}
      /\ tunnelled' \subseteq tunnelled /\ tunnelled \subseteq tunnelled' \cup {p}
      /\ tunnelled' \subseteq plugged'
  BY <1>1 DEF PlugIn, Unplug, WriteList, readerVars, statusVars, TunnelTypeOK
<1>3. plugged' \in SUBSET Phones /\ pipe \in Seq(SUBSET Phones)
  BY <1>1, <1>2 DEF TunnelTypeOK
<1>4. /\ pipe' \in Seq(SUBSET Phones) /\ Len(pipe) \in Nat /\ Len(pipe') = Len(pipe) + 1
      /\ pipe'[Len(pipe) + 1] = plugged'
      /\ \A i \in 1 .. Len(pipe) : pipe'[i] = pipe[i]
  BY <1>2, <1>3
<1>5. TunnelTypeOK'
  BY <1>1, <1>2, <1>3, <1>4 DEF TunnelTypeOK
<1>6. PipeIsTrue'
  <2>1. pipe' # <<>> /\ pipe'[Len(pipe')] = plugged'
    BY <1>4
  <2>2. QED
    BY <2>1 DEF PipeIsTrue
<1>7. \A q : NewsOf(q) => NewsOf(q)'
  BY <1>2, <1>4 DEF NewsOf
<1>8. TunnelIsDue'
  <2> SUFFICES ASSUME NEW q \in plugged', q \notin tunnelled', q \notin hidden,
                      tunnelStatus = "reissued", \A c \in ReverseCalls : ~(running[c] > 0)
               PROVE  NewsOf(q)'
    BY <1>2 DEF TunnelIsDue
  <2>1. CASE q \in plugged
    <3>1. q # p
      BY <2>1 DEF PlugIn, Unplug
    <3>2. q \notin tunnelled
      BY <1>2, <3>1
    <3>3. NewsOf(q)
      BY <1>1, <2>1, <3>2 DEF TunnelIsDue
    <3>4. QED
      BY <1>7, <3>3
  <2>2. CASE q \notin plugged
    <3>1. CASE pipe = <<>>
      BY <1>1, <1>7, <2>2, <3>1 DEF PipeIsTrue, NewsOf
    <3>2. CASE pipe # <<>>
      <4>1. Len(pipe) \in 1 .. Len(pipe) /\ pipe[Len(pipe)] = plugged
        BY <1>1, <1>3, <1>4, <3>2 DEF PipeIsTrue
      <4>2. QED
        BY <1>7, <2>2, <4>1 DEF NewsOf
    <3>3. QED
      BY <3>1, <3>2
  <2>3. QED
    BY <2>1, <2>2
<1>9. QED
  BY <1>5, <1>6, <1>8 DEF TunnelIInv

\* TunnelIInv holds in every reachable state, for any number of phones, lists and calls.
THEOREM TunnelIInvHolds == TunnelSpec => []TunnelIInv
<1>1. TunnelInit => TunnelIInv
  <2> SUFFICES ASSUME TunnelInit PROVE TunnelIInv
    OBVIOUS
  <2>1. TunnelTypeOK
    <3>1. pipe \in Seq(SUBSET Phones)
      BY DEF TunnelInit
    <3>2. running \in [AdbCalls -> Nat]
      BY DEF TunnelInit
    <3>3. QED
      BY <3>1, <3>2 DEF TunnelInit, TunnelTypeOK, Serials
  <2>2. PipeIsTrue /\ TunnelIsDue
    BY DEF TunnelInit, PipeIsTrue, TunnelIsDue
  <2>3. QED
    BY <2>1, <2>2 DEF TunnelIInv
<1>2. TunnelIInv /\ [TunnelNext]_tunnelVars => TunnelIInv'
  <2> SUFFICES ASSUME TunnelIInv, [TunnelNext]_tunnelVars PROVE TunnelIInv'
    OBVIOUS
  <2>1. CASE Usb
    BY <2>1, UsbStep DEF Usb
  <2>2. CASE ReadsSome
    BY <2>2, ChunkStep DEF ReadsSome
  <2>3. CASE SomeCallEnds \/ Commands
    BY <2>3, CallStep
  <2>4. CASE UNCHANGED tunnelVars
    <3>1. UNCHANGED <<plugged, tunnelled, pipe, previouslySeen, hidden, serial, tunnelStatus,
                      appLaunchStatus, launchAppOnDock, running>>
      BY <2>4 DEF tunnelVars, usbVars, readerVars, statusVars
    <3>2. QED
      BY <3>1 DEF TunnelIInv, TunnelTypeOK, PipeIsTrue, TunnelIsDue, NewsOf
  <2>5. QED
    BY <2>1, <2>2, <2>3, <2>4 DEF TunnelNext
<1>3. QED
  BY <1>1, <1>2, PTL DEF TunnelSpec

\* When all is read and every reissue has ended, `reissued' is true of the phone
\* that is docked alone.
THEOREM ReissuedIsTrueHolds == TunnelSpec => []ReissuedIsTrue
<1>1. TunnelIInv => ReissuedIsTrue
  <2> SUFFICES ASSUME TunnelIInv, Settled, tunnelStatus = "reissued",
                      NEW p \in Phones \ hidden, plugged = {p}
               PROVE  p \in tunnelled
    BY DEF ReissuedIsTrue
  <2>1. p \in plugged /\ ~NewsOf(p)
    <3>1. Len(pipe) = 0 /\ p \in previouslySeen
      BY DEF TunnelIInv, PipeIsTrue, Settled
    <3>2. QED
      BY <3>1 DEF NewsOf
  <2>2. \A c \in ReverseCalls : ~(running[c] > 0)
    BY DEF Settled
  <2>3. QED
    BY <2>1, <2>2 DEF TunnelIInv, TunnelIsDue
<1>2. QED
  BY <1>1, TunnelIInvHolds, PTL

\* The supervisor's whole invariant, for any phones and any overlap of calls.
THEOREM TunnelInvHolds == TunnelSpec => []TunnelInv
<1>1. TunnelIInv => TunnelTypeOK
  BY DEF TunnelIInv
<1>2. QED
  BY <1>1, TunnelIInvHolds, SerialIsListedHolds, ReissuedIsTrueHolds, PTL DEF TunnelInv

(***************************************************************************)
(* The log pane.                                                           *)
(***************************************************************************)

\* A message to the page, and whether it goes before no answer that is still to come
\* or under way: what does will be replaced by that answer.
Sent == [kind : {"log", "logs"}, lines : Seq(Nat)]
Counts(i) == ~asked /\ \A j \in i + 1 .. Len(toPage) : toPage[j].kind = "log"

\* On its way is at most one answer, and behind it only lines.  A message's place,
\* if it counts, says which line it ends with.
LogIInv ==
    /\ produced \in Nat /\ asked \in BOOLEAN /\ received \in BOOLEAN
    /\ entries \in Seq(Nat) /\ IsRun(entries, produced)
    /\ toPage \in Seq(Sent)
    /\ logs \in Seq(Nat)
    /\ page # "mounted" => toPage = <<>> /\ ~asked /\ ~received
    /\ asked \/ received => \A i \in 1 .. Len(toPage) : toPage[i].kind = "log"
    /\ ~(asked /\ received)
    /\ received => IsRun(logs, produced - Len(toPage))
    /\ \A i \in 1 .. Len(toPage) :
          /\ Counts(i) => IsRun(toPage[i].lines, produced - (Len(toPage) - i))
          /\ toPage[i].kind = "log" => Len(toPage[i].lines) = 1
          /\ toPage[i].kind = "logs" => \A j \in i + 1 .. Len(toPage) : toPage[j].kind = "log"

\* A run goes on with the next line.
LEMMA RunGrows ==
  ASSUME NEW lines \in Seq(Nat), NEW last \in Nat, IsRun(lines, last)
  PROVE  /\ IsRun(Append(lines, last + 1), last + 1)
         /\ Append(lines, last + 1) \in Seq(Nat)
<1>1. /\ Append(lines, last + 1) \in Seq(Nat)
      /\ Len(Append(lines, last + 1)) = Len(lines) + 1
      /\ \A i \in 1 .. Len(lines) : Append(lines, last + 1)[i] = lines[i]
      /\ Append(lines, last + 1)[Len(lines) + 1] = last + 1
  OBVIOUS
<1>2. QED
  BY <1>1 DEF IsRun

\* A run stays one without its first line.
LEMMA RunShrinks ==
  ASSUME NEW lines \in Seq(Nat), NEW last \in Nat, IsRun(lines, last), lines # <<>>
  PROVE  IsRun(Tail(lines), last) /\ Tail(lines) \in Seq(Nat)
  BY DEF IsRun

\* LogBuffer keeps a run that ends with the newest line.
LEMMA PushStep ==
  ASSUME LogIInv, Push(produced + 1)
  PROVE  entries' \in Seq(Nat) /\ IsRun(entries', produced + 1)
<1> DEFINE longer == Append(entries, produced + 1)
<1>0. produced \in Nat /\ entries \in Seq(Nat) /\ IsRun(entries, produced)
  BY DEF LogIInv
<1>1. IsRun(longer, produced + 1) /\ longer \in Seq(Nat)
  BY <1>0, RunGrows
<1>a. longer # <<>>
  BY <1>0
<1>2. entries' = longer \/ entries' = Tail(longer)
  BY DEF Push
<1> HIDE DEF longer
<1>3. QED
  <2>1. produced + 1 \in Nat
    BY <1>0
  <2>2. Tail(longer) \in Seq(Nat) /\ IsRun(Tail(longer), produced + 1)
    BY <1>1, <1>a, <2>1, RunShrinks
  <2>3. QED
    BY <1>1, <1>2, <2>2

\* A new line is pushed and sent behind what is under way.
LEMMA RecordStep ==
  ASSUME LogIInv, RecordLine
  PROVE  LogIInv'
<1> DEFINE n == Len(toPage)
           place(i) == produced - (n - i)
<1>0. /\ produced \in Nat /\ produced' = produced + 1
      /\ UNCHANGED <<page, asked, received, logs>>
  BY DEF LogIInv, RecordLine
<1>1. entries' \in Seq(Nat) /\ IsRun(entries', produced')
  BY <1>0, PushStep DEF RecordLine
<1>2. CASE page # "mounted"
  <2>1. toPage' = <<>> /\ ~asked' /\ ~received' /\ page' # "mounted"
    BY <1>0, <1>2 DEF LogIInv, RecordLine
  <2>2. QED
    BY <1>0, <1>1, <2>1 DEF LogIInv
<1>3. CASE page = "mounted"
  <2>0. toPage \in Seq(Sent) /\ n \in Nat
    BY DEF LogIInv
  <2>1. toPage' = Append(toPage, Line(produced')) /\ page' = "mounted"
    BY <1>0, <1>3 DEF RecordLine
  <2>2. Line(produced') \in Sent
    BY <1>0 DEF Line, Sent
  <2>3. /\ toPage' \in Seq(Sent)
        /\ Len(toPage') = n + 1 /\ toPage'[n + 1] = Line(produced')
        /\ \A i \in 1 .. n : toPage'[i] = toPage[i]
    BY <2>0, <2>1, <2>2
  <2>4. produced' - Len(toPage') = produced - n
    BY <1>0, <2>0, <2>3
  <2>5. ASSUME NEW i \in 1 .. n PROVE produced' - (Len(toPage') - i) = place(i)
    BY <1>0, <2>0, <2>3
  <2>6. IsRun(toPage'[n + 1].lines, produced' - (Len(toPage') - (n + 1)))
    BY <1>0, <2>0, <2>3 DEF IsRun, Line
  <2>7. toPage'[n + 1].kind = "log" /\ Len(toPage'[n + 1].lines) = 1
    BY <2>3 DEF Line
  <2>8. ASSUME asked' \/ received', NEW i \in 1 .. Len(toPage') PROVE toPage'[i].kind = "log"
    <3>1. CASE i = n + 1
      BY <2>7, <3>1
    <3>2. CASE i \in 1 .. n
      <4>1. toPage[i].kind = "log"
        BY <1>0, <2>8, <3>2 DEF LogIInv
      <4>2. QED
        BY <2>3, <3>2, <4>1
    <3>3. QED
      BY <2>0, <2>3, <3>1, <3>2
  <2>9. ASSUME NEW i \in 1 .. Len(toPage'), Counts(i)'
        PROVE  IsRun(toPage'[i].lines, produced' - (Len(toPage') - i))
    <3>1. CASE i = n + 1
      BY <2>6, <3>1
    <3>2. CASE i \in 1 .. n
      <4>1. Counts(i)
        BY <1>0, <2>0, <2>3, <3>2, <2>9 DEF Counts
      <4>2. IsRun(toPage[i].lines, place(i))
        BY <3>2, <4>1 DEF LogIInv
      <4>3. QED
        BY <2>3, <2>5, <3>2, <4>2
    <3>3. QED
      BY <2>0, <2>3, <3>1, <3>2
  <2>10. ASSUME NEW i \in 1 .. Len(toPage'), toPage'[i].kind = "log"
         PROVE  Len(toPage'[i].lines) = 1
    <3>1. CASE i = n + 1
      BY <2>7, <3>1
    <3>2. CASE i \in 1 .. n
      <4>1. toPage[i].kind = "log" /\ toPage'[i] = toPage[i]
        BY <2>3, <2>10, <3>2
      <4>2. QED
        BY <3>2, <4>1 DEF LogIInv
    <3>3. QED
      BY <2>0, <2>3, <3>1, <3>2
  <2>11. ASSUME NEW i \in 1 .. Len(toPage'), toPage'[i].kind = "logs", NEW j \in i + 1 .. Len(toPage')
         PROVE  toPage'[j].kind = "log"
    <3>1. CASE j = n + 1
      BY <2>7, <3>1
    <3>2. CASE j # n + 1
      <4>1. i \in 1 .. n /\ j \in i + 1 .. n /\ j \in 1 .. n
        BY <2>0, <2>3, <2>11, <3>2
      <4>2. toPage'[i] = toPage[i] /\ toPage'[j] = toPage[j]
        BY <2>3, <4>1
      <4>3. toPage[j].kind = "log"
        BY <2>11, <4>1, <4>2 DEF LogIInv
      <4>4. QED
        BY <4>2, <4>3
    <3>3. QED
      BY <3>1, <3>2
  <2>12. received' => IsRun(logs', produced' - Len(toPage'))
    BY <1>0, <2>4 DEF LogIInv
  <2>13. QED
    BY <1>0, <1>1, <2>1, <2>3, <2>8, <2>9, <2>10, <2>11, <2>12 DEF LogIInv
<1>4. QED
  BY <1>2, <1>3

\* The answer is the buffer, and goes behind what is under way.
LEMMA AnswerStep ==
  ASSUME LogIInv, HandleGetLogs
  PROVE  LogIInv'
<1> DEFINE n == Len(toPage)
<1>0. /\ produced \in Nat /\ entries \in Seq(Nat) /\ IsRun(entries, produced)
      /\ asked /\ ~asked' /\ ~received /\ page = "mounted"
      /\ UNCHANGED <<produced, entries, page, received, logs>>
  BY DEF LogIInv, HandleGetLogs
<1>1. toPage \in Seq(Sent) /\ n \in Nat
  BY DEF LogIInv
<1>2. Answer(entries) \in Sent
  BY <1>0 DEF Answer, Sent
<1>3. toPage' = Append(toPage, Answer(entries))
  BY DEF HandleGetLogs
<1>4. /\ toPage' \in Seq(Sent)
      /\ Len(toPage') = n + 1 /\ toPage'[n + 1] = Answer(entries)
      /\ \A i \in 1 .. n : toPage'[i] = toPage[i]
  BY <1>1, <1>2, <1>3
<1>5. \A i \in 1 .. n : toPage'[i].kind = "log" /\ Len(toPage'[i].lines) = 1
  BY <1>0, <1>1, <1>4 DEF LogIInv
<1>6. toPage'[n + 1].kind = "logs" /\ toPage'[n + 1].lines = entries
  BY <1>4 DEF Answer
<1>7. ASSUME NEW i \in 1 .. Len(toPage'), Counts(i)'
      PROVE  IsRun(toPage'[i].lines, produced' - (Len(toPage') - i))
  <2>1. CASE i \in 1 .. n
    <3>1. n + 1 \in i + 1 .. Len(toPage')
      BY <1>1, <1>4, <2>1
    <3>2. QED
      BY <1>6, <1>7, <3>1 DEF Counts
  <2>2. CASE i = n + 1
    BY <1>0, <1>1, <1>4, <1>6, <2>2
  <2>3. QED
    BY <1>1, <1>4, <2>1, <2>2
<1>8. ASSUME NEW i \in 1 .. Len(toPage'), toPage'[i].kind = "logs", NEW j \in i + 1 .. Len(toPage')
      PROVE  toPage'[j].kind = "log"
  <2>1. i \notin 1 .. n
    BY <1>5, <1>8
  <2>2. FALSE
    BY <1>1, <1>4, <2>1
  <2>3. QED
    BY <2>2
<1>9. \A i \in 1 .. Len(toPage') : toPage'[i].kind = "log" => Len(toPage'[i].lines) = 1
  BY <1>1, <1>4, <1>5, <1>6
<1>10. /\ asked' = FALSE /\ received' = FALSE /\ page' = "mounted"
       /\ logs' \in Seq(Nat) /\ produced' \in Nat /\ entries' \in Seq(Nat)
       /\ IsRun(entries', produced')
  BY <1>0 DEF LogIInv, HandleGetLogs
<1>11. QED
  BY <1>4, <1>7, <1>8, <1>9, <1>10 DEF LogIInv

\* A run, and the line that comes next.
LEMMA RunJoins ==
  ASSUME NEW lines \in Seq(Nat), NEW more \in Seq(Nat), NEW last \in Int,
         IsRun(lines, last), Len(more) = 1, IsRun(more, last + 1)
  PROVE  IsRun(lines \o more, last + 1)
<1>1. /\ Len(lines \o more) = Len(lines) + 1
      /\ \A i \in 1 .. Len(lines) : (lines \o more)[i] = lines[i]
      /\ (lines \o more)[Len(lines) + 1] = more[1]
  <2>1. /\ Len(lines \o more) = Len(lines) + Len(more)
        /\ \A i \in 1 .. Len(lines) + Len(more) :
              (lines \o more)[i] = IF i <= Len(lines) THEN lines[i] ELSE more[i - Len(lines)]
    BY ConcatProperties
  <2>2. Len(lines) \in Nat
    OBVIOUS
  <2>3. QED
    BY <2>1, <2>2
<1>2. more[1] = last + 1
  BY DEF IsRun
<1>3. lines \o more \in Seq(Nat)
  OBVIOUS
<1>4. QED
  BY <1>1, <1>2, <1>3 DEF IsRun

\* The page takes the first message: its answer, or a line behind the ones it has.
LEMMA ReceiveStep ==
  ASSUME LogIInv, PageReceives
  PROVE  LogIInv'
<1> DEFINE n == Len(toPage)
           first == Head(toPage)
<1>1. /\ toPage \in Seq(Sent) /\ toPage # <<>>
      /\ UNCHANGED <<produced, entries, page, asked>>
      /\ produced \in Nat /\ logs \in Seq(Nat) /\ page = "mounted"
  BY DEF LogIInv, PageReceives
<1>2. /\ n \in Nat \ {0} /\ first = toPage[1]
      /\ toPage' \in Seq(Sent)
      /\ Len(toPage') = n - 1 /\ \A i \in 1 .. n - 1 : toPage'[i] = toPage[i + 1]
  BY <1>1 DEF PageReceives
<1>3. first.kind \in {"log", "logs"} /\ first.lines \in Seq(Nat)
  <2>1. first \in Sent
    BY <1>1, HeadTailProperties
  <2>2. QED
    BY <2>1 DEF Sent
<1>4. ASSUME NEW i \in 1 .. n - 1, Counts(i)' PROVE Counts(i + 1)
  <2>1. ASSUME NEW j \in (i + 1) + 1 .. n PROVE toPage[j].kind = "log"
    <3>1. j - 1 \in i + 1 .. n - 1 /\ j - 1 \in 1 .. n - 1 /\ (j - 1) + 1 = j
      BY <1>2
    <3>2. toPage'[j - 1] = toPage[j] /\ j - 1 \in i + 1 .. Len(toPage')
      BY <1>2, <3>1
    <3>3. QED
      BY <1>4, <3>2 DEF Counts
  <2>2. ~asked
    BY <1>1, <1>4 DEF Counts
  <2>3. QED
    BY <2>1, <2>2 DEF Counts
<1>5. \A i \in 1 .. n - 1 : produced' - (Len(toPage') - i) = produced - (n - (i + 1))
  BY <1>1, <1>2
<1>6. ASSUME NEW i \in 1 .. Len(toPage')
      PROVE  /\ Counts(i)' => IsRun(toPage'[i].lines, produced' - (Len(toPage') - i))
             /\ toPage'[i].kind = "log" => Len(toPage'[i].lines) = 1
             /\ toPage'[i].kind = "logs" => \A j \in i + 1 .. Len(toPage') : toPage'[j].kind = "log"
  <2>0. i \in 1 .. n - 1 /\ i + 1 \in 1 .. n /\ toPage'[i] = toPage[i + 1]
    BY <1>2
  <2>1. Counts(i)' => IsRun(toPage[i + 1].lines, produced - (n - (i + 1)))
    BY <1>4, <2>0 DEF LogIInv
  <2>2. toPage[i + 1].kind = "log" => Len(toPage[i + 1].lines) = 1
    BY <2>0 DEF LogIInv
  <2>3. toPage[i + 1].kind = "logs" => \A j \in i + 2 .. n : toPage[j].kind = "log"
    BY <2>0 DEF LogIInv
  <2>4. \A j \in i + 1 .. Len(toPage') : toPage'[j] = toPage[j + 1] /\ j + 1 \in i + 2 .. n
    BY <1>2
  <2>5. QED
    BY <1>5, <2>0, <2>1, <2>2, <2>3, <2>4
<1>7. CASE first.kind = "logs"
  <2>0. received' = TRUE /\ logs' = first.lines
    BY <1>7 DEF PageReceives, SetLogs
  <2>1. ~asked /\ ~received
    <3>1. 1 \in 1 .. Len(toPage) /\ toPage[1].kind # "log"
      BY <1>2, <1>7
    <3>2. QED
      BY <3>1 DEF LogIInv
  <2>2. ASSUME NEW j \in 1 + 1 .. Len(toPage) PROVE toPage[j].kind = "log"
    <3>1. 1 \in 1 .. Len(toPage) /\ toPage[1].kind = "logs"
      BY <1>2, <1>7
    <3>2. QED
      BY <3>1 DEF LogIInv
  <2>3. Counts(1)
    BY <2>1, <2>2 DEF Counts
  <2>4. IsRun(first.lines, produced - (n - 1))
    <3>1. 1 \in 1 .. Len(toPage)
      BY <1>2
    <3>2. IsRun(toPage[1].lines, produced - (Len(toPage) - 1))
      BY <2>3, <3>1 DEF LogIInv
    <3>3. QED
      BY <1>2, <3>2
  <2>5. ASSUME NEW i \in 1 .. Len(toPage') PROVE toPage'[i].kind = "log"
    <3>1. i + 1 \in 1 + 1 .. Len(toPage) /\ i \in 1 .. n - 1
      BY <1>2
    <3>2. QED
      BY <1>2, <2>2, <3>1
  <2>6. QED
    BY <1>1, <1>2, <1>3, <1>6, <2>0, <2>1, <2>4, <2>5 DEF LogIInv
<1>8. CASE first.kind = "log"
  <2>0. logs' = logs \o first.lines /\ logs' \in Seq(Nat)
    BY <1>1, <1>3, <1>8, ConcatProperties DEF PageReceives, SetLogs
  <2>a. received' = received
    BY <1>8 DEF PageReceives, LogIInv
  <2>1. (received' <=> received) /\ logs' = logs \o first.lines /\ logs' \in Seq(Nat)
    BY <2>0, <2>a
  <2>2. ASSUME asked' \/ received', NEW i \in 1 .. Len(toPage') PROVE toPage'[i].kind = "log"
    <3>1. i \in 1 .. n - 1 /\ i + 1 \in 1 .. Len(toPage)
      BY <1>2
    <3>2. toPage[i + 1].kind = "log"
      BY <1>1, <2>a, <2>2, <3>1 DEF LogIInv
    <3>3. QED
      BY <1>2, <3>1, <3>2
  <2>3. ASSUME received PROVE IsRun(logs', produced' - Len(toPage'))
    <3>1. Counts(1)
      BY <1>2, <2>3 DEF LogIInv, Counts
    <3>2. IsRun(first.lines, produced - (n - 1)) /\ Len(first.lines) = 1
      BY <1>2, <1>8, <3>1 DEF LogIInv
    <3>3. IsRun(logs, produced - n)
      BY <2>3 DEF LogIInv
    <3>4. produced - n \in Int /\ produced - (n - 1) = (produced - n) + 1
      BY <1>1, <1>2
    <3>5. IsRun(logs \o first.lines, (produced - n) + 1)
      BY <1>1, <1>3, <3>2, <3>3, <3>4, RunJoins
    <3>6. QED
      BY <1>1, <1>2, <2>1, <3>4, <3>5
  <2>4. asked' \in BOOLEAN /\ received' \in BOOLEAN /\ ~(asked' /\ received')
    BY <1>1, <2>a DEF LogIInv
  <2>5. entries' \in Seq(Nat) /\ IsRun(entries', produced') /\ produced' \in Nat
    BY <1>1 DEF LogIInv
  <2>6. received' => IsRun(logs', produced' - Len(toPage'))
    BY <2>a, <2>3
  <2>7. QED
    BY <1>1, <1>2, <1>6, <2>0, <2>2, <2>4, <2>5, <2>6 DEF LogIInv
<1>9. QED
  BY <1>3, <1>7, <1>8

\* For any buffer size and any number of lines: what the pane shows once it has its
\* answer has no gap and no line twice.
THEOREM LogHasNoGapHolds == LogSpec => []LogHasNoGap
<1>1. LogInit => LogIInv
  <2> SUFFICES ASSUME LogInit PROVE LogIInv
    OBVIOUS
  <2>1. /\ toPage = <<>> /\ toPage \in Seq(Sent) /\ Len(toPage) = 0
        /\ produced \in Nat /\ entries \in Seq(Nat) /\ logs \in Seq(Nat)
        /\ IsRun(entries, produced)
    BY DEF LogInit, IsRun
  <2>2. received = FALSE /\ asked = FALSE
    BY DEF LogInit
  <2>3. ~\E i : i \in 1 .. Len(toPage)
    BY <2>1
  <2>4. QED
    BY <2>1, <2>2, <2>3 DEF LogIInv
<1>2. LogIInv /\ UNCHANGED logVars => LogIInv'
  <2> SUFFICES ASSUME LogIInv, UNCHANGED <<produced, entries, page, asked, toPage, received, logs>>
               PROVE  LogIInv'
    BY DEF logVars, pageVars
  <2>1. \A i \in 1 .. Len(toPage) : Counts(i)' <=> Counts(i)
    BY DEF Counts
  <2>2. QED
    BY <2>1 DEF LogIInv
<1>3. LogIInv /\ LogNext => LogIInv'
  <2> SUFFICES ASSUME LogIInv, LogNext PROVE LogIInv'
    OBVIOUS
  <2>1. CASE OpensPage
    <3>1. /\ toPage' = <<>> /\ received' = FALSE /\ asked' \in BOOLEAN
          /\ page' # "mounted" => asked' = FALSE
          /\ UNCHANGED <<produced, entries>> /\ logs' \in Seq(Nat)
      BY <2>1 DEF OpensPage, LogIInv
    <3>2. /\ toPage' \in Seq(Sent) /\ Len(toPage') = 0
          /\ produced' \in Nat /\ entries' \in Seq(Nat) /\ IsRun(entries', produced')
      BY <3>1 DEF LogIInv
    <3>3. ~\E i : i \in 1 .. Len(toPage')
      BY <3>2
    <3>4. QED
      BY <3>1, <3>2, <3>3 DEF LogIInv
  <2>2. CASE MountsStatus
    <3>1. /\ toPage' = <<>> /\ received' = FALSE /\ asked' \in BOOLEAN
          /\ page' # "mounted" => asked' = FALSE
          /\ UNCHANGED <<produced, entries>> /\ logs' \in Seq(Nat)
      BY <2>2 DEF MountsStatus, LogIInv
    <3>2. /\ toPage' \in Seq(Sent) /\ Len(toPage') = 0
          /\ produced' \in Nat /\ entries' \in Seq(Nat) /\ IsRun(entries', produced')
      BY <3>1 DEF LogIInv
    <3>3. ~\E i : i \in 1 .. Len(toPage')
      BY <3>2
    <3>4. QED
      BY <3>1, <3>2, <3>3 DEF LogIInv
  <2>3. CASE ClosesPage
    <3>1. /\ toPage' = <<>> /\ received' = FALSE /\ asked' \in BOOLEAN
          /\ page' # "mounted" => asked' = FALSE
          /\ UNCHANGED <<produced, entries>> /\ logs' \in Seq(Nat)
      <4>1. /\ toPage' = <<>> /\ received' = FALSE /\ asked' = FALSE /\ logs' = <<>>
            /\ UNCHANGED <<produced, entries>>
        BY <2>3 DEF ClosesPage
      <4>2. <<>> \in Seq(Nat)
        OBVIOUS
      <4>3. QED
        BY <4>1, <4>2
    <3>2. /\ toPage' \in Seq(Sent) /\ Len(toPage') = 0
          /\ produced' \in Nat /\ entries' \in Seq(Nat) /\ IsRun(entries', produced')
      BY <3>1 DEF LogIInv
    <3>3. ~\E i : i \in 1 .. Len(toPage')
      BY <3>2
    <3>4. QED
      BY <3>1, <3>2, <3>3 DEF LogIInv
  <2>4. QED
    BY <2>1, <2>2, <2>3, RecordStep, AnswerStep, ReceiveStep DEF LogNext
<1>4. LogIInv => LogHasNoGap
  BY DEF LogIInv, LogHasNoGap
<1>5. QED
  BY <1>1, <1>2, <1>3, <1>4, PTL DEF LogSpec

(***************************************************************************)
(* The screensaver configuration.                                          *)
(***************************************************************************)

MaybeConfigs == SaverConfigs \cup {Unset}

\* What a queue leaves behind, once it has been handled.
LeavesBehind(queue, before) == IF queue = <<>> THEN before ELSE queue[Len(queue)]

\* The phone's configuration ends every queue it goes through: to the core, unless
\* it is still to be published, and to the storage, unless an older one was loaded
\* over it.
SyncIInv ==
    /\ config \in MaybeConfigs /\ stored \in MaybeConfigs
    /\ mirror \in MaybeConfigs /\ shown \in MaybeConfigs
    /\ saves \in Seq(SaverConfigs) /\ toCore \in Seq(SaverConfigs) /\ toPhone \in Seq(SaverConfigs)
    /\ loading \subseteq SaverConfigs
    /\ publishDue \in BOOLEAN /\ overwritten \in BOOLEAN /\ (loading # {} => ~overwritten)
    /\ wire = "open" /\ ~publishDue /\ config # Unset => LeavesBehind(toCore, mirror) = config
    /\ ~overwritten /\ config # Unset => LeavesBehind(saves, Load) = config
    /\ ~overwritten /\ config = Unset => saves = <<>> /\ \A found \in loading : found = Load

\* Unset is no configuration, and a load never finds it.
LEMMA LoadFinds ==
  /\ Unset \notin SaverConfigs /\ DefaultConfig \in SaverConfigs
  /\ stored \in MaybeConfigs => Load \in SaverConfigs
<1>1. Unset \notin SaverConfigs
  <2>1. \A c \in SaverConfigs : c.minutes \in Minutes
    BY DEF SaverConfigs
  <2>2. Unset.minutes \notin Minutes
    BY ScreensaverAssumption DEF Unset
  <2>3. QED
    BY <2>1, <2>2
<1>2. DefaultConfig \in SaverConfigs
  BY ScreensaverAssumption DEF DefaultConfig, SaverConfigs
<1>3. QED
  BY <1>1, <1>2 DEF Load, MaybeConfigs

\* A change of one field makes a configuration of a configuration.
LEMMA EditsAreConfigs ==
  ASSUME NEW base \in SaverConfigs
  PROVE  EditsOf(base) \subseteq SaverConfigs
<1>1. [base EXCEPT !.enabled = ~@] \in SaverConfigs
  BY DEF SaverConfigs
<1>2. \A m \in Minutes : [base EXCEPT !.minutes = m] \in SaverConfigs
  BY DEF SaverConfigs
<1>3. QED
  BY <1>1, <1>2 DEF EditsOf

\* A queue ends with what is put behind it, whether or not its first has been handled.
LEMMA QueueEnds ==
  ASSUME NEW S, NEW queue \in Seq(S)
  PROVE  /\ \A x \in S : \A before : LeavesBehind(Append(queue, x), before) = x
         /\ queue # <<>> =>
               /\ Head(queue) \in S /\ Tail(queue) \in Seq(S)
               /\ \A before : LeavesBehind(Tail(queue), Head(queue)) = LeavesBehind(queue, before)
<1>1. ASSUME NEW x \in S PROVE \A before : LeavesBehind(Append(queue, x), before) = x
  BY AppendProperties DEF LeavesBehind
<1>2. ASSUME queue # <<>>
      PROVE  /\ Head(queue) \in S /\ Tail(queue) \in Seq(S)
             /\ \A before : LeavesBehind(Tail(queue), Head(queue)) = LeavesBehind(queue, before)
  <2>1. /\ Head(queue) \in S /\ Tail(queue) \in Seq(S) /\ Len(Tail(queue)) = Len(queue) - 1
        /\ \A i \in 1 .. Len(Tail(queue)) : Tail(queue)[i] = queue[i + 1]
        /\ Head(queue) = queue[1] /\ Len(queue) \in Nat \ {0}
    BY <1>2, HeadTailProperties, EmptySeq
  <2>2. CASE Len(queue) = 1
    <3>1. Len(Tail(queue)) = 0
      BY <2>1, <2>2
    <3>2. Tail(queue) = <<>>
      BY <2>1, <3>1, EmptySeq
    <3>3. QED
      BY <1>2, <2>1, <2>2, <3>2 DEF LeavesBehind
  <2>3. CASE Len(queue) # 1
    <3>1. /\ Len(Tail(queue)) \in 1 .. Len(Tail(queue)) /\ Len(Tail(queue)) + 1 = Len(queue)
      BY <2>1, <2>3
    <3>2. Tail(queue)[Len(Tail(queue))] = queue[Len(Tail(queue)) + 1]
      BY <2>1, <3>1
    <3>3. Tail(queue) # <<>>
      <4>1. Len(Tail(queue)) # 0
        BY <2>1, <2>3
      <4>2. QED
        BY <4>1, EmptySeq
    <3>4. Tail(queue)[Len(Tail(queue))] = queue[Len(queue)]
      BY <3>1, <3>2
    <3>5. QED
      BY <1>2, <2>1, <3>3, <3>4 DEF LeavesBehind
  <2>4. QED
    BY <2>1, <2>2, <2>3
<1>3. QED
  BY <1>1, <1>2

\* What the phone does, and what is done to it.
LEMMA PhoneSyncStep ==
  ASSUME SyncIInv, \/ LoadAnswered \/ SaveEnds \/ Publishes \/ PhoneReceives \/ PhoneRestarts
                   \/ \E new \in EditsOf(InForce) : PhoneEdits(new)
  PROVE  SyncIInv'
<1>1. CASE LoadAnswered
  <2>1. PICK found \in loading : /\ config' = found /\ publishDue' = TRUE
                                 /\ overwritten' = (config \notin {Unset, found})
    BY <1>1 DEF LoadAnswered, SetsConfig
  <2>2. loading' = {} /\ UNCHANGED <<stored, saves, wire, toCore, toPhone, mirror, shown, edits>>
    BY <1>1 DEF LoadAnswered
  <2>3. found \in SaverConfigs /\ found # Unset /\ Load' = Load
    BY <2>2, LoadFinds DEF SyncIInv, Load
  <2>4. ~overwritten' => LeavesBehind(saves, Load) = found
    <3>1. ~overwritten /\ (config = Unset => saves = <<>> /\ found = Load)
          /\ (config # Unset => LeavesBehind(saves, Load) = config)
      BY <1>1, <2>1 DEF SyncIInv, LoadAnswered
    <3>2. CASE config = Unset
      BY <3>1, <3>2 DEF LeavesBehind
    <3>3. CASE config = found
      BY <2>3, <3>1, <3>3
    <3>4. QED
      BY <2>1, <3>2, <3>3
  <2>5. QED
    BY <2>1, <2>2, <2>3, <2>4 DEF SyncIInv, MaybeConfigs
<1>2. CASE SaveEnds
  <2>1. /\ saves # <<>> /\ saves' = Tail(saves) /\ stored' = Head(saves)
        /\ UNCHANGED <<config, loading, publishDue, wire, toCore, toPhone, mirror, shown, overwritten>>
    BY <1>2 DEF SaveEnds
  <2>2. Head(saves) \in SaverConfigs /\ Tail(saves) \in Seq(SaverConfigs)
    BY <2>1, QueueEnds DEF SyncIInv
  <2>3. Load' = Head(saves)
    BY <2>1, <2>2, LoadFinds DEF Load
  <2>4. LeavesBehind(saves', Load') = LeavesBehind(saves, Load)
    BY <2>1, <2>3, QueueEnds DEF SyncIInv
  <2>5. QED
    BY <2>1, <2>2, <2>4 DEF SyncIInv, MaybeConfigs
<1>3. CASE Publishes
  <2>1. /\ publishDue' = FALSE
        /\ toCore' = IF config # Unset /\ wire = "open" THEN Append(toCore, config) ELSE toCore
        /\ UNCHANGED <<config, stored, loading, saves, wire, toPhone, mirror, shown, overwritten>>
    BY <1>3 DEF Publishes, Send
  <2>2. config # Unset => config \in SaverConfigs
    BY DEF SyncIInv, MaybeConfigs
  <2>3. toCore' \in Seq(SaverConfigs)
    BY <2>1, <2>2, AppendProperties DEF SyncIInv
  <2>4. wire = "open" /\ config # Unset => LeavesBehind(toCore', mirror) = config
    BY <2>1, <2>2, QueueEnds DEF SyncIInv
  <2>5. Load' = Load
    BY <2>1 DEF Load
  <2>6. QED
    BY <2>1, <2>3, <2>4, <2>5 DEF SyncIInv
<1>4. ASSUME NEW new \in SaverConfigs, config' = new, publishDue' = TRUE, saves' = Append(saves, new),
             toPhone' \in Seq(SaverConfigs),
             UNCHANGED <<stored, loading, wire, toCore, mirror, shown, overwritten>>
      PROVE  SyncIInv'
  <2>1. new # Unset /\ Load' = Load
    BY <1>4, LoadFinds DEF Load
  <2>2. saves' \in Seq(SaverConfigs) /\ LeavesBehind(saves', Load) = new
    BY <1>4, AppendProperties, QueueEnds DEF SyncIInv
  <2>3. QED
    BY <1>4, <2>1, <2>2 DEF SyncIInv, MaybeConfigs
<1>5. CASE PhoneReceives
  <2>1. /\ toPhone # <<>> /\ toPhone' = Tail(toPhone)
        /\ config' = Head(toPhone) /\ publishDue' = TRUE /\ saves' = Append(saves, Head(toPhone))
        /\ UNCHANGED <<stored, loading, wire, toCore, mirror, shown, overwritten>>
    BY <1>5 DEF PhoneReceives, AppliesAndSaves, SetsConfig
  <2>2. Head(toPhone) \in SaverConfigs /\ Tail(toPhone) \in Seq(SaverConfigs)
    BY <2>1, QueueEnds DEF SyncIInv
  <2>3. QED
    BY <1>4, <2>1, <2>2
<1>6. CASE \E new \in EditsOf(InForce) : PhoneEdits(new)
  <2>1. PICK new \in EditsOf(InForce) : PhoneEdits(new)
    BY <1>6
  <2>2. InForce \in SaverConfigs
    BY LoadFinds DEF SyncIInv, InForce, MaybeConfigs
  <2>3. new \in SaverConfigs
    BY <2>1, <2>2, EditsAreConfigs
  <2>4. /\ config' = new /\ publishDue' = TRUE /\ saves' = Append(saves, new)
        /\ UNCHANGED <<stored, loading, wire, toCore, toPhone, mirror, shown, overwritten>>
    BY <2>1 DEF PhoneEdits, SetsConfig
  <2>5. toPhone' \in Seq(SaverConfigs)
    BY <2>4 DEF SyncIInv
  <2>6. QED
    BY <1>4, <2>3, <2>4, <2>5
<1>7. CASE PhoneRestarts
  <2>1. /\ config' = Unset /\ publishDue' = FALSE /\ overwritten' = FALSE /\ saves' = <<>>
        /\ loading' = {Load} /\ UNCHANGED <<stored, wire, toCore, toPhone, mirror, shown>>
    BY <1>7 DEF PhoneRestarts
  <2>2. Load \in SaverConfigs /\ Load' = Load /\ <<>> \in Seq(SaverConfigs)
    BY <2>1, LoadFinds, EmptySeq DEF SyncIInv, Load
  <2>3. QED
    BY <2>1, <2>2 DEF SyncIInv, MaybeConfigs
<1>8. QED
  BY <1>1, <1>2, <1>3, <1>5, <1>6, <1>7

\* The socket, and the Mac.
LEMMA MacSyncStep ==
  ASSUME SyncIInv, \/ SyncOpens \/ SyncDies \/ \E coreToo \in BOOLEAN : SyncCloses(coreToo)
                   \/ CoreReceives \/ SnapshotShown
                   \/ shown # Unset /\ \E new \in EditsOf(shown) : MacEdits(new)
  PROVE  SyncIInv'
<1>0. UNCHANGED <<config, stored, loading, saves, overwritten>>
  BY DEF SyncOpens, SyncDies, SyncCloses, CoreReceives, SnapshotShown, MacEdits
<1>1. Load' = Load
  BY <1>0 DEF Load
<1>2. CASE SyncOpens
  <2>1. publishDue' = TRUE /\ UNCHANGED <<toCore, toPhone, mirror, shown>>
    BY <1>2 DEF SyncOpens
  <2>2. QED
    BY <1>0, <1>1, <2>1 DEF SyncIInv
<1>3. CASE SyncDies \/ \E coreToo \in BOOLEAN : SyncCloses(coreToo)
  <2>1. /\ wire' # "open" /\ toCore' = <<>> /\ toPhone' = <<>> /\ mirror' \in {mirror, Unset}
        /\ UNCHANGED <<publishDue, shown>>
    BY <1>3 DEF SyncDies, SyncCloses
  <2>2. <<>> \in Seq(SaverConfigs)
    BY EmptySeq
  <2>3. QED
    BY <1>0, <1>1, <2>1, <2>2 DEF SyncIInv, MaybeConfigs
<1>4. CASE CoreReceives
  <2>1. /\ toCore # <<>> /\ toCore' = Tail(toCore) /\ mirror' = Head(toCore)
        /\ UNCHANGED <<publishDue, wire, toPhone, shown>>
    BY <1>4 DEF CoreReceives
  <2>2. /\ Head(toCore) \in SaverConfigs /\ Tail(toCore) \in Seq(SaverConfigs)
        /\ LeavesBehind(toCore', mirror') = LeavesBehind(toCore, mirror)
    BY <2>1, QueueEnds DEF SyncIInv
  <2>3. QED
    BY <1>0, <1>1, <2>1, <2>2 DEF SyncIInv, MaybeConfigs
<1>5. CASE SnapshotShown
  <2>1. shown' = mirror /\ UNCHANGED <<publishDue, wire, toCore, toPhone, mirror>>
    BY <1>5 DEF SnapshotShown
  <2>2. QED
    BY <1>0, <1>1, <2>1 DEF SyncIInv
<1>6. CASE shown # Unset /\ \E new \in EditsOf(shown) : MacEdits(new)
  <2>1. PICK new \in EditsOf(shown) : MacEdits(new)
    BY <1>6
  <2>2. new \in SaverConfigs
    BY <1>6, EditsAreConfigs DEF SyncIInv, MaybeConfigs
  <2>3. toPhone' = Append(toPhone, new) \/ toPhone' = toPhone
    BY <2>1 DEF MacEdits, SendsScreensaverConfig, Send
  <2>4. toPhone' \in Seq(SaverConfigs)
    <3>1. toPhone \in Seq(SaverConfigs)
      BY DEF SyncIInv
    <3>2. Append(toPhone, new) \in Seq(SaverConfigs)
      BY <2>2, <3>1, AppendProperties
    <3>3. QED
      BY <2>3, <3>1, <3>2
  <2>5. UNCHANGED <<publishDue, wire, toCore, mirror, shown>>
    BY <2>1 DEF MacEdits, SendsScreensaverConfig
  <2>6. QED
    BY <1>0, <1>1, <2>4, <2>5 DEF SyncIInv
<1>7. QED
  BY <1>2, <1>3, <1>4, <1>5, <1>6

\* Every queue ends with the phone's configuration, in every state.
THEOREM SyncIInvHolds == SyncSpec => []SyncIInv
<1>1. SyncInit => SyncIInv
  BY LoadFinds, EmptySeq DEF SyncInit, SyncIInv, MaybeConfigs, LeavesBehind, Load
<1>2. SyncIInv /\ UNCHANGED saverSyncVars => SyncIInv'
  BY DEF SyncIInv, saverSyncVars, Load
<1>3. SyncIInv /\ SyncNext => SyncIInv'
  BY PhoneSyncStep, MacSyncStep DEF SyncNext
<1>4. QED
  BY <1>1, <1>2, <1>3, PTL DEF SyncSpec

\* With nothing under way, the core of a connected Mac holds what the phone enforces,
\* after any number of edits, drops and restarts.
THEOREM MirrorIsThePhonesHolds == SyncSpec => []MirrorIsThePhones
<1>1. SyncIInv => MirrorIsThePhones
  BY DEF SyncIInv, MirrorIsThePhones, LeavesBehind
<1>2. QED
  BY <1>1, SyncIInvHolds, PTL

\* What the phone enforces survives its restart, unless a load came later than an edit.
THEOREM RestartChangesNothingHolds == SyncSpec => []RestartChangesNothing
<1>1. SyncIInv => RestartChangesNothing
  BY DEF SyncIInv, RestartChangesNothing, LeavesBehind
<1>2. QED
  BY <1>1, SyncIInvHolds, PTL

\* At rest the phone, its storage and the core agree, for any number of edits.
THEOREM SyncInvHolds == SyncSpec => []SyncInv
  BY MirrorIsThePhonesHolds, RestartChangesNothingHolds, PTL DEF SyncInv
=============================================================================
