----------------------------- MODULE NowPlaying -----------------------------
(***************************************************************************)
(* What the system-stats plugin says is playing                            *)
(* (system-stats/src/index.ts): a poll asks pgrep whether a player runs,   *)
(* then nowplaying-cli what is registered, and is resumed after each.      *)
(* Polls may overlap, and share the title last seen playing.               *)
(***************************************************************************)
EXTENDS Naturals

CONSTANTS
    Titles, NoTitle,
    PausedGrace,    \* PAUSED_GRACE_MS, in ticks
    Reads           \* names for polls under way

ASSUME NowPlayingAssumption == NoTitle \notin Titles /\ PausedGrace \in Nat \ {0}

VARIABLES
    registered, playing, playerRuns,    \* the Mac's: title, rate, process
    step,           \* of each poll, and what it has read
    lastPlayingTitle,
    age,            \* ticks since lastPlayingAt, up to PausedGrace
    card,           \* lastNowPlaying, as published
    kept,           \* history: ticks since the card's song was seen playing, with
                    \* at most paused since; up to PausedGrace
    overlapped,     \* history: another poll was under way in that time
    pgrepFailed     \* history: pgrep could not be asked in that time

playingVars == <<registered, playing, playerRuns, step, lastPlayingTitle, age, card,
                 kept, overlapped, pgrepFailed>>

Info(title, on) == [title |-> title, playing |-> on]
Unavailable == Info(NoTitle, FALSE)
Step(at, read) == [at |-> at, read |-> read]
Idle == Step("none", Unavailable)

PlayingInit ==
    /\ registered = NoTitle /\ playing = FALSE /\ playerRuns = FALSE
    /\ step = [p \in Reads |-> Idle]
    /\ lastPlayingTitle = NoTitle /\ age = PausedGrace /\ card = Unavailable
    /\ kept = PausedGrace /\ overlapped = FALSE /\ pgrepFailed = FALSE

Busy == \E p \in Reads : step[p] # Idle

-----------------------------------------------------------------------------
(* A poll.                                                                 *)

Outside == UNCHANGED <<registered, playing, playerRuns>>

\* The interval, every two seconds, whether or not a poll is under way.
ReadStarts(p) ==
    /\ step[p] = Idle /\ step' = [step EXCEPT ![p].at = "pgrep"]
    /\ overlapped' = (overlapped \/ Busy)
    /\ Outside /\ UNCHANGED <<lastPlayingTitle, age, card, kept, pgrepFailed>>

\* isKnownPlayerRunning.
PgrepEnds(p) ==
    /\ step[p].at = "pgrep"
    /\ IF playerRuns
       THEN step' = [step EXCEPT ![p].at = "cli"] /\ UNCHANGED lastPlayingTitle
       ELSE step' = [step EXCEPT ![p].at = "done"] /\ lastPlayingTitle' = NoTitle
    /\ Outside /\ UNCHANGED <<age, card, kept, overlapped, pgrepFailed>>

\* It cannot be run, or ends with an error: as if no player ran, whether one does.
PgrepFails(p) ==
    /\ step[p].at = "pgrep"
    /\ step' = [step EXCEPT ![p].at = "failed"]
    /\ lastPlayingTitle' = NoTitle /\ pgrepFailed' = TRUE
    /\ Outside /\ UNCHANGED <<age, card, kept, overlapped>>

\* nowplaying-cli has looked; the plugin is resumed later.
CliReads(p) ==
    /\ step[p].at = "cli"
    /\ step' = [step EXCEPT ![p] = Step("read", Info(registered, playing))]
    /\ Outside /\ UNCHANGED <<lastPlayingTitle, age, card, kept, overlapped, pgrepFailed>>

\* It exits with an error, or says nothing that parses.
CliFails(p) ==
    /\ step[p].at = "cli"
    /\ step' = [step EXCEPT ![p].at = "failed"]
    /\ Outside /\ UNCHANGED <<lastPlayingTitle, age, card, kept, overlapped, pgrepFailed>>

\* Mutant: any title on display renews its own grace.
SeenAtAll(read) == read.title # NoTitle

SeenPlaying(read) == read.title # NoTitle /\ read.playing

\* Mutant: the card goes with the pause.
NoGrace(title) == FALSE

WithinPausedGrace(title) == title = lastPlayingTitle' /\ age' < PausedGrace

Reading(p) ==
    LET read == step[p].read
    IN /\ step[p].at = "read"
       /\ IF SeenPlaying(read)
          THEN lastPlayingTitle' = read.title /\ age' = 0
          ELSE /\ lastPlayingTitle' = IF read.title = NoTitle THEN NoTitle ELSE lastPlayingTitle
               /\ UNCHANGED age
       /\ step' = [step EXCEPT ![p] = Step("done",
              IF read.title # NoTitle /\ (read.playing \/ WithinPausedGrace(read.title))
              THEN read ELSE Unavailable)]
       /\ IF read = Info(registered, TRUE) /\ playerRuns
          THEN /\ kept' = 0 /\ pgrepFailed' = FALSE
               /\ overlapped' = \E q \in Reads \ {p} : step[q] # Idle
          ELSE UNCHANGED <<kept, overlapped, pgrepFailed>>
       /\ Outside /\ UNCHANGED card

\* Once the battery has been read too.
Published(p) ==
    /\ step[p].at \in {"done", "failed"}
    /\ card' = step[p].read /\ step' = [step EXCEPT ![p] = Idle]
    /\ Outside /\ UNCHANGED <<lastPlayingTitle, age, kept, overlapped, pgrepFailed>>

-----------------------------------------------------------------------------
(* The Mac.                                                                *)

\* The rate is null or 0 for a song that is paused, and for one that nobody plays.
PlayerBecomes(title, on, runs) ==
    /\ <<title, on, runs>> # <<registered, playing, playerRuns>>
    /\ on => title # NoTitle /\ runs
    /\ registered' = title /\ playing' = on /\ playerRuns' = runs
    /\ kept' = IF title = registered /\ runs THEN kept ELSE PausedGrace
    /\ UNCHANGED <<step, lastPlayingTitle, age, card, overlapped, pgrepFailed>>

PlayingTick ==
    /\ age' = IF age < PausedGrace THEN age + 1 ELSE age
    /\ kept' = IF kept < PausedGrace THEN kept + 1 ELSE kept
    /\ UNCHANGED <<registered, playing, playerRuns, step, lastPlayingTitle, card>>
    /\ UNCHANGED <<overlapped, pgrepFailed>>

ReadProceeds(p) ==
    PgrepEnds(p) \/ PgrepFails(p) \/ CliReads(p) \/ CliFails(p) \/ Reading(p) \/ Published(p)

PlayingNext ==
    \/ \E p \in Reads : ReadStarts(p) \/ ReadProceeds(p)
    \/ \E title \in Titles \cup {NoTitle}, on, runs \in BOOLEAN : PlayerBecomes(title, on, runs)
    \/ PlayingTick

\* The interval runs, child processes end, and time passes.
PlayingFairness ==
    /\ \A p \in Reads : WF_playingVars(ReadStarts(p)) /\ WF_playingVars(ReadProceeds(p))
    /\ WF_playingVars(PlayingTick)

PlayingSpec == PlayingInit /\ [][PlayingNext]_playingVars /\ PlayingFairness

-----------------------------------------------------------------------------

\* A registration that nobody plays is not shown for ever, whatever polls were under
\* way when it died (system-stats/src/index.ts:29-38).
DeadRegistrationFades == <>[](~playing) => <>[](card = Unavailable)

\* A song that is paused keeps its card, and with it the button to resume, for the
\* grace: every poll that can read shows it, also after one that nowplaying-cli failed.
\* Except that polls overlapped, of which the older may clear the title after the newer
\* has set it, or that pgrep failed (system-stats/src/index.ts:29-41, 57-108).
PausedCardStays ==
    \A p \in Reads :
        step[p].at = "done" /\ kept < PausedGrace /\ ~overlapped /\ ~pgrepFailed
            => step[p].read.title = registered
=============================================================================
