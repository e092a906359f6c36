------------------------------ MODULE LogPane ------------------------------
(***************************************************************************)
(* The log lines of the Mac app: LogBuffer and handleCoreMessage in main   *)
(* (apps/mac/src/main/logBuffer.ts, index.ts), useStatus and LogsPane in   *)
(* the window.  A line is its number.  Main's pushes and its answer to     *)
(* getLogs come in order; what is pushed before the page listens is lost.  *)
(***************************************************************************)
EXTENDS Naturals, Sequences

CONSTANTS
    Cap,            \* lines that LogBuffer keeps
    MaxLines        \* bound: lines of the run

ASSUME LogAssumption == Cap \in Nat \ {0} /\ MaxLines \in Nat

VARIABLES
    produced,       \* lines so far
    entries,        \* LogBuffer.entries
    page,           \* "closed", "loading", "mounted": the window's page
    asked,          \* whether getLogs has been asked and not handled
    toPage,         \* messages that main has sent to the page
    received,       \* whether the page has had its answer
    logs            \* useStatus

pageVars == <<page, asked, toPage, received, logs>>
logVars == <<produced, entries, pageVars>>

Line(n) == [kind |-> "log", lines |-> <<n>>]
Answer(lines) == [kind |-> "logs", lines |-> lines]

LogInit ==
    /\ produced = 0 /\ entries = <<>>
    /\ page = "closed" /\ asked = FALSE /\ toPage = <<>>
    /\ received = FALSE /\ logs = <<>>

Push(line) ==
    LET longer == Append(entries, line)
    IN  entries' = IF Len(longer) > Cap THEN Tail(longer) ELSE longer

\* A log message of the core, or a text it wrote to stderr.
RecordLine ==
    /\ produced < MaxLines /\ produced' = produced + 1
    /\ Push(produced')
    /\ toPage' = IF page = "mounted" THEN Append(toPage, Line(produced')) ELSE toPage
    /\ UNCHANGED <<page, asked, received, logs>>

OpensPage == page = "closed" /\ page' = "loading"
             /\ UNCHANGED <<produced, entries, asked, toPage, received, logs>>

\* useStatus asks for the buffer and listens.
MountsStatus ==
    /\ page = "loading" /\ page' = "mounted"
    /\ asked' = TRUE /\ received' = FALSE /\ logs' = <<>>
    /\ UNCHANGED <<produced, entries, toPage>>

ClosesPage ==
    /\ page # "closed" /\ page' = "closed"
    /\ asked' = FALSE /\ toPage' = <<>> /\ received' = FALSE /\ logs' = <<>>
    /\ UNCHANGED <<produced, entries>>

HandleGetLogs ==
    /\ asked /\ asked' = FALSE
    /\ toPage' = Append(toPage, Answer(entries))
    /\ UNCHANGED <<produced, entries, page, received, logs>>

\* Mutant: the answer that is put before the lines already shown.
PrependLogs(message) ==
    logs' = IF message.kind = "logs" THEN message.lines \o logs ELSE logs \o message.lines

SetLogs(message) ==
    logs' = IF message.kind = "logs" THEN message.lines ELSE logs \o message.lines

PageReceives ==
    /\ toPage # <<>> /\ toPage' = Tail(toPage)
    /\ SetLogs(Head(toPage))
    /\ received' = (received \/ Head(toPage).kind = "logs")
    /\ UNCHANGED <<produced, entries, page, asked>>

LogNext ==
    \/ RecordLine \/ OpensPage \/ MountsStatus \/ ClosesPage
    \/ HandleGetLogs \/ PageReceives

LogSpec == LogInit /\ [][LogNext]_logVars

-----------------------------------------------------------------------------

\* The lines from first to last, in order.
IsRun(lines, last) ==
    \A i \in DOMAIN lines : lines[i] = last - Len(lines) + i

\* Once the page has its answer it shows every line from the oldest it was given
\* to the newest it has received, each once, though lines are pushed before,
\* while and after it asks (useStatus.ts:24-34, index.ts:49-57).
LogHasNoGap ==
    LET underway == Len(toPage) IN received => IsRun(logs, produced - underway)
=============================================================================
