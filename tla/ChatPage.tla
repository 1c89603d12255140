------------------------------ MODULE ChatPage ------------------------------
(***************************************************************************)
(* The chat page: useChatData.ts, ChatPage.tsx and the reading of the      *)
(* answers in chat.ts, against the history table behind /api/history.      *)
(* The hook merges the newest page of rows every ten seconds, loads older  *)
(* pages by an offset that counts the rows it has, and shows a demo        *)
(* snapshot until the service has answered once.  Every request is a state *)
(* of its own: sent, counted and then read in a second query while rows    *)
(* may arrive in between, delivered.                                       *)
(* An effect runs with the render of the step that causes it; what a       *)
(* cancelled effect still receives is dropped (active = false).            *)
(***************************************************************************)
EXTENDS Integers, FiniteSets

CONSTANTS MaxId,     \* rows the table gets (a bound)
          Page,      \* PAGE_SIZE
          Blank,     \* rows without text, which readRow drops
          Row,       \* the room and the sender of each row
          Sessions   \* sessions the service may list

ASSUME ThreadAssumption ==
    /\ MaxId \in Nat /\ Page \in Nat \ {0} /\ Blank \subseteq 1..MaxId
    /\ \A id \in 1..MaxId : {"room", "sender"} \subseteq DOMAIN Row[id]

VARIABLES
    n, listed,    \* the service: rows in the table, sessions /api/status lists
    mode, rows, total, sessions, selected,  \* the hook's state; rows maps ids to their origin
    loadedOnce, refreshing,
    chain,        \* the effect: its cycle, waiting for the timer or for two answers
    more,         \* the request of loadMore
    asof,         \* history: the table's size when the answer shown last was read
    burst         \* history: over a page of rows between two merged answers, whichever is older

table == <<n, listed>>
hook == <<mode, rows, total, sessions, selected, loadedOnce, refreshing>>
threadVars == <<table, hook, chain, more, asof, burst>>

None == [room |-> "", display |-> ""]
DemoSession == [room |-> "", display |-> "demo"]
DemoRows == [id \in 1..2 |-> "demo"]
NoRows == [id \in {} |-> "server"]

\* A request and its answer: the offset asked for, the rows, their count (total)
\* and the table's size when they were read (top), which no answer carries.
AskedPage == [st |-> "sent", listed |-> {}, offset |-> 0, ids |-> {}, total |-> 0, top |-> 0]
NotAskedPage == [AskedPage EXCEPT !.st = "none"]
FailedPage == [AskedPage EXCEPT !.st = "failed"]
EmptyPage == [AskedPage EXCEPT !.st = "empty"]
Cycle(kind, history) == [kind |-> kind, status |-> AskedPage, history |-> history]
Timer == [kind |-> "timer", status |-> NotAskedPage, history |-> NotAskedPage]

\* The two queries of QueryMessages: the count, then one page, newest first, less
\* the rows without text; the page says no total below its rows.
Pending == {"sent", "counted"}
HistoryPage(request) ==
    LET ids == {id \in 1..n : n - request.offset - Page < id /\ id <= n - request.offset} \ Blank IN
    [request EXCEPT !.st = "ok", !.top = n, !.ids = ids,
                    !.total = IF @ < Cardinality(ids) THEN Cardinality(ids) ELSE @]
Query(request) == IF request.st = "sent" THEN [request EXCEPT !.st = "counted", !.total = n]
                  ELSE HistoryPage(request)
\* An error of the first leaves the count at 0; one of the second answers 200,
\* with no rows and the count 0.
QueryError(request) == IF request.st = "sent" THEN [request EXCEPT !.st = "counted"] ELSE EmptyPage
Arrived(answer) == answer.st \in {"ok", "empty"}

\* mergeRows: by id, what came last wins.
MergeRows(current, ids) == [id \in ids \cup DOMAIN current |-> IF id \in ids THEN "server" ELSE current[id]]
Top == IF DOMAIN rows = {} THEN 0 ELSE CHOOSE id \in DOMAIN rows : \A other \in DOMAIN rows : other <= id

Replace(answer) == /\ rows' = MergeRows(NoRows, answer.ids) /\ total' = answer.total
                   /\ asof' = answer.top /\ burst' = FALSE
Merge(answer) ==
    /\ rows' = MergeRows(rows, answer.ids) /\ total' = answer.total
    /\ IF answer.st = "ok"
       THEN /\ asof' = answer.top
            /\ burst' = (burst \/ (Top > 0 /\ (answer.top - Top > Page \/ asof - answer.top > Page)))
       ELSE UNCHANGED <<asof, burst>>

SessionMatchesRow(s, row) == IF s.room # "" THEN row.room = s.room ELSE row.sender = s.display
ThreadRows == {id \in DOMAIN rows : SessionMatchesRow(selected, Row[id])}

\* setSessions, and the effect that closes a thread whose session is gone.
ShowSessions(list) == /\ sessions' = list
                      /\ selected' = IF selected \in list THEN selected ELSE None

ThreadInit == /\ n \in 0..MaxId /\ listed = Sessions
              /\ mode = "connecting" /\ rows = NoRows /\ total = 0 /\ sessions = {} /\ selected = None
              /\ loadedOnce = FALSE /\ refreshing = FALSE
              /\ chain = Cycle("snapshot", AskedPage) /\ more = NotAskedPage /\ asof = 0 /\ burst = FALSE

----------------------------------------------------------------------------
(* The service. *)

RowSaved == n < MaxId /\ n' = n + 1 /\ UNCHANGED <<listed, hook, chain, more, asof, burst>>
SessionsChange == \E s \in SUBSET Sessions : listed' = s /\ UNCHANGED <<n, hook, chain, more, asof, burst>>

ListServed == /\ chain.status.st = "sent"
              /\ chain' = [chain EXCEPT !.status.st = "ok", !.status.listed = listed]
              /\ UNCHANGED <<table, hook, more, asof, burst>>
HistoryServed == /\ chain.history.st \in Pending
                 /\ chain' = [chain EXCEPT !.history = Query(chain.history)]
                 /\ UNCHANGED <<table, hook, more, asof, burst>>

\* An error, a refused session, or the abort after four seconds.
ListFails == /\ chain.status.st = "sent" /\ chain' = [chain EXCEPT !.status.st = "failed"]
             /\ UNCHANGED <<table, hook, more, asof, burst>>
HistoryFails == /\ chain.history.st \in Pending /\ chain' = [chain EXCEPT !.history = FailedPage]
                /\ UNCHANGED <<table, hook, more, asof, burst>>

\* The database fails under the request.
HistoryBreaks == /\ chain.history.st \in Pending
                 /\ chain' = [chain EXCEPT !.history = QueryError(chain.history)]
                 /\ UNCHANGED <<table, hook, more, asof, burst>>
MoreBreaks == /\ more.st \in Pending /\ more' = QueryError(more)
              /\ UNCHANGED <<table, hook, chain, asof, burst>>

----------------------------------------------------------------------------
(* The cycle of the effect. *)

BothAnswered == chain.kind # "timer" /\ {chain.status.st, chain.history.st} \cap Pending = {}
\* Variant: only the first load replaces what is shown.
ReplacesFirst == ~loadedOnce
Replaces == ~loadedOnce \/ mode = "demo"
\* Variant: the spin ends with a good answer only.
SpinEndsWell == refreshing' = (refreshing /\ chain.status.st = "failed")
SpinEnds == refreshing' = FALSE

\* loadSnapshot after its two awaits.
SnapshotEnds ==
    /\ chain.kind = "snapshot" /\ BothAnswered
    /\ IF chain.status.st = "failed"
       THEN IF ~loadedOnce \/ mode = "demo"
            THEN /\ mode' = "demo" /\ ShowSessions({DemoSession})
                 /\ rows' = DemoRows /\ total' = Cardinality(DOMAIN DemoRows) /\ asof' = 0 /\ burst' = FALSE
            ELSE UNCHANGED <<mode, sessions, selected, rows, total, asof, burst>>
       ELSE /\ mode' = "live" /\ ShowSessions(chain.status.listed)
            /\ CASE Arrived(chain.history) /\ Replaces  -> Replace(chain.history)
                 [] Arrived(chain.history) /\ ~Replaces -> Merge(chain.history)
                 [] ~Arrived(chain.history) -> IF mode = "demo" THEN Replace(NotAskedPage)
                                               ELSE UNCHANGED <<rows, total, asof, burst>>
    /\ loadedOnce' = TRUE /\ SpinEnds /\ chain' = Timer
    /\ UNCHANGED <<table, more>>

CycleStarts ==
    /\ chain.kind = "timer"
    /\ chain' = Cycle("poll", IF selected # None \/ mode = "demo" \/ DOMAIN rows = {}
                             THEN AskedPage ELSE NotAskedPage)
    /\ UNCHANGED <<table, hook, more, asof, burst>>

\* poll after its awaits: a failed status leaves everything as it is.
PollEnds ==
    /\ chain.kind = "poll" /\ BothAnswered
    /\ IF chain.status.st = "failed" THEN UNCHANGED <<mode, sessions, selected, rows, total, asof, burst>>
       ELSE /\ mode' = (IF mode = "demo" THEN "live" ELSE mode) /\ ShowSessions(chain.status.listed)
            /\ CASE Replaces  -> Replace(IF Arrived(chain.history) THEN chain.history ELSE NotAskedPage)
                 [] ~Replaces -> IF Arrived(chain.history) THEN Merge(chain.history)
                                 ELSE UNCHANGED <<rows, total, asof, burst>>
    /\ chain' = Timer
    /\ UNCHANGED <<table, loadedOnce, refreshing, more>>

----------------------------------------------------------------------------
(* The user. *)

SelectSession == \E s \in sessions : /\ s # selected /\ selected' = s
                                     /\ UNCHANGED <<table, mode, rows, total, sessions, loadedOnce, refreshing>>
                                     /\ UNCHANGED <<chain, more, asof, burst>>

\* The button is in the head of an open thread; the effect starts over.
Refresh == /\ selected # None /\ ~refreshing /\ refreshing' = TRUE
           /\ chain' = Cycle("snapshot", AskedPage)
           /\ UNCHANGED <<table, mode, rows, total, sessions, selected, loadedOnce, more, asof, burst>>

\* Variant: the first page over and over.
OffsetZero == 0
Offset == Cardinality(DOMAIN rows)

\* The button is below an open thread while total > rows.length.
LoadMore == /\ selected # None /\ more.st = "none" /\ Cardinality(DOMAIN rows) < total
            /\ more' = [AskedPage EXCEPT !.offset = Offset]
            /\ UNCHANGED <<table, hook, chain, asof, burst>>
MoreServed == /\ more.st \in Pending /\ more' = Query(more)
              /\ UNCHANGED <<table, hook, chain, asof, burst>>
MoreEnds == /\ Arrived(more) /\ more' = NotAskedPage /\ Merge(more)
            /\ UNCHANGED <<table, mode, sessions, selected, loadedOnce, refreshing, chain>>
MoreFails == /\ more.st \in Pending /\ more' = NotAskedPage
             /\ UNCHANGED <<table, hook, chain, asof, burst>>

\* Another page and back: a new instance of the hook; late answers reach the old one.
Reopen == /\ mode' = "connecting" /\ Replace(NotAskedPage) /\ ShowSessions({})
          /\ loadedOnce' = FALSE /\ refreshing' = FALSE
          /\ chain' = Cycle("snapshot", AskedPage) /\ more' = NotAskedPage
          /\ UNCHANGED table

Requests == \/ ListServed \/ HistoryServed \/ ListFails \/ HistoryFails \/ HistoryBreaks
            \/ SnapshotEnds \/ CycleStarts \/ PollEnds
Loading == MoreServed \/ MoreBreaks \/ MoreEnds \/ MoreFails
ThreadNext == RowSaved \/ SessionsChange \/ Requests \/ SelectSession \/ Refresh \/ LoadMore \/ Loading \/ Reopen

ThreadSpec == ThreadInit /\ [][ThreadNext]_threadVars
\* Requests are answered, fail or are aborted by their timer; the poll timer fires.
FairThreadSpec == ThreadSpec /\ WF_threadVars(Requests) /\ WF_threadVars(Loading)

Answers == <>[][~(ListFails \/ HistoryFails \/ HistoryBreaks \/ MoreFails \/ MoreBreaks \/ Reopen)]_threadVars

----------------------------------------------------------------------------
\* Made-up messages and real ones are never mixed: a live page shows rows of the
\* table only (the demo snapshot uses the same ids and would pass for them),
\* and the demo page shows the snapshot only, whatever answers arrive late.
NeverMixed ==
    /\ mode = "live" => \A id \in DOMAIN rows : rows[id] = "server" /\ id \in 1..n
    /\ mode = "demo" => rows = DemoRows
    /\ selected # None => selected \in sessions

\* The open thread shows every message of its session between the oldest and the
\* newest row the page has, although polls, refreshes and older pages are merged
\* in any order while rows arrive, as long as no more than one page of them
\* arrived between two merged answers.
ThreadHasNoHole ==
    mode = "live" /\ selected # None /\ ~burst /\ DOMAIN rows # {} =>
        \A id \in 1..Top \ Blank :
            SessionMatchesRow(selected, Row[id]) /\ (\E older \in DOMAIN rows : older < id) => id \in ThreadRows

\* What the page shows is the table's, all of it.
PageIsTrue == NeverMixed /\ ThreadHasNoHole

\* Neither the refresh nor the load-more button stays busy for ever, and a page
\* that shows the demo snapshot turns live once the service answers.
BusyEnds ==
    /\ refreshing ~> ~refreshing
    /\ more.st # "none" ~> more.st = "none"
    /\ Answers => <>(mode = "live")

\* Every message can be reached: a reader who keeps a thread open and keeps
\* asking for more has the whole table in the end, also when rows arrive,
\* refreshes interfere, or a late answer brings an older count, as long as fewer
\* rows than a page are blank: the offset does not count them, and with a page of
\* them above the rows not yet read the same page is asked for again and again.
WholeHistoryReached ==
    Cardinality(Blank) < Page /\ SF_threadVars(LoadMore) /\ Answers /\ <>[](selected \in Sessions)
        => <>(burst \/ DOMAIN rows = 1..n \ Blank)
=============================================================================
