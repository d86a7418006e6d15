---------------------------- MODULE DashboardHooks ----------------------------
(***************************************************************************)
(* The two hooks through which every page of the dashboard gets its data:  *)
(* usePolling with the request function under it, and useWebSocket.  One   *)
(* page in one tab: the tab is hidden and shown, the page is left, answers *)
(* come, fail or never come, connections break.  A callback of the browser *)
(* runs to its end before the next one; what follows an await in the same  *)
(* task is part of the action.                                             *)
(*                                                                         *)
(* Sockets and timers are told apart by what the hook can still reach: the *)
(* one in wsRef and the one in retryTimerRef; of the others only the       *)
(* number matters.  The delays of the retries are left out.                *)
(***************************************************************************)
EXTENDS Integers, Sequences

CONSTANTS
    Questions,     \* what the page may ask for: a task id, a choice of filters
    MaxFetches,    \* bound: requests in a behaviour
    MaxToggles,    \* bound: changes of visibility
    MaxDrops       \* bound: connections broken or refused by the network

ASSUME DashboardAssumption == Questions # {} /\ MaxFetches \in Nat /\ MaxToggles \in Nat /\ MaxDrops \in Nat

VARIABLES
    mounted,       \* the page is on the screen
    visible,       \* document.visibilityState
    question,      \* what the fetcher of the latest render asks for
    fetches,       \* requests 1 .. n: [question, state, aborted]
    ticking,       \* intervalRef.current is set
    shownData,     \* data: the request it came from, 0 for null
    shownError,    \* error: the request it came from, 0 for null
    pollLoading,   \* loading
    askedSince,    \* history: the last request started before the question changed
    wsRef,         \* the socket in wsRef.current: "null", "connecting", "open"
    loose,         \* sockets the hook has no reference to, by state
    retryTimer,    \* retryTimerRef.current: "null", "pending", "fired"
    looseTimers,   \* pending timers the hook has no reference to
    isConnected,
    toggles, drops

pollVars == <<question, fetches, ticking, shownData, shownError, pollLoading, askedSince>>
socketVars == <<wsRef, loose, retryTimer, looseTimers, isConnected>>
tabVars == <<mounted, visible, toggles, drops>>
dashboardVars == <<pollVars, socketVars, tabVars>>

-----------------------------------------------------------------------------
(* usePolling *)

Newest == Len(fetches)

\* The controller in controllerRef is aborted.  A request without an answer rejects with an
\* AbortError and is over; one whose error body is being read is not stopped by it.
Aborted(list) ==
    [i \in DOMAIN list |->
        IF i = Len(list) THEN [list[i] EXCEPT !.aborted = TRUE,
                                              !.state = IF @ = "sent" THEN "over" ELSE @]
        ELSE list[i]]

\* Fault: the fetcher of the first render is kept.
FetcherOfMount == IF fetches = <<>> THEN question ELSE fetches[1].question
FetcherRef == question

\* doFetch up to the await.
DoFetch == fetches' = Append(Aborted(fetches), [question |-> FetcherRef, state |-> "sent", aborted |-> FALSE])

\* The interval fires.
PollTick ==
    /\ ticking /\ Newest < MaxFetches
    /\ DoFetch
    /\ UNCHANGED <<question, ticking, shownData, shownError, pollLoading, askedSince, socketVars, tabVars>>

\* request: an answer with a status that is not ok; its body is read for the detail.
ErrorStatus(i) ==
    /\ fetches[i].state = "sent"
    /\ fetches' = [fetches EXCEPT ![i].state = "body"]
    /\ UNCHANGED <<question, ticking, shownData, shownError, pollLoading, askedSince, socketVars, tabVars>>

\* An ok answer and its body: setData, setError(null), setLoading(false).
Resolves(i) ==
    /\ fetches[i].state = "sent"
    /\ fetches' = [fetches EXCEPT ![i].state = "over"]
    /\ shownData' = i
    /\ shownError' = 0
    /\ pollLoading' = FALSE
    /\ UNCHANGED <<question, ticking, askedSince, socketVars, tabVars>>

\* Fault: the catch branch does not look at the signal.
ShowErrorAlways(i) ==
    /\ shownError' = i
    /\ pollLoading' = FALSE
ShowError(i) ==
    IF fetches[i].aborted THEN UNCHANGED <<shownError, pollLoading>>
    ELSE /\ shownError' = i
         /\ pollLoading' = FALSE

\* The network fails, fifteen seconds pass, or the body of an error has been read.
Rejects(i) ==
    /\ fetches[i].state \in {"sent", "body"}
    /\ fetches' = [fetches EXCEPT ![i].state = "over"]
    /\ ShowError(i)
    /\ UNCHANGED <<question, ticking, shownData, askedSince, socketVars, tabVars>>

\* The page is rendered with another id or filter; nothing is fetched for it.
AskAnother(q) ==
    /\ mounted /\ q # question
    /\ question' = q
    /\ askedSince' = Newest
    /\ UNCHANGED <<fetches, ticking, shownData, shownError, pollLoading, socketVars, tabVars>>

-----------------------------------------------------------------------------
(* useWebSocket *)

\* clearRetryTimer.
ClearRetryTimer == retryTimer' = "null" /\ UNCHANGED looseTimers

\* Fault: no second timer is set while the reference is there.
ScheduleOnce ==
    /\ retryTimer' = IF retryTimer = "null" THEN "pending" ELSE retryTimer
    /\ UNCHANGED looseTimers
\* setTimeout(connect, delay): the reference to an earlier timer is overwritten.
ScheduleRetry ==
    /\ looseTimers' = looseTimers + (IF retryTimer = "pending" THEN 1 ELSE 0)
    /\ retryTimer' = "pending"

\* close() on the socket in wsRef: its close event is still to come.
Closed(sockets) == IF wsRef = "null" THEN sockets ELSE [sockets EXCEPT !.closing = @ + 1]

\* connect: a new socket takes the place of the one there was.
OpenSocket ==
    /\ loose' = Closed(loose)
    /\ wsRef' = "connecting"

\* The constructor raises; called by a timer, since elsewhere this is a connection refused at once.
ConnectThrows ==
    /\ loose' = Closed(loose)
    /\ wsRef' = "null"
    /\ drops < MaxDrops /\ drops' = drops + 1

\* Fault: the badge is left as it is when a socket closes.
OnCloseQuiet(others) ==
    /\ loose' = IF wsRef = "null" THEN others ELSE [others EXCEPT ![wsRef] = @ + 1]
    /\ wsRef' = "null"
    /\ IF visible THEN ScheduleRetry ELSE UNCHANGED <<retryTimer, looseTimers>>
    /\ UNCHANGED isConnected
\* Fault: the close event of a socket that was replaced only switches the badge off.
OnCloseHalf(others) ==
    /\ isConnected' = FALSE
    /\ loose' = others
    /\ UNCHANGED wsRef
    /\ IF visible /\ wsRef = "null" THEN ScheduleRetry ELSE UNCHANGED <<retryTimer, looseTimers>>
\* onclose, of whichever socket: it clears wsRef, and the socket that is there by now is loose.
OnClose(others) ==
    /\ isConnected' = FALSE
    /\ loose' = IF wsRef = "null" THEN others ELSE [others EXCEPT ![wsRef] = @ + 1]
    /\ wsRef' = "null"
    /\ IF visible THEN ScheduleRetry ELSE UNCHANGED <<retryTimer, looseTimers>>

\* onopen.
SocketOpens ==
    /\ \/ /\ wsRef = "connecting"
          /\ wsRef' = "open"
          /\ UNCHANGED loose
       \/ /\ loose.connecting > 0
          /\ loose' = [loose EXCEPT !.connecting = @ - 1, !.open = @ + 1]
          /\ UNCHANGED wsRef
    /\ isConnected' = TRUE
    /\ UNCHANGED <<retryTimer, looseTimers, pollVars, tabVars>>

\* The close event of a socket close() was called on.
SocketCloses ==
    /\ loose.closing > 0
    /\ OnClose([loose EXCEPT !.closing = @ - 1])
    /\ UNCHANGED <<pollVars, tabVars>>

\* The server or the network ends a connection, or refuses one: onerror and onclose.
SocketDrops ==
    /\ drops < MaxDrops /\ drops' = drops + 1
    /\ \/ /\ wsRef # "null"
          /\ isConnected' = FALSE
          /\ wsRef' = "null"
          /\ IF visible THEN ScheduleRetry ELSE UNCHANGED <<retryTimer, looseTimers>>
          /\ UNCHANGED loose
       \/ \E s \in {"connecting", "open"} : loose[s] > 0 /\ OnClose([loose EXCEPT ![s] = @ - 1])
    /\ UNCHANGED <<pollVars, mounted, visible, toggles>>

\* A timer calls connect, whatever has become of the tab and the page.
RetryTimerFires ==
    /\ \/ retryTimer = "pending" /\ \/ OpenSocket /\ retryTimer' = "fired" /\ UNCHANGED <<looseTimers, drops>>
                                    \/ ConnectThrows /\ retryTimer' = "pending" /\ UNCHANGED looseTimers
       \/ looseTimers > 0 /\ \/ OpenSocket /\ looseTimers' = looseTimers - 1 /\ UNCHANGED <<retryTimer, drops>>
                             \/ /\ ConnectThrows
                                /\ retryTimer' = "pending"
                                /\ looseTimers' = IF retryTimer = "pending" THEN looseTimers ELSE looseTimers - 1
    /\ UNCHANGED <<isConnected, pollVars, mounted, visible, toggles>>

-----------------------------------------------------------------------------
(* The tab and the page *)

\* visibilitychange to hidden: both handlers.
HideTab ==
    /\ visible /\ toggles < MaxToggles
    /\ visible' = FALSE /\ toggles' = toggles + 1
    /\ IF mounted
       THEN /\ ticking' = FALSE
            /\ ClearRetryTimer
            /\ loose' = Closed(loose)
            /\ wsRef' = "null"
            /\ isConnected' = FALSE
       ELSE UNCHANGED <<ticking, socketVars>>
    /\ UNCHANGED <<question, fetches, shownData, shownError, pollLoading, askedSince, mounted, drops>>

\* visibilitychange to visible: fetch, start the interval, connect unless a socket is open.
ShowTab ==
    /\ ~visible /\ toggles < MaxToggles
    /\ Newest < MaxFetches
    /\ visible' = TRUE /\ toggles' = toggles + 1
    /\ IF mounted
       THEN /\ DoFetch
            /\ ticking' = TRUE
            /\ IF wsRef = "open" THEN UNCHANGED <<wsRef, loose>> ELSE OpenSocket
       ELSE UNCHANGED <<fetches, ticking, wsRef, loose>>
    /\ UNCHANGED <<retryTimer, looseTimers, isConnected, question, shownData, shownError, pollLoading,
                   askedSince, mounted, drops>>

\* The clean-up functions of both effects.
LeavePage ==
    /\ mounted
    /\ mounted' = FALSE
    /\ fetches' = Aborted(fetches)
    /\ ticking' = FALSE
    /\ ClearRetryTimer
    /\ loose' = Closed(loose)
    /\ wsRef' = "null"
    /\ UNCHANGED <<isConnected, question, shownData, shownError, pollLoading, askedSince, visible, toggles, drops>>

\* The effects have run: a first request is sent; the rest only in a visible tab.
DashboardInit ==
    /\ mounted = TRUE /\ visible \in BOOLEAN
    /\ question = CHOOSE q \in Questions : TRUE
    /\ fetches = <<[question |-> question, state |-> "sent", aborted |-> FALSE]>>
    /\ ticking = visible
    /\ shownData = 0 /\ shownError = 0 /\ pollLoading = TRUE
    /\ askedSince = 0
    /\ wsRef = IF visible THEN "connecting" ELSE "null"
    /\ loose = [connecting |-> 0, open |-> 0, closing |-> 0]
    /\ retryTimer = "null" /\ looseTimers = 0
    /\ isConnected = FALSE
    /\ toggles = 0 /\ drops = 0

SocketStep == SocketOpens \/ SocketCloses \/ RetryTimerFires

TabNext == HideTab \/ ShowTab \/ LeavePage

PollNext ==
    \/ PollTick
    \/ \E i \in DOMAIN fetches : ErrorStatus(i) \/ Resolves(i) \/ Rejects(i)
    \/ \E q \in Questions : AskAnother(q)
    \/ TabNext

LiveNext == SocketStep \/ SocketDrops \/ TabNext

DashboardSpec == DashboardInit /\ [][PollNext \/ LiveNext]_dashboardVars

-----------------------------------------------------------------------------
\* What a page shows comes from its newest request, and a page that was left shows nothing
\* new: no answer and no error of a request that was given up replaces a later one.
DisplayStep ==
    \A i \in 0 .. MaxFetches :
       (shownData' = i /\ shownData # i) \/ (shownError' = i /\ shownError # i /\ i # 0) =>
           i = Newest /\ mounted
OnlyTheNewestIsShown == [][DisplayStep]_dashboardVars

\* Once a request that was started after the page turned to another task or filter has been
\* answered, the page shows what it asks for now.
DataAnswersTheQuestion == shownData > askedSince => fetches[shownData].question = question

\* A visible page always has a socket it can reach or a timer that will make one, however
\* late the close events of earlier sockets come.
SocketIsNeverGivenUp ==
    mounted /\ visible => wsRef # "null" \/ retryTimer = "pending" \/ looseTimers > 0

\* The page calls itself connected only while some socket has not told of its end.
BadgeIsEarned == isConnected => wsRef = "open" \/ loose.open + loose.closing > 0

\* Once tab and network are at rest a visible page is connected and says so: the late close
\* event of an old socket does not switch the badge off for good.
BadgeReturns == <>[](mounted /\ visible => isConnected)

\* A page shows data for what it asks, keeps a way to its socket while it can be seen, and calls
\* itself connected only with a socket that has not ended.
PageIsUpToDate ==
    /\ DataAnswersTheQuestion
    /\ SocketIsNeverGivenUp
    /\ BadgeIsEarned
=============================================================================
