----------------------------- MODULE Playground -----------------------------
(***************************************************************************)
(* The playground page of the web console: sessions whose messages are     *)
(* kept in IndexedDB, chats answered by a stream or a single reply, and    *)
(* videos that are submitted and polled.                                   *)
(*                                                                         *)
(* The page shows the list of one session at a time.  Every callback of a  *)
(* request changes the list that is shown when it runs, and saves the      *)
(* result under the session that was active when the request was sent: a   *)
(* React closure.  Saves run from setTimeout(0), in the order in which     *)
(* they were scheduled; IndexedDB performs reads and writes in order.      *)
(***************************************************************************)
EXTENDS Naturals, Sequences, SequencesExt, FiniteSets

CONSTANTS
    Sessions,    \* session ids that can be generated
    Requests,    \* the requests that can be sent
    MaxTimers,   \* bound on the saves that are scheduled at a time
    MaxBreaks,   \* bound on reloads, deleted sessions and changes of the language
    MaxDisturbed \* bound on the sessions that are disturbed

ASSUME PlaygroundAssumption ==
    /\ Sessions # {}
    /\ MaxTimers \in Nat \ {0}
    /\ MaxBreaks \in Nat
    /\ MaxDisturbed \in Nat

\* COMPLETE and ERROR are one status: nothing tells them apart.
Statuses == {"none", "loading", "incomplete", "polling", "finished"}
Message ==
    [of : Requests, role : {"user", "assistant"}, kind : {"chat", "video"},
     status : Statuses, task : BOOLEAN]
Work == {"stream", "reply", "submit", "poll"}

VARIABLES
    page,      \* "up", or "crashed" behind the ErrorBoundary
    live,      \* the sessions store
    used,      \* session ids generated so far
    stored,    \* the messages store: the list of each session
    active,    \* activeId, in React and in localStorage
    shown,     \* message: the list on the page
    loaded,    \* messagesLoadedRef
    fetch,     \* what the pending loadMessages of the active session has read
    timers,    \* saves scheduled with setTimeout(0)
    net,       \* each request's work and the session its callbacks captured
    home,      \* history: the session that each request was sent from
    sse,       \* sseSourceRef: the stream that Stop closes, if any
    resend,    \* the pending setTimeout(100) of handleMessageReset
    deleting,  \* a deleteSession between its write and its state update
    breaks,    \* reloads, deletions and changes of the language so far
    kept,      \* history: messages stored under a session, not removed by the user
    disturbed, \* history: sessions left or used while work was under way
    abandoned  \* history: requests whose reply was left open by the work that
               \* would have ended it

vars == <<page, live, used, stored, active, shown, loaded, fetch, timers, net, home,
          sse, resend, deleting, breaks, kept, disturbed, abandoned>>
dbVars == <<live, used, stored, kept>>
viewVars == <<page, active, loaded, fetch, deleting, breaks>>

Ids(list) == {<<m.of, m.role>> : m \in ToSet(list)}
Generating(m) == m.status \in {"loading", "incomplete", "polling"}

TypeOK ==
    /\ page \in {"up", "crashed"}
    /\ live \subseteq used /\ used \subseteq Sessions
    /\ stored \in [Sessions -> Seq(Message)]
    /\ active \in Sessions
    /\ shown \in Seq(Message)
    /\ loaded \in BOOLEAN
    /\ fetch \in Seq(Seq(Message)) /\ Len(fetch) <= 1
    /\ timers \in Seq([to : Sessions, list : Seq(Message)]) /\ Len(timers) <= MaxTimers
    /\ net \in [Requests -> [st : {"new", "lost", "over"} \cup Work, to : Sessions]]
    /\ home \in [Requests -> Sessions]
    /\ sse = {} \/ \E r \in Requests : sse = {r}
    /\ resend \in Seq([to : Sessions, kind : {"chat", "video"}]) /\ Len(resend) <= 1
    /\ deleting \in Seq([id : Sessions, wasActive : BOOLEAN]) /\ Len(deleting) <= 1
    /\ breaks \in 0..MaxBreaks
    /\ kept \in [Sessions -> SUBSET (Requests \X {"user", "assistant"})]
    /\ disturbed \subseteq Sessions
    /\ abandoned \subseteq Requests

FirstSession == CHOOSE s \in Sessions : TRUE

\* A request without work; its session does not matter any more.
Ended(st) == [st |-> st, to |-> FirstSession]

\* genSessionId: which id a session gets does not matter.
NewSession == CHOOSE s \in Sessions : s \notin used

Init ==
    LET s == FirstSession IN
        /\ page = "up"
        /\ live = {s} /\ used = {s}
        /\ stored = [x \in Sessions |-> <<>>]
        /\ active = s
        /\ shown = <<>>
        /\ loaded = FALSE
        /\ fetch = << <<>> >>
        /\ timers = <<>>
        /\ net = [r \in Requests |-> Ended("new")]
        /\ home = [r \in Requests |-> s]
        /\ sse = {}
        /\ resend = <<>>
        /\ deleting = <<>>
        /\ breaks = 0
        /\ kept = [x \in Sessions |-> {}]
        /\ disturbed = {}
        /\ abandoned = {}

----------------------------------------------------------------------------
(* Saving. *)

\* setTimeout(() => saveMessagesImmediately(list), 0), from a render or a
\* callback whose activeId is s.
Schedule(s, list) ==
    /\ Len(timers) < MaxTimers
    /\ timers' = Append(timers, [to |-> s, list |-> list])

\* Mutant: saveMessages is called without a session id and asks
\* getActiveSessionId when it runs.
SaveToActive(t) == active

\* The session under which saveMessagesImmediately writes.
SaveTo(t) == t.to

\* saveMessagesImmediately: nothing is written until the active session has
\* been loaded, whichever session the save is for.
RunTimer ==
    /\ timers # <<>>
    /\ timers' = Tail(timers)
    /\ LET t == Head(timers)
           s == SaveTo(t)
       IN IF loaded
          THEN /\ stored' = [stored EXCEPT ![s] = t.list]
               /\ kept' = [kept EXCEPT ![s] = @ \cup (Ids(t.list) \cap Ids(shown))]
          ELSE UNCHANGED <<stored, kept>>
    /\ UNCHANGED <<page, live, used, active, shown, loaded, fetch, net, home, sse, resend,
                   deleting, breaks, disturbed, abandoned>>

----------------------------------------------------------------------------
(* Sessions. *)

\* Work whose callbacks will save under s.
Captured(s) ==
    \/ \E r \in Requests : net[r].st \in {"stream", "submit", "poll"} /\ net[r].to = s
    \/ \E t \in ToSet(timers) : t.to = s
    \/ \E p \in ToSet(resend) : p.to = s

\* The sessions in set are no longer protected.
Disturb(set) ==
    /\ disturbed' = disturbed \cup set
    /\ Cardinality(disturbed') <= MaxDisturbed

\* Mutant: messagesLoadedRef is not reset.
OpenLoaded(s) ==
    IF s = active
    THEN UNCHANGED <<active, loaded, fetch, disturbed>>
    ELSE /\ active' = s
         /\ fetch' = <<stored'[s]>>
         /\ Disturb(IF Captured(active) THEN {active} ELSE {})
         /\ UNCHANGED loaded

\* The effect that loads the messages of session s: the list that is shown stays
\* until the new one has been read.
Enter(s) ==
    /\ active' = s
    /\ loaded' = FALSE
    /\ fetch' = <<stored'[s]>>
    /\ Disturb(IF Captured(active) THEN {active} ELSE {})

\* switchSession.
Open(s) ==
    IF s = active
    THEN UNCHANGED <<active, loaded, fetch, disturbed>>
    ELSE Enter(s)

\* A session that is being deleted is listed until setSessions.  The user does
\* not come back to a disturbed one, of which nothing is claimed: a bound.
SwitchSession(s) ==
    /\ page = "up"
    /\ s \in live \cup ToSet([i \in DOMAIN deleting |-> deleting[i].id])
    /\ s \notin disturbed \cup {active}
    /\ UNCHANGED <<live, used, stored, kept>>
    /\ Open(s)
    /\ UNCHANGED <<page, shown, timers, net, home, sse, resend, deleting, breaks, abandoned>>

\* The language is a dependency of the effect: the active session is read again.
ChangeLanguage ==
    /\ page = "up"
    /\ breaks < MaxBreaks
    /\ breaks' = breaks + 1
    /\ UNCHANGED <<live, used, stored, kept>>
    /\ Enter(active)
    /\ UNCHANGED <<page, shown, timers, net, home, sse, resend, deleting, abandoned>>

CreateSession ==
    /\ page = "up"
    /\ used # Sessions
    /\ live' = live \cup {NewSession}
    /\ used' = used \cup {NewSession}
    /\ UNCHANGED <<stored, kept>>
    /\ Open(NewSession)
    /\ UNCHANGED <<page, shown, timers, net, home, sse, resend, deleting, breaks, abandoned>>

\* deleteSession deletes the session and its messages...
DeleteSession(s) ==
    /\ page = "up"
    /\ s \in live
    /\ deleting = <<>>
    /\ breaks < MaxBreaks
    /\ breaks' = breaks + 1
    /\ live # {s} \/ used # Sessions
    /\ live' = live \ {s}
    /\ stored' = [stored EXCEPT ![s] = <<>>]
    /\ kept' = [kept EXCEPT ![s] = {}]
    /\ deleting' = <<[id |-> s, wasActive |-> s = active]>>
    /\ UNCHANGED <<page, used, active, shown, loaded, fetch, timers, net, home, sse, resend,
                   disturbed, abandoned>>

\* ... and leaves it if it was the active one when the user confirmed: for the
\* most recent session, or a new one if none is left.
FinishDelete ==
    /\ page = "up"
    /\ deleting # <<>>
    /\ deleting' = <<>>
    /\ UNCHANGED <<stored, kept>>
    /\ IF Head(deleting).wasActive
       THEN \E s \in IF live # {} THEN live ELSE {NewSession} :
                /\ live' = live \cup {s}
                /\ used' = used \cup {s}
                /\ Open(s)
       ELSE UNCHANGED <<live, used, active, loaded, fetch, disturbed>>
    /\ UNCHANGED <<page, shown, timers, net, home, sse, resend, breaks, abandoned>>

\* The pollers that the recovery effect starts for list: one for each video
\* with a task that has not finished and is not polled.  A list with such a
\* video appears only by being loaded.
Recovered(list) ==
    [r \in Requests |->
        IF /\ net[r].st \in {"lost", "over"}
           /\ \E m \in ToSet(list) : m.of = r /\ m.task /\ m.status # "finished"
        THEN [st |-> "poll", to |-> active]
        ELSE net[r]]

\* Mutant: the interrupted reply is left as it was.
NotInterrupted(list) == FALSE

\* The last message is a chat reply that was cut off.
Interrupted(list) ==
    /\ list # <<>>
    /\ Last(list).status \in {"loading", "incomplete"}
    /\ Last(list).kind = "chat"

SetLast(list, status) == ReplaceAt(list, Len(list), [Last(list) EXCEPT !.status = status])

\* The messages of the active session arrive; effects finish a chat reply that
\* was cut off and poll the videos that are not done.
Load ==
    /\ page = "up"
    /\ fetch # <<>>
    /\ fetch' = <<>>
    /\ loaded' = TRUE
    /\ LET list == Head(fetch)
       IN /\ IF Interrupted(list)
             THEN /\ shown' = SetLast(list, "finished")
                  /\ Schedule(active, shown')
             ELSE shown' = list /\ UNCHANGED timers
          /\ net' = Recovered(list)
    /\ UNCHANGED <<dbVars, page, active, home, sse, resend, deleting, breaks, disturbed, abandoned>>

\* What a page that is gone was waiting for.
Forgotten == [r \in Requests |-> IF net[r].st \in Work THEN Ended("lost") ELSE net[r]]

\* The sessions with a submission that a page that goes away never hears of,
\* or that it has not saved: the video is left without a task id.
Severed ==
    {net[r].to : r \in {x \in Requests : net[x].st = "submit"}} \cup {t.to : t \in ToSet(timers)}

\* The user reloads the page.
Reload ==
    /\ breaks < MaxBreaks
    /\ breaks' = breaks + 1
    /\ page' = "up"
    /\ \E s \in IF active \in live THEN {active} ELSE IF live # {} THEN live ELSE {NewSession} :
          /\ active' = s
          /\ live' = live \cup {s}
          /\ used' = used \cup {s}
          /\ fetch' = <<stored[s]>>
    /\ loaded' = FALSE
    /\ shown' = <<>>
    /\ timers' = <<>>
    /\ net' = Forgotten
    /\ sse' = {}
    /\ resend' = <<>>
    /\ deleting' = <<>>
    /\ Disturb(Severed)
    /\ UNCHANGED <<stored, kept, home, abandoned>>

----------------------------------------------------------------------------
(* Sending. *)

\* The next request; which one it is does not matter.
Unsent == {r \in Requests : net[r].st = "new"}
NewRequest == CHOOSE r \in Unsent : TRUE

\* isAnyGenerating: the input bar does not send, its button is Stop.
Busy ==
    \/ \E r \in Requests : net[r].st = "submit"
    \/ \E m \in ToSet(shown) : Generating(m)

\* The user acts on the page: before the active session has been loaded, on a
\* list that is not the session's.  In a disturbed session he does not: a bound.
Touch ==
    /\ active \notin disturbed
    /\ Disturb(IF loaded THEN {} ELSE {active})

\* The user's message and the empty reply, in a list saved under s.
Send(s, kind) ==
    LET r == NewRequest
        m == [of |-> r, role |-> "user", kind |-> kind, status |-> "none", task |-> FALSE]
        list == shown \o <<m, [m EXCEPT !.role = "assistant", !.status = "loading"]>>
    IN /\ Unsent # {}
       /\ shown' = list
       /\ Schedule(s, list)
       /\ \E st \in IF kind = "video" THEN {"submit"} ELSE {"stream", "reply"} :
             /\ net' = [net EXCEPT ![r] = [st |-> st, to |-> s]]
             /\ sse' = IF st = "stream" THEN {r} ELSE sse
       /\ home' = [home EXCEPT ![r] = s]

\* handleChatSend and handleGenerateVideo.
UserSends(kind) ==
    /\ page = "up"
    /\ ~Busy
    /\ Send(active, kind)
    /\ Touch
    /\ UNCHANGED <<dbVars, viewVars, resend, abandoned>>

\* The actions of a message are disabled while the list has one that is generated.
Quiet == \A m \in ToSet(shown) : ~Generating(m)

\* handleMessageReset takes the user's message and everything after it off the
\* page and sends the message again after 100 ms, as the chosen model's kind.
ResetMessage(i) ==
    /\ page = "up"
    /\ Quiet
    /\ resend = <<>>
    /\ Unsent # {}
    /\ \E q \in 1..i :
          /\ shown[q].role = "user"
          /\ \A j \in q + 1 .. i : shown[j].role # "user"
          /\ shown' = SubSeq(shown, 1, q - 1)
          /\ kept' = [kept EXCEPT ![active] = @ \ Ids(SubSeq(shown, q, Len(shown)))]
          /\ \E kind \in {"chat", "video"} : resend' = <<[to |-> active, kind |-> kind]>>
    /\ Touch
    /\ UNCHANGED <<live, used, stored, viewVars, timers, net, home, sse, abandoned>>

\* The message is sent again, into whatever is shown and although something
\* may have been sent in the meantime.
Resend ==
    /\ page = "up"
    /\ resend # <<>>
    /\ resend' = <<>>
    /\ Send(Head(resend).to, Head(resend).kind)
    /\ Disturb(IF Busy \/ ~loaded \/ Head(resend).to # active THEN {active} ELSE {})
    /\ UNCHANGED <<dbVars, viewVars, abandoned>>

----------------------------------------------------------------------------
(* Chat replies. *)

\* The chat reply that is being generated at the end of the list, if any.
OpenReply(list) == IF Interrupted(list) THEN {Last(list).of} ELSE {}

\* A throw inside setMessage takes the page down; saves that are scheduled run.
CrashPage ==
    /\ page' = "crashed"
    /\ shown' = <<>>
    /\ fetch' = <<>>
    /\ net' = Forgotten
    /\ resend' = <<>>
    /\ deleting' = <<>>
    /\ Disturb(Severed)
    /\ UNCHANGED <<active, loaded, breaks, timers>>

\* completeMessage of request r, on the last message of whatever is shown: it
\* reads the status of a message that an empty list does not have.
CompleteMessage(r, netAfter) ==
    IF shown = <<>>
    THEN CrashPage
    ELSE /\ IF Last(shown).status = "finished"
            THEN UNCHANGED <<shown, timers>>
            ELSE /\ shown' = SetLast(shown, "finished")
                 /\ Schedule(net[r].to, shown')
         /\ net' = netAfter
         /\ UNCHANGED <<viewVars, resend, disturbed>>

\* streamMessageUpdate, on the last message of whatever is shown.
StreamMessageUpdate(r) ==
    /\ page = "up"
    /\ net[r].st = "stream"
    /\ shown # <<>>
    /\ Last(shown).role = "assistant"
    /\ Last(shown).status = "loading"
    /\ shown' = SetLast(shown, "incomplete")
    /\ UNCHANGED <<dbVars, viewVars, timers, net, home, sse, resend, disturbed, abandoned>>

\* [DONE], which resets sseSourceRef, or an HTTP error, which does not: a source
\* that was closed is nothing that Stop could close.
StreamEnds(r) ==
    /\ page = "up"
    /\ net[r].st = "stream"
    /\ CompleteMessage(r, [net EXCEPT ![r] = Ended("over")])
    /\ sse' \in {{}, sse \ {r}}
    /\ UNCHANGED <<dbVars, home, abandoned>>

\* The server closes a stream that it answered with 200 before [DONE]: no event
\* listener ends the message.
StreamCloses(r) ==
    /\ page = "up"
    /\ net[r].st = "stream"
    /\ net' = [net EXCEPT ![r] = Ended("over")]
    /\ sse' = sse \ {r}
    /\ abandoned' = abandoned \cup OpenReply(shown)
    /\ UNCHANGED <<dbVars, viewVars, shown, timers, home, resend, disturbed>>

\* An event that cannot be parsed ends the message and not the stream.
StreamGarbled(r) ==
    /\ page = "up"
    /\ net[r].st = "stream"
    /\ CompleteMessage(r, net)
    /\ UNCHANGED <<dbVars, home, sse, abandoned>>

\* The error event of the stream: the message is not saved.
StreamBreaks(r) ==
    /\ page = "up"
    /\ net[r].st = "stream"
    /\ shown' = IF shown = <<>> \/ Last(shown).status = "finished"
                THEN shown ELSE SetLast(shown, "finished")
    /\ net' = [net EXCEPT ![r] = Ended("over")]
    /\ sse' = {}
    /\ UNCHANGED <<dbVars, viewVars, timers, home, resend, disturbed, abandoned>>

\* handleNonStreamRequest: its result is not saved either.
Reply(r) ==
    /\ page = "up"
    /\ net[r].st = "reply"
    /\ IF shown # <<>> /\ Last(shown).status = "loading"
       THEN shown' = SetLast(shown, "finished")
       ELSE UNCHANGED shown
    /\ net' = [net EXCEPT ![r] = Ended("over")]
    /\ UNCHANGED <<dbVars, viewVars, timers, home, sse, resend, disturbed, abandoned>>

\* handleNonStreamRequest when a 200 response has no choices, as the answer of
\* an auth middleware that refuses: the message is left as it is.
ReplyEmpty(r) ==
    /\ page = "up"
    /\ net[r].st = "reply"
    /\ net' = [net EXCEPT ![r] = Ended("over")]
    /\ abandoned' = abandoned \cup OpenReply(shown)
    /\ UNCHANGED <<dbVars, viewVars, shown, timers, home, sse, resend, disturbed>>

\* onStopGenerator closes the newest stream and finishes the last message.
Stop ==
    /\ page = "up"
    /\ Busy
    /\ net' = [r \in Requests |-> IF r \in sse THEN Ended("over") ELSE net[r]]
    /\ sse' = {}
    /\ IF shown # <<>> /\ Last(shown).status \in {"loading", "incomplete"}
       THEN shown' = SetLast(shown, "finished") /\ Schedule(active, shown')
       ELSE UNCHANGED <<shown, timers>>
    /\ Touch
    /\ UNCHANGED <<dbVars, viewVars, home, resend, abandoned>>

----------------------------------------------------------------------------
(* Videos. *)

\* Mutant: the status that the server reports is stored as it is.
ServerStatus == "queued"

\* The status that tick reports for a task that runs.
RunningStatus == "polling"

\* The reply of r is changed if it is shown; the list that is shown is saved
\* under the session of r in any case.
UpdateVideo(r, status, task) ==
    LET Update(m) == IF m.of = r /\ m.role = "assistant"
                     THEN [m EXCEPT !.status = status, !.task = task \/ @] ELSE m
        list == [i \in DOMAIN shown |-> Update(shown[i])]
    IN /\ shown' = list
       /\ Schedule(net[r].to, list)
       /\ UNCHANGED <<dbVars, viewVars, home, sse, resend, disturbed, abandoned>>

\* The task has been submitted, and is polled.
Submitted(r) ==
    /\ page = "up"
    /\ net[r].st = "submit"
    /\ UpdateVideo(r, "polling", TRUE)
    /\ net' = [net EXCEPT ![r].st = "poll"]

SubmitFails(r) ==
    /\ page = "up"
    /\ net[r].st = "submit"
    /\ UpdateVideo(r, "finished", FALSE)
    /\ net' = [net EXCEPT ![r] = Ended("over")]

TickPolling(r) ==
    /\ page = "up"
    /\ net[r].st = "poll"
    /\ UpdateVideo(r, RunningStatus, FALSE)
    /\ UNCHANGED net

\* The task has finished or is unknown, or POLL_TIMEOUT_MS is over.
TickEnds(r) ==
    /\ page = "up"
    /\ net[r].st = "poll"
    /\ UpdateVideo(r, "finished", FALSE)
    /\ net' = [net EXCEPT ![r] = Ended("over")]

----------------------------------------------------------------------------
(* Removing messages. *)

UserRemoves(list) ==
    /\ shown' = list
    /\ Schedule(active, list)
    /\ kept' = [kept EXCEPT ![active] = @ \ (Ids(shown) \ Ids(list))]
    /\ Touch
    /\ UNCHANGED <<live, used, stored, viewVars, net, home, sse, resend, abandoned>>

ClearMessages ==
    /\ page = "up"
    /\ shown # <<>>
    /\ UserRemoves(<<>>)

\* handleMessageDelete: a message of the user goes with the reply that follows.
DeleteMessage(i) ==
    /\ page = "up"
    /\ Quiet
    /\ LET pair == /\ shown[i].role = "user"
                   /\ i < Len(shown)
                   /\ shown[i + 1].role = "assistant"
       IN UserRemoves(SubSeq(shown, 1, i - 1)
                 \o SubSeq(shown, i + (IF pair THEN 2 ELSE 1), Len(shown)))

----------------------------------------------------------------------------
Next ==
    \/ \E s \in Sessions : SwitchSession(s) \/ DeleteSession(s)
    \/ CreateSession
    \/ ChangeLanguage
    \/ FinishDelete
    \/ Load
    \/ RunTimer
    \/ Reload
    \/ \E kind \in {"chat", "video"} : UserSends(kind)
    \/ Resend
    \/ \E r \in Requests :
          \/ StreamMessageUpdate(r)
          \/ StreamEnds(r)
          \/ StreamCloses(r)
          \/ StreamGarbled(r)
          \/ StreamBreaks(r)
          \/ Reply(r)
          \/ ReplyEmpty(r)
          \/ Submitted(r)
          \/ SubmitFails(r)
          \/ TickPolling(r)
          \/ TickEnds(r)
    \/ Stop
    \/ ClearMessages
    \/ \E i \in DOMAIN shown : DeleteMessage(i) \/ ResetMessage(i)

Spec == Init /\ [][Next]_vars

----------------------------------------------------------------------------
(* Properties. *)

\* What was saved under a session stays saved under it until the user removes
\* it, if the session was never left with work under way and never used before
\* it was loaded: no other session's work, load or save reaches it (the
\* messagesLoadedRef check and the session id of saveMessagesImmediately).
\* Nothing protects the others: a tick of a video's poller saves whatever
\* session is shown under the video's.
SavedStaysSaved == \A s \in live \ disturbed : kept[s] \subseteq Ids(stored[s])

\* In the same sessions, a message that is shown as being generated has its
\* request at work, or is the last and will be ended by some session's stream or
\* was abandoned; and as the last it is the one that Stop and the next load
\* finish.  An interrupted reply is finished when it is loaded and an interrupted
\* video is polled again, through reloads.
Attended ==
    page = "up" /\ loaded /\ active \notin disturbed =>
        \A i \in DOMAIN shown :
            Generating(shown[i]) =>
                \/ net[shown[i].of].st \in Work
                \/ /\ i = Len(shown)
                   /\ \/ \E r \in Requests : net[r].st = "stream"
                      \/ shown[i].of \in abandoned

\* A session's store holds only messages that were sent from it, and so does
\* the page once the session has been loaded.
OwnMessages ==
    /\ \A s \in live \ disturbed : \A m \in ToSet(stored[s]) : home[m.of] = s
    /\ loaded /\ active \notin disturbed => \A m \in ToSet(shown) : home[m.of] = active
=============================================================================
