----------------------- MODULE PlaygroundAttendProofs -----------------------
(***************************************************************************)
(* The last theorem about the playground: a message that is shown as being *)
(* generated has someone who will end it or was abandoned as the last one, *)
(* for any number of sessions, requests, scheduled saves, reloads and      *)
(* deletions.                                                              *)
(*                                                                         *)
(* Attended says what the page shows.  What it shows comes from the store, *)
(* and what is in the store comes from the page, so the invariant follows  *)
(* a list on this way: whatever will be the stored list of a session once  *)
(* its saves have run can be attended to when it is loaded.                *)
(***************************************************************************)
EXTENDS PlaygroundProofs

\* The work of a request whose task was accepted at some time.
Done == {"poll", "lost", "over"}

\* A message of the user is not generated.
UserQuiet(list) ==
    \A i \in 1..Len(list) : list[i].role = "user" => ~Generating(list[i])

\* A message with a task belongs to a request that has been submitted.
TaskNet(list) ==
    \A i \in 1..Len(list) : list[i].task => net[list[i].of].st \in Done

TaskIn(r, list) == \E i \in 1..Len(list) : list[i].of = r /\ list[i].task

\* The task of r is known: it is polled or will be, when a list is loaded.
HasTask(r) ==
    \/ net[r].st = "poll"
    \/ \E s \in Sessions : TaskIn(r, stored[s])
    \/ \E i \in 1..Len(timers) : TaskIn(r, timers[i].list)
    \/ fetch # <<>> /\ TaskIn(r, fetch[1])
    \/ TaskIn(r, shown)

\* The list knows every task that is known.
Tasked(list) ==
    \A i \in 1..Len(list) :
        list[i].role = "assistant" /\ HasTask(list[i].of) => list[i].task

\* When the list is loaded, what is generated in it is ended, polled, or still
\* being submitted.
Loadable(list) ==
    \A i \in 1..Len(list) :
        Generating(list[i]) =>
            \/ i = Len(list) /\ list[i].kind = "chat" /\ list[i].status # "polling"
            \/ list[i].task
            \/ net[list[i].of].st = "submit"

Streaming == \E r \in Requests : net[r].st = "stream"

\* Who attends to a message that is shown: the submission or the poller of a
\* video; for a chat reply, which is then the last message, the request or the
\* stream that writes into it, unless the work on it has ended and left it to Stop.
Cared(i) ==
    \/ net[shown[i].of].st \in {"submit", "poll"}
    \/ /\ i = Len(shown) /\ shown[i].kind = "chat"
       /\ \/ shown[i].status = "loading" /\ net[shown[i].of].st = "reply"
          \/ /\ shown[i].status \in {"loading", "incomplete"}
             /\ Streaming \/ shown[i].of \in abandoned

AllInv ==
    /\ \A s \in Sessions : UserQuiet(stored[s]) /\ TaskNet(stored[s])
    /\ \A i \in 1..Len(timers) : UserQuiet(timers[i].list) /\ TaskNet(timers[i].list)
    /\ fetch # <<>> => UserQuiet(fetch[1]) /\ TaskNet(fetch[1])
    /\ UserQuiet(shown) /\ TaskNet(shown)

\* No save is scheduled after the i-th for the same session.
LastSave(i) == \A j \in 1..Len(timers) : i < j => timers[j].to # timers[i].to

FinalInv ==
    /\ \A s \in Sessions \ disturbed :
          (\A i \in 1..Len(timers) : timers[i].to # s) => Loadable(stored[s]) /\ Tasked(stored[s])
    /\ \A i \in 1..Len(timers) :
          timers[i].to \notin disturbed /\ LastSave(i)
            => Loadable(timers[i].list) /\ Tasked(timers[i].list)
    /\ fetch # <<>> /\ active \notin disturbed => Loadable(fetch[1]) /\ Tasked(fetch[1])

ShownInv ==
    page = "up" /\ loaded /\ active \notin disturbed =>
        /\ Tasked(shown)
        /\ \A i \in 1..Len(shown) : Generating(shown[i]) => Cared(i)

\* A submission will be saved under the session it was sent from.
SubmitHome == \A r \in Requests : net[r].st = "submit" => net[r].to = home[r]

\* Stop closes a stream.
SseInv == page = "up" => \A r \in sse : net[r].st = "stream"

AttInv == AllInv /\ FinalInv /\ ShownInv /\ SubmitHome /\ SseInv

----------------------------------------------------------------------------
(* A step that edits the list on the page. *)

\* What every such step does, where the submissions in E end and the tasks of
\* those in T become known.
Attentive(E, T) ==
    /\ \A x \in Requests : net[x].st \in Done => net'[x].st \in Done
    /\ \A x \in Requests : net[x].st = "submit" => net'[x].st = "submit" \/ x \in E
    /\ \A x \in Requests : net'[x].st = "poll" => net[x].st = "poll" \/ x \in T
    /\ \A x \in E : x \in Requests /\ net[x].st = "submit" /\ Schedule(net[x].to, shown')
    /\ T \subseteq E /\ \A x \in T : net'[x].st = "poll"
    /\ UserQuiet(shown')
    /\ \A i \in 1..Len(shown') :
          shown'[i].task => TaskIn(shown'[i].of, shown) \/ shown'[i].of \in T
    /\ \A i \in 1..Len(shown') :
          shown'[i].role = "assistant" =>
              \/ net[shown'[i].of].st = "new"
              \/ shown'[i].of \in T /\ shown'[i].task
              \/ /\ shown'[i].of \notin T
                 /\ \E j \in 1..Len(shown) :
                       /\ shown[j].of = shown'[i].of /\ shown[j].role = "assistant"
                       /\ shown[j].task => shown'[i].task
    /\ SubmitHome' /\ SseInv'
    /\ loaded /\ active \notin disturbed'
          => \A i \in 1..Len(shown') : Generating(shown'[i]) => Cared(i)'

\* Messages of lists of the state are messages.
LEMMA Messages ==
    ASSUME TypeInv
    PROVE  /\ \A s \in Sessions : \A i \in 1..Len(stored[s]) : stored[s][i] \in Message
           /\ \A k \in 1..Len(timers) :
                 \A i \in 1..Len(timers[k].list) : timers[k].list[i] \in Message
           /\ fetch # <<>> => \A i \in 1..Len(fetch[1]) : fetch[1][i] \in Message
           /\ \A i \in 1..Len(shown) : shown[i] \in Message
  <1>1. ASSUME NEW list \in Seq(Message) PROVE \A i \in 1..Len(list) : list[i] \in Message
    OBVIOUS
  <1>2. \A s \in Sessions : stored[s] \in Seq(Message)
    BY DEF TypeInv, TypeOK
  <1>3. fetch # <<>> => fetch[1] \in Seq(Message)
    BY HeadTail DEF TypeInv, TypeOK
  <1>4. shown \in Seq(Message)
    BY DEF TypeInv, TypeOK
  <1> QED
    BY <1>1, <1>2, <1>3, <1>4, TimersType DEF TypeInv

\* The fields of a message of a list.
LEMMA MessageFields ==
    ASSUME NEW list \in Seq(Message), NEW i \in 1..Len(list)
    PROVE  /\ list[i] \in Message /\ list[i].of \in Requests /\ list[i].role \in Roles
           /\ list[i].kind \in {"chat", "video"} /\ list[i].status \in Statuses
           /\ list[i].task \in BOOLEAN
  <1>1. list[i] \in Message
    OBVIOUS
  <1> QED
    BY <1>1 DEF Message, Roles

\* The owner of a message of a list, by position.
LEMMA OwnPosition ==
    ASSUME NEW list \in Seq(Message), NEW s, OwnIn(s, list), NEW i \in 1..Len(list)
    PROVE  home[list[i].of] = s
  <1>1. <<list[i].of, list[i].role>> \in Ids(list)
    BY IdsMember
  <1> QED
    BY <1>1 DEF OwnIn

\* A task that is known belongs to a request that was submitted.
LEMMA KnownTask ==
    ASSUME AllInv, NEW x, HasTask(x)
    PROVE  net[x].st \in Done
  BY DEF AllInv, HasTask, TaskIn, TaskNet, Done

\* No other task becomes known.
LEMMA EditTasks ==
    ASSUME Inv, AllInv, CapInv', Edit, NEW E, NEW T, Attentive(E, T), NEW x \in Requests, HasTask(x)'
    PROVE  HasTask(x) \/ x \in T
  <1>1. stored' = stored /\ fetch' = fetch
    BY DEF Edit
  <1>2. TaskIn(x, shown') => HasTask(x) \/ x \in T
    BY DEF TaskIn, Attentive, HasTask
  <1>3. ASSUME NEW i \in 1..Len(timers'), TaskIn(x, timers'[i].list)
        PROVE  HasTask(x) \/ x \in T
    <2>1. CASE i \in 1..Len(timers) /\ timers'[i] = timers[i]
      BY <1>3, <2>1 DEF HasTask
    <2>2. CASE timers'[i].list = shown'
      BY <1>2, <1>3, <2>2
    <2> QED
      BY <2>1, <2>2, EditFacts DEF Inv
  <1>4. \/ net'[x].st = "poll"
        \/ \E s \in Sessions : TaskIn(x, stored[s])
        \/ \E i \in 1..Len(timers') : TaskIn(x, timers'[i].list)
        \/ fetch # <<>> /\ TaskIn(x, fetch[1])
        \/ TaskIn(x, shown')
    BY <1>1 DEF HasTask, TaskIn
  <1> QED
    BY <1>2, <1>3, <1>4 DEF HasTask, Attentive

\* A list that stays as it is, of a session for which no save is scheduled.
LEMMA KeptLoadable ==
    ASSUME Inv, AllInv, SubmitHome, CapInv', Edit, NEW E, NEW T, Attentive(E, T),
           NEW list \in Seq(Message), Loadable(list), Tasked(list),
           NEW s \in Sessions, OwnIn(s, list), ~Schedule(s, shown')
    PROVE  /\ \A i \in 1..Len(list) :
                 Generating(list[i]) =>
                    \/ i = Len(list) /\ list[i].kind = "chat" /\ list[i].status # "polling"
                    \/ list[i].task
                    \/ net'[list[i].of].st = "submit"
           /\ \A i \in 1..Len(list) :
                 list[i].role = "assistant" /\ HasTask(list[i].of)' => list[i].task
  <1> SUFFICES ASSUME NEW i \in 1..Len(list)
               PROVE  /\ Generating(list[i]) =>
                            \/ i = Len(list) /\ list[i].kind = "chat" /\ list[i].status # "polling"
                            \/ list[i].task
                            \/ net'[list[i].of].st = "submit"
                      /\ list[i].role = "assistant" /\ HasTask(list[i].of)' => list[i].task
    OBVIOUS
  <1>1. list[i] \in Message /\ list[i].of \in Requests
    BY MessageFields
  <1>2. home[list[i].of] = s
    BY OwnPosition
  <1>3. list[i].of \notin E /\ list[i].of \notin T
    <2>1. \A x \in E : Schedule(home[x], shown')
      BY DEF SubmitHome, Attentive
    <2> QED
      BY <1>2, <2>1 DEF Attentive
  <1>4. net[list[i].of].st = "submit" => net'[list[i].of].st = "submit"
    BY <1>1, <1>3 DEF Attentive
  <1>5. HasTask(list[i].of)' => HasTask(list[i].of)
    BY <1>1, <1>3, EditTasks
  <1> QED
    BY <1>4, <1>5 DEF Loadable, Tasked

\* What is shown of a session that is attended to can be saved.
LEMMA ShownLoadableThen ==
    ASSUME shown' \in Seq(Message), UserQuiet(shown'), ShownInv',
           page' = "up", loaded', active' \notin disturbed'
    PROVE  Loadable(shown)' /\ Tasked(shown)'
  <1>1. /\ Tasked(shown)'
        /\ \A i \in 1..Len(shown') : Generating(shown'[i]) => Cared(i)'
    BY DEF ShownInv
  <1>2. ASSUME NEW i \in 1..Len(shown'), Generating(shown'[i])
        PROVE  \/ i = Len(shown') /\ shown'[i].kind = "chat" /\ shown'[i].status # "polling"
               \/ shown'[i].task
               \/ net'[shown'[i].of].st = "submit"
    <2>1. shown'[i].role = "assistant"
      BY <1>2, MessageFields DEF UserQuiet, Roles
    <2>2. net'[shown'[i].of].st = "poll" => shown'[i].task
      <3>1. net'[shown'[i].of].st = "poll" => HasTask(shown[i].of)'
        BY DEF HasTask
      <3> QED
        BY <1>1, <2>1, <3>1, Zenon DEF Tasked
    <2>3. Cared(i)'
      BY <1>1, <1>2
    <2> QED
      BY <2>2, <2>3 DEF Cared
  <1> QED
    BY <1>1, <1>2, Zenon DEF Loadable

\* A session for which a save is scheduled is on the page, in the next state.
LEMMA CapturedActive ==
    ASSUME CapInv', NEW s \in Sessions, s \notin disturbed', Captured(s)'
    PROVE  s = active' /\ loaded'
  BY DEF CapInv

LEMMA EditAttends ==
    ASSUME Inv, AttInv, CapInv', Edit, NEW E, NEW T, Attentive(E, T)
    PROVE  AttInv'
  <1> USE DEF AttInv
  <1>1. /\ page' = page /\ UNCHANGED <<stored, active, loaded, fetch>>
        /\ page = "up" /\ disturbed \subseteq disturbed' /\ active \in Sessions
        /\ shown' \in Seq(Message)
    BY DEF Edit, Inv, TypeInv, TypeOK
  <1>2. \A i \in 1..Len(shown') : shown'[i] \in Message /\ shown'[i].of \in Requests
    BY <1>1, MessageFields
  <1>3. \A x \in Requests : net[x].st \in Done => net'[x].st \in Done
    BY DEF Attentive
  <1>4. UserQuiet(shown') /\ \A i \in 1..Len(shown') : shown'[i].task => net'[shown'[i].of].st \in Done
    <2>1. \A x \in T : net'[x].st \in Done
      BY DEF Attentive, Done
    <2>2. ASSUME NEW x \in Requests, TaskIn(x, shown) PROVE net'[x].st \in Done
      BY <1>3, <2>2 DEF TaskIn, AllInv, TaskNet
    <2> QED
      BY <1>2, <2>1, <2>2 DEF Attentive
  <1>5. AllInv'
    <2>1. ASSUME NEW list, \A i \in 1..Len(list) : list[i] \in Message, TaskNet(list)
          PROVE  \A i \in 1..Len(list) : list[i].task => net'[list[i].of].st \in Done
      BY <1>3, <2>1 DEF TaskNet, Message
    <2>2. ASSUME NEW s \in Sessions
          PROVE  \A i \in 1..Len(stored[s]) : stored[s][i].task => net'[stored[s][i].of].st \in Done
      BY <2>1, Messages DEF Inv, AllInv
    <2>3. ASSUME NEW k \in 1..Len(timers)
          PROVE  \A i \in 1..Len(timers[k].list) :
                     timers[k].list[i].task => net'[timers[k].list[i].of].st \in Done
      BY <2>1, Messages DEF Inv, AllInv
    <2>4. ASSUME fetch # <<>>
          PROVE  \A i \in 1..Len(fetch[1]) : fetch[1][i].task => net'[fetch[1][i].of].st \in Done
      BY <2>1, <2>4, Messages DEF Inv, AllInv
    <2>5. ASSUME NEW k \in 1..Len(timers')
          PROVE  /\ UserQuiet(timers'[k].list)
                 /\ \A i \in 1..Len(timers'[k].list) :
                     timers'[k].list[i].task => net'[timers'[k].list[i].of].st \in Done
      <3>1. CASE k \in 1..Len(timers) /\ timers'[k] = timers[k]
        BY <2>3, <3>1 DEF AllInv
      <3>2. CASE timers'[k].list = shown'
        BY <1>4, <3>2
      <3> QED
        BY <3>1, <3>2, EditFacts DEF Inv
    <2> QED
      BY <1>1, <1>4, <2>2, <2>4, <2>5, Zenon DEF AllInv, TaskNet, UserQuiet
  <1>6. ShownInv'
    <2> SUFFICES ASSUME loaded, active \notin disturbed'
                 PROVE  /\ \A i \in 1..Len(shown') :
                              shown'[i].role = "assistant" /\ HasTask(shown[i].of)' => shown'[i].task
                        /\ \A i \in 1..Len(shown') : Generating(shown'[i]) => Cared(i)'
      BY <1>1, Zenon DEF ShownInv, Tasked
    <2>1. Tasked(shown)
      BY <1>1 DEF ShownInv
    <2>2. ASSUME NEW i \in 1..Len(shown'), shown'[i].role = "assistant", HasTask(shown[i].of)'
          PROVE  shown'[i].task
      <3>1. HasTask(shown'[i].of) \/ shown'[i].of \in T
        <4>1. PICK x \in Requests : x = shown'[i].of
          BY <1>2
        <4>2. HasTask(x)'
          BY <2>2, <4>1 DEF HasTask
        <4> QED
          BY <4>1, <4>2, EditTasks
      <3>2. HasTask(shown'[i].of) => net[shown'[i].of].st # "new"
        BY KnownTask DEF Done
      <3>3. \A x \in T : net[x].st # "new"
        BY DEF Attentive
      <3> QED
        BY <2>1, <2>2, <3>1, <3>2, <3>3 DEF Attentive, Tasked
    <2> QED
      BY <2>2 DEF Attentive
  <1>7. FinalInv'
    <2>1. ASSUME NEW s \in Sessions, Schedule(s, shown')
          PROVE  /\ Len(timers') = Len(timers) + 1 /\ timers'[Len(timers')].to = s
                 /\ \A i \in 1..Len(timers) : timers'[i] = timers[i]
      <3>1. TypeOK
        BY DEF Inv, TypeInv
      <3>2. /\ Len(timers') = Len(timers) + 1
            /\ timers'[Len(timers')] = [to |-> s, list |-> shown']
            /\ \A i \in 1..Len(timers) : timers'[i] = timers[i]
        BY <1>1, <2>1, <3>1, ScheduleType
      <3> QED
        BY <3>2
    <2>2. Len(timers) \in Nat /\ Len(timers') \in Nat /\ Len(timers) <= Len(timers')
          /\ \A i \in 1..Len(timers) : i \in 1..Len(timers') /\ timers'[i] = timers[i]
      <3>1. Len(timers) \in Nat /\ Len(timers') \in Nat
        BY EditFacts DEF Inv
      <3> QED
        BY <2>1, <3>1 DEF Edit
    <2>3. ASSUME NEW s \in Sessions \ disturbed', \A i \in 1..Len(timers') : timers'[i].to # s
          PROVE  Loadable(stored[s])' /\ Tasked(stored[s])'
      <3>1. PICK list \in Seq(Message) : list = stored[s]
        BY DEF Inv, TypeInv, TypeOK
      <3>2. ~Schedule(s, shown')
        BY <2>1, <2>2, <2>3
      <3>3. Loadable(list) /\ Tasked(list) /\ OwnIn(s, list)
        BY <1>1, <2>2, <2>3, <3>1 DEF FinalInv, Inv, ListInv, OwnInv
      <3>4. Loadable(list)' /\ Tasked(list)'
        BY <3>2, <3>3, KeptLoadable, Zenon DEF Loadable, Tasked
      <3>5. list = stored'[s]
        BY <1>1, <3>1
      <3> QED
        BY <3>4, <3>5 DEF Loadable, Tasked, HasTask
    <2>4. ASSUME NEW k \in 1..Len(timers'), timers'[k].to \notin disturbed',
                 \A j \in 1..Len(timers') : k < j => timers'[j].to # timers'[k].to
          PROVE  Loadable(timers[k].list)' /\ Tasked(timers[k].list)'
      <3>1. CASE k \in 1..Len(timers) /\ timers'[k] = timers[k]
        <4>1. PICK list \in Seq(Message) : list = timers[k].list
          BY <3>1, TimersType DEF Inv, TypeInv
        <4>2. timers[k].to \in Sessions
          BY <3>1, TimersType DEF Inv, TypeInv
        <4>3. ~Schedule(timers[k].to, shown')
          BY <2>1, <2>2, <2>4, <3>1, <4>2
        <4>4. LastSave(k)
          BY <2>2, <2>4, <3>1 DEF LastSave
        <4>5. Loadable(list) /\ Tasked(list) /\ OwnIn(timers[k].to, list)
          BY <1>1, <2>4, <3>1, <4>1, <4>4 DEF FinalInv, Inv, ListInv, OwnInv
        <4>6. Loadable(list)' /\ Tasked(list)'
          BY <4>2, <4>3, <4>5, KeptLoadable, Zenon DEF Loadable, Tasked
        <4>7. list = timers'[k].list
          BY <3>1, <4>1
        <4> QED
          BY <4>6, <4>7 DEF Loadable, Tasked, HasTask
      <3>2. CASE timers'[k].list = shown' /\ loaded /\ active \notin disturbed'
        <4>1. Loadable(shown)' /\ Tasked(shown)'
          BY <1>1, <1>4, <1>6, <3>2, ShownLoadableThen
        <4> QED
          BY <3>2, <4>1 DEF Loadable, Tasked, HasTask
      <3> QED
        BY <2>4, <3>1, <3>2, EditFacts DEF Inv
    <2>5. ASSUME fetch' # <<>>, active' \notin disturbed'
          PROVE  Loadable(fetch[1])' /\ Tasked(fetch[1])'
      <3>1. PICK list \in Seq(Message) : list = fetch[1]
        BY <1>1, <2>5, HeadTail DEF Inv, TypeInv, TypeOK
      <3>2. ~Schedule(active, shown')
        <4> SUFFICES ASSUME Schedule(active, shown') PROVE FALSE
          OBVIOUS
        <4>1. Len(timers') \in 1..Len(timers') /\ timers'[Len(timers')].to = active
          BY <1>1, <2>1, <2>2
        <4>2. Captured(active)'
          BY <1>1, <4>1, EditTypes, CapturedThen DEF Inv
        <4>3. loaded'
          BY <1>1, <2>5, <4>2, CapturedActive
        <4> QED
          BY <2>5, <4>3 DEF CapInv
      <3>3. Loadable(list) /\ Tasked(list) /\ OwnIn(active, list)
        BY <1>1, <2>5, <3>1 DEF FinalInv, Inv, ListInv, OwnInv
      <3>4. Loadable(list)' /\ Tasked(list)'
        BY <1>1, <3>2, <3>3, KeptLoadable, Zenon DEF Loadable, Tasked
      <3>5. list = fetch'[1]
        BY <1>1, <3>1
      <3> QED
        BY <3>4, <3>5 DEF Loadable, Tasked, HasTask
    <2> QED
      BY <1>1, <2>3, <2>4, <2>5, Zenon DEF FinalInv, LastSave
  <1> QED
    BY <1>5, <1>6, <1>7 DEF Attentive

----------------------------------------------------------------------------
(* The callbacks of chats, which change the last message. *)

LEMMA SetLastFields ==
    ASSUME NEW list \in Seq(Message), list # <<>>, NEW status \in Statuses,
           NEW new, new = SetLast(list, status)
    PROVE  /\ Len(new) = Len(list) /\ Len(list) \in 1..Len(list)
           /\ new[Len(list)].status = status
           /\ \A i \in 1..Len(list) :
                 /\ new[i].of = list[i].of /\ new[i].role = list[i].role
                 /\ new[i].kind = list[i].kind /\ new[i].task = list[i].task
                 /\ i # Len(list) => new[i] = list[i]
  <1> DEFINE n == Len(list)
  <1>1. n \in 1..n /\ list[n] \in Message /\ DOMAIN list = 1..n /\ n \in Nat
    OBVIOUS
  <1>2. new = [list EXCEPT ![n] = [list[n] EXCEPT !.status = status]]
    BY DEF SetLast, ReplaceAt, Last
  <1>3. Len(new) = n
    BY SetLastKeeps
  <1>4. /\ new[n] = [list[n] EXCEPT !.status = status]
        /\ \A i \in 1..n : i # n => new[i] = list[i]
    BY <1>1, <1>2
  <1>5. /\ new[n].of = list[n].of /\ new[n].role = list[n].role /\ new[n].kind = list[n].kind
        /\ new[n].task = list[n].task /\ new[n].status = status
    BY <1>1, <1>4 DEF Message
  <1> QED
    BY <1>1, <1>3, <1>4, <1>5

\* The requests that a callback of a chat ends.
ChatNet ==
    \A x \in Requests :
        net'[x] = net[x] \/ (net[x].st \in {"stream", "reply"} /\ net'[x].st = "over")

\* The list is the same or its last message has another status.
LastEdited ==
    \/ shown' = shown
    \/ /\ shown # <<>>
       /\ \/ shown' = SetLast(shown, "finished")
          \/ shown' = SetLast(shown, "incomplete") /\ Last(shown).role = "assistant"

LEMMA LastEditedFields ==
    ASSUME TypeInv, LastEdited
    PROVE  /\ Len(shown') = Len(shown) /\ Len(shown) \in Nat
           /\ \A i \in 1..Len(shown) :
                 /\ shown'[i].of = shown[i].of /\ shown'[i].role = shown[i].role
                 /\ shown'[i].kind = shown[i].kind /\ shown'[i].task = shown[i].task
                 /\ i # Len(shown) => shown'[i] = shown[i]
                 /\ \/ shown'[i] = shown[i]
                    \/ shown'[i].status = "finished"
                    \/ shown'[i].role = "assistant"
  <1>1. shown \in Seq(Message) /\ Len(shown) \in Nat
    BY DEF TypeInv, TypeOK
  <1>2. CASE shown' = shown
    BY <1>1, <1>2
  <1>3. ASSUME NEW st \in Statuses, shown # <<>>, NEW new, new = SetLast(shown, st)
        PROVE  /\ Len(new) = Len(shown) /\ Len(shown) \in 1..Len(shown)
               /\ new[Len(shown)].status = st
               /\ \A i \in 1..Len(shown) :
                      /\ new[i].of = shown[i].of /\ new[i].role = shown[i].role
                      /\ new[i].kind = shown[i].kind /\ new[i].task = shown[i].task
                      /\ i # Len(shown) => new[i] = shown[i]
    BY <1>1, <1>3, SetLastFields
  <1>4. ASSUME NEW st \in Statuses, shown # <<>>, shown' = SetLast(shown, st),
               st = "finished" \/ Last(shown).role = "assistant"
        PROVE  /\ Len(shown') = Len(shown)
               /\ \A i \in 1..Len(shown) :
                      /\ shown'[i].of = shown[i].of /\ shown'[i].role = shown[i].role
                      /\ shown'[i].kind = shown[i].kind /\ shown'[i].task = shown[i].task
                      /\ i # Len(shown) => shown'[i] = shown[i]
                      /\ \/ shown'[i] = shown[i]
                         \/ shown'[i].status = "finished"
                         \/ shown'[i].role = "assistant"
    <2>1. PICK new : new = shown' /\ new = SetLast(shown, st)
      BY <1>4
    <2>2. /\ Len(new) = Len(shown) /\ Len(shown) \in 1..Len(shown)
          /\ new[Len(shown)].status = st
          /\ \A i \in 1..Len(shown) :
                 /\ new[i].of = shown[i].of /\ new[i].role = shown[i].role
                 /\ new[i].kind = shown[i].kind /\ new[i].task = shown[i].task
                 /\ i # Len(shown) => new[i] = shown[i]
      BY <1>3, <1>4, <2>1
    <2>3. st = "finished" \/ new[Len(shown)].role = "assistant"
      BY <1>4, <2>2 DEF Last
    <2> QED
      BY <2>1, <2>2, <2>3
  <1>5. CASE shown # <<>> /\ shown' = SetLast(shown, "finished")
    <2>1. PICK st \in Statuses : st = "finished"
      BY DEF Statuses
    <2> QED
      BY <1>1, <1>4, <1>5, <2>1
  <1>6. CASE shown # <<>> /\ shown' = SetLast(shown, "incomplete") /\ Last(shown).role = "assistant"
    <2>1. PICK st \in Statuses : st = "incomplete"
      BY DEF Statuses
    <2> QED
      BY <1>1, <1>4, <1>6, <2>1
  <1> QED
    BY <1>2, <1>5, <1>6 DEF LastEdited

\* Such a step is attentive if it attends to the last message.
LEMMA LastEditAttends ==
    ASSUME Inv, AttInv, Edit, CapInv', LastEdited, ChatNet, home' = home, SseInv',
           ASSUME loaded, active \notin disturbed', NEW n, n = Len(shown'), n \in 1..n,
                  Generating(shown'[n])
           PROVE  Cared(n)'
    PROVE  AttInv'
  <1> USE DEF AttInv
  <1>1. TypeInv /\ disturbed \subseteq disturbed' /\ page = "up"
    BY DEF Inv, Edit
  <1>2. /\ Len(shown') = Len(shown) /\ Len(shown) \in Nat
        /\ \A i \in 1..Len(shown) :
                 /\ shown'[i].of = shown[i].of /\ shown'[i].role = shown[i].role
                 /\ shown'[i].kind = shown[i].kind /\ shown'[i].task = shown[i].task
                 /\ i # Len(shown) => shown'[i] = shown[i]
                 /\ \/ shown'[i] = shown[i]
                    \/ shown'[i].status = "finished"
                    \/ shown'[i].role = "assistant"
    BY <1>1, LastEditedFields
  <1>3. UserQuiet(shown')
    BY <1>2 DEF UserQuiet, AllInv, Generating
  <1>4. SubmitHome'
    BY DEF SubmitHome, ChatNet
  <1>5. ASSUME loaded, active \notin disturbed', NEW i \in 1..Len(shown'), Generating(shown'[i])
        PROVE  Cared(i)'
    <2>1. CASE i = Len(shown')
      BY <1>2, <1>5, <2>1
    <2>2. CASE i # Len(shown')
      <3>1. Generating(shown[i]) /\ shown'[i] = shown[i] /\ i \in 1..Len(shown)
        BY <1>2, <1>5, <2>2
      <3>2. net[shown[i].of].st \in {"submit", "poll"}
        BY <1>1, <1>2, <1>5, <2>2, <3>1 DEF ShownInv, Cared
      <3>3. shown[i].of \in Requests
        BY <3>1, MessageFields DEF Inv, TypeInv, TypeOK
      <3>4. net'[shown[i].of] = net[shown[i].of]
        BY <3>2, <3>3 DEF ChatNet
      <3> QED
        BY <3>1, <3>2, <3>4 DEF Cared
    <2> QED
      BY <2>1, <2>2
  <1>6. /\ \A x \in Requests : net[x].st \in Done => net'[x].st \in Done
        /\ \A x \in Requests : net[x].st = "submit" => net'[x].st = "submit"
        /\ \A x \in Requests : net'[x].st = "poll" => net[x].st = "poll"
    BY DEF ChatNet, Done
  <1>7. \A i \in 1..Len(shown') : shown'[i].task => TaskIn(shown'[i].of, shown)
    BY <1>2 DEF TaskIn
  <1>8. \A i \in 1..Len(shown') :
          shown'[i].role = "assistant" =>
              \E j \in 1..Len(shown) :
                   /\ shown[j].of = shown'[i].of /\ shown[j].role = "assistant"
                   /\ shown[j].task => shown'[i].task
    BY <1>2
  <1>9. Attentive({}, {})
    BY <1>3, <1>4, <1>5, <1>6, <1>7, <1>8 DEF Attentive
  <1> QED
    BY <1>9, EditAttends

\* The status that SetLast gives the last message.
LEMMA LastStatus ==
    ASSUME TypeInv, NEW st \in Statuses, shown # <<>>, shown' = SetLast(shown, st)
    PROVE  shown'[Len(shown')].status = st
  <1>1. shown \in Seq(Message)
    BY DEF TypeInv, TypeOK
  <1>2. PICK new : new = shown' /\ new = SetLast(shown, st)
    OBVIOUS
  <1>3. Len(new) = Len(shown) /\ new[Len(shown)].status = st
    BY <1>1, <1>2, SetLastFields
  <1> QED
    BY <1>2, <1>3

\* The last message is finished, or the list stays and someone attends to it.
LEMMA FinishAttends ==
    ASSUME Inv, AttInv, Edit, CapInv', ChatNet, home' = home, SseInv',
           \/ shown # <<>> /\ shown' = SetLast(shown, "finished")
           \/ /\ shown' = shown
              /\ loaded /\ active \notin disturbed' /\ shown # <<>> /\ Generating(Last(shown))
                    => Cared(Len(shown))'
    PROVE  AttInv'
  <1>1. CASE shown # <<>> /\ shown' = SetLast(shown, "finished")
    <2>1. PICK st \in Statuses : st = "finished"
      BY DEF Statuses
    <2>2. shown'[Len(shown')].status = "finished"
      BY <1>1, <2>1, LastStatus DEF Inv
    <2>3. ~Generating(shown'[Len(shown')])
      BY <2>2 DEF Generating
    <2>4. LastEdited
      BY <1>1 DEF LastEdited
    <2> QED
      BY <2>3, <2>4, LastEditAttends
  <1>2. CASE /\ shown' = shown
             /\ loaded /\ active \notin disturbed' /\ shown # <<>> /\ Generating(Last(shown))
                    => Cared(Len(shown))'
    <2>1. ASSUME loaded, active \notin disturbed', NEW n, n = Len(shown'), n \in 1..n,
                 Generating(shown'[n])
          PROVE  Cared(n)'
      <3>1. shown \in Seq(Message)
        BY DEF Inv, TypeInv, TypeOK
      <3>2. n = Len(shown) /\ shown # <<>> /\ Generating(Last(shown))
        BY <1>2, <2>1, <3>1 DEF Last
      <3>3. Cared(Len(shown))'
        BY <1>2, <2>1, <3>2
      <3> QED
        BY <2>1, <3>3 DEF Cared
    <2>2. LastEdited
      BY <1>2 DEF LastEdited
    <2> QED
      BY <2>1, <2>2, LastEditAttends
  <1> QED
    BY <1>1, <1>2

\* The end of a chat request.
LEMMA OverNet ==
    ASSUME TypeInv, NEW r \in Requests, net[r].st \in {"stream", "reply"},
           net' = [net EXCEPT ![r] = Ended("over")]
    PROVE  ChatNet /\ \A x \in Requests : x # r => net'[x] = net[x]
  <1>1. Ended("over").st = "over"
    BY DEF Ended
  <1> QED
    BY <1>1 DEF ChatNet, TypeInv, TypeOK

LEMMA StreamMessageUpdateAttends ==
    ASSUME Inv, AttInv, CapInv', NEW r \in Requests, StreamMessageUpdate(r)
    PROVE  AttInv'
  <1>1. Edit /\ shown # <<>> /\ shown' = SetLast(shown, "incomplete") /\ Last(shown).role = "assistant"
        /\ UNCHANGED <<page, active, loaded, net, home, sse, disturbed>> /\ net[r].st = "stream"
        /\ Last(shown).status = "loading" /\ page = "up"
    BY StreamMessageUpdateEdits DEF StreamMessageUpdate, viewVars, Inv
  <1>2. LastEdited /\ ChatNet /\ SseInv'
    BY <1>1 DEF LastEdited, ChatNet, AttInv, SseInv
  <1>3. ASSUME loaded, active \notin disturbed', NEW n, n = Len(shown'), n \in 1..n,
               Generating(shown'[n])
        PROVE  Cared(n)'
    <2>1. shown \in Seq(Message) /\ TypeInv
      BY DEF Inv, TypeInv, TypeOK
    <2>2. /\ n = Len(shown) /\ n \in 1..Len(shown)
          /\ shown'[n].of = shown[n].of /\ shown'[n].kind = shown[n].kind
      BY <1>2, <1>3, <2>1, LastEditedFields
    <2>3. PICK st \in Statuses : st = "incomplete"
      BY DEF Statuses
    <2>4. shown'[n].status = "incomplete"
      BY <1>1, <1>3, <2>1, <2>3, LastStatus
    <2>5. Generating(shown[n])
      BY <1>1, <2>2 DEF Last, Generating
    <2>6. Cared(n)
      BY <1>1, <1>3, <2>2, <2>5 DEF AttInv, ShownInv
    <2>7. net'[shown'[n].of] = net[shown[n].of] /\ Streaming'
      BY <1>1, <2>2 DEF Streaming
    <2> QED
      BY <1>3, <2>2, <2>4, <2>6, <2>7 DEF Cared
  <1> QED
    BY <1>1, <1>2, <1>3, LastEditAttends

LEMMA CompleteMessageAttends ==
    ASSUME Inv, AttInv, CapInv', NEW r \in Requests, NEW netAfter, CompleteMessage(r, netAfter),
           Edit, net[r].st = "stream",
           netAfter = net \/ netAfter = [net EXCEPT ![r] = Ended("over")],
           sse' \subseteq sse, r \notin sse' \/ netAfter = net, home' = home
    PROVE  AttInv'
  <1>1. shown # <<>>
    BY DEF CompleteMessage, CrashPage, Edit
  <1>2. /\ IF Last(shown).status = "finished"
           THEN UNCHANGED <<shown, timers>>
           ELSE /\ shown' = SetLast(shown, "finished")
                /\ Schedule(net[r].to, shown')
        /\ net' = netAfter
        /\ UNCHANGED <<viewVars, resend, disturbed>>
    BY <1>1, Zenon DEF CompleteMessage
  <1>3. ChatNet /\ \A x \in Requests : x # r => net'[x] = net[x]
    BY <1>2, OverNet DEF Inv, ChatNet
  <1>4. SseInv'
    <2>1. sse \subseteq Requests
      BY DEF Inv, TypeInv, TypeOK
    <2> QED
      BY <1>2, <1>3, <2>1 DEF AttInv, SseInv, viewVars
  <1>5. CASE Last(shown).status = "finished"
    BY <1>2, <1>3, <1>4, <1>5, FinishAttends DEF Generating
  <1>6. CASE Last(shown).status # "finished"
    BY <1>1, <1>2, <1>3, <1>4, <1>6, FinishAttends
  <1> QED
    BY <1>5, <1>6

LEMMA StreamEndsAttends ==
    ASSUME Inv, AttInv, CapInv', NEW r \in Requests, StreamEnds(r) \/ StreamGarbled(r), Edit
    PROVE  AttInv'
  <1> DEFINE after == [net EXCEPT ![r] = Ended("over")]
  <1>1. CASE StreamEnds(r)
    <2>1. /\ CompleteMessage(r, after) /\ net[r].st = "stream" /\ home' = home
          /\ sse' \subseteq sse /\ r \notin sse'
      BY <1>1 DEF StreamEnds
    <2>2. after = [net EXCEPT ![r] = Ended("over")]
      OBVIOUS
    <2>3. \/ after = net
          \/ after = [net EXCEPT ![r] = Ended("over")]
      BY <2>2
    <2> HIDE DEF after
    <2> QED
      BY <2>1, <2>3, CompleteMessageAttends
  <1>2. CASE StreamGarbled(r)
    BY <1>2, CompleteMessageAttends DEF StreamGarbled
  <1> QED
    BY <1>1, <1>2

LEMMA StreamBreaksAttends ==
    ASSUME Inv, AttInv, CapInv', NEW r \in Requests, StreamBreaks(r)
    PROVE  AttInv'
  <1>1. /\ Edit /\ net[r].st = "stream" /\ net' = [net EXCEPT ![r] = Ended("over")]
        /\ sse' = {} /\ home' = home
        /\ shown' = IF shown = <<>> \/ Last(shown).status = "finished"
                    THEN shown ELSE SetLast(shown, "finished")
    BY StreamBreaksEdits DEF StreamBreaks, Inv
  <1>2. ChatNet /\ SseInv'
    BY <1>1, OverNet DEF Inv, SseInv
  <1>3. CASE shown = <<>> \/ Last(shown).status = "finished"
    BY <1>1, <1>2, <1>3, FinishAttends DEF Generating
  <1>4. CASE ~(shown = <<>> \/ Last(shown).status = "finished")
    BY <1>1, <1>2, <1>4, FinishAttends
  <1> QED
    BY <1>3, <1>4

LEMMA ReplyAttends ==
    ASSUME Inv, AttInv, CapInv', NEW r \in Requests, Reply(r)
    PROVE  AttInv'
  <1>1. /\ Edit /\ net[r].st = "reply" /\ net' = [net EXCEPT ![r] = Ended("over")]
        /\ UNCHANGED <<sse, home, page, active, loaded, disturbed, abandoned>> /\ page = "up"
    BY ReplyEdits DEF Reply, Inv, viewVars
  <1>2. ChatNet /\ \A x \in Requests : x # r => net'[x] = net[x]
    BY <1>1, OverNet DEF Inv
  <1>3. SseInv'
    <2>1. sse \subseteq Requests
      BY DEF Inv, TypeInv, TypeOK
    <2> QED
      BY <1>1, <1>2, <2>1 DEF AttInv, SseInv
  <1>4. CASE shown # <<>> /\ Last(shown).status = "loading"
    <2>1. shown' = SetLast(shown, "finished")
      BY <1>4 DEF Reply
    <2> QED
      BY <1>1, <1>2, <1>3, <1>4, <2>1, FinishAttends
  <1>5. CASE ~(shown # <<>> /\ Last(shown).status = "loading")
    <2>1. shown' = shown
      BY <1>5 DEF Reply
    <2>2. ASSUME loaded, active \notin disturbed', shown # <<>>, Generating(Last(shown))
          PROVE  Cared(Len(shown))'
      <3>1. shown \in Seq(Message)
        BY DEF Inv, TypeInv, TypeOK
      <3>2. PICK n : n = Len(shown) /\ n \in 1..Len(shown) /\ shown[n] = Last(shown)
        BY <2>2, <3>1 DEF Last
      <3>3. shown[n].of \in Requests
        BY <3>1, <3>2, MessageFields
      <3>4. Cared(n) /\ shown[n].status # "loading"
        BY <1>1, <1>5, <2>2, <3>2 DEF AttInv, ShownInv
      <3>5. Streaming => Streaming'
        BY <1>1, <1>2 DEF Streaming
      <3>6. net[shown[n].of].st \in {"submit", "poll"} => net'[shown[n].of] = net[shown[n].of]
        BY <1>1, <1>2, <3>3
      <3>7. Cared(n)'
        BY <1>1, <2>1, <3>2, <3>4, <3>5, <3>6 DEF Cared
      <3> QED
        BY <2>1, <3>2, <3>7 DEF Cared
    <2> QED
      BY <1>1, <1>2, <1>3, <2>1, <2>2, FinishAttends
  <1> QED
    BY <1>4, <1>5

\* A stream or a reply that ends without a word: the reply that was open is
\* abandoned.
LEMMA SilentAttends ==
    ASSUME Inv, AttInv, CapInv', NEW r \in Requests, StreamCloses(r) \/ ReplyEmpty(r)
    PROVE  AttInv'
  <1>1. /\ Edit /\ net[r].st \in {"stream", "reply"} /\ net' = [net EXCEPT ![r] = Ended("over")]
        /\ UNCHANGED <<shown, home, page, active, loaded, disturbed>> /\ page = "up"
        /\ abandoned' = abandoned \cup OpenReply(shown)
        /\ sse' \subseteq sse /\ (r \notin sse' \/ net[r].st = "reply")
    BY SilentEdits DEF StreamCloses, ReplyEmpty, Inv, viewVars
  <1>2. ChatNet /\ \A x \in Requests : x # r => net'[x] = net[x]
    BY <1>1, OverNet DEF Inv
  <1>3. SseInv'
    <2>1. sse \subseteq Requests
      BY DEF Inv, TypeInv, TypeOK
    <2> QED
      BY <1>1, <1>2, <2>1 DEF AttInv, SseInv
  <1>4. ASSUME loaded, active \notin disturbed', shown # <<>>, Generating(Last(shown))
        PROVE  Cared(Len(shown))'
    <2>1. shown \in Seq(Message)
      BY DEF Inv, TypeInv, TypeOK
    <2>2. PICK n : n = Len(shown) /\ n \in 1..Len(shown) /\ shown[n] = Last(shown)
      BY <1>4, <2>1 DEF Last
    <2>3. shown[n].of \in Requests
      BY <2>1, <2>2, MessageFields
    <2>4. Cared(n)
      BY <1>1, <1>4, <2>2 DEF AttInv, ShownInv
    <2>5. CASE net[shown[n].of].st \in {"submit", "poll"}
      <3>1. net'[shown[n].of] = net[shown[n].of]
        BY <1>1, <1>2, <2>3, <2>5
      <3> QED
        BY <1>1, <2>2, <2>5, <3>1 DEF Cared
    <2>6. CASE net[shown[n].of].st \notin {"submit", "poll"}
      <3>1. shown[n].kind = "chat" /\ shown[n].status \in {"loading", "incomplete"}
        BY <2>4, <2>6 DEF Cared
      <3>2. shown[n].of \in abandoned'
        BY <1>1, <1>4, <2>2, <3>1 DEF OpenReply, Interrupted
      <3> QED
        BY <1>1, <2>2, <3>1, <3>2 DEF Cared
    <2> QED
      BY <2>5, <2>6
  <1> QED
    BY <1>1, <1>2, <1>3, <1>4, FinishAttends

LEMMA StopAttends ==
    ASSUME Inv, AttInv, CapInv', Stop
    PROVE  AttInv'
  <1>1. /\ Edit /\ net' = [r \in Requests |-> IF r \in sse THEN Ended("over") ELSE net[r]]
        /\ UNCHANGED <<home, page, active, loaded>> /\ sse' = {} /\ page = "up"
        /\ disturbed \subseteq disturbed'
    BY StopEdits, TouchGrows DEF Stop, Inv, viewVars
  <1>2. ChatNet /\ \A x \in Requests : net[x].st # "stream" => net'[x] = net[x]
    <2>1. \A x \in sse : net[x].st = "stream"
      BY <1>1 DEF AttInv, SseInv
    <2>2. Ended("over").st = "over"
      BY DEF Ended
    <2> QED
      BY <1>1, <2>1, <2>2 DEF ChatNet
  <1>3. SseInv'
    BY <1>1 DEF SseInv
  <1>4. CASE shown # <<>> /\ Last(shown).status \in {"loading", "incomplete"}
    <2>1. shown' = SetLast(shown, "finished")
      BY <1>4 DEF Stop
    <2> QED
      BY <1>1, <1>2, <1>3, <1>4, <2>1, FinishAttends
  <1>5. CASE ~(shown # <<>> /\ Last(shown).status \in {"loading", "incomplete"})
    <2>1. shown' = shown
      BY <1>5 DEF Stop
    <2>2. ASSUME loaded, active \notin disturbed', shown # <<>>, Generating(Last(shown))
          PROVE  Cared(Len(shown))'
      <3>1. shown \in Seq(Message)
        BY DEF Inv, TypeInv, TypeOK
      <3>2. PICK n : n = Len(shown) /\ n \in 1..Len(shown) /\ shown[n] = Last(shown)
        BY <2>2, <3>1 DEF Last
      <3>3. shown[n].of \in Requests
        BY <3>1, <3>2, MessageFields
      <3>4. Cared(n) /\ shown[n].status \notin {"loading", "incomplete"}
        BY <1>1, <1>5, <2>2, <3>2 DEF AttInv, ShownInv
      <3>5. net[shown[n].of].st \in {"submit", "poll"}
        BY <3>4 DEF Cared
      <3>6. net'[shown[n].of] = net[shown[n].of]
        BY <1>2, <3>3, <3>5
      <3> QED
        BY <2>1, <3>2, <3>5, <3>6 DEF Cared
    <2> QED
      BY <1>1, <1>2, <1>3, <2>1, <2>2, FinishAttends
  <1> QED
    BY <1>4, <1>5

----------------------------------------------------------------------------
(* The callbacks of videos. *)

\* The messages that UpdateVideo shows, by position.
LEMMA UpdateVideoFields ==
    ASSUME TypeInv, NEW r \in Requests, NEW status \in Statuses, NEW task \in BOOLEAN,
           shown' = Updated(shown, r, status, task)
    PROVE  /\ Len(shown') = Len(shown) /\ Len(shown) \in Nat
           /\ \A i \in 1..Len(shown) :
                 /\ shown'[i].of = shown[i].of /\ shown'[i].role = shown[i].role
                 /\ shown'[i].kind = shown[i].kind
                 /\ IF shown[i].of = r /\ shown[i].role = "assistant"
                    THEN shown'[i].status = status /\ (shown'[i].task <=> task \/ shown[i].task)
                    ELSE shown'[i] = shown[i]
  <1>1. shown \in Seq(Message) /\ Len(shown) \in Nat
    BY DEF TypeInv, TypeOK
  <1>2. ASSUME NEW new, new = Updated(shown, r, status, task)
        PROVE  /\ Len(new) = Len(shown)
               /\ \A i \in 1..Len(shown) :
                     /\ new[i].of = shown[i].of /\ new[i].role = shown[i].role
                     /\ new[i].kind = shown[i].kind
                     /\ IF shown[i].of = r /\ shown[i].role = "assistant"
                        THEN new[i].status = status /\ (new[i].task <=> task \/ shown[i].task)
                        ELSE new[i] = shown[i]
    BY <1>1, <1>2, UpdatedKeeps
  <1> QED
    BY <1>1, <1>2, Zenon

\* A submission ends, or a poller reports.
LEMMA UpdateVideoAttends ==
    ASSUME Inv, AttInv, CapInv', NEW r \in Requests, NEW status \in {"polling", "finished"},
           NEW task \in BOOLEAN, UpdateVideo(r, status, task), page = "up",
           net[r].st \in {"submit", "poll"}, net'[r].st \in {"poll", "over"},
           \/ net' = net
           \/ net' = [net EXCEPT ![r] = Ended("over")]
           \/ net' = [net EXCEPT ![r].st = "poll"],
           task => net[r].st = "submit",
           task \/ status = "polling" => net'[r].st = "poll",
           net'[r].st = "poll" => net[r].st = "poll" \/ task
    PROVE  AttInv'
  <1> USE DEF AttInv
  <1> DEFINE T == {x \in {r} : task}
             E == {x \in {r} : net[x].st = "submit"}
  <1>1. TypeInv /\ status \in Statuses /\ net[r].st # "new"
    BY DEF Inv, Statuses
  <1>2. Edit /\ shown' = Updated(shown, r, status, task)
    BY <1>1, UpdateVideoEdits
  <1>3. /\ UNCHANGED <<home, sse, disturbed, page, active, loaded, abandoned>>
        /\ Schedule(net[r].to, shown')
    BY Zenon DEF UpdateVideo, viewVars
  <1>4. /\ Len(shown') = Len(shown) /\ Len(shown) \in Nat
        /\ \A i \in 1..Len(shown) :
              /\ shown'[i].of = shown[i].of /\ shown'[i].role = shown[i].role
              /\ shown'[i].kind = shown[i].kind
              /\ IF shown[i].of = r /\ shown[i].role = "assistant"
                 THEN shown'[i].status = status /\ (shown'[i].task <=> task \/ shown[i].task)
                 ELSE shown'[i] = shown[i]
    BY <1>1, <1>2, UpdateVideoFields
  <1>5. \A x \in Requests : x # r => net'[x] = net[x]
    BY <1>1, NetStep
  <1>6. SubmitHome' /\ SseInv'
    <2>1. sse \subseteq Requests
      BY DEF Inv, TypeInv, TypeOK
    <2> QED
      BY <1>3, <1>5, <2>1 DEF SubmitHome, SseInv
  <1>7. UserQuiet(shown')
    BY <1>4 DEF UserQuiet, AllInv
  <1>8. /\ \A x \in Requests : net[x].st \in Done => net'[x].st \in Done
        /\ \A x \in Requests : net[x].st = "submit" => net'[x].st = "submit" \/ x \in E
        /\ \A x \in Requests : net'[x].st = "poll" => net[x].st = "poll" \/ x \in T
        /\ \A x \in E : x \in Requests /\ net[x].st = "submit" /\ Schedule(net[x].to, shown')
        /\ T \subseteq E /\ \A x \in T : net'[x].st = "poll"
    BY <1>3, <1>5 DEF Done
  <1>9. \A i \in 1..Len(shown') :
            shown'[i].task => TaskIn(shown'[i].of, shown) \/ shown'[i].of \in T
    <2> SUFFICES ASSUME NEW i \in 1..Len(shown'), shown'[i].task
                 PROVE  TaskIn(shown'[i].of, shown) \/ shown'[i].of \in T
      OBVIOUS
    <2>1. shown[i].task => TaskIn(shown'[i].of, shown)
      BY <1>4 DEF TaskIn
    <2> QED
      BY <1>4, <2>1
  <1>10. \A i \in 1..Len(shown') :
          shown'[i].role = "assistant" =>
              \/ shown'[i].of \in T /\ shown'[i].task
              \/ /\ shown'[i].of \notin T
                 /\ \E j \in 1..Len(shown) :
                       /\ shown[j].of = shown'[i].of /\ shown[j].role = "assistant"
                       /\ shown[j].task => shown'[i].task
    BY <1>4
  <1>11. ASSUME loaded, active \notin disturbed', NEW i \in 1..Len(shown'), Generating(shown'[i])
         PROVE  Cared(i)'
    <2>1. CASE shown[i].of = r /\ shown[i].role = "assistant"
      <3>1. net'[shown'[i].of].st = "poll"
        BY <1>4, <1>11, <2>1 DEF Generating
      <3> QED
        BY <3>1 DEF Cared
    <2>2. CASE ~(shown[i].of = r /\ shown[i].role = "assistant")
      <3>1. shown'[i] = shown[i] /\ i \in 1..Len(shown) /\ Len(shown') = Len(shown)
        BY <1>4, <2>2
      <3>2. shown[i].role \in Roles /\ shown[i].of \in Requests
        BY <3>1, MessageFields DEF Inv, TypeInv, TypeOK
      <3>3. shown[i].of # r
        BY <1>11, <2>2, <3>1, <3>2 DEF AllInv, UserQuiet, Roles
      <3>4. Cared(i)
        BY <1>3, <1>11, <3>1 DEF ShownInv
      <3>5. Streaming => Streaming'
        BY <1>5 DEF Streaming
      <3> QED
        BY <1>3, <1>5, <3>1, <3>2, <3>3, <3>4, <3>5 DEF Cared
    <2> QED
      BY <2>1, <2>2
  <1>12. Attentive(E, T)
    <2> HIDE DEF E, T
    <2> QED
      BY <1>6, <1>7, <1>8, <1>9, <1>10, <1>11 DEF Attentive
  <1> HIDE DEF E, T
  <1> QED
    BY <1>2, <1>12, EditAttends

LEMMA VideoAttends ==
    ASSUME Inv, AttInv, CapInv', NEW r \in Requests,
           Submitted(r) \/ SubmitFails(r) \/ TickPolling(r) \/ TickEnds(r)
    PROVE  AttInv'
  <1>1. Ended("over").st = "over" /\ net \in NetStates
    BY DEF Ended, Inv, TypeInv, TypeOK, NetStates
  <1>2. CASE Submitted(r)
    <2>1. /\ UpdateVideo(r, "polling", TRUE) /\ page = "up" /\ net[r].st = "submit"
          /\ net' = [net EXCEPT ![r].st = "poll"] /\ net'[r].st = "poll"
      BY <1>1, <1>2 DEF Submitted, NetStates
    <2> QED
      BY <2>1, UpdateVideoAttends
  <1>3. CASE SubmitFails(r)
    <2>1. /\ UpdateVideo(r, "finished", FALSE) /\ page = "up" /\ net[r].st = "submit"
          /\ net' = [net EXCEPT ![r] = Ended("over")] /\ net'[r].st = "over"
      BY <1>1, <1>3 DEF SubmitFails, NetStates
    <2> QED
      BY <2>1, UpdateVideoAttends
  <1>4. CASE TickPolling(r)
    <2>1. /\ UpdateVideo(r, "polling", FALSE) /\ page = "up" /\ net[r].st = "poll" /\ net' = net
      BY <1>4 DEF TickPolling, RunningStatus
    <2> QED
      BY <2>1, UpdateVideoAttends
  <1>5. CASE TickEnds(r)
    <2>1. /\ UpdateVideo(r, "finished", FALSE) /\ page = "up" /\ net[r].st = "poll"
          /\ net' = [net EXCEPT ![r] = Ended("over")] /\ net'[r].st = "over"
      BY <1>1, <1>5 DEF TickEnds, NetStates
    <2> QED
      BY <2>1, UpdateVideoAttends
  <1> QED
    BY <1>2, <1>3, <1>4, <1>5

----------------------------------------------------------------------------
(* Sending. *)

\* A list without a message that is generated.
LEMMA QuietPositions ==
    ASSUME TypeInv, \A m \in ToSet(shown) : ~Generating(m)
    PROVE  \A i \in 1..Len(shown) : ~Generating(shown[i])
  <1>1. shown \in Seq(Message) /\ DOMAIN shown = 1..Len(shown)
    BY DEF TypeInv, TypeOK
  <1>2. \A i \in 1..Len(shown) : shown[i] \in ToSet(shown)
    BY <1>1 DEF ToSet
  <1> QED
    BY <1>2

\* What Send adds to the list, by position, and the work that it starts.
LEMMA SendFields ==
    ASSUME TypeInv, NEW s \in Sessions, NEW kind \in {"chat", "video"}, Send(s, kind)
    PROVE  \E r \in Requests :
              /\ net[r].st = "new" /\ net'[r].to = s /\ home'[r] = s
              /\ \A x \in Requests : x # r => net'[x] = net[x] /\ home'[x] = home[x]
              /\ \/ kind = "video" /\ net'[r].st = "submit"
                 \/ kind = "chat" /\ net'[r].st \in {"stream", "reply"}
              /\ sse' = sse \/ (sse' = {r} /\ net'[r].st = "stream")
              /\ Len(shown) \in Nat /\ Len(shown') = Len(shown) + 2
              /\ \A i \in 1..Len(shown) : shown'[i] = shown[i]
              /\ LET m == shown'[Len(shown) + 1]
                 IN m.of = r /\ m.role = "user" /\ m.status = "none" /\ m.task = FALSE
              /\ LET m == shown'[Len(shown) + 2]
                 IN /\ m.of = r /\ m.role = "assistant" /\ m.status = "loading" /\ m.task = FALSE
                    /\ m.kind = kind
  <1> DEFINE r == NewRequest
             m == [of |-> r, role |-> "user", kind |-> kind, status |-> "none", task |-> FALSE]
             reply == [m EXCEPT !.role = "assistant", !.status = "loading"]
             list == shown \o <<m, reply>>
             n == Len(shown)
  <1>1. r \in Requests /\ net[r].st = "new"
    BY NewRequestType DEF Send
  <1>2. /\ shown' = list
        /\ home' = [home EXCEPT ![r] = s]
        /\ \E st \in IF kind = "video" THEN {"submit"} ELSE {"stream", "reply"} :
             /\ net' = [net EXCEPT ![r] = [st |-> st, to |-> s]]
             /\ sse' = IF st = "stream" THEN {r} ELSE sse
    BY Zenon DEF Send
  <1>3. PICK st \in {"submit", "stream", "reply"} :
             /\ \/ kind = "video" /\ st = "submit"
                \/ kind = "chat" /\ st \in {"stream", "reply"}
             /\ net' = [net EXCEPT ![r] = [st |-> st, to |-> s]]
             /\ sse' = IF st = "stream" THEN {r} ELSE sse
    BY <1>2
  <1>4. m \in Message /\ reply \in Message
    BY <1>1 DEF Message, Statuses
  <1>5. /\ m.of = r /\ m.role = "user" /\ m.status = "none" /\ m.task = FALSE
        /\ reply.of = r /\ reply.role = "assistant" /\ reply.status = "loading"
        /\ reply.task = FALSE /\ reply.kind = kind
    OBVIOUS
  <1> HIDE DEF m, reply, r
  <1>6. n \in Nat /\ shown \in Seq(Message) /\ net \in NetStates /\ home \in [Requests -> Sessions]
    BY DEF TypeInv, TypeOK, NetStates
  <1>7. /\ Len(list) = n + 2 /\ list[n + 1] = m /\ list[n + 2] = reply
        /\ \A i \in 1..n : list[i] = shown[i]
    BY <1>4, <1>6
  <1> HIDE DEF list
  <1>8. /\ net'[r].to = s /\ net'[r].st = st /\ home'[r] = s
        /\ \A x \in Requests : x # r => net'[x] = net[x] /\ home'[x] = home[x]
    BY <1>1, <1>2, <1>3, <1>6 DEF NetStates
  <1>9. /\ Len(shown') = n + 2 /\ shown'[n + 1] = m /\ shown'[n + 2] = reply
        /\ \A i \in 1..n : shown'[i] = shown[i]
    BY <1>2, <1>7
  <1>10. sse' = sse \/ (sse' = {r} /\ net'[r].st = "stream")
    BY <1>3, <1>8
  <1> QED
    BY <1>1, <1>3, <1>5, <1>6, <1>8, <1>9, <1>10

LEMMA SendAttends ==
    ASSUME Inv, AttInv, CapInv', Edit, NEW s \in Sessions, NEW kind \in {"chat", "video"},
           Send(s, kind), loaded /\ active \notin disturbed' => ~Busy
    PROVE  AttInv'
  <1> USE DEF AttInv
  <1> DEFINE n == Len(shown)
  <1>1. PICK r \in Requests :
              /\ net[r].st = "new" /\ net'[r].to = s /\ home'[r] = s
              /\ \A x \in Requests : x # r => net'[x] = net[x] /\ home'[x] = home[x]
              /\ \/ kind = "video" /\ net'[r].st = "submit"
                 \/ kind = "chat" /\ net'[r].st \in {"stream", "reply"}
              /\ sse' = sse \/ (sse' = {r} /\ net'[r].st = "stream")
              /\ n \in Nat /\ Len(shown') = n + 2
              /\ \A i \in 1..n : shown'[i] = shown[i]
              /\ LET m == shown'[n + 1]
                 IN m.of = r /\ m.role = "user" /\ m.status = "none" /\ m.task = FALSE
              /\ LET m == shown'[n + 2]
                 IN /\ m.of = r /\ m.role = "assistant" /\ m.status = "loading" /\ m.task = FALSE
                    /\ m.kind = kind
    BY SendFields DEF Inv
  <1>2. page = "up" /\ page' = "up"
    BY DEF Edit
  <1>3. \A i \in 1..Len(shown') : i \in 1..n \/ i = n + 1 \/ i = n + 2
    BY <1>1
  <1> HIDE DEF n
  <1>4. SubmitHome' /\ SseInv'
    <2>1. sse \subseteq Requests
      BY DEF Inv, TypeInv, TypeOK
    <2>2. SubmitHome'
      BY <1>1 DEF SubmitHome
    <2> QED
      BY <1>1, <1>2, <2>1, <2>2 DEF SseInv
  <1>5. UserQuiet(shown')
    BY <1>1, <1>3 DEF UserQuiet, AllInv, Generating, n
  <1>6. /\ \A x \in Requests : net[x].st \in Done => net'[x].st \in Done
        /\ \A x \in Requests : net[x].st = "submit" => net'[x].st = "submit"
        /\ \A x \in Requests : net'[x].st = "poll" => net[x].st = "poll"
    BY <1>1 DEF Done
  <1>7. \A i \in 1..Len(shown') : shown'[i].task => TaskIn(shown'[i].of, shown)
    BY <1>1, <1>3 DEF TaskIn, n
  <1>8. \A i \in 1..Len(shown') :
          shown'[i].role = "assistant" =>
              \/ net[shown'[i].of].st = "new"
              \/ \E j \in 1..Len(shown) :
                   /\ shown[j].of = shown'[i].of /\ shown[j].role = "assistant"
                   /\ shown[j].task => shown'[i].task
    BY <1>1, <1>3 DEF n
  <1>9. ASSUME loaded, active \notin disturbed', NEW i \in 1..Len(shown'), Generating(shown'[i])
        PROVE  Cared(i)'
    <2>1. i \notin 1..n
      <3>1. \A m \in ToSet(shown) : ~Generating(m)
        BY <1>9 DEF Busy
      <3> QED
        BY <1>1, <1>9, <3>1, QuietPositions DEF Inv, n
    <2>2. i # n + 1
      BY <1>1, <1>9 DEF Generating
    <2>3. i = n + 2 /\ i = Len(shown')
      BY <1>1, <1>3, <2>1, <2>2
    <2>4. net'[r].st = "stream" => Streaming'
      BY DEF Streaming
    <2> QED
      BY <1>1, <2>3, <2>4 DEF Cared
  <1>10. Attentive({}, {})
    BY <1>4, <1>5, <1>6, <1>7, <1>8, <1>9 DEF Attentive
  <1> QED
    BY <1>10, EditAttends

LEMMA UserSendsAttends ==
    ASSUME Inv, AttInv, CapInv', NEW kind \in {"chat", "video"}, UserSends(kind)
    PROVE  AttInv'
  <1>1. Edit
    BY UserSendsEdits DEF Inv
  <1>2. active \in Sessions /\ Send(active, kind) /\ ~Busy
    BY DEF UserSends, Inv, TypeInv, TypeOK
  <1> QED
    BY <1>1, <1>2, SendAttends

LEMMA ResendAttends ==
    ASSUME Inv, AttInv, CapInv', Resend
    PROVE  AttInv'
  <1>1. Edit
    BY ResendEdits DEF Inv
  <1>2. PICK p : p = Head(resend)
    OBVIOUS
  <1>3. p \in [to : Sessions, kind : {"chat", "video"}]
    BY <1>2, HeadTail DEF Resend, Inv, TypeInv, TypeOK
  <1>4. p.to \in Sessions /\ p.kind \in {"chat", "video"}
    BY <1>3
  <1>5. Send(p.to, p.kind) /\ Disturb(IF Busy \/ ~loaded \/ p.to # active THEN {active} ELSE {})
    BY <1>2 DEF Resend
  <1>6. active \notin disturbed' => ~Busy
    BY <1>5 DEF Disturb
  <1> QED
    BY <1>1, <1>4, <1>5, <1>6, SendAttends

----------------------------------------------------------------------------
(* Removing messages. *)

\* Messages are taken off the list, and none of those that stay is generated.
LEMMA RemovesAttends ==
    ASSUME Inv, AttInv, CapInv', Edit, UNCHANGED <<net, home, sse>>,
           \A i \in 1..Len(shown') :
              ~Generating(shown'[i]) /\ \E j \in 1..Len(shown) : shown'[i] = shown[j]
    PROVE  AttInv'
  <1>1. page' = page
    BY DEF Edit
  <1>2. SubmitHome' /\ SseInv'
    BY <1>1 DEF AttInv, SubmitHome, SseInv
  <1>3. UserQuiet(shown')
    BY DEF UserQuiet
  <1>4. \A i \in 1..Len(shown') : shown'[i].task => TaskIn(shown'[i].of, shown)
    BY DEF TaskIn
  <1>5. Attentive({}, {})
    BY <1>2, <1>3, <1>4 DEF Attentive
  <1> QED
    BY <1>5, EditAttends

LEMMA ClearMessagesAttends ==
    ASSUME Inv, AttInv, CapInv', ClearMessages
    PROVE  AttInv'
  <1>1. Edit
    BY ClearMessagesEdits DEF Inv
  <1>2. UNCHANGED <<net, home, sse>> /\ Len(shown') = 0
    BY DEF ClearMessages, UserRemoves
  <1> QED
    BY <1>1, <1>2, RemovesAttends

\* The messages of a part of a list are messages of the list.
LEMMA SubSeqPositions ==
    ASSUME NEW list \in Seq(Message), NEW m \in Int, NEW n \in Int, 1 <= m, n <= Len(list),
           NEW sub, sub = SubSeq(list, m, n)
    PROVE  sub \in Seq(Message) /\ \A i \in 1..Len(sub) : \E j \in 1..Len(list) : sub[i] = list[j]
  <1>1. sub \in Seq(Message)
    OBVIOUS
  <1>2. \A i \in 1..Len(sub) : sub[i] = list[m + i - 1] /\ m + i - 1 \in 1..Len(list)
    OBVIOUS
  <1> QED
    BY <1>1, <1>2

\* A message of a concatenation is a message of one of the lists.
LEMMA ConcatPositions ==
    ASSUME NEW a \in Seq(Message), NEW b \in Seq(Message), NEW c, c = a \o b
    PROVE  \A i \in 1..Len(c) :
              \/ \E j \in 1..Len(a) : c[i] = a[j]
              \/ \E j \in 1..Len(b) : c[i] = b[j]
  <1>1. ASSUME NEW i \in 1..Len(c)
        PROVE  \/ i \in 1..Len(a) /\ c[i] = a[i]
               \/ i - Len(a) \in 1..Len(b) /\ c[i] = b[i - Len(a)]
    OBVIOUS
  <1> QED
    BY <1>1

LEMMA DeleteMessageAttends ==
    ASSUME Inv, AttInv, CapInv', NEW i \in DOMAIN shown, DeleteMessage(i)
    PROVE  AttInv'
  <1>1. Edit
    BY DeleteMessageEdits DEF Inv
  <1>2. i \in 1..Len(shown) /\ Len(shown) \in Nat /\ shown \in Seq(Message)
    BY DEF Inv, TypeInv, TypeOK
  <1>3. PICK n \in {1, 2} : UserRemoves(SubSeq(shown, 1, i - 1) \o SubSeq(shown, i + n, Len(shown)))
    BY Zenon DEF DeleteMessage
  <1> DEFINE head == SubSeq(shown, 1, i - 1)
             tail == SubSeq(shown, i + n, Len(shown))
  <1>4. UNCHANGED <<net, home, sse>> /\ shown' = head \o tail
    BY <1>3 DEF UserRemoves
  <1>5. /\ head \in Seq(Message) /\ tail \in Seq(Message)
        /\ \A k \in 1..Len(head) : \E j \in 1..Len(shown) : head[k] = shown[j]
        /\ \A k \in 1..Len(tail) : \E j \in 1..Len(shown) : tail[k] = shown[j]
    <2>1. 1 \in Int /\ i - 1 \in Int /\ i + n \in Int /\ 1 <= i + n /\ i - 1 <= Len(shown)
          /\ Len(shown) \in Int /\ 1 <= 1 /\ Len(shown) <= Len(shown)
      BY <1>2
    <2>2. head = SubSeq(shown, 1, i - 1) /\ tail = SubSeq(shown, i + n, Len(shown))
      OBVIOUS
    <2> HIDE DEF head, tail
    <2>3. head \in Seq(Message) /\ \A k \in 1..Len(head) : \E j \in 1..Len(shown) : head[k] = shown[j]
      <3>1. PICK hi \in Int : hi = i - 1
        BY <2>1
      <3>2. hi <= Len(shown) /\ head = SubSeq(shown, 1, hi)
        BY <2>1, <2>2, <3>1
      <3> QED
        BY <1>2, <3>2, SubSeqPositions
    <2>4. tail \in Seq(Message) /\ \A k \in 1..Len(tail) : \E j \in 1..Len(shown) : tail[k] = shown[j]
      <3>1. PICK lo \in Int : lo = i + n
        BY <2>1
      <3>2. 1 <= lo /\ tail = SubSeq(shown, lo, Len(shown))
        BY <2>1, <2>2, <3>1
      <3> QED
        BY <1>2, <3>2, SubSeqPositions
    <2> QED
      BY <2>3, <2>4
  <1> HIDE DEF head, tail
  <1>6. \A k \in 1..Len(shown') : \E j \in 1..Len(shown) : shown'[k] = shown[j]
    <2>1. PICK c : c = shown' /\ c = head \o tail
      BY <1>4
    <2>2. \A k \in 1..Len(c) :
              \/ \E j \in 1..Len(head) : c[k] = head[j]
              \/ \E j \in 1..Len(tail) : c[k] = tail[j]
      BY <1>5, <2>1, ConcatPositions
    <2> QED
      BY <1>5, <2>1, <2>2
  <1>7. \A j \in 1..Len(shown) : ~Generating(shown[j])
    BY QuietPositions DEF DeleteMessage, Quiet, Inv
  <1> QED
    BY <1>1, <1>4, <1>6, <1>7, RemovesAttends

LEMMA ResetMessageAttends ==
    ASSUME Inv, AttInv, CapInv', NEW i \in DOMAIN shown, ResetMessage(i)
    PROVE  AttInv'
  <1>1. Edit
    BY ResetMessageEdits DEF Inv
  <1>2. i \in 1..Len(shown) /\ Len(shown) \in Nat /\ shown \in Seq(Message)
    BY DEF Inv, TypeInv, TypeOK
  <1>3. PICK q \in 1..i : shown' = SubSeq(shown, 1, q - 1)
    BY Zenon DEF ResetMessage
  <1>4. UNCHANGED <<net, home, sse>>
    BY DEF ResetMessage
  <1>5. \A k \in 1..Len(shown') : \E j \in 1..Len(shown) : shown'[k] = shown[j]
    <2>1. 1 \in Int /\ q - 1 \in Int /\ q - 1 <= Len(shown)
      BY <1>2
    <2> QED
      BY <1>2, <1>3, <2>1, SubSeqPositions
  <1>6. \A j \in 1..Len(shown) : ~Generating(shown[j])
    BY QuietPositions DEF ResetMessage, Quiet, Inv
  <1> QED
    BY <1>1, <1>4, <1>5, <1>6, RemovesAttends

----------------------------------------------------------------------------
(* Steps that do not change a message, or only when they show it. *)

\* The empty list, or one that is stored, about to be, read or shown.
OldList(list) ==
    \/ list = <<>>
    \/ \E s \in Sessions : list = stored[s]
    \/ \E i \in 1..Len(timers) : list = timers[i].list
    \/ fetch # <<>> /\ list = fetch[1]
    \/ list = shown

\* No task becomes known, and the submissions that end are those of sessions
\* that are disturbed by it.
Calm ==
    /\ disturbed \subseteq disturbed'
    /\ \A x \in Requests : net[x].st \in Done => net'[x].st \in Done
    /\ \A x \in Requests : HasTask(x)' => HasTask(x)
    /\ \A x \in Requests : net[x].st = "submit" => net'[x].st = "submit" \/ home[x] \in disturbed'

\* What is known of any list of a state.
LEMMA OldListFacts ==
    ASSUME TypeInv, AllInv, NEW list, OldList(list)
    PROVE  /\ list \in Seq(Message) /\ UserQuiet(list) /\ TaskNet(list)
           /\ \A x : TaskIn(x, list) => HasTask(x)
  <1>1. CASE list = <<>>
    <2>1. list \in Seq(Message) /\ 1..Len(list) = {}
      BY <1>1
    <2> QED
      BY <2>1 DEF UserQuiet, TaskNet, TaskIn
  <1>2. CASE \E s \in Sessions : list = stored[s]
    BY <1>2 DEF TypeInv, TypeOK, AllInv, HasTask
  <1>3. CASE \E i \in 1..Len(timers) : list = timers[i].list
    BY <1>3, TimersType DEF TypeInv, AllInv, HasTask
  <1>4. CASE fetch # <<>> /\ list = fetch[1]
    BY <1>4, HeadTail DEF TypeInv, TypeOK, AllInv, HasTask
  <1>5. CASE list = shown
    BY <1>5 DEF TypeInv, TypeOK, AllInv, HasTask
  <1> QED
    BY <1>1, <1>2, <1>3, <1>4, <1>5 DEF OldList

\* The lists of the next state are those of this one, or shown with tasks that
\* were known.
LEMMA OldLists ==
    ASSUME TypeInv, AllInv,
           \A x \in Requests : net[x].st \in Done => net'[x].st \in Done,
           \A x \in Requests : net'[x].st = "poll" => HasTask(x),
           \A s \in Sessions : OldList(stored'[s]),
           \A i \in 1..Len(timers') : OldList(timers'[i].list) \/ timers'[i].list = shown',
           fetch' # <<>> => OldList(fetch'[1]),
           UserQuiet(shown'),
           \A i \in 1..Len(shown') : shown'[i].task => shown'[i].of \in Requests /\ HasTask(shown'[i].of)
    PROVE  AllInv' /\ \A x \in Requests : HasTask(x)' => HasTask(x)
  <1>1. ASSUME NEW list, OldList(list)
        PROVE  /\ UserQuiet(list)
               /\ \A i \in 1..Len(list) : list[i].task => net'[list[i].of].st \in Done
    <2>1. list \in Seq(Message) /\ UserQuiet(list) /\ TaskNet(list)
      BY <1>1, OldListFacts
    <2>2. \A i \in 1..Len(list) : list[i].of \in Requests
      BY <2>1, MessageFields
    <2> QED
      BY <2>1, <2>2 DEF TaskNet
  <1>2. /\ UserQuiet(shown')
        /\ \A i \in 1..Len(shown') : shown'[i].task => net'[shown'[i].of].st \in Done
    BY KnownTask
  <1>3. ASSUME NEW k \in 1..Len(timers')
        PROVE  /\ UserQuiet(timers'[k].list)
               /\ \A i \in 1..Len(timers'[k].list) :
                     timers'[k].list[i].task => net'[timers'[k].list[i].of].st \in Done
    BY <1>1, <1>2
  <1>4. AllInv'
    BY <1>1, <1>2, <1>3, Zenon DEF AllInv, TaskNet, UserQuiet
  <1>5. ASSUME NEW x \in Requests, HasTask(x)'
        PROVE  HasTask(x)
    <2>1. \A list : OldList(list) /\ TaskIn(x, list) => HasTask(x)
      BY OldListFacts
    <2>2. TaskIn(x, shown') => HasTask(x)
      BY DEF TaskIn
    <2>3. \/ net'[x].st = "poll"
          \/ \E s \in Sessions : TaskIn(x, stored'[s])
          \/ \E i \in 1..Len(timers') : TaskIn(x, timers'[i].list)
          \/ fetch' # <<>> /\ TaskIn(x, fetch'[1])
          \/ TaskIn(x, shown')
      BY <1>5 DEF HasTask, TaskIn
    <2> QED
      BY <2>1, <2>2, <2>3
  <1> QED
    BY <1>4, <1>5

\* A list of a session that such a step does not disturb.
LEMMA ListStays ==
    ASSUME Calm, NEW list \in Seq(Message), NEW s, s \notin disturbed',
           OwnIn(s, list), Loadable(list), Tasked(list)
    PROVE  Loadable(list)' /\ Tasked(list)'
  <1> SUFFICES ASSUME NEW i \in 1..Len(list)
               PROVE  /\ Generating(list[i]) =>
                            \/ i = Len(list) /\ list[i].kind = "chat" /\ list[i].status # "polling"
                            \/ list[i].task
                            \/ net'[list[i].of].st = "submit"
                      /\ list[i].role = "assistant" /\ HasTask(list[i].of)' => list[i].task
    BY Zenon DEF Loadable, Tasked
  <1>1. list[i].of \in Requests
    BY MessageFields
  <1>2. home[list[i].of] = s
    BY OwnPosition
  <1>3. net[list[i].of].st = "submit" => net'[list[i].of].st = "submit"
    BY <1>1, <1>2 DEF Calm
  <1>4. HasTask(list[i].of)' => HasTask(list[i].of)
    BY <1>1 DEF Calm
  <1> QED
    BY <1>3, <1>4 DEF Loadable, Tasked

\* The stored list of a session for which no save is scheduled.
LEMMA StoredStays ==
    ASSUME Inv, AttInv, Calm, NEW s \in Sessions, s \notin disturbed', stored'[s] = stored[s],
           \A i \in 1..Len(timers) : timers[i].to # s
    PROVE  Loadable(stored[s])' /\ Tasked(stored[s])'
  <1>1. PICK list \in Seq(Message) : list = stored[s]
    BY DEF Inv, TypeInv, TypeOK
  <1>2. s \in Sessions \ disturbed
    BY DEF Calm
  <1>3. Loadable(list) /\ Tasked(list) /\ OwnIn(s, list)
    BY <1>1, <1>2 DEF AttInv, FinalInv, Inv, ListInv, OwnInv
  <1>4. Loadable(list)' /\ Tasked(list)'
    BY <1>3, ListStays
  <1>5. list = stored'[s]
    BY <1>1
  <1> QED
    BY <1>4, <1>5 DEF Loadable, Tasked, HasTask

\* What a save that is the last of its session will store.
LEMMA SaveStays ==
    ASSUME Inv, AttInv, Calm, NEW i \in 1..Len(timers), timers[i].to \notin disturbed', LastSave(i),
           NEW list, list = timers[i].list
    PROVE  Loadable(list)' /\ Tasked(list)'
  <1>1. list \in Seq(Message)
    BY TimersType DEF Inv, TypeInv
  <1>2. timers[i].to \notin disturbed
    BY DEF Calm
  <1>3. Loadable(list) /\ Tasked(list) /\ OwnIn(timers[i].to, list)
    BY <1>2 DEF AttInv, FinalInv, Inv, ListInv, OwnInv
  <1> QED
    BY <1>1, <1>3, ListStays

\* What was read of the active session.
LEMMA FetchStays ==
    ASSUME Inv, AttInv, Calm, fetch # <<>>, active \notin disturbed', UNCHANGED <<fetch, active>>
    PROVE  Loadable(fetch[1])' /\ Tasked(fetch[1])'
  <1>1. PICK list \in Seq(Message) : list = fetch[1]
    BY HeadTail DEF Inv, TypeInv, TypeOK
  <1>2. active \notin disturbed
    BY DEF Calm
  <1>3. Loadable(list) /\ Tasked(list) /\ OwnIn(active, list)
    BY <1>1, <1>2 DEF AttInv, FinalInv, Inv, ListInv, OwnInv
  <1>4. Loadable(list)' /\ Tasked(list)'
    BY <1>3, ListStays
  <1>5. list = fetch'[1]
    BY <1>1
  <1> QED
    BY <1>4, <1>5 DEF Loadable, Tasked, HasTask

\* What is shown stays, and so does the work on it.
LEMMA ShownStays ==
    ASSUME Inv, AttInv, Calm, UNCHANGED <<page, active, loaded, shown, net, abandoned>>
    PROVE  ShownInv'
  <1> SUFFICES ASSUME page = "up", loaded, active \notin disturbed'
               PROVE  /\ \A i \in 1..Len(shown) :
                            shown[i].role = "assistant" /\ HasTask(shown[i].of)' => shown[i].task
                      /\ \A i \in 1..Len(shown) : Generating(shown[i]) => Cared(i)'
    BY Zenon DEF ShownInv, Tasked
  <1>1. active \notin disturbed
    BY DEF Calm
  <1>2. Tasked(shown) /\ \A i \in 1..Len(shown) : Generating(shown[i]) => Cared(i)
    BY <1>1 DEF AttInv, ShownInv
  <1>3. ASSUME NEW i \in 1..Len(shown), shown[i].role = "assistant", HasTask(shown[i].of)'
        PROVE  shown[i].task
    <2>1. PICK x \in Requests : x = shown[i].of
      BY MessageFields DEF Inv, TypeInv, TypeOK
    <2>2. HasTask(x)'
      BY <1>3, <2>1 DEF HasTask
    <2>3. HasTask(shown[i].of)
      BY <2>1, <2>2 DEF Calm
    <2> QED
      BY <1>2, <1>3, <2>3 DEF Tasked
  <1>4. ASSUME NEW i \in 1..Len(shown), Cared(i) PROVE Cared(i)'
    BY <1>4 DEF Cared, Streaming
  <1> QED
    BY <1>2, <1>3, <1>4

\* A session is opened, or none.
LEMMA OpenAttends ==
    ASSUME Inv, AttInv,
           \/ \E s \in Sessions : Open(s) \/ Enter(s)
           \/ UNCHANGED <<active, loaded, fetch, disturbed>>,
           UNCHANGED <<page, stored, shown, timers, net, home, sse, abandoned>>
    PROVE  AttInv'
  <1> USE DEF AttInv
  <1>1. TypeInv /\ stored \in [Sessions -> Seq(Message)]
    BY DEF Inv, TypeInv, TypeOK
  <1>2. \/ UNCHANGED <<active, loaded, fetch, disturbed>>
        \/ \E s \in Sessions :
              /\ active' = s /\ loaded' = FALSE /\ fetch' = <<stored[s]>>
              /\ disturbed \subseteq disturbed' /\ (Captured(active) => active \in disturbed')
    BY DEF Open, Enter, Disturb
  <1>3. disturbed \subseteq disturbed' /\ (fetch' # <<>> => OldList(fetch'[1]))
    BY <1>2 DEF OldList
  <1>4. AllInv' /\ \A x \in Requests : HasTask(x)' => HasTask(x)
    <2>1. \A x \in Requests : net'[x].st = "poll" => HasTask(x)
      BY DEF HasTask
    <2>2. \A s \in Sessions : OldList(stored'[s])
      BY DEF OldList
    <2>3. \A i \in 1..Len(timers') : OldList(timers'[i].list)
      BY DEF OldList
    <2>4. UserQuiet(shown')
      BY DEF AllInv
    <2>5. \A i \in 1..Len(shown') : shown'[i].task => shown'[i].of \in Requests /\ HasTask(shown'[i].of)
      <3>1. \A i \in 1..Len(shown) : shown[i].of \in Requests
        BY MessageFields DEF Inv, TypeInv, TypeOK
      <3> QED
        BY <3>1 DEF HasTask, TaskIn
    <2> QED
      BY <1>1, <1>3, <2>1, <2>2, <2>3, <2>4, <2>5, OldLists
  <1>5. Calm
    BY <1>3, <1>4 DEF Calm
  <1>6. ASSUME NEW s \in Sessions, s \notin disturbed', \A i \in 1..Len(timers) : timers[i].to # s
        PROVE  Loadable(stored[s])' /\ Tasked(stored[s])'
    BY <1>5, <1>6, StoredStays
  <1>7. ASSUME NEW i \in 1..Len(timers), timers[i].to \notin disturbed', LastSave(i)
        PROVE  Loadable(timers[i].list)' /\ Tasked(timers[i].list)'
    <2>1. PICK list : list = timers[i].list /\ list = timers'[i].list
      OBVIOUS
    <2>2. Loadable(list)' /\ Tasked(list)'
      BY <1>5, <1>7, <2>1, SaveStays
    <2> QED
      BY <2>1, <2>2 DEF Loadable, Tasked, HasTask
  <1>8. ASSUME fetch' # <<>>, active' \notin disturbed'
        PROVE  Loadable(fetch[1])' /\ Tasked(fetch[1])'
    <2>1. CASE UNCHANGED <<active, loaded, fetch, disturbed>>
      BY <1>5, <1>8, <2>1, FetchStays
    <2>2. CASE ~UNCHANGED <<active, loaded, fetch, disturbed>>
      <3>1. PICK s \in Sessions :
               /\ active' = s /\ fetch' = <<stored[s]>>
               /\ Captured(active) => active \in disturbed'
        BY <1>2, <2>2
      <3>2. ASSUME NEW i \in 1..Len(timers), timers[i].to = s PROVE FALSE
        <4>1. Captured(s) /\ s \notin disturbed
          BY <1>1, <1>3, <1>8, <3>1, <3>2, CapturedNow
        <4> QED
          BY <1>8, <3>1, <4>1 DEF Inv, CapInv
      <3>3. Loadable(stored[s])' /\ Tasked(stored[s])'
        BY <1>6, <1>8, <3>1, <3>2
      <3>4. fetch'[1] = stored'[s]
        BY <3>1
      <3> QED
        BY <3>3, <3>4 DEF Loadable, Tasked, HasTask
    <2> QED
      BY <2>1, <2>2
  <1>9. FinalInv'
    BY <1>6, <1>7, <1>8, Zenon DEF FinalInv, LastSave
  <1>10. ShownInv'
    <2>1. CASE UNCHANGED <<active, loaded, fetch, disturbed>>
      BY <1>5, <2>1, ShownStays
    <2>2. CASE ~UNCHANGED <<active, loaded, fetch, disturbed>>
      BY <1>2, <2>2 DEF ShownInv
    <2> QED
      BY <2>1, <2>2
  <1>11. SubmitHome' /\ SseInv'
    BY DEF SubmitHome, SseInv
  <1> QED
    BY <1>4, <1>9, <1>10, <1>11

LEMMA SessionAttends ==
    ASSUME Inv, AttInv,
           \/ \E s \in Sessions : SwitchSession(s)
           \/ CreateSession \/ ChangeLanguage \/ FinishDelete
    PROVE  AttInv'
  <1>1. UNCHANGED <<page, stored, shown, timers, net, home, sse, abandoned>>
    BY DEF SwitchSession, CreateSession, ChangeLanguage, FinishDelete
  <1>2. CASE \E s \in Sessions : SwitchSession(s)
    BY <1>1, <1>2, OpenAttends DEF SwitchSession
  <1>3. CASE CreateSession
    <2>1. NewSession \in Sessions /\ Open(NewSession)
      BY <1>3, NewSessionType DEF CreateSession, Inv, TypeInv
    <2> QED
      BY <1>1, <2>1, OpenAttends
  <1>4. CASE FinishDelete
    BY <1>1, <1>4, FinishDeleteTypes, OpenAttends DEF Inv
  <1>5. CASE ChangeLanguage
    <2>1. active \in Sessions /\ Enter(active)
      BY <1>5 DEF ChangeLanguage, Inv, TypeInv, TypeOK
    <2> QED
      BY <1>1, <2>1, OpenAttends
  <1> QED
    BY <1>2, <1>3, <1>4, <1>5

LEMMA DeleteSessionAttends ==
    ASSUME Inv, AttInv, NEW s \in Sessions, DeleteSession(s)
    PROVE  AttInv'
  <1> USE DEF AttInv
  <1>1. /\ stored' = [stored EXCEPT ![s] = <<>>] /\ TypeInv
        /\ UNCHANGED <<page, active, shown, loaded, fetch, timers, net, home, sse, disturbed,
                       abandoned>>
    BY DEF DeleteSession, Inv
  <1>2. stored'[s] = <<>> /\ \A x \in Sessions : x # s => stored'[x] = stored[x]
    BY <1>1 DEF TypeInv, TypeOK
  <1>3. AllInv' /\ \A x \in Requests : HasTask(x)' => HasTask(x)
    <2>1. \A x \in Requests : net'[x].st = "poll" => HasTask(x)
      BY <1>1 DEF HasTask
    <2>2. \A x \in Sessions : OldList(stored'[x])
      BY <1>2 DEF OldList
    <2>3. \A i \in 1..Len(timers') : OldList(timers'[i].list)
      BY <1>1 DEF OldList
    <2>4. UserQuiet(shown') /\ (fetch' # <<>> => OldList(fetch'[1]))
      BY <1>1 DEF AllInv, OldList
    <2>5. \A i \in 1..Len(shown') : shown'[i].task => shown'[i].of \in Requests /\ HasTask(shown'[i].of)
      <3>1. \A i \in 1..Len(shown) : shown[i].of \in Requests
        BY MessageFields DEF Inv, TypeInv, TypeOK
      <3> QED
        BY <1>1, <3>1 DEF HasTask, TaskIn
    <2> QED
      BY <1>1, <2>1, <2>2, <2>3, <2>4, <2>5, OldLists
  <1>4. Calm
    BY <1>1, <1>3 DEF Calm
  <1>5. ASSUME NEW x \in Sessions, x \notin disturbed', \A i \in 1..Len(timers) : timers[i].to # x
        PROVE  Loadable(stored[x])' /\ Tasked(stored[x])'
    <2>1. CASE x = s
      <3>1. 1..Len(stored'[x]) = {}
        BY <1>2, <2>1
      <3> QED
        BY <3>1 DEF Loadable, Tasked
    <2>2. CASE x # s
      BY <1>2, <1>4, <1>5, <2>2, StoredStays
    <2> QED
      BY <2>1, <2>2
  <1>6. ASSUME NEW i \in 1..Len(timers), timers[i].to \notin disturbed', LastSave(i)
        PROVE  Loadable(timers[i].list)' /\ Tasked(timers[i].list)'
    <2>1. PICK list : list = timers[i].list /\ list = timers'[i].list
      BY <1>1
    <2>2. Loadable(list)' /\ Tasked(list)'
      BY <1>4, <1>6, <2>1, SaveStays
    <2> QED
      BY <2>1, <2>2 DEF Loadable, Tasked, HasTask
  <1>7. fetch' # <<>> /\ active' \notin disturbed' => Loadable(fetch[1])' /\ Tasked(fetch[1])'
    BY <1>1, <1>4, FetchStays
  <1>8. FinalInv'
    BY <1>1, <1>5, <1>6, <1>7, Zenon DEF FinalInv, LastSave
  <1>9. ShownInv'
    BY <1>1, <1>4, ShownStays
  <1>10. SubmitHome' /\ SseInv'
    BY <1>1 DEF SubmitHome, SseInv
  <1> QED
    BY <1>3, <1>8, <1>9, <1>10

LEMMA RunTimerAttends ==
    ASSUME Inv, AttInv, RunTimer
    PROVE  AttInv'
  <1> USE DEF AttInv
  <1>1. /\ UNCHANGED <<page, active, shown, loaded, fetch, net, home, sse, disturbed, abandoned>>
        /\ TypeInv
    BY DEF RunTimer, Inv
  <1>2. /\ timers[1].to \in Sessions /\ 1 \in 1..Len(timers) /\ Len(timers) \in Nat
        /\ Len(timers') = Len(timers) - 1
        /\ \A i \in 1..Len(timers') : timers'[i] = timers[i + 1] /\ i + 1 \in 1..Len(timers)
    BY <1>1, RunTimerTypes, TimersType DEF TypeInv
  <1>3. timers[1].to \notin disturbed => loaded
    BY <1>1, <1>2, CapturedNow DEF Inv, CapInv
  <1>4. /\ loaded => stored'[timers[1].to] = timers[1].list
        /\ \A x \in Sessions : x # timers[1].to \/ ~loaded => stored'[x] = stored[x]
    <2>1. IF loaded THEN stored' = [stored EXCEPT ![timers[1].to] = timers[1].list]
                    ELSE stored' = stored
      BY <1>1, RunTimerTypes, Zenon DEF RunTimer, SaveTo
    <2> QED
      BY <1>2, <2>1 DEF Inv, TypeInv, TypeOK
  <1>5. AllInv' /\ \A x \in Requests : HasTask(x)' => HasTask(x)
    <2>1. \A x \in Requests : net'[x].st = "poll" => HasTask(x)
      BY <1>1 DEF HasTask
    <2>2. \A x \in Sessions : OldList(stored'[x])
      BY <1>2, <1>4 DEF OldList
    <2>3. \A i \in 1..Len(timers') : OldList(timers'[i].list)
      BY <1>2 DEF OldList
    <2>4. UserQuiet(shown') /\ (fetch' # <<>> => OldList(fetch'[1]))
      BY <1>1 DEF AllInv, OldList
    <2>5. \A i \in 1..Len(shown') : shown'[i].task => shown'[i].of \in Requests /\ HasTask(shown'[i].of)
      <3>1. \A i \in 1..Len(shown) : shown[i].of \in Requests
        BY MessageFields DEF Inv, TypeInv, TypeOK
      <3> QED
        BY <1>1, <3>1 DEF HasTask, TaskIn
    <2> QED
      BY <1>1, <2>1, <2>2, <2>3, <2>4, <2>5, OldLists
  <1>6. Calm
    BY <1>1, <1>5 DEF Calm
  <1>7. ASSUME NEW x \in Sessions, x \notin disturbed', \A i \in 1..Len(timers') : timers'[i].to # x
        PROVE  Loadable(stored[x])' /\ Tasked(stored[x])'
    <2>1. ASSUME NEW i \in 1..Len(timers), i # 1 PROVE timers[i].to # x
      <3>1. i - 1 \in 1..Len(timers') /\ i - 1 + 1 = i
        BY <1>2, <2>1
      <3> QED
        BY <1>2, <1>7, <3>1
    <2>2. CASE x = timers[1].to
      <3>1. loaded /\ LastSave(1) /\ timers[1].to \notin disturbed'
        BY <1>1, <1>2, <1>3, <1>7, <2>1, <2>2 DEF LastSave
      <3>2. PICK list : list = timers[1].list /\ list = stored'[x]
        BY <1>4, <2>2, <3>1
      <3>3. Loadable(list)' /\ Tasked(list)'
        BY <1>2, <1>6, <3>1, <3>2, SaveStays
      <3> QED
        BY <3>2, <3>3 DEF Loadable, Tasked, HasTask
    <2>3. CASE x # timers[1].to
      BY <1>4, <1>6, <1>7, <2>1, <2>3, StoredStays
    <2> QED
      BY <2>2, <2>3
  <1>8. ASSUME NEW k \in 1..Len(timers'), timers'[k].to \notin disturbed',
               \A j \in 1..Len(timers') : k < j => timers'[j].to # timers'[k].to
        PROVE  Loadable(timers[k].list)' /\ Tasked(timers[k].list)'
    <2>1. timers'[k] = timers[k + 1] /\ k + 1 \in 1..Len(timers)
      BY <1>2
    <2>2. LastSave(k + 1)
      <3> SUFFICES ASSUME NEW j \in 1..Len(timers), k + 1 < j PROVE timers[j].to # timers[k + 1].to
        BY DEF LastSave
      <3>1. j - 1 \in 1..Len(timers') /\ k < j - 1 /\ j - 1 + 1 = j
        BY <1>2
      <3> QED
        BY <1>2, <1>8, <2>1, <3>1
    <2>3. PICK list : list = timers[k + 1].list /\ list = timers'[k].list
      BY <2>1
    <2>4. Loadable(list)' /\ Tasked(list)'
      BY <1>6, <1>8, <2>1, <2>2, <2>3, SaveStays
    <2> QED
      BY <2>3, <2>4 DEF Loadable, Tasked, HasTask
  <1>9. fetch' # <<>> /\ active' \notin disturbed' => Loadable(fetch[1])' /\ Tasked(fetch[1])'
    BY <1>1, <1>6, FetchStays
  <1>10. FinalInv'
    BY <1>7, <1>8, <1>9, Zenon DEF FinalInv, LastSave
  <1>11. ShownInv'
    BY <1>1, <1>6, ShownStays
  <1>12. SubmitHome' /\ SseInv'
    BY <1>1 DEF SubmitHome, SseInv
  <1> QED
    BY <1>5, <1>10, <1>11, <1>12

\* The page is gone: the user reloads it, or it crashes.
LEMMA GoneAttends ==
    ASSUME Inv, AttInv, net' = Forgotten, Disturb(Severed), shown' = <<>>,
           UNCHANGED <<stored, home>>, timers' = <<>> \/ timers' = timers,
           \/ fetch' = <<>>
           \/ \E s \in Sessions : active' = s /\ fetch' = <<stored[s]>>,
           page' # "up" \/ (loaded' = FALSE /\ sse' = {})
    PROVE  AttInv'
  <1> USE DEF AttInv
  <1>1. TypeInv /\ disturbed' = disturbed \cup Severed
    BY DEF Inv, Disturb
  <1>2. \A i \in 1..Len(timers) : timers[i].to \in disturbed'
    <2>1. DOMAIN timers = 1..Len(timers)
      BY <1>1, TimersType DEF TypeInv
    <2>2. \A i \in 1..Len(timers) : timers[i] \in ToSet(timers)
      BY <2>1 DEF ToSet
    <2> QED
      BY <1>1, <2>2 DEF Severed
  <1>3. \A x \in Requests : net[x].st = "submit" => home[x] \in disturbed'
    BY <1>1 DEF Severed, SubmitHome
  <1>4. \A x \in Requests :
           IF net[x].st \in {"stream", "reply", "submit", "poll"}
           THEN net'[x].st = "lost" ELSE net'[x] = net[x]
    BY DEF Forgotten, Ended, Work
  <1>5. /\ \A x \in Requests : net[x].st \in Done => net'[x].st \in Done
        /\ \A x \in Requests : net'[x].st \notin {"poll", "submit"}
    BY <1>4 DEF Done
  <1>6. 1..Len(shown') = {} /\ (timers' = <<>> => 1..Len(timers') = {})
    OBVIOUS
  <1>7. AllInv' /\ \A x \in Requests : HasTask(x)' => HasTask(x)
    <2>1. \A x \in Sessions : OldList(stored'[x])
      BY DEF OldList
    <2>2. \A i \in 1..Len(timers') : OldList(timers'[i].list)
      BY <1>6 DEF OldList
    <2>3. fetch' # <<>> => OldList(fetch'[1])
      BY DEF OldList
    <2>4. UserQuiet(shown')
      BY <1>6 DEF UserQuiet
    <2> QED
      BY <1>1, <1>5, <1>6, <2>1, <2>2, <2>3, <2>4, OldLists
  <1>8. Calm
    BY <1>1, <1>3, <1>5, <1>7 DEF Calm
  <1>9. ASSUME NEW x \in Sessions, x \notin disturbed'
        PROVE  Loadable(stored[x])' /\ Tasked(stored[x])'
    BY <1>2, <1>8, <1>9, StoredStays
  <1>10. \A i \in 1..Len(timers') : timers'[i].to \in disturbed'
    BY <1>2, <1>6
  <1>11. ASSUME fetch' # <<>>, active' \notin disturbed'
         PROVE  Loadable(fetch[1])' /\ Tasked(fetch[1])'
    <2>1. PICK s \in Sessions : active' = s /\ fetch' = <<stored[s]>>
      BY <1>11
    <2>2. Loadable(stored[s])' /\ Tasked(stored[s])'
      BY <1>9, <1>11, <2>1
    <2>3. fetch'[1] = stored'[s]
      BY <2>1
    <2> QED
      BY <2>2, <2>3 DEF Loadable, Tasked, HasTask
  <1>12. FinalInv'
    BY <1>9, <1>10, <1>11, Zenon DEF FinalInv
  <1>13. ShownInv' /\ SseInv'
    BY DEF ShownInv, SseInv
  <1>14. SubmitHome'
    BY <1>5 DEF SubmitHome
  <1> QED
    BY <1>7, <1>12, <1>13, <1>14

LEMMA ReloadAttends ==
    ASSUME Inv, AttInv, Reload
    PROVE  AttInv'
  <1>1. PICK s \in IF active \in live THEN {active} ELSE IF live # {} THEN live ELSE {NewSession} :
            active' = s /\ fetch' = <<stored[s]>>
    BY Zenon DEF Reload
  <1>2. s \in Sessions
    BY <1>1, NewSessionType DEF Inv, TypeInv, TypeOK, Room
  <1>3. /\ net' = Forgotten /\ Disturb(Severed) /\ shown' = <<>> /\ UNCHANGED <<stored, home>>
        /\ timers' = <<>> /\ loaded' = FALSE /\ sse' = {}
    BY DEF Reload
  <1> QED
    BY <1>1, <1>2, <1>3, GoneAttends

LEMMA CrashAttends ==
    ASSUME Inv, AttInv, Crash
    PROVE  AttInv'
  <1>1. /\ net' = Forgotten /\ Disturb(Severed) /\ shown' = <<>> /\ UNCHANGED <<stored, home>>
        /\ timers' = timers /\ fetch' = <<>> /\ page' = "crashed"
    BY DEF Crash, CrashPage, dbVars
  <1> QED
    BY <1>1, GoneAttends

----------------------------------------------------------------------------
(* The messages of a session arrive. *)

\* What is shown of the list that was read.
LEMMA LoadShows ==
    ASSUME Inv, Load, NEW list \in Seq(Message), list = fetch[1]
    PROVE  /\ Len(shown') = Len(list) /\ Len(list) \in Nat
           /\ \A i \in 1..Len(list) :
                 /\ shown'[i].of = list[i].of /\ shown'[i].role = list[i].role
                 /\ shown'[i].kind = list[i].kind /\ shown'[i].task = list[i].task
                 /\ shown'[i] = list[i] \/ shown'[i].status = "finished"
           /\ Interrupted(list) => shown'[Len(list)].status = "finished"
           /\ net' = Recovered(list)
  <1>1. Head(fetch) = list
    BY LoadTypes DEF Inv
  <1>2. /\ IF Interrupted(list) THEN shown' = SetLast(list, "finished") ELSE shown' = list
        /\ net' = Recovered(list)
    BY <1>1, Zenon DEF Load
  <1>3. Len(list) \in Nat
    OBVIOUS
  <1>4. CASE ~Interrupted(list)
    BY <1>2, <1>3, <1>4
  <1>5. CASE Interrupted(list)
    <2>1. PICK st \in Statuses : st = "finished"
      BY DEF Statuses
    <2>2. PICK new : new = shown' /\ new = SetLast(list, st)
      BY <1>2, <1>5, <2>1
    <2>3. list # <<>>
      BY <1>5 DEF Interrupted
    <2>4. /\ Len(new) = Len(list) /\ new[Len(list)].status = st
          /\ \A i \in 1..Len(list) :
                 /\ new[i].of = list[i].of /\ new[i].role = list[i].role
                 /\ new[i].kind = list[i].kind /\ new[i].task = list[i].task
                 /\ i # Len(list) => new[i] = list[i]
      BY <2>2, <2>3, SetLastFields
    <2> QED
      BY <1>2, <1>3, <2>1, <2>2, <2>4
  <1> QED
    BY <1>4, <1>5

\* The requests for whose videos the recovery effect starts a poller.
LEMMA LoadNet ==
    ASSUME NEW list \in Seq(Message), net' = Recovered(list)
    PROVE  /\ \A x \in Requests :
                 \/ net'[x] = net[x]
                 \/ net[x].st \in {"lost", "over"} /\ net'[x].st = "poll" /\ TaskIn(x, list)
           /\ \A i \in 1..Len(list) :
                 /\ list[i].of \in Requests /\ net[list[i].of].st \in Done
                 /\ list[i].task /\ list[i].status # "finished"
                 => net'[list[i].of].st = "poll"
  <1>1. DOMAIN list = 1..Len(list) /\ ToSet(list) = {list[i] : i \in 1..Len(list)}
    BY DEF ToSet
  <1>2. \A x \in Requests :
           net'[x] = IF /\ net[x].st \in {"lost", "over"}
                        /\ \E m \in ToSet(list) : m.of = x /\ m.task /\ m.status # "finished"
                     THEN [st |-> "poll", to |-> active]
                     ELSE net[x]
    BY DEF Recovered
  <1>3. ASSUME NEW x \in Requests
        PROVE  \/ net'[x] = net[x]
               \/ net[x].st \in {"lost", "over"} /\ net'[x].st = "poll" /\ TaskIn(x, list)
    <2>1. CASE /\ net[x].st \in {"lost", "over"}
               /\ \E m \in ToSet(list) : m.of = x /\ m.task /\ m.status # "finished"
      <3>1. net'[x].st = "poll"
        BY <1>2, <2>1
      <3>2. TaskIn(x, list)
        BY <1>1, <2>1, Zenon DEF TaskIn
      <3> QED
        BY <2>1, <3>1, <3>2
    <2>2. CASE ~(/\ net[x].st \in {"lost", "over"}
                 /\ \E m \in ToSet(list) : m.of = x /\ m.task /\ m.status # "finished")
      BY <1>2, <2>2
    <2> QED
      BY <2>1, <2>2
  <1>4. ASSUME NEW i \in 1..Len(list), list[i].of \in Requests, net[list[i].of].st \in Done,
               list[i].task, list[i].status # "finished"
        PROVE  net'[list[i].of].st = "poll"
    <2>1. list[i] \in ToSet(list)
      BY <1>1
    <2>2. CASE net[list[i].of].st \in {"lost", "over"}
      BY <1>2, <1>4, <2>1, <2>2
    <2>3. CASE net[list[i].of].st = "poll"
      BY <1>2, <1>4, <2>3
    <2> QED
      BY <1>4, <2>2, <2>3 DEF Done
  <1> QED
    BY <1>3, <1>4

LEMMA LoadAttends ==
    ASSUME Inv, AttInv, Load
    PROVE  AttInv'
  <1> USE DEF AttInv
  <1>1. /\ page = "up" /\ fetch # <<>> /\ fetch' = <<>> /\ loaded' = TRUE /\ ~loaded /\ TypeInv
        /\ UNCHANGED <<page, stored, active, home, sse, disturbed>>
        /\ timers' = timers \/ Schedule(active, shown')
    BY Zenon DEF Load, dbVars, Inv, CapInv
  <1>2. PICK list \in Seq(Message) : list = fetch[1]
    BY LoadTypes DEF Inv
  <1>3. /\ Len(shown') = Len(list) /\ Len(list) \in Nat
        /\ \A i \in 1..Len(list) :
              /\ shown'[i].of = list[i].of /\ shown'[i].role = list[i].role
              /\ shown'[i].kind = list[i].kind /\ shown'[i].task = list[i].task
              /\ shown'[i] = list[i] \/ shown'[i].status = "finished"
        /\ Interrupted(list) => shown'[Len(list)].status = "finished"
        /\ net' = Recovered(list)
    BY <1>2, LoadShows
  <1>4. \A x \in Requests :
           \/ net'[x] = net[x]
           \/ net[x].st \in {"lost", "over"} /\ net'[x].st = "poll" /\ TaskIn(x, list)
    BY <1>3, LoadNet
  <1>5. UserQuiet(list) /\ TaskNet(list) /\ \A i \in 1..Len(list) : list[i].of \in Requests
    BY <1>1, <1>2, MessageFields DEF AllInv
  <1>6. UserQuiet(shown')
    BY <1>3, <1>5 DEF UserQuiet, Generating
  <1>7. /\ active \in Sessions /\ shown' \in Seq(Message)
        /\ Len(timers) \in Nat /\ Len(timers') \in Nat /\ Len(timers) <= Len(timers')
        /\ \A i \in 1..Len(timers) : i \in 1..Len(timers') /\ timers'[i] = timers[i]
        /\ \A i \in 1..Len(timers') :
              \/ i \in 1..Len(timers)
              \/ timers'[i].to = active /\ timers'[i].list = shown'
    <2>1. Len(timers) \in Nat /\ active \in Sessions /\ shown' \in Seq(Message)
      BY <1>1, LoadTypes, TimersType DEF TypeInv, TypeOK
    <2>2. CASE timers' = timers
      BY <2>1, <2>2
    <2>3. CASE Schedule(active, shown')
      <3>1. /\ Len(timers') = Len(timers) + 1
            /\ timers'[Len(timers')] = [to |-> active, list |-> shown']
            /\ \A k \in 1..Len(timers) : timers'[k] = timers[k]
        BY <1>1, <2>1, <2>3, ScheduleType DEF TypeInv
      <3> QED
        BY <2>1, <3>1
    <2> QED
      BY <1>1, <2>2, <2>3
  <1>8. \A i \in 1..Len(timers) : timers[i].to \in disturbed
    <2> SUFFICES ASSUME NEW i \in 1..Len(timers), timers[i].to \notin disturbed PROVE FALSE
      OBVIOUS
    <2>1. Captured(timers[i].to) /\ timers[i].to \in Sessions
      BY <1>1, CapturedNow, TimersType DEF TypeInv
    <2> QED
      BY <1>1, <2>1 DEF Inv, CapInv
  <1>9. AllInv' /\ \A x \in Requests : HasTask(x)' => HasTask(x)
    <2>1. \A x \in Requests : TaskIn(x, list) => HasTask(x)
      BY <1>1, <1>2 DEF HasTask
    <2>2. \A x \in Requests : net'[x].st = "poll" => HasTask(x)
      BY <1>4, <2>1 DEF HasTask
    <2>3. \A x \in Sessions : OldList(stored'[x])
      BY <1>1 DEF OldList
    <2>4. \A i \in 1..Len(timers') : OldList(timers'[i].list) \/ timers'[i].list = shown'
      BY <1>7 DEF OldList
    <2>5. \A i \in 1..Len(shown') : shown'[i].task => shown'[i].of \in Requests /\ HasTask(shown'[i].of)
      <3>1. \A i \in 1..Len(list) : list[i].task => TaskIn(list[i].of, list)
        BY DEF TaskIn
      <3> QED
        BY <1>3, <1>5, <2>1, <3>1
    <2>6. \A x \in Requests : net[x].st \in Done => net'[x].st \in Done
      BY <1>4 DEF Done
    <2> QED
      BY <1>1, <1>6, <2>2, <2>3, <2>4, <2>5, <2>6, OldLists
  <1>10. Calm
    BY <1>1, <1>4, <1>9 DEF Calm, Done
  <1>11. ShownInv'
    <2> SUFFICES ASSUME active \notin disturbed
                 PROVE  /\ \A i \in 1..Len(shown') :
                              shown'[i].role = "assistant" /\ HasTask(shown[i].of)' => shown'[i].task
                        /\ \A i \in 1..Len(shown') : Generating(shown'[i]) => Cared(i)'
      BY <1>1, Zenon DEF ShownInv, Tasked
    <2>1. Loadable(list) /\ Tasked(list)
      BY <1>1, <1>2 DEF FinalInv
    <2>2. ASSUME NEW i \in 1..Len(shown'), shown'[i].role = "assistant", HasTask(shown[i].of)'
          PROVE  shown'[i].task
      <3>1. PICK x \in Requests : x = shown'[i].of /\ x = list[i].of
        BY <1>3, <1>5
      <3>2. HasTask(x)'
        BY <2>2, <3>1 DEF HasTask
      <3>3. HasTask(list[i].of)
        BY <1>9, <3>1, <3>2
      <3> QED
        BY <1>3, <2>1, <2>2, <3>3 DEF Tasked
    <2>3. ASSUME NEW i \in 1..Len(shown'), Generating(shown'[i])
          PROVE  Cared(i)'
      <3>1. /\ i \in 1..Len(list) /\ shown'[i] = list[i] /\ Generating(list[i])
            /\ list[i].status # "finished" /\ list[i].of \in Requests
            /\ ~(i = Len(list) /\ Interrupted(list))
        BY <1>3, <1>5, <2>3 DEF Generating
      <3>2. ~(i = Len(list) /\ list[i].kind = "chat" /\ list[i].status # "polling")
        <4> SUFFICES ASSUME i = Len(list), list[i].kind = "chat", list[i].status # "polling"
                     PROVE  Interrupted(list)
          BY <3>1
        <4>1. list # <<>> /\ Last(list) = list[i]
          BY <3>1 DEF Last
        <4> QED
          BY <3>1, <4>1 DEF Interrupted, Generating
      <3>3. list[i].task \/ net[list[i].of].st = "submit"
        BY <2>1, <3>1, <3>2 DEF Loadable
      <3>4. list[i].task => net'[list[i].of].st = "poll"
        BY <1>3, <1>5, <3>1, LoadNet DEF TaskNet
      <3>5. net[list[i].of].st = "submit" => net'[list[i].of].st = "submit"
        BY <1>4, <3>1
      <3> QED
        BY <3>1, <3>3, <3>4, <3>5 DEF Cared
    <2> QED
      BY <2>2, <2>3
  <1>12. FinalInv'
    <2>1. ASSUME NEW x \in Sessions, x \notin disturbed', \A i \in 1..Len(timers') : timers'[i].to # x
          PROVE  Loadable(stored[x])' /\ Tasked(stored[x])'
      BY <1>1, <1>7, <1>10, <2>1, StoredStays
    <2>2. ASSUME NEW k \in 1..Len(timers'), timers'[k].to \notin disturbed'
          PROVE  Loadable(timers[k].list)' /\ Tasked(timers[k].list)'
      <3>1. timers'[k].list = shown' /\ active \notin disturbed'
        BY <1>1, <1>7, <1>8, <2>2
      <3>2. Loadable(shown)' /\ Tasked(shown)'
        BY <1>1, <1>6, <1>7, <1>11, <3>1, ShownLoadableThen
      <3> QED
        BY <3>1, <3>2 DEF Loadable, Tasked, HasTask
    <2> QED
      BY <1>1, <2>1, <2>2, Zenon DEF FinalInv
  <1>13. SubmitHome' /\ SseInv'
    <2>1. sse \subseteq Requests
      BY DEF Inv, TypeInv, TypeOK
    <2> QED
      BY <1>1, <1>4, <2>1 DEF SubmitHome, SseInv
  <1> QED
    BY <1>9, <1>11, <1>12, <1>13

----------------------------------------------------------------------------
LEMMA InitAttends == Init => AttInv
  <1> SUFFICES ASSUME Init PROVE AttInv
    OBVIOUS
  <1>1. /\ \A s \in Sessions : 1..Len(stored[s]) = {}
        /\ 1..Len(timers) = {} /\ 1..Len(fetch[1]) = {} /\ 1..Len(shown) = {}
        /\ loaded = FALSE /\ sse = {}
    BY DEF Init
  <1>2. \A r \in Requests : net[r].st = "new"
    BY DEF Init, Ended
  <1>3. AllInv
    BY <1>1 DEF AllInv, UserQuiet, TaskNet
  <1>4. FinalInv
    BY <1>1 DEF FinalInv, Loadable, Tasked
  <1> QED
    BY <1>1, <1>2, <1>3, <1>4 DEF AttInv, ShownInv, SubmitHome, SseInv

LEMMA NextAttends == Inv /\ AttInv /\ [Next]_vars => AttInv'
  <1> SUFFICES ASSUME Inv, AttInv, [Next]_vars PROVE AttInv'
    OBVIOUS
  <1>1. Inv'
    BY NextInv
  <1>2. CASE UNCHANGED vars
    <2>1. /\ UNCHANGED <<active, loaded, fetch, disturbed>>
          /\ UNCHANGED <<page, stored, shown, timers, net, home, sse, abandoned>>
      BY <1>2 DEF vars
    <2> QED
      BY <2>1, OpenAttends
  <1>3. CASE Next
    <2>1. CapInv' /\ TypeInv
      BY <1>1 DEF Inv
    <2>2. ASSUME NEW r \in Requests, StreamEnds(r) \/ StreamGarbled(r) PROVE AttInv'
      BY <2>1, <2>2, StreamEndsEdits, StreamGarbledEdits, StreamEndsAttends, CrashAttends
    <2>3. ASSUME NEW r \in Requests,
                 \/ StreamMessageUpdate(r) \/ StreamCloses(r) \/ StreamBreaks(r)
                 \/ Reply(r) \/ ReplyEmpty(r)
                 \/ Submitted(r) \/ SubmitFails(r) \/ TickPolling(r) \/ TickEnds(r)
          PROVE  AttInv'
      BY <2>1, <2>3, StreamMessageUpdateAttends, StreamBreaksAttends, SilentAttends, ReplyAttends,
         VideoAttends
    <2>4. ASSUME NEW s \in Sessions, SwitchSession(s) \/ DeleteSession(s) PROVE AttInv'
      BY <2>4, SessionAttends, DeleteSessionAttends
    <2>5. ASSUME NEW i \in DOMAIN shown, DeleteMessage(i) \/ ResetMessage(i) PROVE AttInv'
      BY <2>1, <2>5, DeleteMessageAttends, ResetMessageAttends
    <2>6. ASSUME CreateSession \/ ChangeLanguage \/ FinishDelete \/ Load \/ RunTimer \/ Reload
          PROVE  AttInv'
      BY <2>6, SessionAttends, LoadAttends, RunTimerAttends, ReloadAttends
    <2>7. ASSUME NEW kind \in {"chat", "video"}, UserSends(kind) PROVE AttInv'
      BY <2>1, <2>7, UserSendsAttends
    <2>8. ASSUME Resend \/ Stop \/ ClearMessages PROVE AttInv'
      BY <2>1, <2>8, ResendAttends, StopAttends, ClearMessagesAttends
    <2> QED
      BY <1>3, <2>2, <2>3, <2>4, <2>5, <2>6, <2>7, <2>8, Zenon DEF Next
  <1> QED
    BY <1>2, <1>3

\* In a session that was never left with work under way and never used before
\* it was loaded, a message that is shown as being generated has its request at
\* work or, if it is the last, some session's stream, which will end it: also
\* after a reload of the page, a crash, or a stream that another session sends.
\* The one exception is a chat reply that was the last message when a stream was
\* closed before [DONE] or a response without choices came: it stays the last,
\* where Stop and the next load finish it.
THEOREM Attends == Spec => []Attended
  <1>1. Spec => [](Inv /\ AttInv)
    BY InitInv, InitAttends, NextInv, NextAttends, PTL DEF Spec
  <1>2. Inv /\ AttInv => Attended
    <2> SUFFICES ASSUME Inv, AttInv, page = "up", loaded, active \notin disturbed,
                        NEW i \in DOMAIN shown, Generating(shown[i])
                 PROVE  \/ net[shown[i].of].st \in Work
                        \/ /\ i = Len(shown)
                           /\ \/ \E r \in Requests : net[r].st = "stream"
                              \/ shown[i].of \in abandoned
      BY DEF Attended
    <2>1. i \in 1..Len(shown)
      BY DEF Inv, TypeInv, TypeOK
    <2>2. Cared(i)
      BY <2>1 DEF AttInv, ShownInv
    <2> QED
      BY <2>2 DEF Cared, Streaming, Work
  <1> QED
    BY <1>1, <1>2, PTL

=============================================================================
