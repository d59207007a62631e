-------------------------- MODULE PlaygroundProofs --------------------------
(***************************************************************************)
(* Theorems about the playground: the types, and what the page does to the *)
(* saved messages of a session, for any number of sessions, requests,      *)
(* scheduled saves, reloads and deletions.                                 *)
(***************************************************************************)
EXTENDS Playground, TLAPS

USE DEF Statuses, Work

----------------------------------------------------------------------------
(* Lists of messages. *)

Roles == {"user", "assistant"}

\* What a list contains, by position.
LEMMA IdsMember ==
    ASSUME NEW list \in Seq(Message), NEW id
    PROVE  id \in Ids(list) <=> \E i \in 1..Len(list) : id = <<list[i].of, list[i].role>>
  <1>1. DOMAIN list = 1..Len(list)
    OBVIOUS
  <1>2. ToSet(list) = {list[i] : i \in 1..Len(list)}
    BY <1>1 DEF ToSet
  <1> QED
    BY <1>2, Zenon DEF Ids

LEMMA IdsType ==
    ASSUME NEW list \in Seq(Message)
    PROVE  Ids(list) \subseteq Requests \X Roles
  <1> SUFFICES ASSUME NEW id \in Ids(list)
               PROVE  id \in Requests \X Roles
    OBVIOUS
  <1>1. PICK i \in 1..Len(list) : id = <<list[i].of, list[i].role>>
    BY IdsMember
  <1>2. list[i] \in Message
    OBVIOUS
  <1> QED
    BY <1>1, <1>2 DEF Message, Roles

LEMMA IdsEmpty == Ids(<<>>) = {}
  <1>1. <<>> \in Seq(Message) /\ Len(<<>>) = 0
    OBVIOUS
  <1>2. \A id : id \notin Ids(<<>>)
    BY <1>1, IdsMember, 1..0 = {}, Zenon
  <1> QED
    BY <1>2

\* The ids of a list depend only on whom its messages are of and in which role.
LEMMA IdsPointwise ==
    ASSUME NEW a \in Seq(Message), NEW b \in Seq(Message), Len(a) = Len(b),
           \A i \in 1..Len(a) : a[i].of = b[i].of /\ a[i].role = b[i].role
    PROVE  Ids(a) = Ids(b)
  <1>1. ASSUME NEW id PROVE id \in Ids(a) <=> id \in Ids(b)
    BY IdsMember
  <1> QED
    BY <1>1

LEMMA SetLastKeeps ==
    ASSUME NEW list \in Seq(Message), list # <<>>, NEW status \in Statuses
    PROVE  /\ SetLast(list, status) \in Seq(Message)
           /\ Len(SetLast(list, status)) = Len(list)
           /\ Ids(SetLast(list, status)) = Ids(list)
  <1> DEFINE n == Len(list)
             new == SetLast(list, status)
  <1>1. n \in 1..n /\ list[n] \in Message
    OBVIOUS
  <1>2. new = [list EXCEPT ![n] = [list[n] EXCEPT !.status = status]]
    BY DEF SetLast, ReplaceAt, Last
  <1>3. [list[n] EXCEPT !.status = status] \in Message
    BY <1>1 DEF Message
  <1>4. new \in Seq(Message) /\ Len(new) = n
    BY <1>1, <1>2, <1>3
  <1>5. \A i \in 1..n : new[i].of = list[i].of /\ new[i].role = list[i].role
    BY <1>1, <1>2 DEF Message
  <1> QED
    BY <1>4, <1>5, IdsPointwise

LEMMA IdsSubSeq ==
    ASSUME NEW list \in Seq(Message), NEW m \in Int, NEW n \in Int, 1 <= m, n <= Len(list)
    PROVE  /\ SubSeq(list, m, n) \in Seq(Message)
           /\ Ids(SubSeq(list, m, n)) \subseteq Ids(list)
  <1> DEFINE sub == SubSeq(list, m, n)
  <1>1. sub \in Seq(Message)
    OBVIOUS
  <1>2. \A i \in 1..Len(sub) : sub[i] = list[m + i - 1] /\ m + i - 1 \in 1..Len(list)
    OBVIOUS
  <1>3. ASSUME NEW id \in Ids(sub) PROVE id \in Ids(list)
    <2>1. PICK i \in 1..Len(sub) : id = <<sub[i].of, sub[i].role>>
      BY <1>1, IdsMember
    <2> QED
      BY <1>2, <2>1, IdsMember
  <1> QED
    BY <1>1, <1>3

\* A list that is cut in two.
LEMMA IdsSplit ==
    ASSUME NEW list \in Seq(Message), NEW n \in Int, NEW q \in 1..n, n <= Len(list)
    PROVE  Ids(list) \subseteq Ids(SubSeq(list, 1, q - 1)) \cup Ids(SubSeq(list, q, Len(list)))
  <1> DEFINE head == SubSeq(list, 1, q - 1)
             tail == SubSeq(list, q, Len(list))
  <1>1. /\ head \in Seq(Message) /\ Len(head) = q - 1
        /\ \A i \in 1..(q - 1) : head[i] = list[i]
    OBVIOUS
  <1>2. /\ tail \in Seq(Message) /\ Len(tail) = Len(list) - q + 1
        /\ \A i \in 1..(Len(list) - q + 1) : tail[i] = list[q + i - 1]
    OBVIOUS
  <1> HIDE DEF head, tail
  <1>3. ASSUME NEW id \in Ids(list) PROVE id \in Ids(head) \cup Ids(tail)
    <2>1. PICK i \in 1..Len(list) : id = <<list[i].of, list[i].role>>
      BY IdsMember
    <2>2. CASE i < q
      <3>1. i \in 1..Len(head) /\ head[i] = list[i]
        BY <1>1, <2>2
      <3> QED
        BY <1>1, <2>1, <3>1, IdsMember
    <2>3. CASE i >= q
      <3>1. i - q + 1 \in 1..Len(tail) /\ tail[i - q + 1] = list[i]
        BY <1>2, <2>3
      <3> QED
        BY <1>2, <2>1, <3>1, IdsMember
    <2> QED
      BY <2>2, <2>3
  <1> QED
    BY <1>3 DEF head, tail

LEMMA IdsConcat ==
    ASSUME NEW a \in Seq(Message), NEW b \in Seq(Message)
    PROVE  a \o b \in Seq(Message) /\ Ids(a \o b) = Ids(a) \cup Ids(b)
  <1>1. a \o b \in Seq(Message) /\ Len(a \o b) = Len(a) + Len(b)
    OBVIOUS
  <1>2. \A i \in 1..Len(a) : i \in 1..Len(a \o b) /\ (a \o b)[i] = a[i]
    OBVIOUS
  <1>3. \A i \in 1..Len(b) : Len(a) + i \in 1..Len(a \o b) /\ (a \o b)[Len(a) + i] = b[i]
    OBVIOUS
  <1>4. ASSUME NEW i \in 1..Len(a \o b), i \notin 1..Len(a)
        PROVE  i - Len(a) \in 1..Len(b) /\ i = Len(a) + (i - Len(a))
    BY <1>1, <1>4
  <1>5. ASSUME NEW id \in Ids(a \o b) PROVE id \in Ids(a) \cup Ids(b)
    <2>1. PICK i \in 1..Len(a \o b) : id = <<(a \o b)[i].of, (a \o b)[i].role>>
      BY <1>1, <1>5, IdsMember
    <2>2. CASE i \in 1..Len(a)
      BY <1>2, <2>1, <2>2, IdsMember
    <2>3. CASE i \notin 1..Len(a)
      <3>1. id = <<b[i - Len(a)].of, b[i - Len(a)].role>> /\ i - Len(a) \in 1..Len(b)
        BY <1>3, <1>4, <2>1, <2>3
      <3> QED
        BY <3>1, IdsMember
    <2> QED
      BY <2>2, <2>3
  <1>6. ASSUME NEW id \in Ids(a) PROVE id \in Ids(a \o b)
    <2>1. PICK i \in 1..Len(a) : id = <<a[i].of, a[i].role>>
      BY <1>6, IdsMember
    <2> QED
      BY <1>1, <1>2, <2>1, IdsMember
  <1>7. ASSUME NEW id \in Ids(b) PROVE id \in Ids(a \o b)
    <2>1. PICK i \in 1..Len(b) : id = <<b[i].of, b[i].role>>
      BY <1>7, IdsMember
    <2> QED
      BY <1>1, <1>3, <2>1, IdsMember
  <1> QED
    BY <1>1, <1>5, <1>6, <1>7

\* The head and the tail of a queue.
LEMMA HeadTail ==
    ASSUME NEW S, NEW q \in Seq(S), q # <<>>
    PROVE  /\ Head(q) \in S /\ Head(q) = q[1] /\ 1 \in 1..Len(q)
           /\ Tail(q) \in Seq(S) /\ Len(Tail(q)) = Len(q) - 1
           /\ \A i \in 1..Len(Tail(q)) : Tail(q)[i] = q[i + 1] /\ i + 1 \in 1..Len(q)
  OBVIOUS

\* A list is a function on its positions.
LEMMA ListDomain ==
    ASSUME NEW list \in Seq(Message)
    PROVE  /\ Len(list) \in Nat
           /\ DOMAIN list = 1..Len(list)
           /\ \A i \in 1..Len(list) : list[i] \in Message
  OBVIOUS

\* A list that is given by its positions.
LEMMA ListFromPositions ==
    ASSUME NEW n \in Nat, NEW new, DOMAIN new = 1..n, new = [i \in 1..n |-> new[i]],
           \A i \in 1..n : new[i] \in Message
    PROVE  new \in Seq(Message) /\ Len(new) = n
  OBVIOUS

\* The list that UpdateVideo shows.
Updated(list, r, status, task) ==
    [i \in DOMAIN list |->
        IF list[i].of = r /\ list[i].role = "assistant"
        THEN [list[i] EXCEPT !.status = status, !.task = task \/ @] ELSE list[i]]

LEMMA UpdatedKeeps ==
    ASSUME NEW list \in Seq(Message), NEW r, NEW status \in Statuses, NEW task \in BOOLEAN,
           NEW new, new = Updated(list, r, status, task)
    PROVE  /\ new \in Seq(Message) /\ Len(new) = Len(list) /\ Ids(new) = Ids(list)
           /\ \A i \in 1..Len(list) :
                 /\ new[i].of = list[i].of /\ new[i].role = list[i].role
                 /\ new[i].kind = list[i].kind
                 /\ IF list[i].of = r /\ list[i].role = "assistant"
                    THEN new[i].status = status /\ (new[i].task <=> task \/ list[i].task)
                    ELSE new[i] = list[i]
  <1>1. /\ Len(list) \in Nat /\ DOMAIN list = 1..Len(list)
        /\ \A i \in 1..Len(list) : list[i] \in Message
    BY ListDomain, Zenon
  <1>2. ASSUME NEW i \in 1..Len(list)
        PROVE  /\ new[i] \in Message /\ new[i].of = list[i].of /\ new[i].role = list[i].role
               /\ new[i].kind = list[i].kind
               /\ IF list[i].of = r /\ list[i].role = "assistant"
                  THEN new[i].status = status /\ (new[i].task <=> task \/ list[i].task)
                  ELSE new[i] = list[i]
    <2>1. list[i] \in Message /\ i \in DOMAIN list
      BY <1>1, Zenon
    <2>2. PICK b \in BOOLEAN : b = (task \/ list[i].task)
      BY Zenon
    <2>3. CASE list[i].of = r /\ list[i].role = "assistant"
      <3>1. new[i] = [list[i] EXCEPT !.status = status, !.task = b]
        BY <2>1, <2>2, <2>3, Zenon DEF Updated
      <3>2. /\ new[i] \in Message /\ new[i].of = list[i].of /\ new[i].role = list[i].role
            /\ new[i].kind = list[i].kind /\ new[i].status = status
            /\ new[i].task = b
        BY <2>1, <3>1 DEF Message
      <3> QED
        BY <2>2, <2>3, <3>2, Zenon
    <2>4. CASE ~(list[i].of = r /\ list[i].role = "assistant")
      <3>1. new[i] = list[i]
        BY <2>1, <2>4, Zenon DEF Updated
      <3> QED
        BY <2>1, <2>4, <3>1, Zenon
    <2> QED
      BY <2>3, <2>4, Zenon
  <1>3. new \in Seq(Message) /\ Len(new) = Len(list)
    <2>1. DOMAIN new = 1..Len(list) /\ new = [i \in 1..Len(list) |-> new[i]]
      BY <1>1, Zenon DEF Updated
    <2> QED
      BY <1>1, <1>2, <2>1, ListFromPositions, Zenon
  <1> QED
    BY <1>2, <1>3, IdsPointwise, Zenon

----------------------------------------------------------------------------
(* Types. *)

\* There is an id for a new session when a session has to be made.
Room == live = {} => used # Sessions

TypeInv == TypeOK /\ Room

NetStates == [Requests -> [st : {"new", "lost", "over"} \cup Work, to : Sessions]]

LEMMA FirstSessionType == FirstSession \in Sessions
  BY PlaygroundAssumption DEF FirstSession

LEMMA NewSessionType ==
    ASSUME TypeOK, used # Sessions
    PROVE  NewSession \in Sessions /\ NewSession \notin used
  <1>1. \E s \in Sessions : s \notin used
    BY DEF TypeOK
  <1> QED
    BY <1>1 DEF NewSession

LEMMA NewRequestType ==
    ASSUME Unsent # {}
    PROVE  NewRequest \in Requests /\ net[NewRequest].st = "new"
  <1>1. NewRequest \in Unsent
    BY DEF NewRequest
  <1> QED
    BY <1>1 DEF Unsent

\* What Ended, Forgotten and Recovered yield.
LEMMA NetTypes ==
    ASSUME TypeOK
    PROVE  /\ \A st \in {"new", "lost", "over"} :
                 Ended(st) \in [st : {"new", "lost", "over"} \cup Work, to : Sessions]
           /\ Forgotten \in NetStates
           /\ \A list : Recovered(list) \in NetStates
  <1>1. \A st \in {"new", "lost", "over"} :
                 Ended(st) \in [st : {"new", "lost", "over"} \cup Work, to : Sessions]
    BY FirstSessionType DEF Ended
  <1>2. \A r \in Requests : net[r] \in [st : {"new", "lost", "over"} \cup Work, to : Sessions]
    BY DEF TypeOK
  <1>3. Forgotten \in NetStates
    BY <1>1, <1>2 DEF Forgotten, NetStates
  <1>4. ASSUME NEW list
        PROVE  Recovered(list) \in NetStates
    <2>1. active \in Sessions
      BY DEF TypeOK
    <2>2. [st |-> "poll", to |-> active] \in [st : {"new", "lost", "over"} \cup Work, to : Sessions]
      BY <2>1
    <2> QED
      BY <1>2, <2>2 DEF Recovered, NetStates
  <1> QED
    BY <1>1, <1>3, <1>4

LEMMA ScheduleType ==
    ASSUME TypeOK, NEW s \in Sessions, NEW list \in Seq(Message), Schedule(s, list)
    PROVE  /\ timers' \in Seq([to : Sessions, list : Seq(Message)])
           /\ Len(timers') <= MaxTimers
           /\ Len(timers') = Len(timers) + 1
           /\ timers'[Len(timers')] = [to |-> s, list |-> list]
           /\ \A i \in 1..Len(timers) : timers'[i] = timers[i]
  <1> DEFINE T == [to : Sessions, list : Seq(Message)]
  <1>1. [to |-> s, list |-> list] \in T
    OBVIOUS
  <1>2. timers \in Seq(T) /\ Len(timers) <= MaxTimers
    BY DEF TypeOK
  <1>3. timers' = Append(timers, [to |-> s, list |-> list]) /\ Len(timers) < MaxTimers
    BY DEF Schedule
  <1> HIDE DEF T
  <1>4. timers' \in Seq(T) /\ Len(timers') = Len(timers) + 1
    BY <1>1, <1>2, <1>3
  <1>5. Len(timers') <= MaxTimers
    BY <1>2, <1>3, <1>4, PlaygroundAssumption
  <1> QED
    BY <1>1, <1>2, <1>3, <1>4, <1>5 DEF T

\* The saves that are scheduled.
LEMMA TimersType ==
    ASSUME TypeOK
    PROVE  /\ Len(timers) \in Nat
           /\ DOMAIN timers = 1..Len(timers)
           /\ \A i \in 1..Len(timers) : timers[i].to \in Sessions /\ timers[i].list \in Seq(Message)
  <1> DEFINE T == [to : Sessions, list : Seq(Message)]
  <1>1. timers \in Seq(T)
    BY DEF TypeOK
  <1> HIDE DEF T
  <1>2. /\ Len(timers) \in Nat /\ DOMAIN timers = 1..Len(timers)
        /\ \A i \in 1..Len(timers) : timers[i] \in T
    BY <1>1
  <1> QED
    BY <1>2 DEF T

LEMMA InitTypes == Init => TypeInv
  <1> SUFFICES ASSUME Init PROVE TypeInv
    OBVIOUS
  <1>1. stored \in [Sessions -> Seq(Message)] /\ shown \in Seq(Message)
    BY DEF Init
  <1>2. fetch \in Seq(Seq(Message)) /\ Len(fetch) <= 1
    <2>1. <<>> \in Seq(Message)
      OBVIOUS
    <2> QED
      BY <2>1 DEF Init
  <1>3. /\ timers \in Seq([to : Sessions, list : Seq(Message)]) /\ Len(timers) <= MaxTimers
        /\ resend \in Seq([to : Sessions, kind : {"chat", "video"}]) /\ Len(resend) <= 1
        /\ deleting \in Seq([id : Sessions, wasActive : BOOLEAN]) /\ Len(deleting) <= 1
    BY PlaygroundAssumption DEF Init
  <1>4. net \in [Requests -> [st : {"new", "lost", "over"} \cup Work, to : Sessions]]
    BY FirstSessionType DEF Init, Ended
  <1>5. kept \in [Sessions -> SUBSET (Requests \X {"user", "assistant"})]
    BY DEF Init
  <1>6. /\ page \in {"up", "crashed"} /\ live \subseteq used /\ used \subseteq Sessions
        /\ active \in Sessions /\ loaded \in BOOLEAN /\ sse = {}
        /\ disturbed \subseteq Sessions /\ abandoned \subseteq Requests /\ live # {}
    BY FirstSessionType DEF Init
  <1>7. breaks \in 0..MaxBreaks /\ home \in [Requests -> Sessions]
    BY FirstSessionType, PlaygroundAssumption DEF Init
  <1> QED
    BY <1>1, <1>2, <1>3, <1>4, <1>5, <1>6, <1>7, Zenon DEF TypeInv, TypeOK, Room

----------------------------------------------------------------------------
(* What the actions that change the list on the page have in common. *)

\* Messages are only changed or taken off the page, and what is taken off the
\* active session is not kept any more.
Shrink ==
    /\ home' = home
    /\ \A r \in Requests : net[r].st # "new" => net'[r].st # "new"
    /\ Ids(shown') \subseteq Ids(shown)
    /\ kept' \in [Sessions -> SUBSET (Requests \X Roles)]
    /\ \A s \in Sessions : kept'[s] \subseteq kept[s]
    /\ kept'[active] \cap Ids(shown) \subseteq Ids(shown')

\* The messages of a new request are added: a request of the active session, if
\* that one is loaded and not disturbed.
Grow ==
    /\ kept' = kept
    /\ \E r \in Requests, s \in Sessions :
          /\ net[r].st = "new" /\ net'[r].st # "new"
          /\ \A x \in Requests : net[x].st # "new" => net'[x].st # "new"
          /\ home' = [home EXCEPT ![r] = s]
          /\ Ids(shown') = Ids(shown) \cup {<<r, "user">>, <<r, "assistant">>}
          /\ loaded /\ active \notin disturbed' => s = active

\* The reply that is open at the end of the list may be left to itself.
Leaves == abandoned' = abandoned \/ abandoned' = abandoned \cup OpenReply(shown)

\* Nothing but the list on the page changes, and what is scheduled is to save it.
Edit ==
    /\ page = "up"
    /\ UNCHANGED <<live, used, stored, page, active, loaded, fetch, deleting, breaks>>
    /\ shown' \in Seq(Message)
    /\ \/ timers' = timers
       \/ \E s \in Sessions : Schedule(s, shown')
    /\ net' \in NetStates
    /\ sse' = {} \/ \E r \in Requests : sse' = {r}
    /\ resend' \in Seq([to : Sessions, kind : {"chat", "video"}]) /\ Len(resend') <= 1
    /\ disturbed \subseteq disturbed' /\ disturbed' \subseteq Sessions
    /\ Leaves
    /\ Shrink \/ Grow

\* The reply that is left open is one of a request.
LEMMA LeavesType ==
    ASSUME TypeInv, Leaves
    PROVE  abandoned \subseteq abandoned' /\ abandoned' \subseteq Requests
  <1>1. shown \in Seq(Message) /\ abandoned \subseteq Requests
    BY DEF TypeInv, TypeOK
  <1>2. ASSUME shown # <<>> PROVE Last(shown).of \in Requests
    <2>1. Len(shown) \in 1..Len(shown) /\ shown[Len(shown)] \in Message
      BY <1>1, <1>2
    <2> QED
      BY <2>1 DEF Last, Message
  <1>3. OpenReply(shown) \subseteq Requests
    BY <1>2 DEF OpenReply, Interrupted
  <1> QED
    BY <1>1, <1>3 DEF Leaves

LEMMA EditTypes ==
    ASSUME TypeInv, Edit
    PROVE  TypeInv'
  <1> USE DEF TypeInv
  <1>1. timers' \in Seq([to : Sessions, list : Seq(Message)]) /\ Len(timers') <= MaxTimers
    <2>1. CASE timers' = timers
      BY <2>1 DEF TypeOK
    <2>2. CASE \E s \in Sessions : Schedule(s, shown')
      BY <2>2, ScheduleType DEF Edit
    <2> QED
      BY <2>1, <2>2 DEF Edit
  <1>2. home' \in [Requests -> Sessions]
    BY DEF TypeOK, Edit, Shrink, Grow
  <1>3. kept' \in [Sessions -> SUBSET (Requests \X Roles)]
    BY DEF TypeOK, Edit, Shrink, Grow, Roles
  <1>4. Room'
    BY DEF Edit, Room
  <1>5. /\ page' \in {"up", "crashed"}
        /\ live' \subseteq used' /\ used' \subseteq Sessions
        /\ stored' \in [Sessions -> Seq(Message)]
        /\ active' \in Sessions
        /\ loaded' \in BOOLEAN
        /\ fetch' \in Seq(Seq(Message)) /\ Len(fetch') <= 1
        /\ deleting' \in Seq([id : Sessions, wasActive : BOOLEAN]) /\ Len(deleting') <= 1
        /\ breaks' \in 0..MaxBreaks
    BY DEF TypeOK, Edit
  <1>6. abandoned' \subseteq Requests
    BY LeavesType DEF Edit
  <1> QED
    BY <1>1, <1>2, <1>3, <1>4, <1>5, <1>6, Zenon DEF Edit, TypeOK, NetStates, Roles

LEMMA SendGrows ==
    ASSUME TypeInv, NEW s \in Sessions, NEW kind \in {"chat", "video"}, Send(s, kind)
    PROVE  /\ shown' \in Seq(Message)
           /\ Schedule(s, shown')
           /\ net' \in NetStates
           /\ sse' = {} \/ \E r \in Requests : sse' = {r}
           /\ \E r \in Requests :
                 /\ net[r].st = "new" /\ net'[r].st # "new"
                 /\ \A x \in Requests : net[x].st # "new" => net'[x].st # "new"
                 /\ home' = [home EXCEPT ![r] = s]
                 /\ Ids(shown') = Ids(shown) \cup {<<r, "user">>, <<r, "assistant">>}
                 /\ \A x \in Requests : x # r => net'[x] = net[x]
                 /\ net'[r].to = s
  <1> DEFINE r == NewRequest
             m == [of |-> r, role |-> "user", kind |-> kind, status |-> "none", task |-> FALSE]
             reply == [m EXCEPT !.role = "assistant", !.status = "loading"]
             list == shown \o <<m, reply>>
  <1>1. r \in Requests /\ net[r].st = "new"
    BY NewRequestType DEF Send
  <1>2. /\ shown' = list /\ Schedule(s, list)
        /\ home' = [home EXCEPT ![r] = s]
        /\ \E st \in IF kind = "video" THEN {"submit"} ELSE {"stream", "reply"} :
             /\ net' = [net EXCEPT ![r] = [st |-> st, to |-> s]]
             /\ sse' = IF st = "stream" THEN {r} ELSE sse
    BY Zenon DEF Send
  <1>3. PICK st \in {"submit", "stream", "reply"} :
             /\ net' = [net EXCEPT ![r] = [st |-> st, to |-> s]]
             /\ sse' = IF st = "stream" THEN {r} ELSE sse
    BY <1>2, Zenon
  <1>4. m \in Message /\ reply \in Message
    BY <1>1 DEF Message
  <1>5. <<m, reply>> \in Seq(Message) /\ Len(<<m, reply>>) = 2
        /\ <<m, reply>>[1] = m /\ <<m, reply>>[2] = reply
    BY <1>4
  <1>6. m.of = r /\ m.role = "user" /\ reply.of = r /\ reply.role = "assistant"
    OBVIOUS
  <1>7. Ids(<<m, reply>>) = {<<r, "user">>, <<r, "assistant">>}
    <2> HIDE DEF m, reply, r
    <2>1. \A i : i \in 1..2 <=> i = 1 \/ i = 2
      OBVIOUS
    <2>2. ASSUME NEW id PROVE id \in Ids(<<m, reply>>) <=> id = <<r, "user">> \/ id = <<r, "assistant">>
      <3>1. id \in Ids(<<m, reply>>)
              <=> \E i \in 1..2 : id = <<(<<m, reply>>[i]).of, (<<m, reply>>[i]).role>>
        BY <1>5, IdsMember
      <3> QED
        BY <1>5, <1>6, <2>1, <3>1
    <2> QED
      BY <2>2
  <1> HIDE DEF m, reply, r
  <1>8. shown' \in Seq(Message) /\ Ids(shown') = Ids(shown) \cup {<<r, "user">>, <<r, "assistant">>}
    BY <1>2, <1>5, <1>7, IdsConcat DEF TypeInv, TypeOK
  <1>9. /\ net' \in NetStates /\ net'[r].st # "new" /\ net'[r].to = s
        /\ \A x \in Requests : x # r => net'[x] = net[x]
    BY <1>1, <1>3 DEF TypeInv, TypeOK, NetStates
  <1>10. sse' = {} \/ \E x \in Requests : sse' = {x}
    BY <1>1, <1>3, Zenon DEF TypeInv, TypeOK
  <1> QED
    BY <1>1, <1>2, <1>8, <1>9, <1>10, Zenon

\* The same messages are shown.
LEMMA SameShrinks ==
    ASSUME TypeInv, Ids(shown') = Ids(shown), home' = home, kept' = kept,
           \A r \in Requests : net[r].st # "new" => net'[r].st # "new"
    PROVE  Shrink
  BY DEF Shrink, TypeInv, TypeOK, Roles

\* Some of what is kept under a session is not kept any more.
LEMMA KeptLess ==
    ASSUME NEW T, NEW before \in [Sessions -> SUBSET T], NEW s \in Sessions, NEW gone, NEW after,
           after = [before EXCEPT ![s] = @ \ gone]
    PROVE  /\ after \in [Sessions -> SUBSET T]
           /\ \A x \in Sessions : after[x] \subseteq before[x]
           /\ after[s] = before[s] \ gone
  OBVIOUS

\* More is kept under a session.
LEMMA KeptMore ==
    ASSUME NEW T, NEW before \in [Sessions -> SUBSET T], NEW s \in Sessions,
           NEW more \in SUBSET T, NEW after,
           after = [before EXCEPT ![s] = @ \cup more]
    PROVE  /\ after \in [Sessions -> SUBSET T]
           /\ \A x \in Sessions : x # s => after[x] = before[x]
           /\ after[s] = before[s] \cup more
  OBVIOUS

\* Disturb only adds sessions.
LEMMA DisturbGrows ==
    ASSUME TypeInv, NEW set \in SUBSET Sessions, Disturb(set)
    PROVE  disturbed \subseteq disturbed' /\ disturbed' \subseteq Sessions
  BY DEF Disturb, TypeInv, TypeOK

\* The work of one request changes.
LEMMA NetStep ==
    ASSUME TypeInv, NEW r \in Requests, net[r].st # "new",
           \/ net' = net
           \/ net' = [net EXCEPT ![r] = Ended("over")]
           \/ net' = [net EXCEPT ![r].st = "poll"]
    PROVE  /\ net' \in NetStates
           /\ \A x \in Requests : net[x].st # "new" => net'[x].st # "new"
           /\ \A x \in Requests : x # r => net'[x] = net[x]
  <1>1. Ended("over") \in [st : {"new", "lost", "over"} \cup Work, to : Sessions]
        /\ Ended("over").st = "over"
    BY FirstSessionType DEF Ended
  <1>2. net \in NetStates
    BY DEF TypeInv, TypeOK, NetStates
  <1>3. CASE net' = net
    BY <1>2, <1>3
  <1>4. CASE net' = [net EXCEPT ![r] = Ended("over")]
    BY <1>1, <1>2, <1>4 DEF NetStates
  <1>5. CASE net' = [net EXCEPT ![r].st = "poll"]
    BY <1>2, <1>5 DEF NetStates
  <1> QED
    BY <1>3, <1>4, <1>5

LEMMA UserSendsEdits ==
    ASSUME TypeInv, NEW kind \in {"chat", "video"}, UserSends(kind)
    PROVE  Edit
  <1> USE DEF TypeInv
  <1>1. active \in Sessions /\ Send(active, kind)
    BY DEF UserSends, TypeOK
  <1>2. disturbed \subseteq disturbed' /\ disturbed' \subseteq Sessions
    <2>1. (IF loaded THEN {} ELSE {active}) \in SUBSET Sessions
      BY <1>1
    <2> QED
      BY <2>1, DisturbGrows DEF UserSends, Touch
  <1>3. Grow
    <2>1. kept' = kept
      BY DEF UserSends, dbVars
    <2> QED
      BY <1>1, <2>1, SendGrows DEF Grow
  <1>4. /\ shown' \in Seq(Message) /\ Schedule(active, shown') /\ net' \in NetStates
        /\ sse' = {} \/ \E r \in Requests : sse' = {r}
    BY <1>1, SendGrows
  <1>5. /\ page = "up" /\ resend' = resend /\ abandoned' = abandoned
        /\ UNCHANGED <<live, used, stored, page, active, loaded, fetch, deleting, breaks>>
    BY DEF UserSends, dbVars, viewVars
  <1> QED
    BY <1>1, <1>2, <1>3, <1>4, <1>5 DEF Edit, Leaves, TypeOK

LEMMA ResendEdits ==
    ASSUME TypeInv, Resend
    PROVE  Edit
  <1> USE DEF TypeInv
  <1> DEFINE s == Head(resend).to
             kind == Head(resend).kind
  <1>1. s \in Sessions /\ kind \in {"chat", "video"} /\ active \in Sessions
    <2>1. resend \in Seq([to : Sessions, kind : {"chat", "video"}]) /\ resend # <<>>
      BY DEF Resend, TypeOK
    <2>2. Head(resend) \in [to : Sessions, kind : {"chat", "video"}]
      BY <2>1, HeadTail
    <2> QED
      BY <2>2 DEF TypeOK
  <1>2. Send(s, kind) /\ page = "up" /\ resend' = <<>>
        /\ Disturb(IF Busy \/ ~loaded \/ s # active THEN {active} ELSE {})
    BY DEF Resend
  <1>3. disturbed \subseteq disturbed' /\ disturbed' \subseteq Sessions
    <2>1. (IF Busy \/ ~loaded \/ s # active THEN {active} ELSE {}) \in SUBSET Sessions
      BY <1>1
    <2> QED
      BY <1>2, <2>1, DisturbGrows
  <1>4. active \notin disturbed' => s = active
    BY <1>2 DEF Disturb
  <1> HIDE DEF s, kind
  <1>5. Grow
    <2>1. kept' = kept
      BY DEF Resend, dbVars
    <2> QED
      BY <1>1, <1>2, <1>4, <2>1, SendGrows DEF Grow
  <1>6. /\ shown' \in Seq(Message) /\ Schedule(s, shown') /\ net' \in NetStates
        /\ sse' = {} \/ \E r \in Requests : sse' = {r}
    BY <1>1, <1>2, SendGrows
  <1>7. UNCHANGED <<live, used, stored, page, active, loaded, fetch, deleting, breaks, abandoned>>
    BY DEF Resend, dbVars, viewVars
  <1> QED
    BY <1>1, <1>2, <1>3, <1>5, <1>6, <1>7 DEF Edit, Leaves

LEMMA ResetMessageEdits ==
    ASSUME TypeInv, NEW i \in DOMAIN shown, ResetMessage(i)
    PROVE  Edit
  <1> USE DEF TypeInv
  <1>1. i \in 1..Len(shown) /\ Len(shown) \in Nat /\ shown \in Seq(Message) /\ active \in Sessions
    BY DEF TypeOK
  <1>2. PICK q \in 1..i :
            /\ shown' = SubSeq(shown, 1, q - 1)
            /\ kept' = [kept EXCEPT ![active] = @ \ Ids(SubSeq(shown, q, Len(shown)))]
            /\ \E kind \in {"chat", "video"} : resend' = <<[to |-> active, kind |-> kind]>>
    BY Zenon DEF ResetMessage
  <1>3. shown' \in Seq(Message) /\ Ids(shown') \subseteq Ids(shown)
    <2>1. q \in Int /\ q - 1 \in Int /\ q - 1 <= Len(shown)
      BY <1>1
    <2> QED
      BY <1>1, <1>2, <2>1, IdsSubSeq
  <1>4. Ids(shown) \subseteq Ids(shown') \cup Ids(SubSeq(shown, q, Len(shown)))
    BY <1>1, <1>2, IdsSplit
  <1>5. Shrink
    <2>1. home' = home /\ net' = net /\ kept \in [Sessions -> SUBSET (Requests \X Roles)]
      BY DEF ResetMessage, TypeOK, Roles
    <2> DEFINE gone == Ids(SubSeq(shown, q, Len(shown)))
    <2>2. kept' = [kept EXCEPT ![active] = @ \ gone]
      BY <1>2
    <2>3. /\ kept' \in [Sessions -> SUBSET (Requests \X Roles)]
          /\ \A s \in Sessions : kept'[s] \subseteq kept[s]
          /\ kept'[active] = kept[active] \ gone
      BY <1>1, <2>1, <2>2, KeptLess
    <2> QED
      BY <1>3, <1>4, <2>1, <2>3 DEF Shrink
  <1>6. resend' \in Seq([to : Sessions, kind : {"chat", "video"}]) /\ Len(resend') <= 1
    BY <1>1, <1>2
  <1>7. disturbed \subseteq disturbed' /\ disturbed' \subseteq Sessions
    <2>1. (IF loaded THEN {} ELSE {active}) \in SUBSET Sessions
      BY <1>1
    <2> QED
      BY <2>1, DisturbGrows DEF ResetMessage, Touch
  <1>8. /\ page = "up" /\ UNCHANGED <<timers, net, sse, abandoned>>
        /\ UNCHANGED <<live, used, stored, page, active, loaded, fetch, deleting, breaks>>
    BY DEF ResetMessage, viewVars
  <1> QED
    BY <1>3, <1>5, <1>6, <1>7, <1>8, Zenon DEF Edit, Leaves, TypeOK, NetStates

LEMMA StreamMessageUpdateEdits ==
    ASSUME TypeInv, NEW r \in Requests, StreamMessageUpdate(r)
    PROVE  Edit
  <1> USE DEF TypeInv
  <1>1. shown \in Seq(Message) /\ shown # <<>> /\ shown' = SetLast(shown, "incomplete")
    BY DEF StreamMessageUpdate, TypeOK
  <1>2. shown' \in Seq(Message) /\ Ids(shown') = Ids(shown)
    BY <1>1, SetLastKeeps
  <1>3. /\ page = "up" /\ UNCHANGED <<resend, timers, sse, net, disturbed, home, kept, abandoned>>
        /\ UNCHANGED <<live, used, stored, page, active, loaded, fetch, deleting, breaks>>
    BY DEF StreamMessageUpdate, dbVars, viewVars
  <1>4. Shrink
    BY <1>2, <1>3, SameShrinks
  <1> QED
    BY <1>2, <1>3, <1>4, Zenon DEF Edit, Leaves, TypeOK, NetStates

\* What the actions of the next group leave alone.
EditFrame ==
    /\ page = "up"
    /\ UNCHANGED <<live, used, stored, page, active, loaded, fetch, deleting, breaks>>
    /\ UNCHANGED <<home, kept, resend>>
    /\ Leaves

\* A stream that was closed is no longer the newest one.
LEMMA SseLess ==
    ASSUME TypeInv, sse' \subseteq sse
    PROVE  sse' = {} \/ \E r \in Requests : sse' = {r}
  <1>1. CASE sse = {}
    BY <1>1
  <1>2. ASSUME NEW r \in Requests, sse = {r} PROVE sse' = {} \/ sse' = {r}
    BY <1>2
  <1> QED
    BY <1>1, <1>2 DEF TypeInv, TypeOK

\* An action that shows the same messages, and saves them or not.
LEMMA SameEdits ==
    ASSUME TypeInv, EditFrame, shown' \in Seq(Message), Ids(shown') = Ids(shown),
           timers' = timers \/ \E s \in Sessions : Schedule(s, shown'),
           net' \in NetStates,
           \A x \in Requests : net[x].st # "new" => net'[x].st # "new",
           sse' \subseteq sse,
           disturbed \subseteq disturbed', disturbed' \subseteq Sessions
    PROVE  Edit
  <1>1. Shrink
    BY SameShrinks DEF EditFrame
  <1>2. sse' = {} \/ \E r \in Requests : sse' = {r}
    BY SseLess
  <1>3. resend' \in Seq([to : Sessions, kind : {"chat", "video"}]) /\ Len(resend') <= 1
    BY DEF TypeInv, TypeOK, EditFrame
  <1> QED
    BY <1>1, <1>2, <1>3, Zenon DEF Edit, EditFrame

\* The page goes down.
Crash ==
    /\ CrashPage
    /\ UNCHANGED <<dbVars, home, abandoned>>
    /\ sse' \subseteq sse

LEMMA CompleteMessageEdits ==
    ASSUME TypeInv, NEW r \in Requests, NEW netAfter, CompleteMessage(r, netAfter),
           net[r].st = "stream", page = "up",
           netAfter = net \/ netAfter = [net EXCEPT ![r] = Ended("over")],
           sse' \subseteq sse, UNCHANGED <<dbVars, home, abandoned>>
    PROVE  Edit \/ Crash
  <1>1. CASE shown = <<>>
    BY <1>1 DEF CompleteMessage, Crash
  <1>2. CASE shown # <<>>
    <2>1. /\ IF Last(shown).status = "finished"
             THEN UNCHANGED <<shown, timers>>
             ELSE /\ shown' = SetLast(shown, "finished")
                  /\ Schedule(net[r].to, shown')
          /\ net' = netAfter
          /\ UNCHANGED <<viewVars, resend, disturbed>>
      BY <1>2, Zenon DEF CompleteMessage
    <2>2. shown \in Seq(Message) /\ net[r].to \in Sessions /\ disturbed \subseteq Sessions
      BY DEF TypeInv, TypeOK
    <2>3. shown' \in Seq(Message) /\ Ids(shown') = Ids(shown)
      BY <1>2, <2>1, <2>2, SetLastKeeps
    <2>4. timers' = timers \/ \E s \in Sessions : Schedule(s, shown')
      BY <2>1, <2>2, Zenon
    <2>5. net' \in NetStates /\ \A x \in Requests : net[x].st # "new" => net'[x].st # "new"
      BY <2>1, NetStep
    <2>6. EditFrame /\ disturbed' = disturbed
      BY <2>1 DEF EditFrame, Leaves, viewVars, dbVars
    <2> QED
      BY <2>2, <2>3, <2>4, <2>5, <2>6, SameEdits
  <1> QED
    BY <1>1, <1>2

LEMMA StreamEndsEdits ==
    ASSUME TypeInv, NEW r \in Requests, StreamEnds(r)
    PROVE  Edit \/ Crash
  <1> DEFINE netAfter == [net EXCEPT ![r] = Ended("over")]
  <1>1. /\ page = "up" /\ net[r].st = "stream" /\ CompleteMessage(r, netAfter)
        /\ sse' \subseteq sse /\ UNCHANGED <<dbVars, home, abandoned>>
    BY DEF StreamEnds
  <1>2. netAfter = [net EXCEPT ![r] = Ended("over")]
    OBVIOUS
  <1> HIDE DEF netAfter
  <1> QED
    BY <1>1, <1>2, CompleteMessageEdits

LEMMA StreamGarbledEdits ==
    ASSUME TypeInv, NEW r \in Requests, StreamGarbled(r)
    PROVE  Edit \/ Crash
  BY CompleteMessageEdits DEF StreamGarbled

LEMMA StreamBreaksEdits ==
    ASSUME TypeInv, NEW r \in Requests, StreamBreaks(r)
    PROVE  Edit
  <1>1. shown \in Seq(Message) /\ disturbed \subseteq Sessions
    BY DEF TypeInv, TypeOK
  <1>2. shown' \in Seq(Message) /\ Ids(shown') = Ids(shown)
    BY <1>1, SetLastKeeps DEF StreamBreaks
  <1>3. net[r].st = "stream" /\ net' = [net EXCEPT ![r] = Ended("over")] /\ sse' = {}
    BY DEF StreamBreaks
  <1>4. net' \in NetStates /\ \A x \in Requests : net[x].st # "new" => net'[x].st # "new"
    BY <1>3, NetStep
  <1>5. EditFrame /\ disturbed' = disturbed /\ timers' = timers
    BY DEF StreamBreaks, EditFrame, Leaves, viewVars, dbVars
  <1> QED
    BY <1>1, <1>2, <1>3, <1>4, <1>5, SameEdits

LEMMA ReplyEdits ==
    ASSUME TypeInv, NEW r \in Requests, Reply(r)
    PROVE  Edit
  <1>1. shown \in Seq(Message) /\ disturbed \subseteq Sessions
    BY DEF TypeInv, TypeOK
  <1>2. shown' \in Seq(Message) /\ Ids(shown') = Ids(shown)
    BY <1>1, SetLastKeeps DEF Reply
  <1>3. net[r].st = "reply" /\ net' = [net EXCEPT ![r] = Ended("over")] /\ sse' = sse
    BY DEF Reply
  <1>4. net' \in NetStates /\ \A x \in Requests : net[x].st # "new" => net'[x].st # "new"
    BY <1>3, NetStep
  <1>5. EditFrame /\ disturbed' = disturbed /\ timers' = timers
    BY DEF Reply, EditFrame, Leaves, viewVars, dbVars
  <1> QED
    BY <1>1, <1>2, <1>3, <1>4, <1>5, SameEdits

\* The work of a request ends and its message is left as it is.
LEMMA SilentEdits ==
    ASSUME TypeInv, NEW r \in Requests, StreamCloses(r) \/ ReplyEmpty(r)
    PROVE  Edit
  <1>1. shown' = shown /\ shown \in Seq(Message) /\ disturbed \subseteq Sessions
    BY DEF StreamCloses, ReplyEmpty, TypeInv, TypeOK
  <1>2. net[r].st # "new" /\ net' = [net EXCEPT ![r] = Ended("over")] /\ sse' \subseteq sse
    BY DEF StreamCloses, ReplyEmpty
  <1>3. net' \in NetStates /\ \A x \in Requests : net[x].st # "new" => net'[x].st # "new"
    BY <1>2, NetStep
  <1>4. EditFrame /\ disturbed' = disturbed /\ timers' = timers
    BY DEF StreamCloses, ReplyEmpty, EditFrame, Leaves, viewVars, dbVars
  <1> QED
    BY <1>1, <1>2, <1>3, <1>4, SameEdits

\* Touch only adds sessions.
LEMMA TouchGrows ==
    ASSUME TypeInv, Touch
    PROVE  /\ disturbed \subseteq disturbed' /\ disturbed' \subseteq Sessions
           /\ loaded \/ active \in disturbed'
  <1>1. (IF loaded THEN {} ELSE {active}) \in SUBSET Sessions
    BY DEF TypeInv, TypeOK
  <1>2. disturbed \subseteq disturbed' /\ disturbed' \subseteq Sessions
    BY <1>1, DisturbGrows DEF Touch
  <1> QED
    BY <1>2 DEF Touch, Disturb

LEMMA StopEdits ==
    ASSUME TypeInv, Stop
    PROVE  Edit
  <1>1. shown \in Seq(Message) /\ active \in Sessions /\ net \in NetStates
    BY DEF TypeInv, TypeOK, NetStates
  <1>2. shown' \in Seq(Message) /\ Ids(shown') = Ids(shown)
    BY <1>1, SetLastKeeps DEF Stop
  <1>3. timers' = timers \/ \E s \in Sessions : Schedule(s, shown')
    BY <1>1, Zenon DEF Stop
  <1>4. net' \in NetStates /\ \A x \in Requests : net[x].st # "new" => net'[x].st # "new"
    <2>1. /\ Ended("over") \in [st : {"new", "lost", "over"} \cup Work, to : Sessions]
          /\ Ended("over").st = "over"
      BY FirstSessionType DEF Ended
    <2>2. net' = [r \in Requests |-> IF r \in sse THEN Ended("over") ELSE net[r]]
      BY DEF Stop
    <2> QED
      BY <1>1, <2>1, <2>2 DEF NetStates
  <1>5. EditFrame /\ sse' = {} /\ disturbed \subseteq disturbed' /\ disturbed' \subseteq Sessions
    BY TouchGrows DEF Stop, EditFrame, Leaves, viewVars, dbVars
  <1> QED
    BY <1>2, <1>3, <1>4, <1>5, SameEdits

LEMMA UpdateVideoEdits ==
    ASSUME TypeInv, NEW r \in Requests, NEW status \in Statuses, NEW task \in BOOLEAN,
           UpdateVideo(r, status, task), page = "up", net[r].st # "new",
           \/ net' = net
           \/ net' = [net EXCEPT ![r] = Ended("over")]
           \/ net' = [net EXCEPT ![r].st = "poll"]
    PROVE  Edit /\ shown' = Updated(shown, r, status, task)
  <1>1. shown \in Seq(Message) /\ net[r].to \in Sessions /\ disturbed \subseteq Sessions
    BY DEF TypeInv, TypeOK
  <1>2. /\ shown' = Updated(shown, r, status, task)
        /\ Schedule(net[r].to, Updated(shown, r, status, task))
        /\ UNCHANGED <<dbVars, viewVars, home, sse, resend, disturbed, abandoned>>
    BY Zenon DEF UpdateVideo, Updated
  <1>3. shown' \in Seq(Message) /\ Ids(shown') = Ids(shown) /\ Schedule(net[r].to, shown')
    <2>1. Schedule(net[r].to, shown')
      BY <1>2, Zenon
    <2>2. shown' \in Seq(Message) /\ Ids(shown') = Ids(shown)
      <3>1. shown' = Updated(shown, r, status, task) /\ shown \in Seq(Message)
        BY <1>1, <1>2, Zenon
      <3>2. ASSUME NEW new, new = Updated(shown, r, status, task)
            PROVE  new \in Seq(Message) /\ Ids(new) = Ids(shown)
        BY <3>1, <3>2, UpdatedKeeps
      <3> QED
        BY <3>1, <3>2, Zenon
    <2> QED
      BY <2>1, <2>2
  <1>4. net' \in NetStates /\ \A x \in Requests : net[x].st # "new" => net'[x].st # "new"
    BY NetStep
  <1>5. EditFrame /\ disturbed' = disturbed /\ sse' = sse
    BY <1>2 DEF EditFrame, Leaves, viewVars, dbVars
  <1> QED
    BY <1>1, <1>2, <1>3, <1>4, <1>5, SameEdits

LEMMA VideoEdits ==
    ASSUME TypeInv, NEW r \in Requests,
           Submitted(r) \/ SubmitFails(r) \/ TickPolling(r) \/ TickEnds(r)
    PROVE  Edit
  <1>1. CASE Submitted(r)
    BY <1>1, UpdateVideoEdits DEF Submitted
  <1>2. CASE SubmitFails(r)
    BY <1>2, UpdateVideoEdits DEF SubmitFails
  <1>3. CASE TickPolling(r)
    BY <1>3, UpdateVideoEdits DEF TickPolling, RunningStatus
  <1>4. CASE TickEnds(r)
    BY <1>4, UpdateVideoEdits DEF TickEnds
  <1> QED
    BY <1>1, <1>2, <1>3, <1>4

LEMMA UserRemovesEdits ==
    ASSUME TypeInv, NEW list \in Seq(Message), Ids(list) \subseteq Ids(shown),
           page = "up", UserRemoves(list)
    PROVE  Edit
  <1>1. active \in Sessions /\ kept \in [Sessions -> SUBSET (Requests \X Roles)]
    BY DEF TypeInv, TypeOK, Roles
  <1>2. shown' = list /\ Schedule(active, list) /\ UNCHANGED <<home, net, sse, resend, abandoned>>
    BY DEF UserRemoves
  <1>3. Shrink
    <2> DEFINE gone == Ids(shown) \ Ids(list)
    <2>1. kept' = [kept EXCEPT ![active] = @ \ gone]
      BY DEF UserRemoves
    <2>2. /\ kept' \in [Sessions -> SUBSET (Requests \X Roles)]
          /\ \A s \in Sessions : kept'[s] \subseteq kept[s]
          /\ kept'[active] = kept[active] \ gone
      BY <1>1, <2>1, KeptLess
    <2> QED
      BY <1>2, <2>2 DEF Shrink
  <1>4. /\ UNCHANGED <<live, used, stored, page, active, loaded, fetch, deleting, breaks>>
        /\ disturbed \subseteq disturbed' /\ disturbed' \subseteq Sessions
    BY TouchGrows DEF UserRemoves, viewVars
  <1>5. /\ shown' \in Seq(Message) /\ \E s \in Sessions : Schedule(s, shown')
        /\ net' \in NetStates
        /\ sse' = {} \/ \E r \in Requests : sse' = {r}
        /\ resend' \in Seq([to : Sessions, kind : {"chat", "video"}]) /\ Len(resend') <= 1
    BY <1>1, <1>2, Zenon DEF TypeInv, TypeOK, NetStates
  <1> QED
    BY <1>2, <1>3, <1>4, <1>5, Zenon DEF Edit, Leaves

LEMMA ClearMessagesEdits ==
    ASSUME TypeInv, ClearMessages
    PROVE  Edit
  <1>1. <<>> \in Seq(Message)
    OBVIOUS
  <1> QED
    BY <1>1, UserRemovesEdits, IdsEmpty DEF ClearMessages

LEMMA DeleteMessageEdits ==
    ASSUME TypeInv, NEW i \in DOMAIN shown, DeleteMessage(i)
    PROVE  Edit
  <1>1. i \in 1..Len(shown) /\ Len(shown) \in Nat /\ shown \in Seq(Message)
    BY DEF TypeInv, TypeOK
  <1>2. PICK n \in {1, 2} : UserRemoves(SubSeq(shown, 1, i - 1) \o SubSeq(shown, i + n, Len(shown)))
    BY Zenon DEF DeleteMessage
  <1> DEFINE head == SubSeq(shown, 1, i - 1)
             tail == SubSeq(shown, i + n, Len(shown))
  <1>3. /\ head \in Seq(Message) /\ Ids(head) \subseteq Ids(shown)
        /\ tail \in Seq(Message) /\ Ids(tail) \subseteq Ids(shown)
    <2>1. i - 1 \in Int /\ i + n \in Int /\ 1 <= i + n /\ i - 1 <= Len(shown)
      BY <1>1
    <2> QED
      BY <1>1, <2>1, IdsSubSeq
  <1>4. page = "up" /\ UserRemoves(head \o tail)
    BY <1>2 DEF DeleteMessage
  <1> HIDE DEF head, tail
  <1>5. head \o tail \in Seq(Message) /\ Ids(head \o tail) \subseteq Ids(shown)
    BY <1>3, IdsConcat
  <1> QED
    BY <1>4, <1>5, UserRemovesEdits

----------------------------------------------------------------------------
(* The other actions keep the types. *)

\* The messages of session s are read.
LEMMA EnterTypes ==
    ASSUME TypeInv, NEW s \in Sessions, Enter(s), stored' = stored
    PROVE  /\ active' \in Sessions /\ loaded' \in BOOLEAN
           /\ fetch' \in Seq(Seq(Message)) /\ Len(fetch') <= 1
           /\ disturbed \subseteq disturbed' /\ disturbed' \subseteq Sessions
           /\ active' = s
  <1>1. /\ active' = s /\ loaded' = FALSE /\ fetch' = <<stored[s]>>
        /\ Disturb(IF Captured(active) THEN {active} ELSE {})
    BY DEF Enter
  <1>2. stored[s] \in Seq(Message) /\ active \in Sessions
    BY DEF TypeInv, TypeOK
  <1>3. (IF Captured(active) THEN {active} ELSE {}) \in SUBSET Sessions
    BY <1>2
  <1>4. fetch' \in Seq(Seq(Message)) /\ Len(fetch') <= 1
    BY <1>1, <1>2
  <1> QED
    BY <1>1, <1>3, <1>4, DisturbGrows

\* switchSession, for a session s.
LEMMA OpenTypes ==
    ASSUME TypeInv, NEW s \in Sessions, Open(s), stored' = stored
    PROVE  /\ active' \in Sessions /\ loaded' \in BOOLEAN
           /\ fetch' \in Seq(Seq(Message)) /\ Len(fetch') <= 1
           /\ disturbed \subseteq disturbed' /\ disturbed' \subseteq Sessions
           /\ active' = s
  <1>1. CASE s = active
    BY <1>1 DEF Open, TypeInv, TypeOK
  <1>2. CASE s # active
    BY <1>2, EnterTypes DEF Open
  <1> QED
    BY <1>1, <1>2

\* What the actions that change sessions leave alone.
SessionFrame ==
    /\ page' = page
    /\ UNCHANGED <<shown, timers, net, home, sse, resend, abandoned>>
    /\ breaks' = breaks \/ (breaks < MaxBreaks /\ breaks' = breaks + 1)

LEMMA SessionFrameTypes ==
    ASSUME TypeInv, SessionFrame
    PROVE  /\ page' \in {"up", "crashed"}
           /\ shown' \in Seq(Message)
           /\ timers' \in Seq([to : Sessions, list : Seq(Message)]) /\ Len(timers') <= MaxTimers
           /\ net' \in [Requests -> [st : {"new", "lost", "over"} \cup Work, to : Sessions]]
           /\ home' \in [Requests -> Sessions]
           /\ sse' = {} \/ \E r \in Requests : sse' = {r}
           /\ resend' \in Seq([to : Sessions, kind : {"chat", "video"}]) /\ Len(resend') <= 1
           /\ breaks' \in 0..MaxBreaks
           /\ abandoned' \subseteq Requests
  <1>1. breaks' \in 0..MaxBreaks
    BY PlaygroundAssumption DEF SessionFrame, TypeInv, TypeOK
  <1> QED
    BY <1>1, Zenon DEF SessionFrame, TypeInv, TypeOK

LEMMA SwitchSessionTypes ==
    ASSUME TypeInv, NEW s \in Sessions, SwitchSession(s)
    PROVE  TypeInv'
  <1>1. SessionFrame /\ Open(s) /\ UNCHANGED <<live, used, stored, kept, deleting>>
    BY DEF SwitchSession, SessionFrame
  <1>2. /\ active' \in Sessions /\ loaded' \in BOOLEAN
        /\ fetch' \in Seq(Seq(Message)) /\ Len(fetch') <= 1 /\ disturbed' \subseteq Sessions
    BY <1>1, OpenTypes
  <1> QED
    BY <1>1, <1>2, SessionFrameTypes, Zenon DEF TypeInv, TypeOK, Room

LEMMA ChangeLanguageTypes ==
    ASSUME TypeInv, ChangeLanguage
    PROVE  TypeInv'
  <1>1. /\ SessionFrame /\ Enter(active) /\ active \in Sessions
        /\ UNCHANGED <<live, used, stored, kept, deleting>>
    BY DEF ChangeLanguage, SessionFrame, TypeInv, TypeOK
  <1>2. /\ active' \in Sessions /\ loaded' \in BOOLEAN
        /\ fetch' \in Seq(Seq(Message)) /\ Len(fetch') <= 1 /\ disturbed' \subseteq Sessions
    BY <1>1, EnterTypes
  <1> QED
    BY <1>1, <1>2, SessionFrameTypes, Zenon DEF TypeInv, TypeOK, Room

LEMMA CreateSessionTypes ==
    ASSUME TypeInv, CreateSession
    PROVE  TypeInv'
  <1>1. /\ SessionFrame /\ Open(NewSession) /\ UNCHANGED <<stored, kept, deleting>>
        /\ live' = live \cup {NewSession} /\ used' = used \cup {NewSession} /\ used # Sessions
    BY DEF CreateSession, SessionFrame
  <1>2. NewSession \in Sessions
    BY <1>1, NewSessionType DEF TypeInv
  <1>3. /\ active' \in Sessions /\ loaded' \in BOOLEAN
        /\ fetch' \in Seq(Seq(Message)) /\ Len(fetch') <= 1 /\ disturbed' \subseteq Sessions
    BY <1>1, <1>2, OpenTypes
  <1>4. live' \subseteq used' /\ used' \subseteq Sessions /\ Room'
    BY <1>1, <1>2 DEF TypeInv, TypeOK, Room
  <1> QED
    BY <1>1, <1>3, <1>4, SessionFrameTypes, Zenon DEF TypeInv, TypeOK

LEMMA FinishDeleteTypes ==
    ASSUME TypeInv, FinishDelete
    PROVE  /\ TypeInv'
           /\ \/ \E s \in Sessions : Open(s)
              \/ UNCHANGED <<active, loaded, fetch, disturbed>>
  <1>1. SessionFrame /\ deleting' = <<>> /\ UNCHANGED <<stored, kept>>
    BY DEF FinishDelete, SessionFrame
  <1>2. deleting' \in Seq([id : Sessions, wasActive : BOOLEAN]) /\ Len(deleting') <= 1
    BY <1>1
  <1>3. CASE Head(deleting).wasActive
    <2>1. PICK s \in IF live # {} THEN live ELSE {NewSession} :
                /\ live' = live \cup {s}
                /\ used' = used \cup {s}
                /\ Open(s)
      BY <1>3, Zenon DEF FinishDelete
    <2>2. s \in Sessions
      BY <2>1, NewSessionType DEF TypeInv, TypeOK, Room
    <2>3. /\ active' \in Sessions /\ loaded' \in BOOLEAN
          /\ fetch' \in Seq(Seq(Message)) /\ Len(fetch') <= 1 /\ disturbed' \subseteq Sessions
      BY <1>1, <2>1, <2>2, OpenTypes
    <2>4. live' \subseteq used' /\ used' \subseteq Sessions /\ Room'
      BY <2>1, <2>2 DEF TypeInv, TypeOK, Room
    <2>5. TypeInv'
      BY <1>1, <1>2, <2>3, <2>4, SessionFrameTypes, Zenon DEF TypeInv, TypeOK
    <2> QED
      BY <2>1, <2>2, <2>5
  <1>4. CASE ~Head(deleting).wasActive
    <2>1. UNCHANGED <<live, used, active, loaded, fetch, disturbed>>
      BY <1>4, Zenon DEF FinishDelete
    <2>2. TypeInv'
      BY <1>1, <1>2, <2>1, SessionFrameTypes, Zenon DEF TypeInv, TypeOK, Room
    <2> QED
      BY <2>1, <2>2
  <1> QED
    BY <1>3, <1>4

LEMMA DeleteSessionTypes ==
    ASSUME TypeInv, NEW s \in Sessions, DeleteSession(s)
    PROVE  TypeInv'
  <1> USE DEF TypeInv
  <1>1. /\ s \in live /\ live' = live \ {s} /\ used' = used
        /\ live # {s} \/ used # Sessions
        /\ UNCHANGED <<page, active, shown, loaded, fetch, timers, net, home, sse, resend, disturbed,
                       abandoned>>
    BY DEF DeleteSession
  <1>2. live' \subseteq used' /\ used' \subseteq Sessions /\ Room'
    BY <1>1 DEF TypeOK, Room
  <1>3. stored' \in [Sessions -> Seq(Message)]
    BY DEF DeleteSession, TypeOK
  <1>4. kept' \in [Sessions -> SUBSET (Requests \X {"user", "assistant"})]
    BY DEF DeleteSession, TypeOK
  <1>5. deleting' \in Seq([id : Sessions, wasActive : BOOLEAN]) /\ Len(deleting') <= 1
    <2>1. deleting' = <<[id |-> s, wasActive |-> s = active]>>
      BY DEF DeleteSession
    <2>2. [id |-> s, wasActive |-> s = active] \in [id : Sessions, wasActive : BOOLEAN]
      OBVIOUS
    <2> QED
      BY <2>1, <2>2
  <1>6. breaks' \in 0..MaxBreaks
    BY PlaygroundAssumption DEF DeleteSession, TypeOK
  <1> QED
    BY <1>1, <1>2, <1>3, <1>4, <1>5, <1>6, Zenon DEF TypeOK

LEMMA RunTimerTypes ==
    ASSUME TypeInv, RunTimer
    PROVE  /\ TypeInv'
           /\ Head(timers).to \in Sessions /\ Head(timers).list \in Seq(Message)
           /\ Head(timers) = timers[1] /\ 1 \in 1..Len(timers)
           /\ Len(timers') = Len(timers) - 1
           /\ \A i \in 1..Len(timers') : timers'[i] = timers[i + 1] /\ i + 1 \in 1..Len(timers)
  <1> USE DEF TypeInv
  <1> DEFINE T == [to : Sessions, list : Seq(Message)]
  <1>1. timers \in Seq(T) /\ timers # <<>> /\ timers' = Tail(timers)
    BY DEF RunTimer, TypeOK
  <1> HIDE DEF T
  <1>2. /\ Head(timers) \in T /\ Head(timers) = timers[1] /\ 1 \in 1..Len(timers)
        /\ timers' \in Seq(T) /\ Len(timers') = Len(timers) - 1
        /\ \A i \in 1..Len(timers') : timers'[i] = timers[i + 1] /\ i + 1 \in 1..Len(timers)
    BY <1>1, HeadTail
  <1>3. Len(timers') <= MaxTimers
    <2>1. Len(timers) \in Nat /\ Len(timers) <= MaxTimers
      BY <1>1 DEF TypeOK
    <2> QED
      BY <1>2, <2>1, PlaygroundAssumption
  <1>4. Head(timers).to \in Sessions /\ Head(timers).list \in Seq(Message)
    BY <1>2 DEF T
  <1>5. stored' \in [Sessions -> Seq(Message)]
    BY <1>4 DEF RunTimer, TypeOK, SaveTo
  <1>6. kept' \in [Sessions -> SUBSET (Requests \X {"user", "assistant"})]
    <2> DEFINE more == Ids(Head(timers).list) \cap Ids(shown)
    <2>1. more \subseteq Requests \X {"user", "assistant"}
      BY <1>4, IdsType DEF Roles
    <2>2. kept' = kept \/ kept' = [kept EXCEPT ![Head(timers).to] = @ \cup more]
      BY Zenon DEF RunTimer, SaveTo
    <2> HIDE DEF more
    <2>3. kept \in [Sessions -> SUBSET (Requests \X {"user", "assistant"})]
      BY DEF TypeOK
    <2> QED
      BY <1>4, <2>1, <2>2, <2>3, KeptMore
  <1>7. UNCHANGED <<page, live, used, active, shown, loaded, fetch, net, home, sse, resend,
                    deleting, breaks, disturbed, abandoned>>
    BY DEF RunTimer
  <1>8. timers' \in Seq([to : Sessions, list : Seq(Message)])
    BY <1>2 DEF T
  <1> QED
    BY <1>2, <1>3, <1>4, <1>5, <1>6, <1>7, <1>8, Zenon DEF TypeOK, Room

LEMMA LoadTypes ==
    ASSUME TypeInv, Load
    PROVE  /\ TypeInv'
           /\ Head(fetch) \in Seq(Message) /\ Head(fetch) = fetch[1]
           /\ Ids(shown') = Ids(Head(fetch))
  <1> USE DEF TypeInv
  <1>1. Head(fetch) \in Seq(Message) /\ Head(fetch) = fetch[1]
    BY HeadTail DEF Load, TypeOK
  <1>2. shown' \in Seq(Message) /\ Ids(shown') = Ids(Head(fetch))
    BY <1>1, SetLastKeeps DEF Load, Interrupted
  <1>3. timers' \in Seq([to : Sessions, list : Seq(Message)]) /\ Len(timers') <= MaxTimers
    <2>1. timers' = timers \/ Schedule(active, shown')
      BY Zenon DEF Load
    <2> QED
      BY <1>2, <2>1, ScheduleType DEF TypeOK
  <1>4. net' \in [Requests -> [st : {"new", "lost", "over"} \cup Work, to : Sessions]]
    BY NetTypes DEF Load, NetStates
  <1>5. /\ fetch' = <<>> /\ loaded' = TRUE
        /\ UNCHANGED <<live, used, stored, kept, page, active, home, sse, resend, deleting, breaks,
                       disturbed, abandoned>>
    BY DEF Load, dbVars
  <1>6. fetch' \in Seq(Seq(Message)) /\ Len(fetch') <= 1 /\ loaded' \in BOOLEAN
    BY <1>5
  <1> QED
    BY <1>1, <1>2, <1>3, <1>4, <1>5, <1>6, Zenon DEF TypeOK, Room

\* The sessions that are cut off are sessions.
LEMMA SeveredType ==
    ASSUME TypeInv
    PROVE  Severed \in SUBSET Sessions
  <1>1. \A r \in Requests : net[r].to \in Sessions
    BY DEF TypeInv, TypeOK
  <1>2. \A t \in ToSet(timers) : t.to \in Sessions
    BY TimersType, Zenon DEF ToSet, TypeInv
  <1> QED
    BY <1>1, <1>2 DEF Severed

LEMMA ReloadTypes ==
    ASSUME TypeInv, Reload
    PROVE  TypeInv'
  <1> USE DEF TypeInv
  <1>1. PICK s \in IF active \in live THEN {active} ELSE IF live # {} THEN live ELSE {NewSession} :
          /\ active' = s
          /\ live' = live \cup {s}
          /\ used' = used \cup {s}
          /\ fetch' = <<stored[s]>>
    BY Zenon DEF Reload
  <1>2. s \in Sessions
    BY <1>1, NewSessionType DEF TypeOK, Room
  <1>3. /\ page' = "up" /\ loaded' = FALSE /\ shown' = <<>> /\ timers' = <<>> /\ net' = Forgotten
        /\ sse' = {} /\ resend' = <<>> /\ deleting' = <<>>
        /\ UNCHANGED <<stored, kept, home, abandoned>>
    BY DEF Reload
  <1>4. live' \subseteq used' /\ used' \subseteq Sessions /\ Room'
    BY <1>1, <1>2 DEF TypeOK, Room
  <1>5. fetch' \in Seq(Seq(Message)) /\ Len(fetch') <= 1
    <2>1. stored[s] \in Seq(Message)
      BY <1>2 DEF TypeOK
    <2> QED
      BY <1>1, <2>1
  <1>6. /\ shown' \in Seq(Message)
        /\ timers' \in Seq([to : Sessions, list : Seq(Message)]) /\ Len(timers') <= MaxTimers
        /\ resend' \in Seq([to : Sessions, kind : {"chat", "video"}]) /\ Len(resend') <= 1
        /\ deleting' \in Seq([id : Sessions, wasActive : BOOLEAN]) /\ Len(deleting') <= 1
    BY <1>3, PlaygroundAssumption
  <1>7. breaks' \in 0..MaxBreaks
    BY PlaygroundAssumption DEF Reload, TypeOK
  <1>8. disturbed' \subseteq Sessions
    BY SeveredType, DisturbGrows DEF Reload
  <1>9. net' \in [Requests -> [st : {"new", "lost", "over"} \cup Work, to : Sessions]]
    BY <1>3, NetTypes DEF NetStates
  <1>10. active' \in Sessions /\ page' \in {"up", "crashed"} /\ loaded' \in BOOLEAN
    BY <1>1, <1>2, <1>3
  <1> QED
    BY <1>3, <1>4, <1>5, <1>6, <1>7, <1>8, <1>9, <1>10, Zenon DEF TypeOK

LEMMA CrashTypes ==
    ASSUME TypeInv, Crash
    PROVE  TypeInv'
  <1> USE DEF TypeInv
  <1>1. /\ page' = "crashed" /\ shown' = <<>> /\ fetch' = <<>> /\ net' = Forgotten /\ resend' = <<>>
        /\ deleting' = <<>> 
        /\ UNCHANGED <<active, loaded, breaks, timers, live, used, stored, kept, home, abandoned>>
    BY DEF Crash, CrashPage, dbVars
  <1>2. /\ shown' \in Seq(Message) /\ fetch' \in Seq(Seq(Message)) /\ Len(fetch') <= 1
        /\ resend' \in Seq([to : Sessions, kind : {"chat", "video"}]) /\ Len(resend') <= 1
        /\ deleting' \in Seq([id : Sessions, wasActive : BOOLEAN]) /\ Len(deleting') <= 1
        /\ page' \in {"up", "crashed"}
    BY <1>1
  <1>3. disturbed' \subseteq Sessions
    BY SeveredType, DisturbGrows DEF Crash, CrashPage
  <1>4. net' \in [Requests -> [st : {"new", "lost", "over"} \cup Work, to : Sessions]]
    BY <1>1, NetTypes DEF NetStates
  <1>5. sse' = {} \/ \E r \in Requests : sse' = {r}
    BY SseLess DEF Crash
  <1> QED
    BY <1>1, <1>2, <1>3, <1>4, <1>5, Zenon DEF TypeOK, Room

\* Every step is an edit of the list, takes the page down, or is one of the
\* actions on sessions, saves and the page itself.
LEMMA StepCases ==
    ASSUME TypeInv, Next
    PROVE  \/ Edit
           \/ Crash
           \/ \E s \in Sessions : SwitchSession(s) \/ DeleteSession(s)
           \/ CreateSession
           \/ ChangeLanguage
           \/ FinishDelete
           \/ Load
           \/ RunTimer
           \/ Reload
  BY UserSendsEdits, ResendEdits, ResetMessageEdits, StreamMessageUpdateEdits, StreamEndsEdits,
     StreamGarbledEdits, StreamBreaksEdits, ReplyEdits, SilentEdits, StopEdits, VideoEdits,
     ClearMessagesEdits, DeleteMessageEdits, Zenon
  DEF Next

LEMMA NextTypes ==
    ASSUME TypeInv, [Next]_vars
    PROVE  TypeInv'
  <1>1. CASE Next
    BY <1>1, StepCases, EditTypes, CrashTypes, SwitchSessionTypes, DeleteSessionTypes,
       CreateSessionTypes, ChangeLanguageTypes, FinishDeleteTypes, LoadTypes, RunTimerTypes, ReloadTypes, Zenon
  <1>2. CASE UNCHANGED vars
    BY <1>2, Zenon DEF vars, TypeInv, TypeOK, Room
  <1> QED
    BY <1>1, <1>2

\* The types hold: in particular every list that is shown, read, scheduled or
\* stored is a list of messages, and at most one load, resend and deletion is
\* pending.
THEOREM Types == Spec => []TypeOK
  <1>1. Spec => []TypeInv
    BY InitTypes, NextTypes, PTL DEF Spec
  <1>2. TypeInv => TypeOK
    BY DEF TypeInv
  <1> QED
    BY <1>1, <1>2, PTL

----------------------------------------------------------------------------
(* Where work can be saved: a session that is not disturbed has work that   *)
(* will be saved under it only while it is on the page and loaded.          *)

Capturing == {"stream", "submit", "poll"}

CapInv ==
    /\ fetch # <<>> => ~loaded
    /\ \A s \in Sessions \ disturbed : Captured(s) => s = active /\ loaded

\* The elements of a queue, by position.
LEMMA QueueElements ==
    ASSUME NEW S, NEW q \in Seq(S), NEW s
    PROVE  (\E t \in ToSet(q) : t.to = s) <=> \E i \in 1..Len(q) : q[i].to = s
  <1>1. DOMAIN q = 1..Len(q)
    OBVIOUS
  <1> QED
    BY <1>1, Zenon DEF ToSet

\* Whatever is captured by a step is captured for a session of S.
CapturesOnly(S) ==
    /\ \A r \in Requests :
          net'[r] = net[r] \/ net'[r].st \notin Capturing \/ net'[r].to \in S
    /\ \A i \in 1..Len(timers') :
          (i \in 1..Len(timers) /\ timers'[i] = timers[i]) \/ timers'[i].to \in S
    /\ \A i \in 1..Len(resend') :
          (i \in 1..Len(resend) /\ resend'[i] = resend[i]) \/ resend'[i].to \in S

\* Captured, by position; in this state and in the next.
LEMMA CapturedNow ==
    ASSUME TypeInv, NEW s
    PROVE  Captured(s) <=>
             \/ \E r \in Requests : net[r].st \in Capturing /\ net[r].to = s
             \/ \E i \in 1..Len(timers) : timers[i].to = s
             \/ \E i \in 1..Len(resend) : resend[i].to = s
  <1>1. /\ timers \in Seq([to : Sessions, list : Seq(Message)])
        /\ resend \in Seq([to : Sessions, kind : {"chat", "video"}])
    BY DEF TypeInv, TypeOK
  <1>2. (\E t \in ToSet(timers) : t.to = s) <=> \E i \in 1..Len(timers) : timers[i].to = s
    BY <1>1, QueueElements, Zenon
  <1>3. (\E t \in ToSet(resend) : t.to = s) <=> \E i \in 1..Len(resend) : resend[i].to = s
    BY <1>1, QueueElements, Zenon
  <1> QED
    BY <1>2, <1>3, Zenon DEF Captured, Capturing

LEMMA CapturedThen ==
    ASSUME TypeInv', NEW s
    PROVE  Captured(s)' <=>
             \/ \E r \in Requests : net'[r].st \in Capturing /\ net'[r].to = s
             \/ \E i \in 1..Len(timers') : timers'[i].to = s
             \/ \E i \in 1..Len(resend') : resend'[i].to = s
  <1>1. /\ timers' \in Seq([to : Sessions, list : Seq(Message)])
        /\ resend' \in Seq([to : Sessions, kind : {"chat", "video"}])
    BY DEF TypeInv, TypeOK
  <1>2. (\E t \in ToSet(timers') : t.to = s) <=> \E i \in 1..Len(timers') : timers'[i].to = s
    BY <1>1, QueueElements, Zenon
  <1>3. (\E t \in ToSet(resend') : t.to = s) <=> \E i \in 1..Len(resend') : resend'[i].to = s
    BY <1>1, QueueElements, Zenon
  <1> QED
    BY <1>2, <1>3, Zenon DEF Captured, Capturing

LEMMA CapturedBefore ==
    ASSUME TypeInv, TypeInv', NEW S, CapturesOnly(S), NEW s, Captured(s)'
    PROVE  Captured(s) \/ s \in S
  <1>1. CASE \E r \in Requests : net'[r].st \in Capturing /\ net'[r].to = s
    BY <1>1, CapturedNow, Zenon DEF CapturesOnly
  <1>2. CASE \E i \in 1..Len(timers') : timers'[i].to = s
    BY <1>2, CapturedNow, Zenon DEF CapturesOnly
  <1>3. CASE \E i \in 1..Len(resend') : resend'[i].to = s
    BY <1>3, CapturedNow, Zenon DEF CapturesOnly
  <1> QED
    BY <1>1, <1>2, <1>3, CapturedThen, Zenon

\* A step on the same page that captures only for sessions for which it may.
LEMMA CapturesKept ==
    ASSUME TypeInv, TypeInv', CapInv, NEW S, CapturesOnly(S),
           UNCHANGED <<active, loaded>>, fetch' = fetch \/ fetch' = <<>>,
           disturbed \subseteq disturbed',
           \A s \in S : s \in Sessions \ disturbed' => (s = active /\ loaded) \/ Captured(s)
    PROVE  CapInv'
  <1>1. (fetch # <<>> => ~loaded)'
    BY DEF CapInv
  <1>2. ASSUME NEW s \in Sessions \ disturbed', Captured(s)'
        PROVE  s = active /\ loaded
    <2>1. Captured(s) \/ s \in S
      BY <1>2, CapturedBefore
    <2>2. s \in Sessions \ disturbed
      OBVIOUS
    <2> QED
      BY <2>1, <2>2 DEF CapInv
  <1> QED
    BY <1>1, <1>2, Zenon DEF CapInv

\* What is scheduled is captured for the session it is saved under.
LEMMA ScheduleCaptures ==
    ASSUME TypeInv, NEW s \in Sessions, NEW S, s \in S, NEW list \in Seq(Message),
           timers' = timers \/ Schedule(s, list)
    PROVE  \A i \in 1..Len(timers') :
              (i \in 1..Len(timers) /\ timers'[i] = timers[i]) \/ timers'[i].to \in S
  <1>1. CASE timers' = timers
    BY <1>1
  <1>2. CASE Schedule(s, list)
    <2>1. /\ Len(timers') = Len(timers) + 1 /\ timers'[Len(timers')] = [to |-> s, list |-> list]
          /\ \A i \in 1..Len(timers) : timers'[i] = timers[i]
          /\ Len(timers) \in Nat
      BY <1>2, ScheduleType, TimersType DEF TypeInv
    <2>2. \A i \in 1..Len(timers') : i \in 1..Len(timers) \/ i = Len(timers')
      BY <2>1
    <2> QED
      BY <2>1, <2>2
  <1> QED
    BY <1>1, <1>2

\* An edit that captures for at most one session.
LEMMA EditCaptures ==
    ASSUME TypeInv, CapInv, Edit, NEW s \in Sessions,
           s \in Sessions \ disturbed' => (s = active /\ loaded) \/ Captured(s),
           \A r \in Requests : net'[r] = net[r] \/ net'[r].st \notin Capturing \/ net'[r].to = s,
           timers' = timers \/ Schedule(s, shown'),
           resend' = resend \/ resend' = <<>> \/ (Len(resend') = 1 /\ resend'[1].to = s)
    PROVE  CapInv'
  <1>1. TypeInv'
    BY EditTypes
  <1>2. /\ shown' \in Seq(Message) /\ UNCHANGED <<active, loaded, fetch>>
        /\ disturbed \subseteq disturbed'
    BY DEF Edit
  <1>3. \A i \in 1..Len(resend') :
           (i \in 1..Len(resend) /\ resend'[i] = resend[i]) \/ resend'[i].to \in {s}
    <2>1. CASE resend' = resend
      BY <2>1
    <2>2. CASE resend' = <<>>
      BY <2>2
    <2>3. CASE Len(resend') = 1 /\ resend'[1].to = s
      BY <2>3
    <2> QED
      BY <2>1, <2>2, <2>3
  <1>4. CapturesOnly({s})
    BY <1>2, <1>3, ScheduleCaptures DEF CapturesOnly
  <1> QED
    BY <1>1, <1>2, <1>4, CapturesKept

\* An edit that captures nothing.
LEMMA EditCapturesNone ==
    ASSUME TypeInv, CapInv, Edit,
           \A r \in Requests : net'[r] = net[r] \/ net'[r].st \notin Capturing,
           timers' = timers, resend' = resend
    PROVE  CapInv'
  <1>1. TypeInv'
    BY EditTypes
  <1>2. CapturesOnly({})
    BY DEF CapturesOnly
  <1>3. UNCHANGED <<active, loaded, fetch>> /\ disturbed \subseteq disturbed'
    BY DEF Edit
  <1> QED
    BY <1>1, <1>2, <1>3, CapturesKept

LEMMA SendCaptures ==
    ASSUME TypeInv, CapInv, Edit, NEW s \in Sessions, NEW kind \in {"chat", "video"}, Send(s, kind),
           s \in Sessions \ disturbed' => (s = active /\ loaded) \/ Captured(s),
           resend' = resend \/ resend' = <<>>
    PROVE  CapInv'
  BY SendGrows, EditCaptures

LEMMA UserSendsCaptures ==
    ASSUME TypeInv, CapInv, NEW kind \in {"chat", "video"}, UserSends(kind)
    PROVE  CapInv'
  <1>1. active \in Sessions /\ Send(active, kind) /\ Touch /\ resend' = resend
    BY DEF UserSends, TypeInv, TypeOK
  <1> QED
    BY <1>1, UserSendsEdits, SendCaptures, TouchGrows

LEMMA ResendCaptures ==
    ASSUME TypeInv, CapInv, Resend
    PROVE  CapInv'
  <1>1. resend \in Seq([to : Sessions, kind : {"chat", "video"}]) /\ resend # <<>>
    BY DEF Resend, TypeInv, TypeOK
  <1>2. /\ Head(resend) \in [to : Sessions, kind : {"chat", "video"}] /\ Head(resend) = resend[1]
        /\ 1 \in 1..Len(resend)
    BY <1>1, HeadTail
  <1>3. /\ Head(resend).to \in Sessions /\ Head(resend).kind \in {"chat", "video"}
        /\ Send(Head(resend).to, Head(resend).kind) /\ resend' = <<>>
    BY <1>2 DEF Resend
  <1>4. Captured(Head(resend).to)
    BY <1>2, CapturedNow, Zenon
  <1> QED
    BY <1>3, <1>4, ResendEdits, SendCaptures

LEMMA ResetMessageCaptures ==
    ASSUME TypeInv, CapInv, NEW i \in DOMAIN shown, ResetMessage(i)
    PROVE  CapInv'
  <1>1. active \in Sessions /\ Touch /\ UNCHANGED <<timers, net>>
    BY DEF ResetMessage, TypeInv, TypeOK
  <1>2. Len(resend') = 1 /\ resend'[1].to = active
    <2>1. PICK kind : resend' = <<[to |-> active, kind |-> kind]>>
      BY Zenon DEF ResetMessage
    <2> QED
      BY <2>1
  <1> QED
    BY <1>1, <1>2, ResetMessageEdits, EditCaptures, TouchGrows

\* A callback of request r, which saves under the session it captured.
LEMMA CallbackCaptures ==
    ASSUME TypeInv, CapInv, Edit, NEW r \in Requests, net[r].st \in Capturing,
           \/ net' = net
           \/ net' = [net EXCEPT ![r] = Ended("over")]
           \/ net' = [net EXCEPT ![r].st = "poll"],
           timers' = timers \/ Schedule(net[r].to, shown'),
           resend' = resend
    PROVE  CapInv'
  <1>1. net[r].to \in Sessions /\ Captured(net[r].to) /\ net[r].st # "new"
    BY CapturedNow DEF TypeInv, TypeOK, Capturing
  <1>2. \A x \in Requests : x # r => net'[x] = net[x]
    BY <1>1, NetStep
  <1>3. net'[r] = net[r] \/ net'[r].st \notin Capturing \/ net'[r].to = net[r].to
    BY DEF TypeInv, TypeOK, Ended, Capturing
  <1> QED
    BY <1>1, <1>2, <1>3, EditCaptures

LEMMA CrashCaptures ==
    ASSUME TypeInv, CapInv, Crash
    PROVE  CapInv'
  <1>1. TypeInv'
    BY CrashTypes
  <1>2. /\ fetch' = <<>> /\ net' = Forgotten /\ resend' = <<>>
        /\ UNCHANGED <<active, loaded, timers>>
        /\ disturbed \subseteq disturbed'
    BY SeveredType, DisturbGrows DEF Crash, CrashPage
  <1>3. \A r \in Requests : net'[r].st \notin Capturing
    BY <1>2 DEF Forgotten, Ended, Capturing
  <1>4. CapturesOnly({})
    BY <1>2, <1>3 DEF CapturesOnly
  <1> QED
    BY <1>1, <1>2, <1>4, CapturesKept

LEMMA StreamCaptures ==
    ASSUME TypeInv, CapInv, NEW r \in Requests,
           \/ StreamMessageUpdate(r) \/ StreamEnds(r) \/ StreamCloses(r) \/ StreamGarbled(r)
           \/ StreamBreaks(r)
    PROVE  CapInv'
  <1> USE DEF Capturing
  <1>1. CASE StreamMessageUpdate(r)
    BY <1>1, StreamMessageUpdateEdits, CallbackCaptures DEF StreamMessageUpdate
  <1>2. CASE StreamBreaks(r)
    BY <1>2, StreamBreaksEdits, CallbackCaptures DEF StreamBreaks
  <1>3. CASE StreamEnds(r)
    <2>1. CASE Crash
      BY <2>1, CrashCaptures
    <2>2. CASE Edit
      <3>1. page = "up" /\ page' = page
        BY <2>2 DEF Edit
      <3>2. shown # <<>> /\ net[r].st = "stream"
        BY <1>3, <3>1 DEF StreamEnds, CompleteMessage, CrashPage
      <3>3. /\ net' = [net EXCEPT ![r] = Ended("over")] /\ resend' = resend
            /\ timers' = timers \/ Schedule(net[r].to, shown')
        BY <1>3, <3>2 DEF StreamEnds, CompleteMessage
      <3> QED
        BY <2>2, <3>2, <3>3, CallbackCaptures
    <2> QED
      BY <1>3, <2>1, <2>2, StreamEndsEdits
  <1>4. CASE StreamGarbled(r)
    <2>1. CASE Crash
      BY <2>1, CrashCaptures
    <2>2. CASE Edit
      <3>1. page = "up" /\ page' = page
        BY <2>2 DEF Edit
      <3>2. shown # <<>> /\ net[r].st = "stream"
        BY <1>4, <3>1 DEF StreamGarbled, CompleteMessage, CrashPage
      <3>3. /\ net' = net /\ resend' = resend
            /\ timers' = timers \/ Schedule(net[r].to, shown')
        BY <1>4, <3>2 DEF StreamGarbled, CompleteMessage
      <3> QED
        BY <2>2, <3>2, <3>3, CallbackCaptures
    <2> QED
      BY <1>4, <2>1, <2>2, StreamGarbledEdits
  <1>5. CASE StreamCloses(r)
    BY <1>5, SilentEdits, CallbackCaptures DEF StreamCloses
  <1> QED
    BY <1>1, <1>2, <1>3, <1>4, <1>5

LEMMA ReplyCaptures ==
    ASSUME TypeInv, CapInv, NEW r \in Requests, Reply(r) \/ ReplyEmpty(r)
    PROVE  CapInv'
  <1>1. /\ net[r].st = "reply" /\ net' = [net EXCEPT ![r] = Ended("over")]
        /\ timers' = timers /\ resend' = resend
    BY DEF Reply, ReplyEmpty
  <1>2. \A x \in Requests : net'[x] = net[x] \/ net'[x].st \notin Capturing
    BY <1>1 DEF TypeInv, TypeOK, Ended, Capturing
  <1> QED
    BY <1>1, <1>2, ReplyEdits, SilentEdits, EditCapturesNone

LEMMA StopCaptures ==
    ASSUME TypeInv, CapInv, Stop
    PROVE  CapInv'
  <1>1. /\ active \in Sessions /\ Touch /\ resend' = resend
        /\ net' = [r \in Requests |-> IF r \in sse THEN Ended("over") ELSE net[r]]
    BY DEF Stop, TypeInv, TypeOK
  <1>2. timers' = timers \/ Schedule(active, shown')
    BY Zenon DEF Stop
  <1>3. \A r \in Requests : net'[r] = net[r] \/ net'[r].st \notin Capturing
    BY <1>1 DEF Ended, Capturing
  <1> QED
    BY <1>1, <1>2, <1>3, StopEdits, EditCaptures, TouchGrows

LEMMA VideoCaptures ==
    ASSUME TypeInv, CapInv, NEW r \in Requests,
           Submitted(r) \/ SubmitFails(r) \/ TickPolling(r) \/ TickEnds(r)
    PROVE  CapInv'
  <1>1. PICK status, task : UpdateVideo(r, status, task)
    BY Zenon DEF Submitted, SubmitFails, TickPolling, TickEnds
  <1>2. Schedule(net[r].to, shown') /\ resend' = resend
    BY <1>1, Zenon DEF UpdateVideo
  <1>3. /\ net[r].st \in Capturing
        /\ \/ net' = net
           \/ net' = [net EXCEPT ![r] = Ended("over")]
           \/ net' = [net EXCEPT ![r].st = "poll"]
    BY DEF Submitted, SubmitFails, TickPolling, TickEnds, Capturing
  <1> QED
    BY <1>2, <1>3, VideoEdits, CallbackCaptures

LEMMA RemovesCaptures ==
    ASSUME TypeInv, CapInv, NEW list, UserRemoves(list), Edit
    PROVE  CapInv'
  <1>1. /\ active \in Sessions /\ Touch /\ UNCHANGED <<net, resend>>
        /\ Schedule(active, shown')
    BY Zenon DEF UserRemoves, TypeInv, TypeOK
  <1> QED
    BY <1>1, EditCaptures, TouchGrows

\* Captured does not depend on what a change of session changes.
LEMMA CapturedSame ==
    ASSUME UNCHANGED <<net, timers, resend>>, NEW s
    PROVE  Captured(s)' <=> Captured(s)
  BY DEF Captured

\* A session that is left with work under way becomes disturbed.
LEMMA EnterCaptures ==
    ASSUME TypeInv, CapInv, NEW s \in Sessions, Enter(s), UNCHANGED <<net, timers, resend>>
    PROVE  CapInv'
  <1>1. /\ active' = s /\ loaded' = FALSE
        /\ disturbed' = disturbed \cup (IF Captured(active) THEN {active} ELSE {})
    BY DEF Enter, Disturb
  <1>2. ASSUME NEW x \in Sessions \ disturbed', Captured(x)' PROVE FALSE
    <2>1. x \in Sessions \ disturbed /\ Captured(x)
      BY <1>1, <1>2, CapturedSame
    <2>2. x = active
      BY <2>1 DEF CapInv
    <2> QED
      BY <1>1, <2>1, <2>2
  <1> QED
    BY <1>1, <1>2 DEF CapInv

LEMMA OpenCaptures ==
    ASSUME TypeInv, CapInv, NEW s \in Sessions, Open(s), UNCHANGED <<net, timers, resend>>
    PROVE  CapInv'
  <1>1. CASE s = active
    <2>1. UNCHANGED <<active, loaded, fetch, disturbed>>
      BY <1>1 DEF Open
    <2> QED
      BY <2>1, CapturedSame, Zenon DEF CapInv
  <1>2. CASE s # active
    BY <1>2, EnterCaptures DEF Open
  <1> QED
    BY <1>1, <1>2

LEMMA SessionCaptures ==
    ASSUME TypeInv, CapInv,
           \/ \E s \in Sessions : SwitchSession(s)
           \/ CreateSession \/ ChangeLanguage \/ FinishDelete
    PROVE  CapInv'
  <1>1. UNCHANGED <<net, timers, resend>>
    BY DEF SwitchSession, CreateSession, ChangeLanguage, FinishDelete
  <1>2. CASE \E s \in Sessions : SwitchSession(s)
    BY <1>1, <1>2, OpenCaptures DEF SwitchSession
  <1>3. CASE CreateSession
    <2>1. NewSession \in Sessions /\ Open(NewSession)
      BY <1>3, NewSessionType DEF CreateSession, TypeInv
    <2> QED
      BY <1>1, <2>1, OpenCaptures
  <1>4. CASE FinishDelete
    <2>1. CASE UNCHANGED <<active, loaded, fetch, disturbed>>
      BY <1>1, <2>1, CapturedSame, Zenon DEF CapInv
    <2>2. CASE \E s \in Sessions : Open(s)
      BY <1>1, <2>2, OpenCaptures
    <2> QED
      BY <1>4, <2>1, <2>2, FinishDeleteTypes
  <1>5. CASE ChangeLanguage
    <2>1. active \in Sessions /\ Enter(active)
      BY <1>5 DEF ChangeLanguage, TypeInv, TypeOK
    <2> QED
      BY <1>1, <2>1, EnterCaptures
  <1> QED
    BY <1>2, <1>3, <1>4, <1>5

LEMMA DeleteSessionCaptures ==
    ASSUME TypeInv, CapInv, NEW s \in Sessions, DeleteSession(s)
    PROVE  CapInv'
  <1>1. UNCHANGED <<net, timers, resend, active, loaded, fetch, disturbed>>
    BY DEF DeleteSession
  <1> QED
    BY <1>1, CapturedSame, Zenon DEF CapInv

LEMMA LoadCaptures ==
    ASSUME TypeInv, CapInv, Load
    PROVE  CapInv'
  <1>1. TypeInv' /\ active \in Sessions /\ shown' \in Seq(Message)
    BY LoadTypes DEF TypeInv, TypeOK
  <1>2. /\ fetch' = <<>> /\ loaded' = TRUE /\ UNCHANGED <<active, resend, disturbed>>
        /\ timers' = timers \/ Schedule(active, shown')
        /\ ~loaded
    BY Zenon DEF Load, CapInv
  <1>3. \A r \in Requests : net'[r] = net[r] \/ net'[r].to = active
    BY DEF Load, Recovered
  <1>4. CapturesOnly({active})
    BY <1>1, <1>2, <1>3, ScheduleCaptures DEF CapturesOnly
  <1>5. ASSUME NEW x \in Sessions \ disturbed', Captured(x)' PROVE x = active
    <2>1. Captured(x) \/ x = active
      BY <1>1, <1>4, <1>5, CapturedBefore
    <2> QED
      BY <1>2, <2>1 DEF CapInv
  <1> QED
    BY <1>2, <1>5 DEF CapInv

LEMMA RunTimerCaptures ==
    ASSUME TypeInv, CapInv, RunTimer
    PROVE  CapInv'
  <1>1. UNCHANGED <<net, resend, active, loaded, fetch, disturbed>>
    BY DEF RunTimer
  <1>2. ASSUME NEW s \in Sessions \ disturbed', Captured(s)' PROVE Captured(s)
    <2>1. \/ \E r \in Requests : net'[r].st \in Capturing /\ net'[r].to = s
          \/ \E i \in 1..Len(timers') : timers'[i].to = s
          \/ \E i \in 1..Len(resend') : resend'[i].to = s
      BY <1>2, RunTimerTypes, CapturedThen, Zenon
    <2>2. CASE \E i \in 1..Len(timers') : timers'[i].to = s
      BY <2>2, RunTimerTypes, CapturedNow, Zenon
    <2> QED
      BY <1>1, <2>1, <2>2, CapturedNow
  <1> QED
    BY <1>1, <1>2 DEF CapInv

LEMMA ReloadCaptures ==
    ASSUME TypeInv, CapInv, Reload
    PROVE  CapInv' /\ \A s : ~Captured(s)'
  <1>1. TypeInv'
    BY ReloadTypes
  <1>2. timers' = <<>> /\ resend' = <<>> /\ net' = Forgotten /\ loaded' = FALSE
    BY DEF Reload
  <1>3. \A r \in Requests : net'[r].st \notin Capturing
    BY <1>2 DEF Forgotten, Ended, Capturing
  <1>4. ASSUME NEW s PROVE ~Captured(s)'
    BY <1>1, <1>2, <1>3, CapturedThen
  <1> QED
    BY <1>2, <1>4 DEF CapInv

LEMMA InitCaptures == Init => CapInv
  <1> SUFFICES ASSUME Init PROVE CapInv
    OBVIOUS
  <1>1. TypeInv
    BY InitTypes
  <1>2. timers = <<>> /\ resend = <<>> /\ loaded = FALSE
    BY DEF Init
  <1>3. \A r \in Requests : net[r].st \notin Capturing
    BY DEF Init, Ended, Capturing
  <1>4. ASSUME NEW s PROVE ~Captured(s)
    BY <1>1, <1>2, <1>3, CapturedNow
  <1> QED
    BY <1>2, <1>4 DEF CapInv

LEMMA NextCaptures ==
    ASSUME TypeInv, CapInv, Next
    PROVE  CapInv'
  <1>1. CASE \E s \in Sessions : SwitchSession(s) \/ DeleteSession(s)
    BY <1>1, SessionCaptures, DeleteSessionCaptures
  <1>2. CASE CreateSession \/ ChangeLanguage \/ FinishDelete
    BY <1>2, SessionCaptures
  <1>3. CASE Load \/ RunTimer \/ Reload
    BY <1>3, LoadCaptures, RunTimerCaptures, ReloadCaptures
  <1>4. CASE (\E kind \in {"chat", "video"} : UserSends(kind)) \/ Resend
    BY <1>4, UserSendsCaptures, ResendCaptures
  <1>5. CASE \E r \in Requests : \/ StreamMessageUpdate(r) \/ StreamEnds(r) \/ StreamCloses(r)
                                 \/ StreamGarbled(r) \/ StreamBreaks(r)
    BY <1>5, StreamCaptures
  <1>6. CASE \E r \in Requests : \/ Reply(r) \/ ReplyEmpty(r) \/ Submitted(r) \/ SubmitFails(r)
                                 \/ TickPolling(r) \/ TickEnds(r)
    BY <1>6, ReplyCaptures, VideoCaptures
  <1>7. CASE Stop
    BY <1>7, StopCaptures
  <1>8. CASE ClearMessages
    BY <1>8, ClearMessagesEdits, RemovesCaptures DEF ClearMessages
  <1>9. CASE \E i \in DOMAIN shown : DeleteMessage(i)
    <2>1. PICK i \in DOMAIN shown : DeleteMessage(i)
      BY <1>9
    <2>2. \E list : UserRemoves(list)
      BY <2>1, Zenon DEF DeleteMessage
    <2> QED
      BY <2>1, <2>2, DeleteMessageEdits, RemovesCaptures
  <1>10. CASE \E i \in DOMAIN shown : ResetMessage(i)
    BY <1>10, ResetMessageCaptures
  <1> QED
    BY <1>1, <1>2, <1>3, <1>4, <1>5, <1>6, <1>7, <1>8, <1>9, <1>10, Zenon DEF Next

----------------------------------------------------------------------------
(* What lists contain. *)

\* Every message of the list belongs to a request that was sent.
SentIn(list) == \A id \in Ids(list) : net[id[1]].st # "new"

\* Every message of the list was sent from session s.
OwnIn(s, list) == \A id \in Ids(list) : home[id[1]] = s

SentInv ==
    /\ \A s \in Sessions : SentIn(stored[s])
    /\ \A i \in 1..Len(timers) : SentIn(timers[i].list)
    /\ fetch # <<>> => SentIn(fetch[1])
    /\ SentIn(shown)

\* The store of a session that is not disturbed, what will be written to it,
\* what was read from it and what is shown of it are the session's own.
OwnInv ==
    /\ \A s \in Sessions \ disturbed : OwnIn(s, stored[s])
    /\ \A i \in 1..Len(timers) :
          timers[i].to \notin disturbed => OwnIn(timers[i].to, timers[i].list)
    /\ fetch # <<>> /\ active \notin disturbed => OwnIn(active, fetch[1])
    /\ loaded /\ active \notin disturbed => OwnIn(active, shown)

\* They also contain all that is kept of the session, and so does the store
\* after any of the saves that are scheduled: what a save will keep is in the
\* saves that follow it.
KeepInv ==
    /\ \A s \in Sessions \ disturbed : kept[s] \subseteq Ids(stored[s])
    /\ \A i \in 1..Len(timers) :
          timers[i].to \notin disturbed => kept[timers[i].to] \subseteq Ids(timers[i].list)
    /\ fetch # <<>> /\ active \notin disturbed => kept[active] \subseteq Ids(fetch[1])
    /\ page = "up" /\ loaded /\ active \notin disturbed => kept[active] \subseteq Ids(shown)
    /\ \A i, j \in 1..Len(timers) :
          i < j /\ timers[i].to = timers[j].to /\ timers[i].to \notin disturbed
            => Ids(timers[i].list) \cap Ids(shown) \subseteq Ids(timers[j].list)

ListInv == SentInv /\ OwnInv /\ KeepInv

Inv == TypeInv /\ CapInv /\ ListInv

\* The lists of a state are lists of messages.
LEMMA ListTypes ==
    ASSUME TypeInv
    PROVE  /\ \A s \in Sessions : Ids(stored[s]) \subseteq Requests \X Roles
           /\ \A i \in 1..Len(timers) : Ids(timers[i].list) \subseteq Requests \X Roles
           /\ fetch # <<>> => Ids(fetch[1]) \subseteq Requests \X Roles
           /\ Ids(shown) \subseteq Requests \X Roles
  <1>1. \A s \in Sessions : stored[s] \in Seq(Message)
    BY DEF TypeInv, TypeOK
  <1>2. fetch # <<>> => fetch[1] \in Seq(Message)
    BY HeadTail DEF TypeInv, TypeOK
  <1>3. shown \in Seq(Message)
    BY DEF TypeInv, TypeOK
  <1> QED
    BY <1>1, <1>2, <1>3, TimersType, IdsType DEF TypeInv

\* What an edit does to saves, requests, the list and what is kept.
LEMMA EditFacts ==
    ASSUME TypeInv, CapInv', Edit
    PROVE  /\ \A i \in 1..Len(timers') :
                 \/ i \in 1..Len(timers) /\ timers'[i] = timers[i]
                 \/ /\ i = Len(timers') /\ timers'[i].list = shown' /\ timers'[i].to \in Sessions
                    /\ timers'[i].to \notin disturbed' => timers'[i].to = active /\ loaded
           /\ \A x \in Requests : net[x].st # "new" => net'[x].st # "new" /\ home'[x] = home[x]
           /\ \A id \in Ids(shown') :
                 \/ id \in Ids(shown)
                 \/ /\ id[1] \in Requests /\ net[id[1]].st = "new" /\ net'[id[1]].st # "new"
                    /\ loaded /\ active \notin disturbed' => home'[id[1]] = active
           /\ \A s \in Sessions : kept'[s] \subseteq kept[s]
           /\ kept'[active] \cap Ids(shown) \subseteq Ids(shown')
           /\ Len(timers) \in Nat /\ Len(timers') \in Nat
  <1>1. TypeInv'
    BY EditTypes
  <1>2. Len(timers) \in Nat /\ Len(timers') \in Nat
    BY <1>1, TimersType DEF TypeInv, TypeOK
  <1>3. ASSUME NEW i \in 1..Len(timers')
        PROVE  \/ i \in 1..Len(timers) /\ timers'[i] = timers[i]
               \/ /\ i = Len(timers') /\ timers'[i].list = shown' /\ timers'[i].to \in Sessions
                  /\ timers'[i].to \notin disturbed' => timers'[i].to = active /\ loaded
    <2>1. CASE timers' = timers
      BY <2>1
    <2>2. CASE \E s \in Sessions : Schedule(s, shown')
      <3>1. PICK s \in Sessions : Schedule(s, shown')
        BY <2>2
      <3>2. /\ Len(timers') = Len(timers) + 1
            /\ timers'[Len(timers')] = [to |-> s, list |-> shown']
            /\ \A k \in 1..Len(timers) : timers'[k] = timers[k]
        BY <3>1, ScheduleType DEF TypeInv, Edit
      <3>3. i \in 1..Len(timers) \/ i = Len(timers')
        BY <1>2, <3>2
      <3>4. CASE i = Len(timers')
        <4>1. Captured(s)'
          BY <1>1, <3>2, <3>4, CapturedThen
        <4>2. s \notin disturbed' => s = active' /\ loaded'
          BY <4>1 DEF CapInv
        <4> QED
          BY <3>2, <3>4, <4>2 DEF Edit
      <3> QED
        BY <3>2, <3>3, <3>4
    <2> QED
      BY <2>1, <2>2 DEF Edit
  <1>4. CASE Shrink
    BY <1>2, <1>3, <1>4 DEF Shrink
  <1>5. CASE Grow
    <2>1. PICK r \in Requests, s \in Sessions :
          /\ net[r].st = "new" /\ net'[r].st # "new"
          /\ \A x \in Requests : net[x].st # "new" => net'[x].st # "new"
          /\ home' = [home EXCEPT ![r] = s]
          /\ Ids(shown') = Ids(shown) \cup {<<r, "user">>, <<r, "assistant">>}
          /\ loaded /\ active \notin disturbed' => s = active
      BY <1>5 DEF Grow
    <2>2. kept' = kept
      BY <1>5 DEF Grow
    <2>3. home'[r] = s /\ \A x \in Requests : x # r => home'[x] = home[x]
      BY <2>1 DEF TypeInv, TypeOK
    <2>4. \A id \in Ids(shown') : id \in Ids(shown) \/ id[1] = r
      BY <2>1
    <2>5. \A x \in Requests : net[x].st # "new" => net'[x].st # "new" /\ home'[x] = home[x]
      BY <2>1, <2>3
    <2>6. kept'[active] \cap Ids(shown) \subseteq Ids(shown')
      BY <2>1
    <2> QED
      BY <1>2, <1>3, <2>1, <2>2, <2>3, <2>4, <2>5, <2>6
  <1> QED
    BY <1>4, <1>5 DEF Edit

\* A list that a step does not change keeps its owners.
LEMMA SameList ==
    ASSUME NEW list, Ids(list) \subseteq Requests \X Roles, SentIn(list),
           \A x \in Requests : net[x].st # "new" => net'[x].st # "new" /\ home'[x] = home[x]
    PROVE  /\ \A id \in Ids(list) : net'[id[1]].st # "new" /\ home'[id[1]] = home[id[1]]
  <1>1. \A id \in Requests \X Roles : id[1] \in Requests
    OBVIOUS
  <1> QED
    BY <1>1 DEF SentIn

LEMMA EditLists ==
    ASSUME Inv, CapInv', Edit
    PROVE  ListInv'
  <1> USE DEF Inv, ListInv
  <1>1. /\ page' = page /\ UNCHANGED <<stored, active, loaded, fetch>>
        /\ page = "up" /\ disturbed \subseteq disturbed' /\ active \in Sessions
    BY DEF Edit, TypeInv, TypeOK
  <1>2. TypeInv'
    BY EditTypes
  <1>3. \A x \in Requests : net[x].st # "new" => net'[x].st # "new" /\ home'[x] = home[x]
    BY EditFacts
  <1>4. \A id \in Ids(shown) : net'[id[1]].st # "new" /\ home'[id[1]] = home[id[1]]
    BY <1>3, SameList, ListTypes DEF SentInv
  <1>5. ASSUME NEW s \in Sessions
        PROVE  \A id \in Ids(stored[s]) : net'[id[1]].st # "new" /\ home'[id[1]] = home[id[1]]
    BY <1>3, SameList, ListTypes DEF SentInv
  <1>6. ASSUME NEW i \in 1..Len(timers)
        PROVE  \A id \in Ids(timers[i].list) : net'[id[1]].st # "new" /\ home'[id[1]] = home[id[1]]
    BY <1>3, SameList, ListTypes DEF SentInv
  <1>7. ASSUME fetch # <<>>
        PROVE  \A id \in Ids(fetch[1]) : net'[id[1]].st # "new" /\ home'[id[1]] = home[id[1]]
    BY <1>3, <1>7, SameList, ListTypes DEF SentInv
  <1>8. \A id \in Ids(shown') : net'[id[1]].st # "new"
    BY <1>4, EditFacts
  <1>9. loaded /\ active \notin disturbed' => \A id \in Ids(shown') : home'[id[1]] = active
    BY <1>1, <1>4, EditFacts DEF OwnInv, OwnIn
  <1>10. loaded /\ active \notin disturbed' => kept'[active] \subseteq Ids(shown')
    BY <1>1, EditFacts DEF KeepInv
  <1>11. SentInv'
    <2>1. ASSUME NEW i \in 1..Len(timers') PROVE \A id \in Ids(timers'[i].list) : net'[id[1]].st # "new"
      BY <1>6, <1>8, EditFacts
    <2> QED
      BY <1>1, <1>5, <1>7, <1>8, <2>1 DEF SentInv, SentIn
  <1>12. OwnInv'
    <2>1. ASSUME NEW i \in 1..Len(timers'), timers'[i].to \notin disturbed'
          PROVE  \A id \in Ids(timers'[i].list) : home'[id[1]] = timers'[i].to
      <3>1. CASE i \in 1..Len(timers) /\ timers'[i] = timers[i]
        BY <1>1, <1>6, <2>1, <3>1 DEF OwnInv, OwnIn
      <3>2. CASE timers'[i].list = shown' /\ timers'[i].to = active /\ loaded
        BY <1>9, <2>1, <3>2
      <3> QED
        BY <2>1, <3>1, <3>2, EditFacts
    <2>2. ASSUME NEW s \in Sessions \ disturbed'
          PROVE  \A id \in Ids(stored[s]) : home'[id[1]] = s
      BY <1>1, <1>5 DEF OwnInv, OwnIn
    <2>3. ASSUME fetch # <<>>, active \notin disturbed'
          PROVE  \A id \in Ids(fetch[1]) : home'[id[1]] = active
      BY <1>1, <1>7, <2>3 DEF OwnInv, OwnIn
    <2> QED
      BY <1>1, <1>9, <2>1, <2>2, <2>3 DEF OwnInv, OwnIn
  <1>13. KeepInv'
    <2>1. \A s \in Sessions : kept'[s] \subseteq kept[s]
      BY EditFacts
    <2>2. ASSUME NEW i \in 1..Len(timers'), timers'[i].to \notin disturbed'
          PROVE  kept'[timers'[i].to] \subseteq Ids(timers'[i].list)
      <3>1. CASE i \in 1..Len(timers) /\ timers'[i] = timers[i]
        <4>1. timers[i].to \in Sessions \ disturbed
          BY <1>1, <2>2, <3>1, TimersType DEF TypeInv
        <4> QED
          BY <2>1, <3>1, <4>1 DEF KeepInv
      <3>2. CASE timers'[i].list = shown' /\ timers'[i].to = active /\ loaded
        BY <1>10, <2>2, <3>2
      <3> QED
        BY <2>2, <3>1, <3>2, EditFacts
    <2>3. ASSUME NEW i \in 1..Len(timers'), NEW j \in 1..Len(timers'), i < j,
                 timers'[i].to = timers'[j].to, timers'[i].to \notin disturbed'
          PROVE  Ids(timers'[i].list) \cap Ids(shown') \subseteq Ids(timers'[j].list)
      <3>1. CASE j \in 1..Len(timers) /\ timers'[j] = timers[j]
        <4>1. i \in 1..Len(timers) /\ timers'[i] = timers[i]
          <5>1. i # Len(timers')
            BY <2>3, EditFacts
          <5> QED
            BY <5>1, EditFacts
        <4>2. Ids(timers[i].list) \cap Ids(shown') \subseteq Ids(shown)
          BY <4>1, EditFacts DEF SentInv, SentIn
        <4> QED
          BY <1>1, <2>3, <3>1, <4>1, <4>2 DEF KeepInv
      <3>2. CASE timers'[j].list = shown'
        BY <3>2
      <3> QED
        BY <3>1, <3>2, EditFacts
    <2>4. \A s \in Sessions \ disturbed' : kept'[s] \subseteq Ids(stored[s])
      BY <1>1, <2>1 DEF KeepInv
    <2>5. fetch # <<>> /\ active \notin disturbed' => kept'[active] \subseteq Ids(fetch[1])
      BY <1>1, <2>1 DEF KeepInv
    <2> QED
      BY <1>1, <1>10, <2>2, <2>3, <2>4, <2>5 DEF KeepInv
  <1> QED
    BY <1>11, <1>12, <1>13

LEMMA CrashLists ==
    ASSUME Inv, Crash
    PROVE  ListInv'
  <1> USE DEF Inv, ListInv
  <1>1. /\ page' = "crashed" /\ shown' = <<>> /\ fetch' = <<>> /\ net' = Forgotten
        /\ UNCHANGED <<active, loaded, timers, stored, kept, home>>
        /\ disturbed \subseteq disturbed'
    BY SeveredType, DisturbGrows DEF Crash, CrashPage, dbVars
  <1>2. Ids(shown') = {}
    BY <1>1, IdsEmpty
  <1>3. \A x \in Requests : net[x].st # "new" => net'[x].st # "new" /\ home'[x] = home[x]
    BY <1>1 DEF Forgotten, Ended
  <1>4. SentInv'
    <2>1. ASSUME NEW s \in Sessions PROVE \A id \in Ids(stored[s]) : net'[id[1]].st # "new"
      BY <1>3, SameList, ListTypes DEF SentInv
    <2>2. ASSUME NEW i \in 1..Len(timers) PROVE \A id \in Ids(timers[i].list) : net'[id[1]].st # "new"
      BY <1>3, SameList, ListTypes DEF SentInv
    <2> QED
      BY <1>1, <1>2, <2>1, <2>2 DEF SentInv, SentIn
  <1>5. OwnInv'
    BY <1>1, <1>2, TimersType DEF OwnInv, OwnIn, TypeInv
  <1>6. KeepInv'
    BY <1>1, <1>2, TimersType DEF KeepInv, TypeInv
  <1> QED
    BY <1>4, <1>5, <1>6

\* A session is opened, or none: the store is not written.
LEMMA EnterLists ==
    ASSUME Inv, NEW s \in Sessions, Enter(s),
           UNCHANGED <<page, stored, kept, shown, timers, net, home>>
    PROVE  ListInv'
  <1> USE DEF Inv, ListInv
  <1>1. /\ active' = s /\ loaded' = FALSE /\ fetch' = <<stored[s]>> /\ disturbed \subseteq disturbed'
    BY DEF Enter, Disturb
  <1>2. fetch'[1] = stored[s]
    BY <1>1
  <1>3. SentInv'
    BY <1>1, <1>2 DEF SentInv, SentIn
  <1>4. OwnInv'
    BY <1>1, <1>2 DEF OwnInv, OwnIn
  <1>5. KeepInv'
    BY <1>1, <1>2 DEF KeepInv
  <1> QED
    BY <1>3, <1>4, <1>5

LEMMA OpenLists ==
    ASSUME Inv, NEW s \in Sessions, Open(s),
           UNCHANGED <<page, stored, kept, shown, timers, net, home>>
    PROVE  ListInv'
  <1>1. CASE s = active
    <2>1. UNCHANGED <<active, loaded, fetch, disturbed>>
      BY <1>1 DEF Open
    <2> QED
      BY <2>1 DEF Inv, ListInv, SentInv, OwnInv, KeepInv, SentIn, OwnIn
  <1>2. CASE s # active
    BY <1>2, EnterLists DEF Open
  <1> QED
    BY <1>1, <1>2

LEMMA SessionLists ==
    ASSUME Inv,
           \/ \E s \in Sessions : SwitchSession(s)
           \/ CreateSession \/ ChangeLanguage \/ FinishDelete
    PROVE  ListInv'
  <1> USE DEF Inv
  <1>1. UNCHANGED <<page, stored, kept, shown, timers, net, home>>
    BY DEF SwitchSession, CreateSession, ChangeLanguage, FinishDelete
  <1>2. CASE \E s \in Sessions : SwitchSession(s)
    BY <1>1, <1>2, OpenLists DEF SwitchSession
  <1>3. CASE CreateSession
    <2>1. NewSession \in Sessions /\ Open(NewSession)
      BY <1>3, NewSessionType DEF CreateSession, TypeInv
    <2> QED
      BY <1>1, <2>1, OpenLists
  <1>4. CASE FinishDelete
    <2>1. CASE UNCHANGED <<active, loaded, fetch, disturbed>>
      BY <1>1, <2>1 DEF ListInv, SentInv, OwnInv, KeepInv, SentIn, OwnIn
    <2>2. CASE \E s \in Sessions : Open(s)
      BY <1>1, <2>2, OpenLists
    <2> QED
      BY <1>4, <2>1, <2>2, FinishDeleteTypes
  <1>5. CASE ChangeLanguage
    <2>1. active \in Sessions /\ Enter(active)
      BY <1>5 DEF ChangeLanguage, TypeInv, TypeOK
    <2> QED
      BY <1>1, <2>1, EnterLists
  <1> QED
    BY <1>2, <1>3, <1>4, <1>5

LEMMA DeleteSessionLists ==
    ASSUME Inv, NEW s \in Sessions, DeleteSession(s)
    PROVE  ListInv'
  <1> USE DEF Inv, ListInv
  <1>1. /\ stored' = [stored EXCEPT ![s] = <<>>] /\ kept' = [kept EXCEPT ![s] = {}]
        /\ UNCHANGED <<page, active, shown, loaded, fetch, timers, net, home, disturbed>>
    BY DEF DeleteSession
  <1>2. Ids(stored'[s]) = {} /\ kept'[s] = {}
        /\ \A x \in Sessions : x # s => stored'[x] = stored[x] /\ kept'[x] = kept[x]
    BY <1>1, IdsEmpty DEF TypeInv, TypeOK
  <1>3. SentInv'
    BY <1>1, <1>2 DEF SentInv, SentIn
  <1>4. OwnInv'
    BY <1>1, <1>2 DEF OwnInv, OwnIn
  <1>5. KeepInv'
    <2>1. active \in Sessions /\ \A i \in 1..Len(timers) : timers[i].to \in Sessions
      BY TimersType DEF TypeInv, TypeOK
    <2>2. \A x \in Sessions : kept'[x] \subseteq kept[x]
      BY <1>2
    <2> QED
      BY <1>1, <1>2, <2>1, <2>2 DEF KeepInv
  <1> QED
    BY <1>3, <1>4, <1>5

LEMMA LoadLists ==
    ASSUME Inv, Load
    PROVE  ListInv'
  <1> USE DEF Inv, ListInv
  <1>1. /\ page = "up" /\ fetch # <<>> /\ fetch' = <<>> /\ loaded' = TRUE /\ ~loaded
        /\ UNCHANGED <<page, stored, kept, active, home, disturbed>>
        /\ timers' = timers \/ Schedule(active, shown')
    BY Zenon DEF Load, dbVars, CapInv
  <1>2. /\ Ids(shown') = Ids(fetch[1]) /\ shown' \in Seq(Message) /\ active \in Sessions
    BY LoadTypes DEF TypeInv, TypeOK
  <1>3. \A x \in Requests : net[x].st # "new" => net'[x].st # "new" /\ home'[x] = home[x]
    BY <1>1 DEF Load, Recovered
  <1>4. \A i \in 1..Len(timers) : timers[i].to \in disturbed
    <2> SUFFICES ASSUME NEW i \in 1..Len(timers), timers[i].to \notin disturbed PROVE FALSE
      OBVIOUS
    <2>1. Captured(timers[i].to) /\ timers[i].to \in Sessions
      BY CapturedNow, TimersType DEF TypeInv
    <2> QED
      BY <1>1, <2>1 DEF CapInv
  <1>5. /\ Len(timers) \in Nat /\ Len(timers') \in Nat
        /\ \A i \in 1..Len(timers') :
              \/ i \in 1..Len(timers) /\ timers'[i] = timers[i]
              \/ i = Len(timers') /\ timers'[i].to = active /\ timers'[i].list = shown'
    <2>1. Len(timers) \in Nat
      BY TimersType DEF TypeInv
    <2>2. CASE timers' = timers
      BY <2>1, <2>2
    <2>3. CASE Schedule(active, shown')
      <3>1. /\ Len(timers') = Len(timers) + 1
            /\ timers'[Len(timers')] = [to |-> active, list |-> shown']
            /\ \A k \in 1..Len(timers) : timers'[k] = timers[k]
        BY <1>2, <2>3, ScheduleType DEF TypeInv
      <3>2. \A i \in 1..Len(timers') : i \in 1..Len(timers) \/ i = Len(timers')
        BY <2>1, <3>1
      <3> QED
        BY <2>1, <3>1, <3>2
    <2> QED
      BY <1>1, <2>2, <2>3
  <1>6. \A id \in Ids(shown') : net'[id[1]].st # "new" /\ home'[id[1]] = home[id[1]]
    BY <1>1, <1>2, <1>3, SameList, ListTypes DEF SentInv
  <1>7. SentInv'
    <2>1. ASSUME NEW s \in Sessions PROVE \A id \in Ids(stored[s]) : net'[id[1]].st # "new"
      BY <1>3, SameList, ListTypes DEF SentInv
    <2>2. ASSUME NEW i \in 1..Len(timers) PROVE \A id \in Ids(timers[i].list) : net'[id[1]].st # "new"
      BY <1>3, SameList, ListTypes DEF SentInv
    <2>3. \A i \in 1..Len(timers') : \A id \in Ids(timers'[i].list) : net'[id[1]].st # "new"
      BY <1>5, <1>6, <2>2
    <2> QED
      BY <1>1, <1>6, <2>1, <2>3 DEF SentInv, SentIn
  <1>8. OwnInv'
    <2>1. active \notin disturbed => \A id \in Ids(shown') : home[id[1]] = active
      BY <1>1, <1>2 DEF OwnInv, OwnIn
    <2>2. ASSUME NEW i \in 1..Len(timers'), timers'[i].to \notin disturbed
          PROVE  \A id \in Ids(timers'[i].list) : home[id[1]] = timers'[i].to
      BY <1>4, <1>5, <2>1, <2>2
    <2> QED
      BY <1>1, <2>1, <2>2 DEF OwnInv, OwnIn
  <1>9. KeepInv'
    <2>1. active \notin disturbed => kept[active] \subseteq Ids(shown')
      BY <1>1, <1>2 DEF KeepInv
    <2>2. ASSUME NEW i \in 1..Len(timers'), timers'[i].to \notin disturbed
          PROVE  i = Len(timers') /\ kept[timers'[i].to] \subseteq Ids(timers'[i].list)
      BY <1>4, <1>5, <2>1, <2>2
    <2>3. ASSUME NEW i \in 1..Len(timers'), NEW j \in 1..Len(timers'), i < j,
                 timers'[i].to \notin disturbed
          PROVE  FALSE
      <3>1. i = Len(timers')
        BY <2>2, <2>3
      <3> QED
        BY <1>5, <2>3, <3>1
    <2> QED
      BY <1>1, <2>1, <2>2, <2>3 DEF KeepInv
  <1> QED
    BY <1>7, <1>8, <1>9

LEMMA RunTimerLists ==
    ASSUME Inv, RunTimer
    PROVE  ListInv'
  <1> USE DEF Inv, ListInv
  <1> DEFINE s == timers[1].to
             list == timers[1].list
             more == Ids(list) \cap Ids(shown)
  <1>1. UNCHANGED <<page, active, shown, loaded, fetch, net, home, disturbed>>
    BY DEF RunTimer
  <1>2. /\ s \in Sessions /\ 1 \in 1..Len(timers) /\ Len(timers) \in Nat
        /\ Len(timers') = Len(timers) - 1
        /\ \A i \in 1..Len(timers') : timers'[i] = timers[i + 1] /\ i + 1 \in 1..Len(timers)
    BY RunTimerTypes, TimersType DEF TypeInv
  <1>3. s \notin disturbed => s = active /\ loaded
    BY <1>2, CapturedNow DEF CapInv
  <1>4. ASSUME NEW i \in 1..Len(timers'), NEW j \in 1..Len(timers'), i < j,
               timers'[i].to = timers'[j].to, timers'[i].to \notin disturbed
        PROVE  Ids(timers'[i].list) \cap Ids(shown) \subseteq Ids(timers'[j].list)
    <2>1. /\ timers'[i] = timers[i + 1] /\ i + 1 \in 1..Len(timers)
          /\ timers'[j] = timers[j + 1] /\ j + 1 \in 1..Len(timers)
          /\ i + 1 < j + 1
      BY <1>2, <1>4
    <2> QED
      BY <1>4, <2>1 DEF KeepInv
  <1>5. CASE ~loaded
    <2>1. UNCHANGED <<stored, kept>>
      BY <1>5 DEF RunTimer
    <2>2. SentInv'
      BY <1>1, <1>2, <2>1 DEF SentInv, SentIn
    <2>3. OwnInv'
      BY <1>1, <1>2, <2>1 DEF OwnInv, OwnIn
    <2>4. KeepInv'
      <3>1. \A i \in 1..Len(timers') :
               timers'[i].to \notin disturbed => kept[timers'[i].to] \subseteq Ids(timers'[i].list)
        BY <1>2 DEF KeepInv
      <3> QED
        BY <1>1, <1>4, <2>1, <3>1 DEF KeepInv
    <2> QED
      BY <2>2, <2>3, <2>4
  <1>6. CASE loaded
    <2>1. /\ stored' = [stored EXCEPT ![s] = list]
          /\ kept' = [kept EXCEPT ![s] = @ \cup more]
      BY <1>6, RunTimerTypes, Zenon DEF RunTimer, SaveTo
    <2>2. stored'[s] = list /\ \A x \in Sessions : x # s => stored'[x] = stored[x]
      BY <1>2, <2>1 DEF TypeInv, TypeOK
    <2>3. kept'[s] = kept[s] \cup more /\ \A x \in Sessions : x # s => kept'[x] = kept[x]
      <3>1. kept \in [Sessions -> SUBSET (Requests \X Roles)] /\ more \in SUBSET (Requests \X Roles)
        BY <1>2, ListTypes DEF TypeInv, TypeOK, Roles
      <3> HIDE DEF more, s
      <3> QED
        BY <1>2, <2>1, <3>1, KeptMore
    <2>4. SentInv'
      BY <1>1, <1>2, <2>2 DEF SentInv, SentIn
    <2>5. OwnInv'
      <3>1. ASSUME NEW x \in Sessions \ disturbed PROVE OwnIn(x, stored'[x])
        BY <1>2, <2>2 DEF OwnInv
      <3>2. ASSUME NEW i \in 1..Len(timers'), timers'[i].to \notin disturbed
            PROVE  OwnIn(timers'[i].to, timers'[i].list)
        BY <1>2, <3>2 DEF OwnInv
      <3> QED
        BY <1>1, <3>1, <3>2 DEF OwnInv, OwnIn
    <2>6. KeepInv'
      <3>1. s \notin disturbed => kept[s] \subseteq Ids(list)
        BY <1>2 DEF KeepInv
      <3>2. ASSUME NEW x \in Sessions \ disturbed PROVE kept'[x] \subseteq Ids(stored'[x])
        BY <2>2, <2>3, <3>1 DEF KeepInv
      <3>3. fetch = <<>>
        BY <1>6 DEF CapInv
      <3>4. page = "up" /\ active \notin disturbed => kept'[active] \subseteq Ids(shown)
        <4>1. active \in Sessions
          BY DEF TypeInv, TypeOK
        <4> QED
          BY <1>6, <2>3, <4>1 DEF KeepInv
      <3>5. ASSUME NEW i \in 1..Len(timers'), timers'[i].to \notin disturbed
            PROVE  kept'[timers'[i].to] \subseteq Ids(timers'[i].list)
        <4>1. timers'[i] = timers[i + 1] /\ i + 1 \in 1..Len(timers) /\ 1 < i + 1
          BY <1>2
        <4>2. kept[timers'[i].to] \subseteq Ids(timers'[i].list) /\ timers'[i].to \in Sessions
          BY <3>5, <4>1, TimersType DEF KeepInv, TypeInv
        <4>3. CASE timers'[i].to = s
          <5>1. more \subseteq Ids(timers'[i].list)
            BY <1>2, <3>5, <4>1, <4>3 DEF KeepInv
          <5> QED
            BY <2>3, <4>2, <4>3, <5>1
        <4>4. CASE timers'[i].to # s
          BY <2>3, <4>2, <4>4
        <4> QED
          BY <4>3, <4>4
      <3> QED
        BY <1>1, <1>4, <3>2, <3>3, <3>4, <3>5 DEF KeepInv
    <2> QED
      BY <2>4, <2>5, <2>6
  <1> QED
    BY <1>5, <1>6

LEMMA ReloadLists ==
    ASSUME Inv, Reload
    PROVE  ListInv'
  <1> USE DEF Inv, ListInv
  <1>1. PICK s \in Sessions : active' = s /\ fetch' = <<stored[s]>>
    <2>1. PICK s \in IF active \in live THEN {active} ELSE IF live # {} THEN live ELSE {NewSession} :
            active' = s /\ fetch' = <<stored[s]>>
      BY Zenon DEF Reload
    <2>2. s \in Sessions
      BY <2>1, NewSessionType DEF TypeInv, TypeOK, Room
    <2> QED
      BY <2>1, <2>2
  <1>2. /\ loaded' = FALSE /\ shown' = <<>> /\ timers' = <<>> /\ net' = Forgotten
        /\ UNCHANGED <<stored, kept, home>> /\ disturbed \subseteq disturbed'
    BY SeveredType, DisturbGrows DEF Reload
  <1>3. Ids(shown') = {} /\ fetch'[1] = stored[s] /\ Len(timers') = 0
    BY <1>1, <1>2, IdsEmpty
  <1>4. \A x \in Requests : net[x].st # "new" => net'[x].st # "new" /\ home'[x] = home[x]
    BY <1>2 DEF Forgotten, Ended
  <1>5. ASSUME NEW x \in Sessions PROVE \A id \in Ids(stored[x]) : net'[id[1]].st # "new"
    BY <1>4, SameList, ListTypes DEF SentInv
  <1>6. SentInv'
    BY <1>1, <1>2, <1>3, <1>5 DEF SentInv, SentIn
  <1>7. OwnInv'
    BY <1>1, <1>2, <1>3 DEF OwnInv, OwnIn
  <1>8. KeepInv'
    BY <1>1, <1>2, <1>3 DEF KeepInv
  <1> QED
    BY <1>6, <1>7, <1>8

LEMMA InitInv == Init => Inv
  <1> SUFFICES ASSUME Init PROVE Inv
    OBVIOUS
  <1>1. TypeInv /\ CapInv
    BY InitTypes, InitCaptures
  <1>2. /\ \A s \in Sessions : stored[s] = <<>> /\ kept[s] = {}
        /\ timers = <<>> /\ shown = <<>> /\ loaded = FALSE
    BY DEF Init
  <1>3. active \in Sessions /\ fetch[1] = <<>>
    BY FirstSessionType DEF Init
  <1>4. SentInv /\ OwnInv /\ KeepInv
    BY <1>2, <1>3, IdsEmpty DEF SentInv, SentIn, OwnInv, OwnIn, KeepInv
  <1> QED
    BY <1>1, <1>4 DEF Inv, ListInv

LEMMA NextInv == Inv /\ [Next]_vars => Inv'
  <1> SUFFICES ASSUME Inv, [Next]_vars PROVE Inv'
    OBVIOUS
  <1>1. TypeInv'
    BY NextTypes DEF Inv
  <1>2. CASE UNCHANGED vars
    <2>1. CapInv'
      BY <1>2, CapturedSame, Zenon DEF vars, Inv, CapInv
    <2>2. ListInv'
      BY <1>2, Zenon DEF vars, Inv, ListInv, SentInv, OwnInv, KeepInv, SentIn, OwnIn
    <2> QED
      BY <1>1, <2>1, <2>2 DEF Inv
  <1>3. CASE Next
    <2>1. CapInv'
      BY <1>3, NextCaptures DEF Inv
    <2>2. ListInv'
      BY <1>3, <2>1, StepCases, EditLists, CrashLists, SessionLists, DeleteSessionLists, LoadLists,
         RunTimerLists, ReloadLists, Zenon
      DEF Inv
    <2> QED
      BY <1>1, <2>1, <2>2 DEF Inv
  <1> QED
    BY <1>2, <1>3

\* What was saved under a session stays saved under it until the user removes
\* it, if the session was never left with work under way and never used before
\* it was loaded.
THEOREM Saved == Spec => []SavedStaysSaved
  <1>1. Spec => []Inv
    BY InitInv, NextInv, PTL DEF Spec
  <1>2. Inv => SavedStaysSaved
    BY DEF Inv, ListInv, KeepInv, SavedStaysSaved, TypeInv, TypeOK
  <1> QED
    BY <1>1, <1>2, PTL

\* The store of such a session, and the page when it shows the session, hold
\* only messages that were sent from it.
THEOREM Own == Spec => []OwnMessages
  <1>1. Spec => []Inv
    BY InitInv, NextInv, PTL DEF Spec
  <1>2. Inv => OwnMessages
    <2> SUFFICES ASSUME Inv PROVE OwnMessages
      OBVIOUS
    <2>1. ASSUME NEW list, NEW m \in ToSet(list), NEW s, OwnIn(s, list)
          PROVE  home[m.of] = s
      <3>1. <<m.of, m.role>> \in Ids(list)
        BY <2>1, Zenon DEF Ids
      <3> QED
        BY <2>1, <3>1 DEF OwnIn
    <2>2. ASSUME NEW s \in live \ disturbed, NEW m \in ToSet(stored[s])
          PROVE  home[m.of] = s
      <3>1. s \in Sessions \ disturbed
        BY DEF Inv, TypeInv, TypeOK
      <3> QED
        BY <2>1, <2>2, <3>1, Zenon DEF Inv, ListInv, OwnInv
    <2>3. ASSUME loaded, active \notin disturbed, NEW m \in ToSet(shown)
          PROVE  home[m.of] = active
      BY <2>1, <2>3, Zenon DEF Inv, ListInv, OwnInv
    <2> QED
      BY <2>2, <2>3, Zenon DEF OwnMessages
  <1> QED
    BY <1>1, <1>2, PTL

=============================================================================
