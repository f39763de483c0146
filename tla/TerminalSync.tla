----------------------------- MODULE TerminalSync -----------------------------
(* The terminal's copy of the sessions: events of the server's stream are    *)
(* batched and applied, lists and sessions are fetched over requests of their*)
(* own, and either may overtake the other (tui/context/sdk.tsx, sync.tsx).   *)
(* A part that throws leaves the rest of its batch unapplied; outside of the *)
(* timer it ends the reading of events for good.                             *)
EXTENDS SessionServer

CONSTANTS
  MaxShown,     \* the messages of a session that are kept: 100
  MaxLoads      \* bound

ASSUME TerminalAssumption == MaxShown \in Nat

VARIABLES
  view,      \* the store: [Records -> version]
  pushed,    \* history: messages that were the oldest of a full list
  lists,     \* the lists of messages and parts that the store has
  batch,     \* events received and not applied
  timer,     \* a timer will apply them
  reading,   \* the loop that reads events has not died
  due,       \* fetches of a bootstrap that are not begun
  loads,     \* fetches under way
  synced,    \* fullSyncedSessions
  loaded     \* fetches begun

terminalVars == <<view, pushed, lists, batch, timer, reading, due, loads, synced, loaded>>

\* The list that a record is kept in; sessions, statuses and permissions are
\* there from the start or are looked for with care.
ListOf(k) == IF k[1] = "message" THEN <<"messages", k[2]>>
             ELSE IF k[1] = "part" THEN <<"parts", k[2], k[3]>> ELSE <<"given">>
KeysOf(events) == {events[i].key : i \in DOMAIN events} \ {NoRecord}

OnItsWay ==
  KeysOf(stream) \cup KeysOf(batch) \cup {Info(j.session) : j \in {i \in jobs : i.op = "create"}}

-----------------------------------------------------------------------------
(* Applying events *)

ShownIn(v, s) == {m \in Posts : v[Post(s, m)] # 0}

\* A message that is new to a full list pushes the oldest out.
Upsert(acc, e) ==
  LET w == [acc.view EXCEPT ![e.key] = e.version]
      s == e.key[2]
      full == e.key[1] = "message" /\ acc.view[e.key] = 0 /\ Cardinality(ShownIn(w, s)) > MaxShown
      oldest == CHOOSE m \in ShownIn(w, s) : \A n \in ShownIn(w, s) : m <= n
  IN IF full
     THEN [view |-> [w EXCEPT ![Post(s, oldest)] = 0], pushed |-> (acc.pushed \ {e.key}) \cup {Post(s, oldest)}]
     ELSE [view |-> w, pushed |-> acc.pushed \ {e.key}]

ApplyEvent(acc, e) ==
  IF e.type = "disposed" THEN acc
  ELSE IF e.type = "updated" THEN Upsert(acc, e)
  ELSE [view |-> [acc.view EXCEPT ![e.key] = 0], pushed |-> acc.pushed \ {e.key}]

\* What is shown after each of some events.
Screen(start, events) ==
  LET after[i \in 0..Len(events)] ==
        IF i = 0 THEN start ELSE ApplyEvent(after[i - 1], events[i])
  IN after

\* A removal from a list that is not there throws.
ListsBefore(events, i) == lists \cup {ListOf(events[j].key) : j \in 1..(i - 1)}
Throws(events, i) == events[i].type = "removed" /\ ListOf(events[i].key) \notin ListsBefore(events, i)

\* How many events of a batch are applied: all up to one that throws.
Applied(events) ==
  CHOOSE n \in 0..Len(events) :
    /\ n = Len(events) \/ Throws(events, n + 1)
    /\ \A i \in 1..n : ~Throws(events, i)
Thrown(events) == Applied(events) # Len(events)

\* History: of the records that no later event is about, the terminal was told
\* by an event that says what the server has, or misled by one overtaken there;
\* events that are not applied tell nothing.
Told(events, rest) ==
  LET n == Applied(events)
      last == {i \in 1..n : /\ events[i].type # "disposed" /\ events[i].key \notin KeysOf(rest)
                            /\ \A j \in (i + 1)..n : events[j].key # events[i].key}
      right == {i \in last : ~events[i].late /\ events[i].version = stored[events[i].key]}
      late == {i \in last : events[i].late}
  IN (untold \ {events[i].key : i \in right})
       \cup {events[i].key : i \in late} \cup KeysOf(SubSeq(events, n + 1, Len(events)))

Load(kind, s, of) ==
  [kind |-> kind, session |-> s, of |-> of, id |-> loaded, listed |-> FALSE, got |-> {}, failed |-> FALSE]
StatusRecords == {StatusOf(s) : s \in Talking}
Project == "project"

\* bootstrap: the sessions, and the statuses once the configuration is there.
Bootstrap == {"list", "status"}

TerminalInit ==
  /\ view = [k \in Records |-> 0] /\ pushed = {} /\ lists = {<<"given">>}
  /\ batch = <<>> /\ timer = FALSE /\ reading = TRUE
  /\ due = Bootstrap /\ loaded = 0 /\ loads = {} /\ synced = {}

\* flush: listeners run in the order of the events; the store is rendered once.
Render(events) ==
  LET n == Applied(events)
      end == Screen([view |-> view, pushed |-> pushed], events)[n]
  IN
  /\ view' = end.view /\ pushed' = end.pushed
  /\ lists' = ListsBefore(events, n + 1)
  /\ batch' = <<>>
  /\ due' = IF \E i \in 1..n : events[i].type = "disposed" THEN Bootstrap ELSE due

\* What was thrown ends the loop that reads the stream, or it goes on.
GoesOn(events, rest) ==
  IF Thrown(events)
  THEN /\ reading' = FALSE /\ subscribed' = FALSE /\ stream' = <<>>
       /\ untold' = Told(events, rest) \cup KeysOf(rest)
  ELSE stream' = rest /\ untold' = Told(events, rest) /\ UNCHANGED <<reading, subscribed>>

\* An event is applied at once, unless a batch was applied within 16 ms.
Receive ==
  /\ reading /\ stream # <<>>
  /\ \/ /\ batch' = Append(batch, Head(stream)) /\ timer' = TRUE /\ stream' = Tail(stream)
        /\ UNCHANGED <<view, pushed, lists, untold, reading, due, subscribed>>
     \/ /\ ~timer
        /\ Render(<<Head(stream)>>) /\ GoesOn(<<Head(stream)>>, Tail(stream))
        /\ UNCHANGED timer
  /\ UNCHANGED <<stored, created, jobs, requests, synced, loads, loaded>>

\* Thrown in the timer, the loop does not notice.
BatchTimer ==
  /\ timer /\ timer' = FALSE
  /\ Render(batch) /\ untold' = Told(batch, stream)
  /\ UNCHANGED <<stored, created, jobs, stream, subscribed, requests, synced, reading, loads, loaded>>

\* The stream has ended: the timer is cleared and its batch applied.
StreamEnds ==
  /\ reading /\ ~subscribed /\ stream = <<>> /\ timer
  /\ timer' = FALSE
  /\ Render(batch) /\ GoesOn(batch, <<>>)
  /\ UNCHANGED <<stored, created, jobs, requests, synced, loads, loaded>>

Resubscribe ==
  /\ reading /\ ~timer
  /\ EventRoute
  /\ UNCHANGED terminalVars

-----------------------------------------------------------------------------
(* Fetches *)

Proceeds(l, m) == loads' = (loads \ {l}) \cup {m}
Fetching == UNCHANGED <<stored, created, jobs, stream, subscribed, requests, batch, timer, reading, due, loaded>>

Begin(load) ==
  /\ loaded < MaxLoads /\ loaded' = loaded + 1
  /\ loads' = loads \cup {load}
  /\ UNCHANGED <<serverVars, view, pushed, lists, batch, timer, reading, synced>>

BootstrapLoads ==
  \E kind \in due :
    /\ Begin(Load(kind, Project, IF kind = "list" THEN Infos ELSE StatusRecords))
    /\ due' = due \ {kind}

\* The page of a session fetches it, its messages and their parts, once.
OpenSession(s) == s \notin synced /\ Begin(Load("sync", s, {Info(s)})) /\ UNCHANGED due

\* GET /session: the names, then each record; one that is gone fails it.
ListSessionsRoute(l) == Proceeds(l, [l EXCEPT !.listed = TRUE, !.of = {k \in @ : Has(k)}])

\* GET /session/status: at once.
StatusRoute(l) ==
  Proceeds(l, [l EXCEPT !.listed = TRUE, !.got = {<<k, stored[k]>> : k \in l.of}])

\* GET /session/:id/message: the newest messages and their parts.
NewerPosts(s, m) == {n \in Posts : n > m /\ Has(Post(s, n))}
MessagesRoute(l) ==
  LET listed == {m \in Posts : Has(Post(l.session, m)) /\ Cardinality(NewerPosts(l.session, m)) < MaxShown}
  IN Proceeds(l, [l EXCEPT !.listed = TRUE,
       !.of = @ \cup {Post(l.session, m) : m \in listed}
                \cup {PartOf(l.session, m) : m \in {n \in listed : Has(PartOf(l.session, n))}}])

LoadLists(l) ==
  /\ ~l.listed
  /\ \/ l.kind = "list" /\ ListSessionsRoute(l)
     \/ l.kind = "status" /\ StatusRoute(l)
     \/ l.kind = "sync" /\ MessagesRoute(l)
  /\ Fetching /\ UNCHANGED <<view, pushed, lists, synced, untold>>

Unread(l) == {k \in l.of : \A r \in l.got : r[1] # k}
LoadReads(l) ==
  LET k == CHOOSE u \in Unread(l) : TRUE IN
  /\ Unread(l) # {} /\ l.listed
  /\ Proceeds(l, [l EXCEPT !.got = @ \cup {<<k, stored[k]>>}, !.failed = @ \/ ~Has(k)])
  /\ Fetching /\ UNCHANGED <<view, pushed, lists, synced, untold>>

Got(l, k) == IF \E r \in l.got : r[1] = k THEN (CHOOSE r \in l.got : r[1] = k)[2] ELSE 0

\* Mutant: what the answer does not have is kept.
ShowsFound(l, keys) ==
  LET found == {k \in keys : Got(l, k) # 0} IN
  /\ view' = [k \in Records |-> IF k \in found THEN Got(l, k) ELSE view[k]]
  /\ pushed' = pushed \ keys
  /\ untold' = (untold \ (keys \ OnItsWay)) \cup {k \in keys : Got(l, k) # stored[k]}

\* What is shown of the keys of an answer is what the answer has.
Shows(l, keys) ==
  /\ view' = [k \in Records |-> IF k \in keys THEN Got(l, k) ELSE view[k]]
  /\ pushed' = pushed \ keys
  /\ untold' = (untold \ (keys \ OnItsWay)) \cup {k \in keys : Got(l, k) # stored[k]}
Nothing(l) == [l EXCEPT !.got = {}]

\* A list that failed counts as an empty one; it is read twice, and either
\* may fail.
ListArrives(l) ==
  /\ \/ ~l.failed /\ Shows(l, Infos)
     \/ (l.failed \/ \E r \in l.got : ~Has(r[1])) /\ Shows(Nothing(l), Infos)
  /\ UNCHANGED <<lists, synced>>

\* A session, a message or a part that is gone rejects the whole.
SyncArrives(l) ==
  LET s == l.session
      got == {m \in Posts : Post(s, m) \in l.of}
  IN IF l.failed THEN UNCHANGED <<view, pushed, untold, lists, synced>>
     ELSE /\ Shows(l, {Info(s)} \cup {Post(s, m) : m \in Posts} \cup {PartOf(s, m) : m \in got})
          /\ lists' = lists \cup {<<"messages", s>>} \cup {<<"parts", s, m>> : m \in got}
          /\ synced' = synced \cup {s}

LoadArrives(l) ==
  /\ l.listed /\ Unread(l) = {}
  /\ \/ l.kind = "list" /\ ListArrives(l)
     \/ l.kind = "status" /\ Shows(l, StatusRecords) /\ UNCHANGED <<lists, synced>>
     \/ l.kind = "sync" /\ SyncArrives(l)
  /\ loads' = loads \ {l}
  /\ Fetching

-----------------------------------------------------------------------------
TerminalStep ==
  \/ Receive \/ BatchTimer \/ StreamEnds \/ Resubscribe
  \/ BootstrapLoads \/ \E s \in Talking : OpenSession(s)
  \/ \E l \in loads : LoadLists(l) \/ LoadReads(l) \/ LoadArrives(l)

TerminalNext == TerminalStep \/ (ServerNext /\ UNCHANGED terminalVars)

TerminalTypeOK ==
  /\ ServerTypeOK
  /\ view \in [Records -> 0..MaxVersion] /\ synced \subseteq Rooms
  /\ timer = (batch # <<>>)
  /\ \A s \in Talking : Cardinality(ShownIn(view, s)) <= MaxShown

(* Once no event about a record is on its way, the terminal shows it as the  *)
(* server has it, whatever order fetches and events came in: unless the last *)
(* the terminal heard of it was a fetch or an event overtaken on the server, *)
(* or nothing at all because the stream was down, or it was the oldest       *)
(* message of a full list (tui/context/sync.tsx:97-371, sdk.tsx:19-65).      *)
TerminalAgrees ==
  /\ TerminalTypeOK
  /\ \A k \in Records : k \notin OnItsWay \cup untold => view[k] = stored[k] \/ k \in pushed
=============================================================================
