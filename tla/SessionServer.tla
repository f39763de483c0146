---------------------------- MODULE SessionServer ----------------------------
(* The server's routes that change a project's sessions, over records that   *)
(* other requests read and write at the same time, and the stream of events  *)
(* to one terminal (server/server.ts, session/index.ts, bus/index.ts).  A    *)
(* record is the version of what it holds, 0 when there is none; a session's *)
(* title, share, revert and times are one record, a message has one part.    *)
(* Unlinking or writing a file is one step with publishing the event: the    *)
(* handlers go on in the order in which the file system took effect.         *)
EXTENDS Integers, Sequences, FiniteSets

CONSTANTS
  Rooms,           \* the sessions of the project
  Talking,         \* those that are prompted
  ParentOf,        \* the session that a session is a child of, or itself
  MaxPosts,        \* bound: messages of a session, the first one is 1
  MaxVersion,      \* bound: versions of a record
  MaxRequests      \* bound: requests of other clients and steps of the loop

ASSUME ServerAssumption == Talking \subseteq Rooms /\ MaxPosts \in Nat /\ MaxVersion \in Nat \ {0}

VARIABLES
  stored,      \* what the storage and the process hold: [Records -> version]
  created,      \* sessions that were created
  jobs,        \* requests under way, between two of their awaits
  stream,        \* events written to the terminal's stream
  subscribed,  \* the server side of the stream is subscribed to the bus
  untold,      \* records that the terminal was not told of, or told wrongly
  requests

serverVars == <<stored, created, jobs, stream, subscribed, untold, requests>>

Posts == 1..MaxPosts
Info(s) == <<"session", s, 0>>
Post(s, m) == <<"message", s, m>>
PartOf(s, m) == <<"part", s, m>>
Question(s) == <<"permission", s, 0>>
StatusOf(s) == <<"status", s, 0>>
Written(s) == {Post(s, m) : m \in Posts} \cup {PartOf(s, m) : m \in Posts}
InMemory == {Question(s) : s \in Talking} \cup {StatusOf(s) : s \in Talking}
Infos == {Info(s) : s \in Rooms}
NoRecord == <<"none">>
Records == Infos \cup InMemory \cup UNION {Written(s) : s \in Talking}

Has(k) == stored[k] # 0
Event(type, k) == [type |-> type, key |-> k, version |-> stored'[k], late |-> FALSE]

Disposed == [type |-> "disposed", key |-> NoRecord, version |-> 0, late |-> FALSE]

ServerInit ==
  /\ stored \in {[k \in Records |-> IF k \in present THEN 1 ELSE 0] :
                   present \in {Infos, {Info(CHOOSE s \in Rooms : ParentOf[s] = s)}}}
  /\ created = {s \in Rooms : Has(Info(s))}
  /\ jobs = {} /\ stream = <<>> /\ subscribed = FALSE
  /\ untold = {k \in Records : Has(k)}
  /\ requests = 0

-----------------------------------------------------------------------------
(* The bus and the stream of /event *)

\* Every subscriber is called before publish returns.
Publish(events) ==
  /\ stream' = IF subscribed THEN stream \o events ELSE stream
  /\ untold' = IF subscribed THEN untold ELSE untold \cup {events[i].key : i \in DOMAIN events}

\* The answer begins when the bus is subscribed to, in one step.
EventRoute ==
  /\ ~subscribed /\ stream = <<>>
  /\ subscribed' = TRUE
  /\ UNCHANGED <<stored, created, jobs, stream, untold, requests>>

\* Disposing the instance tells the wildcard subscribers and closes their
\* streams; what was in memory is gone without a word.
DisposeRoute ==
  /\ stream' = IF subscribed THEN Append(stream, Disposed) ELSE stream
  /\ subscribed' = FALSE
  /\ stored' = [k \in Records |-> IF k \in InMemory THEN 0 ELSE stored[k]]
  /\ untold' = untold \cup {k \in InMemory : Has(k)}
  /\ UNCHANGED <<created, jobs>>

\* The connection is lost with what was on it.
StreamDrops ==
  /\ subscribed
  /\ subscribed' = FALSE /\ stream' = <<>>
  /\ untold' = untold \cup ({stream[i].key : i \in DOMAIN stream} \ {NoRecord})
  /\ UNCHANGED <<stored, created, jobs>>

-----------------------------------------------------------------------------
(* One record written or removed, and its event *)

Write(k) ==
  /\ stored[k] < MaxVersion
  /\ stored' = [stored EXCEPT ![k] = @ + 1]
  /\ Publish(<<Event("updated", k)>>)
  /\ UNCHANGED <<created, jobs, subscribed>>

Erase(k) ==
  /\ stored' = [stored EXCEPT ![k] = 0]
  /\ Publish(<<Event("removed", k)>>)
  /\ UNCHANGED <<created, jobs, subscribed>>

-----------------------------------------------------------------------------
(* Session.update: the record is read, edited and written under its lock;    *)
(* a missing one answers 404.                                                *)
Updating(s) == \E j \in jobs : j.op = "update" /\ j.session = s
UpdateReads(s) ==
  /\ Has(Info(s)) /\ ~Updating(s) /\ stored[Info(s)] < MaxVersion
  /\ jobs' = jobs \cup {[op |-> "update", session |-> s, value |-> stored[Info(s)] + 1]}
  /\ UNCHANGED <<stored, created, stream, subscribed, untold>>
UpdateWrites(j) ==
  /\ j.op = "update"
  /\ stored' = [stored EXCEPT ![Info(j.session)] = j.value]
  /\ Publish(<<Event("updated", Info(j.session))>>)
  /\ jobs' = jobs \ {j}
  /\ UNCHANGED <<created, subscribed>>

PatchRoute(s) == UpdateReads(s)

\* The share service has answered; when it does not, nothing is changed.
ShareRoute(s) == UpdateReads(s)
UnshareRoute(s) == UpdateReads(s)

\* The loop is not running; files are put back before the record says so.
RevertRoute(s) == UpdateReads(s)
UnrevertRoute(s) == UpdateReads(s)

\* Session.createNext: the record is written; the configuration is read, and
\* the event then tells what was written at first.
SessionRoute(s) ==
  /\ s \notin created
  /\ created' = created \cup {s}
  /\ stored' = [stored EXCEPT ![Info(s)] = 1]
  /\ jobs' = jobs \cup {[op |-> "create", session |-> s, value |-> 1]}
  /\ UNCHANGED <<stream, subscribed, untold>>
Created(j) ==
  LET k == Info(j.session) IN
  /\ j.op = "create"
  /\ Publish(<<[type |-> "updated", key |-> k, version |-> j.value, late |-> stored[k] # j.value]>>)
  /\ jobs' = jobs \ {j}
  /\ UNCHANGED <<stored, created, subscribed>>

\* Session.remove: the session is read, its children are removed before it,
\* it is unshared, its messages are removed without an event, then itself.
\* An error is logged and the answer is true.
Removal(s, todo) == [op |-> "remove", todo |-> todo, at |-> "get"]
Children(s) == {c \in Rooms : ParentOf[c] = s /\ c # s /\ Has(Info(c))}
DeleteRoute(s) ==
  /\ Has(Info(s))
  /\ \E todo \in {<<s>>} \cup {<<c, s>> : c \in Children(s)} :
       /\ Len(todo) = 1 + Cardinality(Children(s))
       /\ jobs' = jobs \cup {Removal(s, todo)}
  /\ UNCHANGED <<stored, created, stream, subscribed, untold>>
Goes(j, place) == jobs' = (jobs \ {j}) \cup {[j EXCEPT !.at = place]}
Finishes(j) ==
  jobs' = (jobs \ {j}) \cup (IF Len(j.todo) = 1 THEN {} ELSE {[j EXCEPT !.todo = Tail(@), !.at = "get"]})

\* Unsharing updates the record when the share service takes the request.
RemoveUnshares(j) ==
  LET k == Info(Head(j.todo)) IN
  /\ j.op = "remove" /\ j.at = "get"
  /\ \/ ~Has(k) /\ Finishes(j) /\ UNCHANGED <<stored, stream, untold>>
     \/ Has(k) /\ Goes(j, "messages") /\ UNCHANGED <<stored, stream, untold>>
     \/ /\ Has(k) /\ ~Updating(Head(j.todo)) /\ stored[k] < MaxVersion
        /\ stored' = [stored EXCEPT ![k] = @ + 1]
        /\ Publish(<<Event("updated", k)>>)
        /\ Goes(j, "messages")
  /\ UNCHANGED <<created, subscribed>>
RemoveMessages(j) ==
  LET its == {k \in Written(Head(j.todo)) \cap Records : Has(k)} IN
  /\ j.op = "remove" /\ j.at = "messages"
  /\ stored' = [k \in Records |-> IF k \in its THEN 0 ELSE stored[k]]
  /\ untold' = untold \cup its
  /\ Goes(j, "record")
  /\ UNCHANGED <<created, stream, subscribed>>
RemoveRecord(j) ==
  /\ j.op = "remove" /\ j.at = "record"
  /\ stored' = [stored EXCEPT ![Info(Head(j.todo))] = 0]
  /\ Publish(<<Event("removed", Info(Head(j.todo)))>>)
  /\ Finishes(j)
  /\ UNCHANGED <<created, subscribed>>

-----------------------------------------------------------------------------
(* Messages and parts: the session is not looked at.                         *)

Newest(s) == IF \E m \in Posts : Has(Post(s, m)) THEN CHOOSE m \in Posts : Has(Post(s, m)) /\ \A n \in Posts : Has(Post(s, n)) => n <= m ELSE 0

\* A prompt's message and the loop's answers come after all others; the loop
\* and the summary write the last two again.
PromptRoute(s) ==
  \E m \in Posts : m \in {Newest(s) - 1, Newest(s), Newest(s) + 1} /\ Write(Post(s, m))
ReplyParts(s) == \E m \in Posts : Has(Post(s, m)) /\ m >= Newest(s) - 1 /\ Write(PartOf(s, m))

\* Before the next prompt, what was undone is removed, the message alone.
CleanupMessages(s) == Newest(s) # 0 /\ Erase(Post(s, Newest(s)))

\* Neither looks whether the message or the part is there.
PatchPartRoute(s) == \E m \in Posts : Write(PartOf(s, m))
DeletePartRoute(s) == \E m \in Posts : Erase(PartOf(s, m))

\* A tool asks; the terminal or another client replies.
AskPermission(s) == stored[Question(s)] = 0 /\ Write(Question(s))
PermissionRoute(s) == Has(Question(s)) /\ Erase(Question(s))
SetStatus(s) == Write(StatusOf(s))

-----------------------------------------------------------------------------
Request(s) ==
  \/ SessionRoute(s) \/ PatchRoute(s) \/ ShareRoute(s) \/ UnshareRoute(s)
  \/ RevertRoute(s) \/ UnrevertRoute(s) \/ DeleteRoute(s)
  \/ /\ s \in Talking
     /\ \/ PromptRoute(s) \/ ReplyParts(s) \/ CleanupMessages(s)
        \/ PatchPartRoute(s) \/ DeletePartRoute(s)
        \/ AskPermission(s) \/ PermissionRoute(s) \/ SetStatus(s)

JobStep(j) ==
  UpdateWrites(j) \/ Created(j) \/ RemoveUnshares(j) \/ RemoveMessages(j) \/ RemoveRecord(j)

ServerNext ==
  \/ /\ requests < MaxRequests /\ requests' = requests + 1
     /\ (DisposeRoute \/ StreamDrops \/ \E s \in Rooms : Request(s))
  \/ (\E j \in jobs : JobStep(j)) /\ UNCHANGED requests

ServerTypeOK ==
  /\ stored \in [Records -> 0..MaxVersion] /\ created \subseteq Rooms
  /\ \A j \in jobs : j.op \in {"create", "update", "remove"}
  /\ \A i \in DOMAIN stream : stream[i].type \in {"updated", "removed", "disposed"}
  /\ subscribed \in BOOLEAN /\ untold \subseteq Records
=============================================================================
