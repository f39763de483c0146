---------------------------- MODULE DesktopClient ----------------------------
(* The items of one turn (harness/turn-runner.ts) and the event log of its   *)
(* thread (harness/event-log.ts).  Session events open, extend and complete  *)
(* items; a notification is written to stdout at once, its log entry is an   *)
(* append that ends later, and some handlers go on only after that.          *)
(*                                                                           *)
(* The desktop application around a harness process: the bridge that spawns  *)
(* it and reads its output (electron/harness-bridge.ts, jsonrpc-client.ts),  *)
(* and the renderer's store (electron/renderer/store.ts, app.tsx).  One      *)
(* thread is selected; what the process writes arrives in order, and a       *)
(* process that dies takes what it has not written with it.                  *)
EXTENDS Naturals, Sequences, FiniteSets, SequencesExt, FiniteSetsExt

-----------------------------------------------------------------------------
(* The items of a turn *)

CONSTANTS
  TextParts,      \* text and reasoning parts of the answer
  ToolParts,      \* tool calls
  ApprovalParts,  \* permission requests
  PartSets,       \* the sets of parts an answer may have
  MaxDeltas,      \* bound: deltas of a text part
  MaxTurns        \* bound: turns opened

\* What the client and the runner call items of their own names no part.
ASSUME PartsAssumption ==
  (TextParts \cup ToolParts \cup ApprovalParts) \cap {"user", "turn", "sent", "pending"} = {}

VARIABLES
  turnNo,     \* turns opened so far, by any process
  turnPhase,  \* "idle", "opening", "running" or "over"
  parts,      \* the parts of the answer
  seen,       \* how far each part has come in the session
  opened,     \* parts with an item (activeItems)
  wire,       \* notifications and responses written to stdout, not yet read
  log,        \* the entries of events.jsonl
  appends     \* entries being appended, and what their handlers do next

turnItemVars == <<turnNo, turnPhase, parts, seen, opened, wire, log, appends>>

AllParts == TextParts \cup ToolParts \cup ApprovalParts
Note(type, item, n) == [type |-> type, item |-> item, n |-> n]
Item(p) == <<turnNo, p>>

TurnItemsInit ==
  /\ turnNo = 0
  /\ turnPhase = "idle"
  /\ parts = {}
  /\ seen = [p \in AllParts |-> 0]
  /\ opened = {}
  /\ wire = <<>>
  /\ log = <<>>
  /\ appends = {}

\* Send a notification and start appending it to the log.
Announce(note, then, rest) ==
  /\ wire' = Append(wire, note)
  /\ appends' = rest \cup {[event |-> note, then |-> then]}

\* start: the response with the turn's id follows turn.started.  A turn has
\* its own answer; handlers of the one before may still be under way.
OpenTurn ==
  /\ turnPhase \in {"idle", "over"}
  /\ turnNo < MaxTurns
  /\ turnPhase' = "opening"
  /\ turnNo' = turnNo + 1
  /\ LET started == Note("turn.started", <<turnNo + 1, "turn">>, 0)
     IN /\ wire' = wire \o <<started, Note("response", <<turnNo + 1, "turn">>, 0)>>
        /\ appends' = appends \cup {[event |-> started, then |-> "userItem"]}
  /\ parts' \in PartSets
  /\ seen' = [p \in AllParts |-> 0] /\ opened' = {}
  /\ UNCHANGED log

\* An append ends and its handler goes on.
AppendEnds(a) ==
  /\ a \in appends
  /\ log' = Append(log, a.event)
  /\ LET rest == appends \ {a}
     IN \/ /\ a.then = "nothing"
           /\ appends' = rest /\ UNCHANGED <<wire, turnPhase>>
        \/ /\ a.then = "userItem"
           /\ Announce(Note("item.started", Item("user"), 0), "userDone", rest) /\ UNCHANGED turnPhase
        \/ /\ a.then = "userDone"
           /\ Announce(Note("item.completed", Item("user"), 0), "subscribe", rest) /\ UNCHANGED turnPhase
        \/ /\ a.then = "subscribe"
           /\ turnPhase' = "running" /\ appends' = rest /\ UNCHANGED wire
        \/ /\ a.then = "delta"
           /\ wire' = Append(wire, Note("item.delta", a.event.item, 1))
           /\ appends' = rest /\ UNCHANGED turnPhase
        \/ /\ a.then = "approval"
           /\ Announce(Note("approval.requested", a.event.item, 0), "nothing", rest)
           /\ UNCHANGED turnPhase
  /\ UNCHANGED <<turnNo, parts, seen, opened>>

Advance(p) == seen' = [seen EXCEPT ![p] = @ + 1]

\* message.part.updated with a delta: the first one opens the item and is sent
\* once the item is logged, the others are sent at once.
TextDelta(p) ==
  /\ turnPhase = "running"
  /\ seen[p] < MaxDeltas
  /\ Advance(p)
  /\ IF p \in opened
     THEN wire' = Append(wire, Note("item.delta", Item(p), seen[p] + 1)) /\ UNCHANGED <<opened, appends>>
     ELSE /\ opened' = opened \cup {p}
          /\ Announce(Note("item.started", Item(p), 0), "delta", appends)
  /\ UNCHANGED <<turnNo, turnPhase, parts, log>>

\* message.part.updated of a tool: pending, running, completed or error.
ToolPart(p) ==
  /\ turnPhase = "running"
  /\ seen[p] < 3
  /\ Advance(p)
  /\ IF seen[p] = 1
     THEN wire' = Append(wire, Note("item.delta", Item(p), 1)) /\ UNCHANGED <<opened, appends>>
     ELSE /\ opened' = opened \cup {p}
          /\ Announce(Note(IF seen[p] = 0 THEN "item.started" ELSE "item.completed", Item(p), 0),
                      "nothing", appends)
  /\ UNCHANGED <<turnNo, turnPhase, parts, log>>

\* permission.asked, and permission.replied whenever the answer comes.
PermissionPart(p) ==
  /\ turnPhase = "running"
  /\ seen[p] < 2
  /\ Advance(p)
  /\ opened' = opened \cup {p}
  /\ IF seen[p] = 0 THEN Announce(Note("item.started", Item(p), 0), "approval", appends)
     ELSE Announce(Note("item.completed", Item(p), 0), "nothing", appends)
  /\ UNCHANGED <<turnNo, turnPhase, parts, log>>

\* completeTurn unsubscribes; handlers under way go on.
CloseTurn ==
  /\ turnPhase = "running"
  /\ turnPhase' = "over"
  /\ Announce(Note("turn.completed", Item("turn"), 0), "nothing", appends)
  /\ UNCHANGED <<turnNo, parts, seen, opened, log>>

TurnItemsStep ==
  \/ \E a \in appends : AppendEnds(a)
  \/ \E p \in TextParts \cap parts : TextDelta(p)
  \/ \E p \in ToolParts \cap parts : ToolPart(p)
  \/ \E p \in ApprovalParts \cap parts : PermissionPart(p)
  \/ CloseTurn

-----------------------------------------------------------------------------
(* The desktop application *)

CONSTANTS
  MaxCrashes,   \* bound: processes that die by themselves
  MaxHydrates,  \* bound: times the user selects the thread or sets the workspace
  MaxWire       \* bound: lines written before the bridge reads some

ASSUME DesktopAssumption == MaxCrashes \in Nat /\ MaxHydrates \in Nat

VARIABLES
  bridge,      \* "starting", "ready" or "error"
  process,     \* the current process: "starting", "up" or "gone"
  leaks,       \* processes that were replaced without being killed
  resetting,   \* the store is emptied when the process is up
  exits,       \* exit events of killed processes that are still to come
  crashes,
  timeline,    \* the items shown, with whether they are done and their deltas
  processed,   \* keys of the notifications applied
  activeTurn,  \* whether the store believes a turn is active
  banner,
  hydrates,
  waiting      \* requests of the renderer without a response

desktopVars ==
  <<turnItemVars, bridge, process, leaks, resetting, exits, crashes, timeline, processed, activeTurn, banner, hydrates, waiting>>

Shown(item) == [item |-> item, done |-> FALSE, deltas |-> <<>>]

DesktopInit ==
  /\ TurnItemsInit
  /\ bridge = "starting"
  /\ process = "starting"
  /\ leaks = 0
  /\ resetting = FALSE
  /\ exits = 0
  /\ crashes = 0
  /\ timeline = <<>>
  /\ processed = {}
  /\ activeTurn = FALSE
  /\ banner = FALSE
  /\ hydrates = 0
  /\ waiting = {}

-----------------------------------------------------------------------------
(* reduceEvent.  A logged notification has a timestamp in its key, a live    *)
(* one has not; only deltas may repeat.                                      *)

Key(note, logged) == <<note.type, note.item, logged>>
Positions(line, item) == {i \in DOMAIN line : line[i].item = item}

(* Mutant: the optimistic entry stays beside the user's item.                *)
StartItemBeside(line, item) ==
  IF Positions(line, item) # {} THEN line ELSE Append(line, Shown(item))

\* item.started: at most one entry for an item; an optimistic entry of the turn
\* is replaced by the user's item.
StartItem(line, item) ==
  IF Positions(line, item) # {} THEN line
  ELSE IF item[2] = "user" /\ Positions(line, <<item[1], "sent">>) # {}
  THEN [i \in DOMAIN line |-> IF line[i].item = <<item[1], "sent">> THEN Shown(item) ELSE line[i]]
  ELSE Append(line, Shown(item))

ReduceTimeline(line, note) ==
  CASE note.type = "item.started" -> StartItem(line, note.item)
    [] note.type = "item.delta" ->
         [i \in DOMAIN line |-> IF line[i].item = note.item
                                THEN [line[i] EXCEPT !.deltas = Append(@, note.n)] ELSE line[i]]
    [] note.type = "item.completed" ->
         [i \in DOMAIN line |-> IF line[i].item = note.item
                                THEN [line[i] EXCEPT !.done = TRUE] ELSE line[i]]
    [] OTHER -> line

ReduceActive(note) ==
  CASE note.type = "turn.started" -> TRUE [] note.type = "turn.completed" -> FALSE
    [] OTHER -> activeTurn

\* A live notification.
Apply(note) ==
  IF note.type # "item.delta" /\ Key(note, FALSE) \in processed
  THEN UNCHANGED <<timeline, processed, activeTurn>>
  ELSE /\ timeline' = ReduceTimeline(timeline, note)
       /\ processed' = IF note.type = "item.delta" THEN processed
                       ELSE processed \cup {Key(note, FALSE)}
       /\ activeTurn' = ReduceActive(note)

\* hydrateThread: an empty timeline, then the logged items not yet processed,
\* one after the other.
IsNews(e) == e.item[2] # "turn" /\ Key(e, TRUE) \notin processed
Replayed(entries) ==
  LET after[i \in 0..Len(entries)] ==
        IF i = 0 THEN <<>>
        ELSE IF IsNews(entries[i]) THEN ReduceTimeline(after[i - 1], entries[i]) ELSE after[i - 1]
  IN after[Len(entries)]

Hydrate(entries) ==
  /\ timeline' = Replayed(entries)
  /\ processed' = processed \cup {Key(entries[i], TRUE) : i \in {j \in DOMAIN entries : IsNews(entries[j])}}
  /\ UNCHANGED activeTurn

\* harness.crash always has the same key.
ReduceCrash ==
  IF Key(Note("harness.crash", <<0, "-">>, 0), FALSE) \in processed
  THEN UNCHANGED <<processed, banner>>
  ELSE processed' = processed \cup {Key(Note("harness.crash", <<0, "-">>, 0), FALSE)} /\ banner' = TRUE

-----------------------------------------------------------------------------
(* The user.                                                                 *)

\* handleSend: an optimistic entry, and turn.start.
SendPrompt ==
  /\ bridge = "ready" /\ process = "up"
  /\ ~activeTurn
  /\ waiting = {}
  /\ timeline' = Append(timeline, Shown(<<0, "pending">>))
  /\ waiting' = waiting \cup {"turn"}
  /\ OpenTurn
  /\ UNCHANGED <<bridge, process, leaks, resetting, exits, crashes, processed, activeTurn, banner, hydrates>>

\* handleSelectThread: thread.get reads the log as it is.
SelectThread ==
  /\ bridge = "ready" /\ process = "up"
  /\ hydrates < MaxHydrates
  /\ "thread" \notin waiting
  /\ wire' = Append(wire, Note("response", <<0, "thread">>, log))
  /\ hydrates' = hydrates + 1
  /\ waiting' = waiting \cup {"thread"}
  /\ UNCHANGED <<turnNo, turnPhase, parts, seen, opened, log, appends, bridge, process, leaks, resetting, exits, crashes, timeline,
                 processed, activeTurn, banner>>

\* A new process; what the one before knew of its turn is lost to the client.
Spawn ==
  /\ bridge' = "starting"
  /\ process' = "starting"
  /\ turnPhase' = "idle"
  /\ seen' = [p \in AllParts |-> 0]
  /\ opened' = {}
  /\ wire' = <<>>
  /\ appends' = {}
  /\ waiting' = {}
  /\ UNCHANGED <<turnNo, parts, log>>

\* handleReconnect restarts the process and then, in bootstrap, restarts it
\* again in the persisted workspace; the exit of a killed process is noticed later.
Reconnect ==
  /\ banner
  /\ banner' = FALSE
  /\ exits' = exits + (IF process = "gone" THEN 1 ELSE 2)
  /\ Spawn
  /\ UNCHANGED <<leaks, resetting, crashes, timeline, processed, activeTurn, hydrates>>

SetWorkspace ==
  /\ hydrates < MaxHydrates
  /\ hydrates' = hydrates + 1
  /\ exits' = exits + (IF process = "gone" THEN 0 ELSE 1)
  /\ resetting' = TRUE
  /\ Spawn
  /\ UNCHANGED <<leaks, crashes, timeline, processed, activeTurn, banner>>

-----------------------------------------------------------------------------
(* The bridge.                                                               *)

\* The process answers "initialize"; a new workspace empties the store.
Initialized ==
  /\ process = "starting"
  /\ process' = "up"
  /\ bridge' = "ready"
  /\ resetting' = FALSE
  /\ IF resetting
     THEN timeline' = <<>> /\ processed' = {} /\ activeTurn' = FALSE
     ELSE UNCHANGED <<timeline, processed, activeTurn>>
  /\ UNCHANGED <<turnItemVars, leaks, exits, crashes, banner, hydrates, waiting>>

\* markOptimisticTurn: the first entry that is pending.
MarkOptimistic(n) ==
  LET waits == Positions(timeline, <<0, "pending">>)
  IN [i \in DOMAIN timeline |-> IF waits # {} /\ i = Min(waits) THEN Shown(<<n, "sent">>) ELSE timeline[i]]

\* A line of the process' output: a response or a notification.
ReadLine ==
  /\ wire # <<>>
  /\ LET note == Head(wire)
     IN IF note.type # "response"
        THEN Apply(note) /\ UNCHANGED waiting
        ELSE /\ waiting' = waiting \ {note.item[2]}
             /\ IF note.item[2] = "thread" THEN Hydrate(note.n)
                ELSE /\ timeline' = MarkOptimistic(note.item[1])
                     /\ UNCHANGED <<processed, activeTurn>>
  /\ wire' = Tail(wire)
  /\ UNCHANGED <<turnNo, turnPhase, parts, seen, opened, log, appends, bridge, process, leaks, resetting, exits, crashes, banner, hydrates>>

\* The process dies: pending requests are rejected, and the store is told.
ProcessDies ==
  /\ process # "gone"
  /\ crashes < MaxCrashes
  /\ crashes' = crashes + 1
  /\ process' = "gone"
  /\ bridge' = "error"
  /\ wire' = <<>> /\ appends' = {} /\ waiting' = {}
  /\ resetting' = FALSE
  /\ ReduceCrash
  /\ UNCHANGED <<turnNo, turnPhase, parts, seen, opened, log, leaks, exits, timeline,
                 activeTurn, hydrates>>

\* The exit event of a process killed before is taken for one of the current.
LateExit ==
  /\ exits > 0
  /\ exits' = exits - 1
  /\ bridge' = "error"
  /\ ReduceCrash
  /\ UNCHANGED <<turnItemVars, process, leaks, resetting, crashes, timeline, activeTurn, hydrates,
                 waiting>>

\* A request finds the bridge not ready and starts a process, another one if
\* there is one already: nobody reads the first one's answers any more.
EnsureStarted ==
  /\ bridge # "ready"
  /\ leaks < MaxCrashes
  /\ leaks' = leaks + (IF process = "gone" THEN 0 ELSE 1)
  /\ Spawn
  /\ UNCHANGED <<resetting, exits, crashes, timeline, processed, activeTurn, banner, hydrates>>

HarnessWorks ==
  /\ process = "up"
  /\ Len(wire) < MaxWire
  /\ TurnItemsStep
  /\ UNCHANGED <<bridge, process, leaks, resetting, exits, crashes, timeline, processed, activeTurn,
                 banner, hydrates, waiting>>

DesktopNext ==
  \/ SendPrompt \/ SelectThread \/ Reconnect \/ SetWorkspace \/ Initialized \/ ReadLine \/ ProcessDies \/ LateExit
  \/ EnsureStarted \/ HarnessWorks

DesktopTypeOK ==
  /\ bridge \in {"starting", "ready", "error"}
  /\ process \in {"starting", "up", "gone"} /\ leaks \in Nat /\ resetting \in BOOLEAN
  /\ exits \in Nat /\ crashes \in 0..MaxCrashes /\ hydrates \in 0..MaxHydrates
  /\ activeTurn \in BOOLEAN /\ banner \in BOOLEAN
  /\ waiting \subseteq {"turn", "thread"}
  /\ turnPhase \in {"idle", "opening", "running", "over"}
  /\ opened \subseteq AllParts

(* An item is shown once, although it is both notified and replayed, with    *)
(* different keys, and the user's message once, although the store shows it  *)
(* before the harness does, in whatever order a hydration, a crash and a     *)
(* reconnect come (store.ts:100-137, app.tsx:38-60).                         *)
ShownAs(item) == IF item[2] = "sent" THEN <<item[1], "user">> ELSE item
ShownOnce ==
  /\ DesktopTypeOK
  /\ \A i, j \in DOMAIN timeline :
       ShownAs(timeline[i].item) = ShownAs(timeline[j].item) /\ timeline[i].item[2] # "pending" => i = j
=============================================================================
