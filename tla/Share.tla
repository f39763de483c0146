-------------------------------- MODULE Share --------------------------------
(* Sharing a session (src/src/share/share-next.ts): every change of a session *)
(* is queued for a second, then posted if the session is shared by then; a    *)
(* share begins with a full copy. A change is its number.                     *)
EXTENDS Naturals, FiniteSets

CONSTANTS MaxChanges,  \* bound: changes of the session
          MaxShares    \* bound: calls of create and of remove

VARIABLES change,   \* the session's newest change
          share,    \* the stored share: its id and secret, or none
          queue,    \* the data waiting for the timer, or none
          batches,  \* batches taken by a timer whose share is being read
          posts,    \* requests on their way to the service
          posted,   \* changes some request carried since the share was stored
          remote,   \* the change the service shows (0: nothing)
          sharing   \* where create, its full copy and remove stand

shareVars == <<change, share, queue, batches, posts, posted, remote, sharing>>

Waiting == {{}} \cup {{s} : s \in SUBSET (0..MaxChanges)}

ShareInit ==
    /\ change = 0 /\ share = FALSE /\ queue = {} /\ batches = {} /\ posts = {}
    /\ posted = {} /\ remote = 0
    /\ sharing = [create |-> "idle", copy |-> 0, remove |-> "idle", calls |-> 0]

(* Mutant: data that comes while the timer runs is left out.                  *)
QueuedFirst(data) == IF queue = {} THEN {data} ELSE queue

(* sync: joins the waiting data, or starts the timer with it.                 *)
Queued(data) == {UNION queue \cup data}

(* Session.Event.Updated, MessageV2.Event.Updated, PartUpdated, Diff.         *)
Changed ==
    /\ change < MaxChanges
    /\ change' = change + 1
    /\ queue' = Queued({change + 1})
    /\ UNCHANGED <<share, batches, posts, posted, remote, sharing>>

(* The timer: the entry is deleted, then the share is read.                   *)
TimerFires ==
    /\ queue # {}
    /\ batches' = batches \cup queue
    /\ queue' = {}
    /\ UNCHANGED <<change, share, posts, posted, remote, sharing>>

Sync(b) ==
    /\ batches' = batches \ {b}
    /\ IF share THEN posts' = posts \cup {b} /\ posted' = posted \cup b
                ELSE UNCHANGED <<posts, posted>>
    /\ UNCHANGED <<change, share, queue, remote, sharing>>

(* Requests reach the service in any order, or fail and are not repeated.     *)
Reaches(b) ==
    /\ posts' = posts \ {b}
    /\ remote' = CHOOSE n \in b : \A m \in b : m <= n
    /\ UNCHANGED <<change, share, queue, batches, posted, sharing>>

Fails(b) ==
    /\ posts' = posts \ {b}
    /\ UNCHANGED <<change, share, queue, batches, posted, remote, sharing>>

Create ==
    /\ sharing.create = "idle" /\ sharing.calls < MaxShares
    /\ sharing' = [sharing EXCEPT !.create = "asked", !.calls = @ + 1]
    /\ UNCHANGED <<change, share, queue, batches, posts, posted, remote>>

(* The share is stored; fullSync runs on by itself.                           *)
Stored ==
    /\ sharing.create = "asked"
    /\ share' = TRUE
    /\ posted' = {}
    /\ sharing' = [sharing EXCEPT !.create = "reading"]
    /\ UNCHANGED <<change, queue, batches, posts, remote>>

FullSyncReads ==
    /\ sharing.create = "reading"
    /\ sharing' = [sharing EXCEPT !.create = "read", !.copy = change]
    /\ UNCHANGED <<change, share, queue, batches, posts, posted, remote>>

FullSyncQueues ==
    /\ sharing.create = "read"
    /\ queue' = Queued({sharing.copy})
    /\ sharing' = [sharing EXCEPT !.create = "idle", !.copy = 0]
    /\ UNCHANGED <<change, share, batches, posts, posted, remote>>

Unshare ==
    /\ sharing.remove = "idle" /\ share /\ sharing.calls < MaxShares
    /\ sharing' = [sharing EXCEPT !.remove = "deleting", !.calls = @ + 1]
    /\ UNCHANGED <<change, share, queue, batches, posts, posted, remote>>

Deleted ==
    /\ sharing.remove = "deleting"
    /\ share' = FALSE
    /\ remote' = 0
    /\ sharing' = [sharing EXCEPT !.remove = "idle"]
    /\ UNCHANGED <<change, queue, batches, posts, posted>>

ShareStep ==
    \/ TimerFires \/ Stored \/ FullSyncReads \/ FullSyncQueues \/ Deleted
    \/ \E b \in batches : Sync(b)
    \/ \E b \in posts : Reaches(b) \/ Fails(b)

ShareNext == ShareStep \/ Changed \/ Create \/ Unshare

(* Whatever a session shows is sent while it stays shared: the newest change, *)
(* however the timer, the copy and the changes interleave, goes into some     *)
(* request after the share was stored (the timer's delete before its reading, *)
(* sync's join).                                                              *)
ChangesAreSent ==
    \A n \in 0..MaxChanges :
        share /\ change = n ~> n \in posted \/ change # n \/ ~share
=============================================================================
