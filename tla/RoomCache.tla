----------------------------- MODULE RoomCache -----------------------------
(***************************************************************************)
(* The rooms a Matrix client has: the sliding sync window of               *)
(* MatrixClientManager and the calls that wait for a room to arrive.       *)
(*                                                                         *)
(* The server keeps the handle's rooms in a list, the most recent first,   *)
(* and sends those in the window, and those subscribed to, once for each   *)
(* connection.  A room that arrives is stored and announced to the         *)
(* listeners on the client: the one that extends the window, and one for   *)
(* every call that waits for a room.                                       *)
(*                                                                         *)
(* External: the server's list; the SDK, whose startClient does nothing    *)
(* while the client runs, so that a second startSyncing leaves the manager *)
(* with an instance of SlidingSync that is not the one running.            *)
(***************************************************************************)
EXTENDS Naturals, Sequences, FiniteSets

CONSTANTS
    Room, Task,
    Listed,     \* the rooms of the handle at the start, most recent first
    InitialSize, ExtendWithin, ExtendBy,    \* of the window
    Supported,  \* whether the server may support sliding sync
    MaxCalls, MaxStarts, MaxBumps

ASSUME RoomCacheAssumption ==
    /\ InitialSize \in Nat \ {0} /\ ExtendWithin \in Nat /\ ExtendBy \in Nat \ {0}
    /\ Supported \subseteq BOOLEAN /\ MaxCalls \in Nat /\ "none" \notin Room
    /\ MaxStarts \in Nat /\ MaxBumps \in Nat

VARIABLES
    list,       \* server: the handle's rooms, most recent first
    supported,  \* server: sliding sync is
    sent,       \* server: rooms sent over this connection
    window,     \* the running instance: rooms in its list range
    subs,       \* the running instance: rooms subscribed to
    running,    \* SDK: the client runs
    slidingSync,\* the manager's instance: "none", "running", or "other"
    rangeEnd,   \* slidingSyncListRangeEnd + 1
    extenders,  \* extend listeners on the client
    extender,   \* slidingSyncExtendListener is set
    cached,     \* client: the rooms it has
    joining,    \* the room whose join or knock a call awaits the answer of
    wait,       \* what each call waits for: the room, and its timeout is set
    calls, starts, bumps

syncing == <<window, subs, running, slidingSync, rangeEnd, extenders, extender>>
vars == <<list, supported, sent, syncing, cached, joining, wait, calls, starts, bumps>>

NotWaiting == [room |-> "none", listening |-> FALSE, timer |-> FALSE]

Init == /\ list = Listed /\ supported \in Supported
        /\ sent = {} /\ window = 0 /\ subs = {} /\ running = FALSE
        /\ slidingSync = "none" /\ rangeEnd = InitialSize
        /\ extenders = 0 /\ extender = FALSE
        /\ cached = {} /\ wait = [t \in Task |-> NotWaiting]
        /\ joining = [t \in Task |-> "none"]
        /\ calls = 0 /\ starts = 0 /\ bumps = 0

----------------------------------------------------------------------------
(* Starting and stopping.                                                  *)

\* createSlidingSyncInstance: a list with the initial range, no subscription.
createSlidingSyncInstance ==
    /\ rangeEnd' = InitialSize
    /\ extender' = TRUE /\ extenders' = extenders + 1

\* startSyncing, once the server has told whether it supports sliding sync.
\* Without it the client syncs the legacy way, which sends every room.
startSyncing ==
    /\ starts < MaxStarts /\ starts' = starts + 1
    /\ IF supported
       THEN /\ createSlidingSyncInstance
            /\ window' = IF running THEN window ELSE InitialSize
            /\ subs' = IF running THEN subs ELSE {}
            /\ slidingSync' = IF running THEN "other" ELSE "running"
       ELSE UNCHANGED <<rangeEnd, window, subs, slidingSync, extender, extenders>>
    /\ running' = TRUE
    /\ sent' = IF running THEN sent ELSE {}
    /\ UNCHANGED <<list, supported, cached, joining, wait, calls, bumps>>

\* startSyncing that fails, which its caller is not told: startClient throws,
\* and the manager keeps an instance that does not run and its listener.
\* (When the server does not tell what it supports, nothing happens.)
startSyncingFails ==
    /\ starts < MaxStarts /\ starts' = starts + 1
    /\ supported /\ ~running
    /\ createSlidingSyncInstance /\ slidingSync' = "other"
    /\ UNCHANGED <<list, supported, sent, window, subs, running, cached, joining,
                   wait, calls, bumps>>

\* stopSyncing removes the one listener the manager knows of.
stopSyncing ==
    /\ extenders' = IF extender THEN extenders - 1 ELSE extenders
    /\ extender' = FALSE
    /\ running' = FALSE /\ slidingSync' = "none"
    /\ UNCHANGED <<list, supported, sent, window, subs, rangeEnd, cached, joining,
                   wait, calls, starts, bumps>>

----------------------------------------------------------------------------
(* Rooms that arrive.                                                      *)

\* Mutant: the window is extended only when it has overflowed.
ExtendLate(count, end) == count > end

nearLimit(count, end) == count + ExtendWithin >= end

\* extendSlidingSyncListIfNearLimit, run n times: once for each listener.
extend[n \in Nat] ==
    [end \in Nat |-> [count \in Nat |->
        IF n = 0 \/ ~nearLimit(count, end) THEN end
        ELSE extend[n - 1][end + ExtendBy][count]]]

extendSlidingSyncListIfNearLimit(count) ==
    LET end == extend[extenders][rangeEnd][count]
    IN  IF slidingSync = "none" THEN UNCHANGED <<rangeEnd, window>>
        ELSE /\ rangeEnd' = end
             /\ window' = IF slidingSync = "running" /\ end # rangeEnd
                          THEN end ELSE window

\* Mutant: only one of the calls that wait for the room hears of it.
FirstHears(room) ==
    LET w == {t \in Task : wait[t].room = room /\ wait[t].listening}
    IN  wait' = [t \in Task |-> IF w # {} /\ t = CHOOSE u \in w : TRUE
                                THEN NotWaiting ELSE wait[t]]

\* onRoom of every call that waits for the room: its timeout is cleared, its
\* listener removed, and it has the room.
onRoom(room) ==
    wait' = [t \in Task |-> IF wait[t].room = room /\ wait[t].listening
                            THEN NotWaiting ELSE wait[t]]

InWindow == IF supported THEN {list[i] : i \in DOMAIN list \cap 1..window}
            ELSE {list[i] : i \in DOMAIN list}

\* External: a room in the window or subscribed to is sent.
RoomArrives(room) ==
    /\ running
    /\ room \in (InWindow \cup (subs \cap {list[i] : i \in DOMAIN list})) \ sent
    /\ sent' = sent \cup {room}
    /\ cached' = cached \cup {room}
    /\ extendSlidingSyncListIfNearLimit(Cardinality(cached'))
    /\ onRoom(room)
    /\ UNCHANGED <<list, supported, subs, running, slidingSync, extenders, extender,
                   joining, calls, starts, bumps>>

\* External: a message in a room, or a room the handle was added to.
Bump(room) ==
    /\ bumps < MaxBumps /\ bumps' = bumps + 1
    /\ list' = <<room>> \o SelectSeq(list, LAMBDA r : r # room)
    /\ UNCHANGED <<supported, sent, syncing, cached, joining, wait, calls, starts>>

----------------------------------------------------------------------------
(* Calls that wait.                                                        *)

\* waitForRoomInLocalCache, for a room that is not there.
waitForRoomInLocalCache(t, room) ==
    wait' = [wait EXCEPT ![t] = [room |-> room, listening |-> TRUE, timer |-> TRUE]]

Begins(t) == /\ wait[t] = NotWaiting /\ joining[t] = "none"
             /\ calls < MaxCalls /\ calls' = calls + 1

\* getRoom: a room that is there is returned at once, and so is undefined
\* without sliding sync; else the room is subscribed to and waited for.
getRoom(t, room) ==
    /\ Begins(t)
    /\ IF room \in cached \/ slidingSync = "none" THEN UNCHANGED <<subs, wait>>
       ELSE /\ subs' = IF slidingSync = "running" THEN subs \cup {room} ELSE subs
            /\ waitForRoomInLocalCache(t, room)
    /\ UNCHANGED <<list, supported, sent, window, running, slidingSync, rangeEnd,
                   extenders, extender, cached, joining, starts, bumps>>

\* joinRoom and knockRoom, their request served: the room comes first in the
\* list.  It may arrive before the answer does.
joinRoom(t, room) ==
    /\ Begins(t)
    /\ joining' = [joining EXCEPT ![t] = room]
    /\ list' = <<room>> \o SelectSeq(list, LAMBDA r : r # room)
    /\ UNCHANGED <<supported, sent, syncing, cached, wait, starts, bumps>>

\* The answer of the join or knock: the room is waited for, without a
\* subscription, if the client does not have it by now.
Joined(t) ==
    /\ joining[t] # "none"
    /\ joining' = [joining EXCEPT ![t] = "none"]
    /\ IF joining[t] \in cached THEN UNCHANGED wait
       ELSE waitForRoomInLocalCache(t, joining[t])
    /\ UNCHANGED <<list, supported, sent, syncing, cached, calls, starts, bumps>>

\* The answer is lost: the call fails, although the handle has joined.
JoinFails(t) ==
    /\ joining[t] # "none"
    /\ joining' = [joining EXCEPT ![t] = "none"]
    /\ UNCHANGED <<list, supported, sent, syncing, cached, wait, calls, starts, bumps>>

\* The timeout of waitForRoomInLocalCache: the call goes on with the room if
\* it is there by now, else without.
WaitTimeout(t) ==
    /\ wait[t].timer
    /\ wait' = [wait EXCEPT ![t] = NotWaiting]
    /\ UNCHANGED <<list, supported, sent, syncing, cached, joining, calls, starts, bumps>>

Next == \/ startSyncing \/ startSyncingFails \/ stopSyncing
        \/ \E r \in Room : RoomArrives(r) \/ Bump(r)
        \/ \E t \in Task : \/ \E r \in Room : getRoom(t, r) \/ joinRoom(t, r)
                           \/ Joined(t) \/ JoinFails(t) \/ WaitTimeout(t)

\* Requests are answered or fail, timeouts fire, and a client that syncs is sent what it asks for.
Fairness == /\ \A r \in Room : WF_vars(RoomArrives(r))
            /\ \A t \in Task : WF_vars(WaitTimeout(t)) /\ WF_vars(Joined(t) \/ JoinFails(t))

Spec     == Init /\ [][Next]_vars
FairSpec == Spec /\ Fairness

----------------------------------------------------------------------------
(* Properties.                                                             *)

\* A call waits only for a room the client does not have: all calls that
\* wait for a room go on when it arrives, whoever asked for it and why.  And
\* a call that does not wait has neither a listener nor a timeout left.
WaitersResolved ==
    \A t \in Task : /\ wait[t].listening => wait[t].room \notin cached
                    /\ wait[t].listening <=> wait[t].timer
                    /\ wait[t].room = "none" <=> ~wait[t].listening

\* If the client is started (and not started again while it runs) and left
\* running, it gets every room of the handle however many there are: the
\* window grows with the rooms it has, and a call that waits for a room ends.
RoomsReached ==
    <>[](running /\ (supported => slidingSync = "running"))
        => <>[](/\ \A i \in DOMAIN list : list[i] \in cached
                /\ \A t \in Task : ~wait[t].listening /\ joining[t] = "none")
=============================================================================
