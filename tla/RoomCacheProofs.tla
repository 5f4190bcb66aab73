--------------------------- MODULE RoomCacheProofs ---------------------------
(***************************************************************************)
(* Proof about RoomCache for every set of rooms and calls, every window    *)
(* and every bound: no call waits for a room that the client has, whether  *)
(* the room or the timeout came first.                                     *)
(***************************************************************************)
EXTENDS RoomCache, TLAPS

\* A call waits for a room with a listener and a timeout, or for nothing; a
\* call whose join is on its way waits for that room next.
WaitFor(room) == [room |-> room, listening |-> TRUE, timer |-> TRUE]

WaitType == wait \in [Task -> {NotWaiting} \cup {WaitFor(r) : r \in Room}]

JoinType == joining \in [Task -> Room \cup {"none"}]

Inv == /\ WaitType /\ JoinType
       /\ \A t \in Task : \A r \in cached : wait[t] # WaitFor(r)

\* Inv says what WaitersResolved says of the fields of wait.
LEMMA InvResolves == ASSUME RoomCacheAssumption, Inv PROVE WaitersResolved
<1> SUFFICES ASSUME NEW t \in Task
             PROVE  /\ wait[t].listening => wait[t].room \notin cached
                    /\ wait[t].listening <=> wait[t].timer
                    /\ wait[t].room = "none" <=> ~wait[t].listening
  BY DEF WaitersResolved
<1>1. CASE wait[t] = NotWaiting
  BY <1>1 DEF NotWaiting
<1>2. CASE \E r \in Room : wait[t] = WaitFor(r)
  <2>1. PICK r \in Room : wait[t] = WaitFor(r)
    BY <1>2
  <2>2. r # "none" /\ r \notin cached
    BY <2>1 DEF RoomCacheAssumption, Inv
  <2>3. wait[t].room = r /\ wait[t].listening = TRUE /\ wait[t].timer = TRUE
    BY <2>1 DEF WaitFor
  <2>4. QED
    BY <2>2, <2>3
<1>3. QED
  BY <1>1, <1>2 DEF Inv, WaitType

\* A room that arrives ends the waiting of every call that waits for it.
LEMMA ArrivalInv ==
    ASSUME RoomCacheAssumption, Inv, NEW r \in Room, RoomArrives(r)
    PROVE  Inv'
<1>1. /\ cached' = cached \cup {r}
      /\ wait' = [t \in Task |-> IF wait[t].room = r /\ wait[t].listening
                                 THEN NotWaiting ELSE wait[t]]
      /\ joining' = joining
  BY DEF RoomArrives, onRoom
<1>2. WaitType' /\ JoinType'
  BY <1>1 DEF Inv, WaitType, JoinType
<1>3. ASSUME NEW t \in Task, NEW s \in cached', wait'[t] = WaitFor(s)
      PROVE  FALSE
  <2>0. WaitFor(s) # NotWaiting
    BY DEF WaitFor, NotWaiting
  <2>1. wait'[t] = wait[t] /\ ~(wait[t].room = r /\ wait[t].listening)
    BY <1>1, <1>3, <2>0
  <2>2. s = r
    BY <1>1, <1>3, <2>1 DEF Inv
  <2>3. wait[t].room = r /\ wait[t].listening = TRUE
    BY <1>3, <2>1, <2>2 DEF WaitFor
  <2>4. QED
    BY <2>1, <2>3
<1>4. QED
  BY <1>2, <1>3 DEF Inv

\* getRoom and the answer of joinRoom wait only for a room that is not there.
LEMMA CallInv ==
    ASSUME Inv, NEW t \in Task, NEW r \in Room,
           getRoom(t, r) \/ (joining[t] = r /\ Joined(t)), JoinType'
    PROVE  Inv'
<1>1. cached' = cached
  BY DEF getRoom, Joined
<1>2. \/ wait' = wait
      \/ r \notin cached /\ wait' = [wait EXCEPT ![t] = WaitFor(r)]
  BY DEF getRoom, Joined, waitForRoomInLocalCache, WaitFor
<1>3. CASE wait' = wait
  BY <1>1, <1>3 DEF Inv, WaitType
<1>4. CASE r \notin cached /\ wait' = [wait EXCEPT ![t] = WaitFor(r)]
  <2>1. \A s : WaitFor(s) = WaitFor(r) => s = r
    BY DEF WaitFor
  <2>2. WaitType'
    BY <1>4 DEF Inv, WaitType
  <2>3. QED
    BY <1>1, <1>4, <2>1, <2>2 DEF Inv, WaitType
<1>5. QED
  BY <1>2, <1>3, <1>4

\* Every step keeps Inv.
LEMMA NextInv == ASSUME RoomCacheAssumption, Inv, [Next]_vars PROVE Inv'
<1>1. CASE \E r \in Room : RoomArrives(r)
  BY <1>1, ArrivalInv
<1>2. CASE \E t \in Task : \/ \E r \in Room : getRoom(t, r)
                         \/ Joined(t)
  <2>1. PICK t \in Task : (\E r \in Room : getRoom(t, r)) \/ Joined(t)
    BY <1>2
  <2>2. Joined(t) => joining[t] \in Room
    BY DEF Joined, Inv, JoinType
  <2>3. JoinType'
    BY <2>1 DEF Joined, getRoom, Inv, JoinType
  <2>4. QED
    BY <2>1, <2>2, <2>3, CallInv
<1>3. CASE \E t \in Task : WaitTimeout(t)
  <2>1. PICK t \in Task : WaitTimeout(t)
    BY <1>3
  <2>2. wait' = [wait EXCEPT ![t] = NotWaiting] /\ cached' = cached
    BY <2>1 DEF WaitTimeout
  <2>3. \A s : WaitFor(s) # NotWaiting
    BY DEF WaitFor, NotWaiting
  <2>4. WaitType'
    BY <2>2 DEF Inv, WaitType
  <2>5. QED
    BY <2>1, <2>2, <2>3, <2>4 DEF Inv, WaitType, JoinType, WaitTimeout
<1>4. CASE \/ startSyncing \/ startSyncingFails \/ stopSyncing \/ UNCHANGED vars
           \/ \E r \in Room : Bump(r) \/ \E t \in Task : joinRoom(t, r)
           \/ \E t \in Task : JoinFails(t)
  <2>1. wait' = wait /\ cached' = cached
    BY <1>4 DEF startSyncing, startSyncingFails, stopSyncing, Bump, joinRoom, JoinFails, vars
  <2>2. JoinType'
    BY <1>4 DEF startSyncing, startSyncingFails, stopSyncing, Bump, joinRoom, JoinFails,
                vars, Inv, JoinType
  <2>3. QED
    BY <2>1, <2>2 DEF Inv, WaitType
<1>5. QED
  BY <1>1, <1>2, <1>3, <1>4 DEF Next

\* waitForRoomInLocalCache: however rooms, timeouts, starts and stops
\* interleave, no call waits for a room the client has, and a call that does
\* not wait has left neither a listener nor a timeout.
THEOREM WaitingResolved == Spec => []WaitersResolved
<1>1. Init => Inv
  BY DEF Init, Inv, WaitType, JoinType
<1>2. Inv /\ [Next]_vars => Inv'
  BY NextInv, RoomCacheAssumption
<1>3. Inv => WaitersResolved
  BY InvResolves, RoomCacheAssumption
<1>4. QED
  BY <1>1, <1>2, <1>3, PTL DEF Spec
=============================================================================
