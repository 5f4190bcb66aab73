-------------------------- MODULE MessageListeners --------------------------
(***************************************************************************)
(* The message listeners an application registers with MessagingModule     *)
(* for a room of a handle, and the event listeners MessagingModule keeps   *)
(* on the handle's Matrix client for them.                                 *)
(*                                                                         *)
(* Both maps of the class are keyed by the HandleId object the caller      *)
(* passes, not by the id in it: an Obj is one such object, all of them for *)
(* the same handle.  register and unregister await getMatrixClient, and    *)
(* the event listener awaits the user id and the room, between looking at  *)
(* the maps and using what they saw.                                       *)
(***************************************************************************)
EXTENDS Naturals, FiniteSets

CONSTANTS
    Task,       \* calls that may be under way
    Obj,        \* HandleId objects
    Name        \* names of the application's listeners

VARIABLES
    messageListeners,     \* the names registered for each object
    matrixEventListeners, \* the event listener of each object, 0 = none
    on,         \* event listeners on the client, as <<number, object>>
    made,       \* event listeners made so far
    pc,         \* what each call waits for: <<"idle">> or <<what, object>>
    pending,    \* event listeners that were called with an event and await the
                \* room, as <<number, object, event>>
    due,        \* history: the events emitted since the last call for an object
    heard,      \* history: who was told of them, as <<number, name, event>>
    orderly     \* history: no two calls for an object overlapped, none failed

hearing == <<messageListeners, matrixEventListeners, on, made, pc, pending,
             due, heard, orderly>>

Idle  == <<"idle", 0>>
Quiet == [o \in Obj |-> {}]

ListenersInit ==
    /\ messageListeners = [o \in Obj |-> {}]
    /\ matrixEventListeners = [o \in Obj |-> 0]
    /\ on = {} /\ made = 0 /\ pending = {}
    /\ pc = [t \in Task |-> Idle]
    /\ due = Quiet /\ heard = Quiet /\ orderly = [o \in Obj |-> TRUE]

\* No call for the object is under way.
Calm(o) == \A t \in Task : pc[t][2] # o

\* History: a call for the object begins, or changes what is registered.
Disturb(o, ok) ==
    /\ orderly' = [orderly EXCEPT ![o] = @ /\ ok]
    /\ due' = [due EXCEPT ![o] = {}]
    /\ heard' = [heard EXCEPT ![o] = {}]

\* registerMessageListener up to the await: a name that is there is kept.
registerMessageListener(t, o, n) ==
    /\ pc[t] = Idle
    /\ messageListeners' = [messageListeners EXCEPT ![o] = @ \cup {n}]
    /\ IF matrixEventListeners[o] = 0
       THEN pc' = [pc EXCEPT ![t] = <<"register", o>>] ELSE UNCHANGED pc
    /\ Disturb(o, Calm(o))
    /\ UNCHANGED <<matrixEventListeners, on, made, pending>>

\* And after it: MatrixClientManager.registerEventListener.
registerEventListener(t) ==
    /\ pc[t][1] = "register"
    /\ LET o == pc[t][2]
       IN  /\ on' = on \cup {<<made + 1, o>>}
           /\ matrixEventListeners' = [matrixEventListeners EXCEPT ![o] = made + 1]
           /\ Disturb(o, TRUE)
    /\ made' = made + 1
    /\ pc' = [pc EXCEPT ![t] = Idle]
    /\ UNCHANGED <<messageListeners, pending>>

\* unregisterMessageListener up to the await, which only the last name reaches.
unregisterMessageListener(t, o, n) ==
    /\ pc[t] = Idle /\ n \in messageListeners[o]
    /\ messageListeners' = [messageListeners EXCEPT ![o] = @ \ {n}]
    /\ IF messageListeners[o] = {n}
       THEN pc' = [pc EXCEPT ![t] = <<"unregister", o>>] ELSE UNCHANGED pc
    /\ Disturb(o, Calm(o))
    /\ UNCHANGED <<matrixEventListeners, on, made, pending>>

\* Mutant: the event listener is left on the client.
ListenerLeft(t) ==
    /\ pc[t][1] = "unregister"
    /\ LET o == pc[t][2]
       IN  /\ matrixEventListeners' = [matrixEventListeners EXCEPT ![o] = 0]
           /\ messageListeners' = [messageListeners EXCEPT ![o] = {}]
           /\ Disturb(o, TRUE)
    /\ pc' = [pc EXCEPT ![t] = Idle]
    /\ UNCHANGED <<on, made, pending>>

\* And after it: the listeners of the object are forgotten, those that were
\* registered meanwhile included.
unregisterEventListener(t) ==
    /\ pc[t][1] = "unregister"
    /\ LET o == pc[t][2]
       IN  /\ on' = on \ {<<matrixEventListeners[o], o>>}
           /\ matrixEventListeners' = [matrixEventListeners EXCEPT ![o] = 0]
           /\ messageListeners' = [messageListeners EXCEPT ![o] = {}]
           /\ Disturb(o, TRUE)
    /\ pc' = [pc EXCEPT ![t] = Idle]
    /\ UNCHANGED <<made, pending>>

\* getMatrixClient throws: what was done before the await stays.
ListenerCallFails(t) ==
    /\ pc[t] # Idle
    /\ pc' = [pc EXCEPT ![t] = Idle]
    /\ Disturb(pc[t][2], FALSE)
    /\ UNCHANGED <<messageListeners, matrixEventListeners, on, made, pending>>

\* The client emits events: every listener on it is called with each.
Emit(events) ==
    /\ pending' = pending \cup {<<l[1], l[2], i>> : l \in on, i \in events}
    /\ due' = [o \in Obj |-> IF orderly[o] /\ Calm(o) THEN due[o] \cup events ELSE due[o]]
    /\ UNCHANGED <<messageListeners, matrixEventListeners, on, made, pc, heard, orderly>>

\* An event listener has the room.  It calls the names there are by now
\* (getHandleMessageListener) if the event has one of the types told.
eventListener(p, told) ==
    /\ p \in pending
    /\ pending' = pending \ {p}
    /\ heard' = IF told /\ p[3] \in due[p[2]]
                THEN [heard EXCEPT ![p[2]] =
                        @ \cup {<<p[1], n, p[3]>> : n \in messageListeners[p[2]]}]
                ELSE heard
    /\ UNCHANGED <<messageListeners, matrixEventListeners, on, made, pc, due, orderly>>

\* It returns early or swallows an error: the room is not in the cache, or
\* the event was not decrypted or cannot be transformed.  Nobody is called.
EventSwallowed(p) ==
    /\ p \in pending
    /\ pending' = pending \ {p}
    /\ due' = [due EXCEPT ![p[2]] = @ \ {p[3]}]
    /\ UNCHANGED <<messageListeners, matrixEventListeners, on, made, pc, heard, orderly>>
=============================================================================
