------------------------ MODULE SessionManagerProofs ------------------------
(***************************************************************************)
(* Proofs about SessionManager for every set of callers, every refresh     *)
(* threshold and every bound: types, serialization of the chain and the    *)
(* absence of duplicate sessions, from the inductive invariant Inv; that   *)
(* it implements SessionSlot, from Awaited; and what an application that   *)
(* awaits its calls can rely on, from Kept.                                *)
(***************************************************************************)
EXTENDS SessionManager, SequenceTheorems, TLAPS

Inv == TypeOK /\ ChainSerialises /\ ClientUsesCachedToken /\ SessionOwned

-----------------------------------------------------------------------------
(* Sequences.                                                              *)

\* Replacing elements of a sequence keeps it a sequence of the same domain.
LEMMA ExceptKeepsSeq ==
    ASSUME NEW S, NEW s \in Seq(S), NEW k, NEW e \in S
    PROVE  /\ [s EXCEPT ![k] = e] \in Seq(S)
           /\ DOMAIN [s EXCEPT ![k] = e] = DOMAIN s
<1>1. s \in [1..Len(s) -> S] /\ Len(s) \in Nat
  BY LenProperties
<1>2. [s EXCEPT ![k] = e] \in [1..Len(s) -> S]
  BY <1>1
<1>3. QED
  BY <1>1, <1>2, SeqDef

\* clearTimeout and a restart only zero due times.
LEMMA ZeroingKeepsSeq ==
    ASSUME NEW s \in Seq(Nat), NEW i
    PROVE  /\ [j \in DOMAIN s |-> IF j = i THEN 0 ELSE s[j]] \in Seq(Nat)
           /\ [j \in DOMAIN s |-> 0] \in Seq(Nat)
<1>1. s \in [1..Len(s) -> Nat] /\ Len(s) \in Nat /\ DOMAIN s = 1..Len(s)
  BY LenProperties
<1>2. /\ [j \in DOMAIN s |-> IF j = i THEN 0 ELSE s[j]] \in [1..Len(s) -> Nat]
      /\ [j \in DOMAIN s |-> 0] \in [1..Len(s) -> Nat]
  BY <1>1
<1>3. QED
  BY <1>1, <1>2, SeqDef

-----------------------------------------------------------------------------
(* The chain.                                                              *)

\* A working call is the head of the chain, so at most one call works.
LEMMA WorkingIsHead ==
    ASSUME TypeOK, ChainSerialises, NEW c \in Caller,
           pc[c] \in Working \/ AtHead(c)
    PROVE  /\ perHandleSessionChain # <<>>
           /\ 1 \in DOMAIN perHandleSessionChain
           /\ perHandleSessionChain[1] = c
           /\ \A d \in Caller : pc[d] \in Working => d = c
<1> DEFINE chain == perHandleSessionChain
<1>1. chain \in Seq(Caller)
  BY DEF TypeOK
<1>2. \A d \in Caller : pc[d] \in Working => 1 \in DOMAIN chain /\ chain[1] = d
  <2> SUFFICES ASSUME NEW d \in Caller, pc[d] \in Working
               PROVE  1 \in DOMAIN chain /\ chain[1] = d
    OBVIOUS
  <2>1. PICK i \in DOMAIN chain : chain[i] = d
    BY DEF ChainSerialises
  <2>2. ~(i > 1)
    BY <2>1 DEF ChainSerialises, Working, Deleting, Creating, Refreshing
  <2>3. i = 1
    BY <2>2, <1>1, LenProperties
  <2>4. QED
    BY <2>1, <2>3
<1>3. CASE AtHead(c)
  <2>1. chain # <<>> /\ c = Head(chain)
    BY <1>3 DEF AtHead
  <2>2. 1 \in DOMAIN chain /\ chain[1] = c
    BY <1>1, <2>1
  <2>3. QED
    BY <1>2, <2>1, <2>2
<1>4. CASE pc[c] \in Working
  BY <1>2, <1>4, <1>1
<1>5. QED
  BY <1>3, <1>4

\* A call that begins its work, works on or leaves startSyncing, and any
\* step of the Deleter, keeps the chain in order.
LEMMA ChainMove ==
    ASSUME SessionAssumption, TypeOK, ChainSerialises, NEW t \in Task, NEW label,
           perHandleSessionChain' = perHandleSessionChain,
           Goto(t, label),
           \/ t = Deleter
           \/ (pc[t] \in Working \/ AtHead(t)) /\ label \in Working
           \/ pc[t] = "starting" /\ label = "idle"
    PROVE  ChainSerialises'
<1> DEFINE chain == perHandleSessionChain
<1>0. chain \in Seq(Caller) /\ pc \in [Task -> Label] /\ Deleter \notin Caller
  BY DEF TypeOK, SessionAssumption
<1>a. \A i \in DOMAIN chain : chain[i] \in Caller
  BY <1>0, LenProperties
<1>b. \A d \in Task : pc'[d] = IF d = t THEN label ELSE pc[d]
  BY <1>0 DEF Goto
<1>1. CASE t = Deleter
  <2>1. \A c \in Caller : pc'[c] = pc[c]
    BY <1>0, <1>1, <1>b DEF Task
  <2>2. QED
    BY <2>1, <1>a DEF ChainSerialises
<1>2. CASE t \in Caller /\ (pc[t] \in Working \/ AtHead(t)) /\ label \in Working
  <2>1. 1 \in DOMAIN chain /\ chain[1] = t
    BY <1>2, WorkingIsHead
  <2>2. \A i \in DOMAIN chain : i > 1 => chain[i] # t
    BY <2>1, <1>0 DEF ChainSerialises
  <2>3. \A i \in DOMAIN chain : pc'[chain[i]] \in Working \cup {"queued"}
    BY <1>2, <1>a, <1>b DEF ChainSerialises, Task
  <2>4. \A i \in DOMAIN chain : i > 1 => pc'[chain[i]] = "queued"
    BY <2>2, <1>a, <1>b DEF ChainSerialises, Task
  <2>5. \A c \in Caller : pc'[c] \in Working \cup {"queued"}
                            => \E i \in DOMAIN chain : chain[i] = c
    BY <2>1, <1>b DEF ChainSerialises, Task
  <2>6. QED
    BY <2>3, <2>4, <2>5 DEF ChainSerialises
<1>3. CASE t \in Caller /\ pc[t] = "starting" /\ label = "idle"
  <2>1. \A i \in DOMAIN chain : chain[i] # t
    BY <1>3 DEF ChainSerialises, Working, Deleting, Creating, Refreshing
  <2>2. QED
    BY <2>1, <1>3, <1>a, <1>b
    DEF ChainSerialises, Task, Working, Deleting, Creating, Refreshing
<1>4. QED
  BY <1>1, <1>2, <1>3 DEF Task

\* A settled call may queue up.
LEMMA ChainEnqueue ==
    ASSUME TypeOK, ChainSerialises, NEW c \in Caller, NEW o, NEW d,
           Enqueue(c, o, d)
    PROVE  ChainSerialises'
<1> DEFINE chain == perHandleSessionChain
<1>0. chain \in Seq(Caller) /\ pc \in [Task -> Label]
  BY DEF TypeOK
<1>1. \A i \in DOMAIN chain : chain[i] \in Caller /\ chain[i] # c
  BY <1>0, LenProperties
  DEF Enqueue, ChainSerialises, Settled, Working, Deleting, Creating, Refreshing
<1>2. /\ DOMAIN chain' = 1..(Len(chain) + 1) /\ Len(chain) \in Nat
      /\ DOMAIN chain = 1..Len(chain)
      /\ \A i \in DOMAIN chain : chain'[i] = chain[i]
      /\ chain'[Len(chain) + 1] = c
  BY <1>0, AppendProperties, LenProperties DEF Enqueue
<1>3. \A e \in Task : pc'[e] = IF e = c THEN "queued" ELSE pc[e]
  BY <1>0 DEF Enqueue, Goto, Task
<1>4. \A i, j \in DOMAIN chain' : chain'[i] = chain'[j] => i = j
  BY <1>1, <1>2 DEF ChainSerialises
<1>5. \A i \in DOMAIN chain' : pc'[chain'[i]] \in Working \cup {"queued"}
  BY <1>1, <1>2, <1>3 DEF ChainSerialises, Task
<1>6. \A i \in DOMAIN chain' : i > 1 => pc'[chain'[i]] = "queued"
  BY <1>1, <1>2, <1>3 DEF ChainSerialises, Task
<1>7. \A e \in Caller : pc'[e] \in Working \cup {"queued"}
                          => \E i \in DOMAIN chain' : chain'[i] = e
  <2> SUFFICES ASSUME NEW e \in Caller, pc'[e] \in Working \cup {"queued"}
               PROVE  \E i \in DOMAIN chain' : chain'[i] = e
    OBVIOUS
  <2>1. CASE e = c
    BY <2>1, <1>2
  <2>2. CASE e # c
    <3>1. PICK i \in DOMAIN chain : chain[i] = e
      BY <2>2, <1>3 DEF ChainSerialises, Task
    <3>2. i \in DOMAIN chain' /\ chain'[i] = e
      BY <3>1, <1>2
    <3>3. QED
      BY <3>2
  <2>3. QED
    BY <2>1, <2>2
<1>8. QED
  BY <1>4, <1>5, <1>6, <1>7 DEF ChainSerialises

\* The head leaves, whatever it settles to.
LEMMA ChainLeave ==
    ASSUME TypeOK, ChainSerialises, NEW c \in Caller,
           pc[c] \in Working \/ AtHead(c),
           NEW label \in Settled \cup {"starting"},
           perHandleSessionChain' = Tail(perHandleSessionChain),
           Goto(c, label)
    PROVE  ChainSerialises'
<1> DEFINE chain == perHandleSessionChain
<1>0. chain \in Seq(Caller) /\ pc \in [Task -> Label]
  BY DEF TypeOK
<1>1. chain # <<>> /\ 1 \in DOMAIN chain /\ chain[1] = c
  BY WorkingIsHead
<1>2. /\ DOMAIN chain' = 1..(Len(chain) - 1) /\ Len(chain) \in Nat
      /\ DOMAIN chain = 1..Len(chain)
      /\ \A i \in DOMAIN chain' : i + 1 \in DOMAIN chain /\ chain'[i] = chain[i + 1]
  BY <1>0, <1>1, HeadTailProperties, LenProperties
<1>3. \A i \in DOMAIN chain : chain[i] \in Caller /\ (i > 1 => chain[i] # c)
  BY <1>0, <1>1, LenProperties DEF ChainSerialises
<1>4. \A e \in Task : pc'[e] = IF e = c THEN label ELSE pc[e]
  BY <1>0 DEF Goto, Task
<1>5. \A i \in DOMAIN chain' : i + 1 > 1 /\ chain'[i] # c /\ chain'[i] \in Caller
  BY <1>2, <1>3
<1>6. \A i, j \in DOMAIN chain' : chain'[i] = chain'[j] => i = j
  BY <1>2 DEF ChainSerialises
<1>7. \A i \in DOMAIN chain' : pc'[chain'[i]] = "queued"
  BY <1>2, <1>4, <1>5 DEF ChainSerialises, Task
<1>8. \A e \in Caller : pc'[e] \in Working \cup {"queued"}
                          => \E i \in DOMAIN chain' : chain'[i] = e
  <2> SUFFICES ASSUME NEW e \in Caller, pc'[e] \in Working \cup {"queued"}
               PROVE  \E i \in DOMAIN chain' : chain'[i] = e
    OBVIOUS
  <2>1. e # c
    BY <1>4 DEF Task, Settled, Working, Deleting, Creating, Refreshing
  <2>2. PICK i \in DOMAIN chain : chain[i] = e
    BY <2>1, <1>4 DEF ChainSerialises, Task
  <2>3. i # 1
    BY <2>1, <2>2, <1>1
  <2>4. i - 1 \in DOMAIN chain' /\ (i - 1) + 1 = i
    BY <2>3, <1>2
  <2>5. chain'[i - 1] = e
    BY <2>2, <2>4, <1>2
  <2>6. QED
    BY <2>4, <2>5
<1>9. QED
  BY <1>6, <1>7, <1>8 DEF ChainSerialises

-----------------------------------------------------------------------------
(* Effects shared by several actions.                                      *)

\* The call c settles or goes on to start its client.
Leaves(c) ==
    /\ perHandleSessionChain' = Tail(perHandleSessionChain)
    /\ \E label \in Settled \cup {"starting"} : Goto(c, label)

\* Whatever a call settles to, it leaves the chain and keeps the types.
LEMMA LeavingTypes ==
    ASSUME TypeOK, ChainSerialises, NEW c \in Caller,
           pc[c] \in Working \/ AtHead(c),
           Resolve(c) \/ Reject(c)
    PROVE  /\ Leaves(c)
           /\ perHandleSessionChain' \in Seq(Caller)
           /\ pc' \in [Task -> Label]
           /\ loc' \in [Task -> Local]
           /\ \A d \in Task : d # c => loc'[d] = loc[d]
           /\ syncing' \subseteq Nat
<1>1. Leaves(c)
  BY DEF Leaves, Resolve, Reject, LeaveChain, Settled
<1>2. perHandleSessionChain' \in Seq(Caller)
  BY <1>1, WorkingIsHead, HeadTailProperties DEF Leaves, TypeOK
<1>3. pc' \in [Task -> Label]
  BY <1>1 DEF Leaves, Goto, TypeOK, Label
<1>4. NoLocal \in Local /\ [NoLocal EXCEPT !.client = session.matrixClient] \in Local
  BY DEF TypeOK, NoLocal, Local, NoSession, Session, NoToken, Token
<1>5. \/ loc' = [loc EXCEPT ![c] = NoLocal]
      \/ loc' = [loc EXCEPT ![c] = [NoLocal EXCEPT !.client = session.matrixClient]]
  BY DEF Resolve, Reject, LeaveChain
<1>6. loc' \in [Task -> Local] /\ \A d \in Task : d # c => loc'[d] = loc[d]
  BY <1>4, <1>5 DEF TypeOK, Task
<1>7. syncing' \subseteq Nat
  BY DEF Resolve, Reject, TypeOK
<1>8. QED
  BY <1>1, <1>2, <1>3, <1>6, <1>7

\* A step of t that leaves session and clients alone keeps what the other
\* calls know of the session; t itself may create only if there is none.
LEMMA OwnershipKept ==
    ASSUME SessionAssumption, Inv, NEW t \in Task, NEW label,
           session' = session, clientToken' = clientToken,
           Goto(t, label),
           \A d \in Task : d # t => loc'[d] = loc[d],
           \/ t = Deleter
           \/ label \notin Creating \cup {"refresh"}
           \/ label \in Creating /\ session = NoSession
    PROVE  ClientUsesCachedToken' /\ SessionOwned'
<1>1. \A d \in Task : d # t => pc'[d] = pc[d]
  BY DEF Goto, Inv, TypeOK
<1>2. pc'[t] = label
  BY DEF Goto, Inv, TypeOK
<1>3. ClientUsesCachedToken'
  BY DEF Inv, ClientUsesCachedToken
<1>4. ASSUME NEW c \in Caller
      PROVE  /\ pc'[c] \in Creating => session = NoSession
             /\ pc'[c] = "refresh" =>
                   /\ loc'[c].cachedSession.matrixClient \in DOMAIN clientToken
                   /\ session \in {NoSession, loc'[c].cachedSession}
  <2>1. CASE c # t
    BY <2>1, <1>1 DEF Inv, SessionOwned, Task
  <2>2. CASE c = t
    BY <2>2, <1>2 DEF SessionAssumption, Creating
  <2>3. QED
    BY <2>1, <2>2
<1>5. QED
  BY <1>3, <1>4 DEF SessionOwned

\* A step that drops the session of the handle leaves nothing to own.
LEMMA OwnershipDropped ==
    ASSUME Inv, session' = NoSession, clientToken' = clientToken,
           NEW t \in Task, NEW label, Goto(t, label), label # "refresh",
           \A d \in Task : d # t => loc'[d] = loc[d]
    PROVE  ClientUsesCachedToken' /\ SessionOwned'
<1>1. \A d \in Task : d # t => pc'[d] = pc[d]
  BY DEF Goto, Inv, TypeOK
<1>2. pc'[t] = label
  BY DEF Goto, Inv, TypeOK
<1>3. QED
  BY <1>1, <1>2 DEF Inv, SessionOwned, ClientUsesCachedToken, Task

\* The first turn of deleteSession.
LEMMA DeleteBeginTypes ==
    ASSUME TypeOK, NEW t \in Task, DeleteBegin(t)
    PROVE  /\ session' = session /\ clientToken' = clientToken
           /\ perHandleSessionChain' = perHandleSessionChain
           /\ timerAt' \in Seq(Nat) /\ syncing' \subseteq Nat
           /\ pc' \in [Task -> Label]
<1>1. timerAt' \in Seq(Nat)
  BY ZeroingKeepsSeq DEF DeleteBegin, clearTimeout, TypeOK
<1>2. QED
  BY <1>1 DEF DeleteBegin, TypeOK, Goto, Label, Working, Deleting

-----------------------------------------------------------------------------
(* Inv is inductive.                                                       *)

\* The initial state: no session and an empty chain.
LEMMA InitInv == ASSUME SessionAssumption, Init PROVE Inv
<1>1. TypeOK
  BY EmptySeq DEF Init, TypeOK, Local, Session, Token, NoLocal, NoSession,
     NoToken, Label, Settled
<1>2. ChainSerialises
  BY DEF Init, ChainSerialises, Task, Working, Deleting, Creating, Refreshing
<1>3. ClientUsesCachedToken /\ SessionOwned
  BY DEF Init, ClientUsesCachedToken, SessionOwned, Task, Creating
<1>4. QED
  BY <1>1, <1>2, <1>3 DEF Inv

\* Calls of the application and refresh timeouts join the chain.
LEMMA EnqueueInv ==
    ASSUME SessionAssumption, Inv, NEW c \in Caller,
           \/ \E o \in Ops, d \in DeviceIds : Call(c, o, d)
           \/ \E i \in DOMAIN timerAt : FireTimer(c, i)
    PROVE  Inv'
<1>1. PICK o2 \in {"ensure", "get", "start", "stop"}, d2 \in Nat :
          Enqueue(c, o2, d2)
  BY DEF Call, FireTimer, SessionAssumption
<1>2. timerAt' \in Seq(Nat)
  <2>1. timerAt \in Seq(Nat)
    BY DEF Inv, TypeOK
  <2>2. \A i : clearTimeout(i) \in Seq(Nat)
    BY <2>1, ZeroingKeepsSeq DEF clearTimeout
  <2>3. timerAt' = timerAt \/ \E i \in DOMAIN timerAt : timerAt' = clearTimeout(i)
    BY DEF Call, FireTimer, mem
  <2>4. QED
    BY <2>1, <2>2, <2>3
<1>3. [NoLocal EXCEPT !.op = o2, !.device = d2] \in Local
  BY <1>1 DEF NoLocal, Local, NoSession, Session, NoToken, Token
<1>4. loc' \in [Task -> Local] /\ \A e \in Task : e # c => loc'[e] = loc[e]
  BY <1>1, <1>3 DEF Enqueue, Inv, TypeOK, Task
<1>5. perHandleSessionChain' \in Seq(Caller)
  BY <1>1, AppendProperties DEF Enqueue, Inv, TypeOK
<1>6. pc' \in [Task -> Label]
      /\ made' \in [calls : Nat, stores : Nat, devices : Nat, restarts : Nat]
  <2>1. pc' = [pc EXCEPT ![c] = "queued"] /\ pc \in [Task -> Label]
    BY <1>1 DEF Enqueue, Goto, Inv, TypeOK
  <2>2. /\ made' = [made EXCEPT !.calls = made.calls + 1]
        /\ made \in [calls : Nat, stores : Nat, devices : Nat, restarts : Nat]
    BY <1>1 DEF Enqueue, Inv, TypeOK
  <2>3. pc' \in [Task -> Label]
    BY <2>1 DEF Label
  <2>4. made' \in [calls : Nat, stores : Nat, devices : Nat, restarts : Nat]
    BY <2>2
  <2>5. QED
    BY <2>3, <2>4
<1>7. TypeOK'
  BY <1>2, <1>4, <1>5, <1>6 DEF Call, FireTimer, mem, disk, Inv, TypeOK
<1>8. ChainSerialises'
  BY <1>1, ChainEnqueue DEF Inv
<1>9. session' = session /\ clientToken' = clientToken
  BY DEF Call, FireTimer, mem
<1>10. ClientUsesCachedToken' /\ SessionOwned'
  <2>1. Goto(c, "queued")
    BY <1>1 DEF Enqueue
  <2>2. QED
    BY <2>1, <1>4, <1>9, OwnershipKept DEF Task, Creating
<1>11. QED
  BY <1>7, <1>8, <1>10 DEF Inv

\* Time passes, or the process starts again.
LEMMA TickRestartInv ==
    ASSUME SessionAssumption, Inv, Tick \/ Restart
    PROVE  Inv'
<1>1. CASE Tick
  BY <1>1 DEF Tick, mem, disk, Inv, TypeOK, ChainSerialises,
     ClientUsesCachedToken, SessionOwned
<1>2. CASE Restart
  <2>1. timerAt' \in Seq(Nat)
    BY <1>2, ZeroingKeepsSeq DEF Restart, Inv, TypeOK
  <2>2. NoLocal \in Local /\ NoSession \in Session
    BY DEF NoLocal, Local, NoSession, Session, NoToken, Token
  <2>3. TypeOK'
    <3>1. made' \in [calls : Nat, stores : Nat, devices : Nat, restarts : Nat]
      <4>1. /\ made' = [made EXCEPT !.restarts = made.restarts + 1]
            /\ made \in [calls : Nat, stores : Nat, devices : Nat, restarts : Nat]
        BY <1>2 DEF Restart, Inv, TypeOK
      <4>2. QED
        BY <4>1
    <3>2. perHandleSessionChain' \in Seq(Caller)
      BY <1>2, EmptySeq DEF Restart
    <3>3. pc' \in [Task -> Label] /\ loc' \in [Task -> Local]
      BY <1>2, <2>2 DEF Restart, Label, Settled
    <3>4. QED
      BY <1>2, <2>1, <2>2, <3>1, <3>2, <3>3 DEF Restart, disk, Inv, TypeOK
  <2>4. ChainSerialises'
    BY <1>2 DEF Restart, ChainSerialises, Task, Working, Deleting, Creating,
       Refreshing
  <2>5. ClientUsesCachedToken' /\ SessionOwned'
    BY <1>2 DEF Restart, ClientUsesCachedToken, SessionOwned, Task, Creating
  <2>6. QED
    BY <2>3, <2>4, <2>5 DEF Inv
<1>3. QED
  BY <1>1, <1>2

\* A step of t within its call keeps Inv if it keeps the types.
LEMMA WorkOnInv ==
    ASSUME SessionAssumption, Inv, TypeOK', NEW t \in Task, NEW label,
           Goto(t, label),
           session' = session, clientToken' = clientToken,
           perHandleSessionChain' = perHandleSessionChain,
           \A d \in Task : d # t => loc'[d] = loc[d],
           \/ t = Deleter
           \/ /\ pc[t] \in Working \/ AtHead(t)
              /\ label \in Working
              /\ label \in Creating \cup {"refresh"} =>
                    label \in Creating /\ session = NoSession
           \/ pc[t] = "starting" /\ label = "idle"
    PROVE  Inv'
<1>1. ChainSerialises'
  BY ChainMove DEF Inv
<1>2. \/ t = Deleter
      \/ label \notin Creating \cup {"refresh"}
      \/ label \in Creating /\ session = NoSession
  BY DEF Creating
<1>3. ClientUsesCachedToken' /\ SessionOwned'
  BY <1>2, OwnershipKept
<1>4. QED
  BY <1>1, <1>3 DEF Inv

\* A call settles; it may have written to the databases in the same turn.
LEMMA SettleInv ==
    ASSUME SessionAssumption, Inv, NEW c \in Caller,
           pc[c] \in Working \/ AtHead(c),
           Resolve(c) \/ Reject(c),
           stored' \in Token, cryptoDevice' \in Nat,
           UNCHANGED <<now, session, timerAt, clientToken, cachedStore,
                       provisioned, made>>
    PROVE  Inv'
<1>1. /\ Leaves(c)
      /\ perHandleSessionChain' \in Seq(Caller)
      /\ pc' \in [Task -> Label]
      /\ loc' \in [Task -> Local]
      /\ \A d \in Task : d # c => loc'[d] = loc[d]
      /\ syncing' \subseteq Nat
  BY LeavingTypes DEF Inv
<1>2. TypeOK'
  BY <1>1 DEF Inv, TypeOK
<1>3. PICK label \in Settled \cup {"starting"} :
         Goto(c, label) /\ perHandleSessionChain' = Tail(perHandleSessionChain)
  BY <1>1 DEF Leaves
<1>4. ChainSerialises'
  BY <1>3, ChainLeave DEF Inv
<1>5. label \notin Creating \cup {"refresh"} /\ c \in Task
  BY <1>3 DEF Settled, Creating, Task
<1>6. ClientUsesCachedToken' /\ SessionOwned'
  BY <1>1, <1>3, <1>5, OwnershipKept
<1>7. QED
  BY <1>2, <1>4, <1>6 DEF Inv

\* The steps of deleteSession, run by a call or by the Deleter.
LEMMA DeleteStepInv ==
    ASSUME SessionAssumption, Inv, NEW t \in Task, DeleteStep(t)
    PROVE  Inv'
<1>0. /\ pc \in [Task -> Label] /\ loc \in [Task -> Local]
      /\ t \in Caller \/ t = Deleter
  BY DEF Inv, TypeOK, Task
<1>1. CASE UseHandleStorage(t)
  <2>1. pc' \in [Task -> Label] /\ Goto(t, AfterOpen(pc[t]))
    BY <1>0, <1>1 DEF UseHandleStorage, Goto, AfterOpen, Opening, Label, Working,
       Deleting, Creating, Refreshing
  <2>2. made.stores \in Nat /\ cachedStore' \in Nat
    BY <1>1 DEF UseHandleStorage, Inv, TypeOK
  <2>3. loc' \in [Task -> Local] /\ \A d \in Task : d # t => loc'[d] = loc[d]
    BY <1>0, <1>1, <2>2 DEF UseHandleStorage, Local
  <2>4. made' \in [calls : Nat, stores : Nat, devices : Nat, restarts : Nat]
    <3>1. /\ made \in [calls : Nat, stores : Nat, devices : Nat, restarts : Nat]
          /\ \/ made' = [made EXCEPT !.stores = made.stores]
             \/ made' = [made EXCEPT !.stores = made.stores + 1]
      BY <1>1 DEF UseHandleStorage, Inv, TypeOK
    <3>2. QED
      BY <3>1
  <2>5. TypeOK'
    BY <1>1, <2>1, <2>2, <2>3, <2>4
    DEF UseHandleStorage, mem, disk, Inv, TypeOK
  <2>6. t \in Caller => /\ pc[t] \in Working
                        /\ AfterOpen(pc[t]) \in Working
                        /\ AfterOpen(pc[t]) # "refresh"
                        /\ AfterOpen(pc[t]) \in Creating => session = NoSession
    BY <1>1 DEF UseHandleStorage, Opening, AfterOpen, Working, Deleting, Creating,
       Refreshing, Inv, SessionOwned
  <2>7. UNCHANGED <<session, clientToken, perHandleSessionChain>>
    BY <1>1 DEF UseHandleStorage, mem
  <2>8. QED
    BY <2>1, <2>3, <2>5, <2>6, <2>7, <1>0, WorkOnInv
<1>2. CASE DeleteToken(t) \/ ClearRustCrypto(t)
  <2>1. PICK label \in {"delCrypto", "delClose"} : Goto(t, label)
    BY <1>2 DEF DeleteToken, ClearRustCrypto
  <2>2. pc' \in [Task -> Label]
    BY <2>1, <1>0 DEF Goto, Label, Working, Deleting
  <2>3. stored' \in Token /\ cryptoDevice' \in Nat
    BY <1>2 DEF DeleteToken, ClearRustCrypto, deleteAccessToken, clearRustCrypto,
       NoToken, Token, Inv, TypeOK
  <2>4. UNCHANGED <<now, mem, perHandleSessionChain, cachedStore, provisioned,
                    loc, made>>
    BY <1>2 DEF DeleteToken, ClearRustCrypto
  <2>5. TypeOK'
    BY <2>2, <2>3, <2>4 DEF mem, Inv, TypeOK
  <2>6. pc[t] \in Working /\ label \in Working /\ label \notin Creating \cup {"refresh"}
    BY <1>2, <2>1 DEF DeleteToken, ClearRustCrypto, Working, Deleting, Creating
  <2>7. QED
    BY <2>1, <2>4, <2>5, <2>6, WorkOnInv DEF mem
<1>3. CASE CloseStorage(t)
  <2>1. PICK label : Goto(t, label) /\ label = IF t = Deleter THEN "idle" ELSE "open"
    BY <1>3 DEF CloseStorage
  <2>2. pc' \in [Task -> Label]
    BY <2>1, <1>0 DEF Goto, Label, Settled, Working, Creating
  <2>3. loc' \in [Task -> Local] /\ \A d \in Task : d # t => loc'[d] = loc[d]
    BY <1>0, <1>3
    DEF CloseStorage, NoLocal, Local, NoSession, Session, NoToken, Token
  <2>4. stored' \in Token /\ session' \in Session /\ session' = NoSession
    BY <1>3 DEF CloseStorage, NoSession, Session, NoToken, Token, Inv, TypeOK
  <2>5. TypeOK'
    BY <1>3, <2>2, <2>3, <2>4 DEF CloseStorage, Inv, TypeOK
  <2>6. ChainSerialises'
    BY <1>0, <1>3, <2>1, ChainMove
    DEF CloseStorage, Inv, Working, Deleting, Creating
  <2>7. ClientUsesCachedToken' /\ SessionOwned'
    BY <1>3, <2>1, <2>3, <2>4, OwnershipDropped DEF CloseStorage
  <2>8. QED
    BY <2>5, <2>6, <2>7 DEF Inv
<1>4. CASE DeleteFails(t) \/ DeleteOpenFails(t)
  <2>1. /\ pc[t] \in Working
        /\ DeleteThrows(t)
        /\ UNCHANGED <<now, session, timerAt, clientToken, disk, cachedStore,
                       provisioned, made>>
    BY <1>4 DEF DeleteFails, DeleteOpenFails, Working, Deleting
  <2>2. stored' \in Token /\ cryptoDevice' \in Nat
    BY <2>1 DEF disk, Inv, TypeOK
  <2>3. CASE t \in Caller /\ Reject(t)
    BY <2>1, <2>2, <2>3, SettleInv
  <2>4. CASE t = Deleter
    <3>1. /\ Goto(t, "rejected")
          /\ loc' = [loc EXCEPT ![t] = NoLocal]
          /\ UNCHANGED <<perHandleSessionChain, syncing>>
      BY <2>1, <2>4 DEF DeleteThrows, SessionAssumption
    <3>2. pc' \in [Task -> Label]
      BY <3>1, <1>0 DEF Goto, Label, Settled
    <3>3. loc' \in [Task -> Local] /\ \A d \in Task : d # t => loc'[d] = loc[d]
      BY <1>0, <3>1 DEF NoLocal, Local, NoSession, Session, NoToken, Token
    <3>4. TypeOK'
      BY <2>1, <2>2, <3>1, <3>2, <3>3 DEF Inv, TypeOK
    <3>5. QED
      BY <2>1, <2>4, <3>1, <3>3, <3>4, WorkOnInv
  <2>5. QED
    BY <2>1, <2>3, <2>4 DEF DeleteThrows
<1>5. QED
  BY <1>1, <1>2, <1>3, <1>4 DEF DeleteStep

\* reset and deprovisionHandle ask for the deletion, and it begins.
LEMMA DeleterInv ==
    ASSUME SessionAssumption, Inv,
           (\E purge \in BOOLEAN : Delete(purge)) \/ DeleterBegins
    PROVE  Inv'
<1>0. /\ pc \in [Task -> Label] /\ loc \in [Task -> Local]
      /\ Deleter \in Task
  BY DEF Inv, TypeOK, Task
<1>1. CASE \E purge \in BOOLEAN : Delete(purge)
  <2>1. PICK purge \in BOOLEAN : Delete(purge)
    BY <1>1
  <2>2. /\ Goto(Deleter, "delBegin")
        /\ UNCHANGED <<now, mem, perHandleSessionChain, disk, cachedStore>>
        /\ provisioned' \in BOOLEAN
    BY <2>1 DEF Delete
  <2>3. pc' \in [Task -> Label]
    BY <2>2, <1>0 DEF Goto, Label
  <2>4. [NoLocal EXCEPT !.deleteStorage = purge] \in Local
    BY DEF NoLocal, Local, NoSession, Session, NoToken, Token
  <2>5. loc' \in [Task -> Local] /\ \A d \in Task : d # Deleter => loc'[d] = loc[d]
    BY <2>1, <2>4, <1>0 DEF Delete
  <2>6. made' \in [calls : Nat, stores : Nat, devices : Nat, restarts : Nat]
    <3>1. /\ made \in [calls : Nat, stores : Nat, devices : Nat, restarts : Nat]
          /\ made' = [made EXCEPT !.calls = made.calls + 1]
      BY <2>1 DEF Delete, Inv, TypeOK
    <3>2. QED
      BY <3>1
  <2>7. TypeOK'
    BY <2>2, <2>3, <2>5, <2>6 DEF mem, disk, Inv, TypeOK
  <2>8. QED
    BY <1>0, <2>2, <2>5, <2>7, WorkOnInv DEF mem
<1>2. CASE DeleterBegins /\ DeleteBegin(Deleter) /\ loc' = loc
  <2>1. TypeOK'
    BY <1>0, <1>2, DeleteBeginTypes DEF DeleterBegins, disk, Inv, TypeOK
  <2>2. QED
    BY <1>0, <1>2, <2>1, WorkOnInv DEF DeleteBegin
<1>3. CASE /\ DeleterBegins
           /\ Goto(Deleter, "idle")
           /\ loc' = [loc EXCEPT ![Deleter] = NoLocal]
           /\ UNCHANGED <<mem, perHandleSessionChain>>
  <2>1. pc' \in [Task -> Label]
    BY <1>3, <1>0 DEF Goto, Label, Settled
  <2>2. loc' \in [Task -> Local] /\ \A d \in Task : d # Deleter => loc'[d] = loc[d]
    BY <1>0, <1>3 DEF NoLocal, Local, NoSession, Session, NoToken, Token
  <2>3. TypeOK'
    BY <1>3, <2>1, <2>2 DEF DeleterBegins, mem, disk, Inv, TypeOK
  <2>4. QED
    BY <1>0, <1>3, <2>2, <2>3, WorkOnInv DEF mem
<1>4. QED
  BY <1>1, <1>2, <1>3 DEF DeleterBegins

\* The steps of a call on a cached session.
LEMMA CachedStepInv ==
    ASSUME SessionAssumption, Inv, NEW c \in Caller,
           \/ UseCachedSession(c) \/ handleExpiredToken(c) \/ RequestRefresh(c)
           \/ \E life \in Lifetimes : refreshCachedSessionToken(c, life)
           \/ SaveRefreshed(c) \/ RefreshFails(c) \/ StartSyncing(c)
    PROVE  Inv'
<1>0. /\ pc \in [Task -> Label] /\ loc \in [Task -> Local] /\ c \in Task
      /\ c # Deleter /\ TypeOK /\ ChainSerialises
  BY DEF Inv, TypeOK, Task, SessionAssumption
<1>1. CASE UseCachedSession(c)
  <2>1. stored' \in Token /\ cryptoDevice' \in Nat
    BY <1>1 DEF UseCachedSession, disk, Inv, TypeOK
  <2>2. QED
    BY <1>1, <2>1, SettleInv DEF UseCachedSession
<1>2. CASE SaveRefreshed(c)
  <2>1. stored' \in Token /\ cryptoDevice' \in Nat
    BY <1>2, <1>0 DEF SaveRefreshed, saveAccessToken, Local, Inv, TypeOK
  <2>2. pc[c] \in Working
    BY <1>2 DEF SaveRefreshed, Working, Refreshing
  <2>3. QED
    BY <1>2, <2>1, <2>2, SettleInv DEF SaveRefreshed
<1>3. CASE handleExpiredToken(c)
  <2>1. TypeOK'
    BY <1>0, <1>3, DeleteBeginTypes DEF handleExpiredToken, disk, TypeOK
  <2>2. DeleteBegin(c) /\ AtHead(c) /\ loc' = loc
    BY <1>3 DEF handleExpiredToken
  <2>3. "delOpen" \in Working /\ "delOpen" \notin Creating \cup {"refresh"}
    BY DEF Working, Deleting, Creating
  <2>4. QED
    BY <1>0, <2>1, <2>2, <2>3, WorkOnInv DEF DeleteBegin
<1>4. CASE RequestRefresh(c)
  <2>1. /\ AtHead(c) /\ Goto(c, "refresh") /\ session # NoSession
        /\ UNCHANGED <<now, mem, perHandleSessionChain, disk, cachedStore,
                       provisioned, made>>
    BY <1>4 DEF RequestRefresh
  <2>2. pc' \in [Task -> Label]
    BY <2>1, <1>0 DEF Goto, Label, Working, Refreshing
  <2>3. session \in Session /\ provisioned \in BOOLEAN
    BY <1>0 DEF TypeOK
  <2>4. /\ loc' \in [Task -> Local]
        /\ \A d \in Task : d # c => loc'[d] = loc[d]
        /\ loc'[c].cachedSession = session
    <3>1. loc' = [loc EXCEPT ![c] = [loc[c] EXCEPT !.cachedSession = session,
                                                   !.granted = provisioned]]
      BY <1>0, <1>4 DEF RequestRefresh
    <3> DEFINE new == [loc[c] EXCEPT !.cachedSession = session,
                                     !.granted = provisioned]
    <3>2. loc[c] \in Local
      BY <1>0
    <3>3. new \in Local /\ new.cachedSession = session
      BY <2>3, <3>2 DEF Local
    <3> HIDE DEF new
    <3>4. QED
      BY <3>1, <3>3, <1>0 DEF new
  <2>5. TypeOK'
    BY <2>1, <2>2, <2>4, <1>0 DEF mem, disk, TypeOK
  <2>6. ChainSerialises'
    BY <1>0, <2>1, ChainMove DEF Working, Refreshing
  <2>7. ClientUsesCachedToken'
    BY <2>1 DEF mem, Inv, ClientUsesCachedToken
  <2>8. ASSUME NEW d \in Caller
        PROVE  /\ pc'[d] \in Creating => session = NoSession
               /\ pc'[d] = "refresh" =>
                     /\ loc'[d].cachedSession.matrixClient \in DOMAIN clientToken
                     /\ session \in {NoSession, loc'[d].cachedSession}
    <3>1. CASE d = c
      <4>1. pc'[d] = "refresh"
        BY <3>1, <2>1, <1>0 DEF Goto
      <4>2. session.matrixClient \in DOMAIN clientToken
        BY <2>1 DEF Inv, ClientUsesCachedToken
      <4>3. QED
        BY <3>1, <4>1, <4>2, <2>4 DEF Creating
    <3>2. CASE d # c
      <4>1. pc'[d] = pc[d] /\ loc'[d] = loc[d]
        BY <3>2, <2>1, <2>4, <1>0 DEF Goto, Task
      <4>2. QED
        BY <4>1 DEF Inv, SessionOwned
    <3>3. QED
      BY <3>1, <3>2
  <2>9. SessionOwned'
    BY <2>8, <2>1 DEF mem, SessionOwned
  <2>10. QED
    BY <2>5, <2>6, <2>7, <2>9 DEF Inv
<1>5. CASE \E life \in Lifetimes : refreshCachedSessionToken(c, life)
  <2> DEFINE old == loc[c].cachedSession
  <2>1. PICK life \in Lifetimes : refreshCachedSessionToken(c, life)
    BY <1>5
  <2> DEFINE tok == [dev |-> old.accessToken.dev, exp |-> now + life]
  <2>2. /\ old \in Session /\ tok \in Token /\ life \in Nat
    <3>1. life \in Nat /\ now \in Nat
      BY <1>0 DEF SessionAssumption, TypeOK
    <3>2. old \in Session
      BY <1>0 DEF Local
    <3>3. old.accessToken.dev \in Nat
      BY <3>2 DEF Session, Token
    <3>4. tok \in Token
      BY <3>1, <3>3 DEF Token
    <3>5. QED
      BY <3>1, <3>2, <3>4
  <2>3. /\ pc[c] = "refresh" /\ Goto(c, "saveOpen")
        /\ timerAt' = scheduleTokenRefresh(clearTimeout(old.refreshTimeout), tok.exp)
        /\ clientToken' = [clientToken EXCEPT ![old.matrixClient] = tok]
        /\ session' = [old EXCEPT !.accessToken = tok,
                                  !.refreshTimeout = NewTimer(tok.exp)]
        /\ loc' = [loc EXCEPT ![c].token = tok]
        /\ UNCHANGED <<now, syncing, perHandleSessionChain, disk, cachedStore,
                       provisioned, made>>
    BY <2>1 DEF refreshCachedSessionToken, updateAccessToken, setSession
  <2>4. /\ timerAt \in Seq(Nat) /\ clientToken \in Seq(Token)
        /\ now \in Nat /\ RefreshThreshold \in Nat /\ tok.exp \in Nat
    BY <1>0, <2>2 DEF TypeOK, SessionAssumption, Token
  <2>5. timerAt' \in Seq(Nat)
    <3>1. clearTimeout(old.refreshTimeout) \in Seq(Nat)
      BY <2>4, ZeroingKeepsSeq DEF clearTimeout
    <3>2. QED
      BY <2>3, <2>4, <3>1, AppendProperties
      DEF scheduleTokenRefresh, SchedulesRefresh
  <2>6. NewTimer(tok.exp) \in Nat
    BY <2>4, LenProperties DEF NewTimer
  <2>7. /\ session' \in Session
        /\ session'.matrixClient = old.matrixClient
        /\ session'.accessToken = tok
    BY <2>2, <2>3, <2>6 DEF Session
  <2>8. clientToken' \in Seq(Token) /\ DOMAIN clientToken' = DOMAIN clientToken
    BY <2>2, <2>3, <2>4, ExceptKeepsSeq
  <2>9. loc' \in [Task -> Local] /\ \A d \in Task : d # c => loc'[d] = loc[d]
    BY <2>2, <2>3, <1>0 DEF Local
  <2>10. pc' \in [Task -> Label]
    BY <2>3, <1>0 DEF Goto, Label, Working, Refreshing
  <2>11. TypeOK'
    BY <2>3, <2>5, <2>7, <2>8, <2>9, <2>10, <1>0 DEF disk, TypeOK
  <2>12. pc[c] \in Working /\ "saveOpen" \in Working
    BY <2>3 DEF Working, Refreshing
  <2>13. ChainSerialises'
    BY <1>0, <2>3, <2>12, ChainMove
  <2>14. old.matrixClient \in DOMAIN clientToken
    BY <2>3 DEF Inv, SessionOwned
  <2>15. ClientUsesCachedToken'
    BY <2>3, <2>4, <2>7, <2>8, <2>14 DEF ClientUsesCachedToken
  <2>16. \A d \in Caller : pc'[d] \notin Creating \cup {"refresh"}
    <3>1. \A d \in Caller : pc[d] \in Working => d = c
      BY <1>0, <2>12, WorkingIsHead
    <3>2. pc'[c] = "saveOpen" /\ \A d \in Caller : d # c => pc'[d] = pc[d]
      BY <2>3, <1>0 DEF Goto, Task
    <3>3. QED
      BY <3>1, <3>2 DEF Working, Creating, Refreshing
  <2>17. SessionOwned'
    BY <2>16 DEF SessionOwned, Creating
  <2>18. QED
    BY <2>11, <2>13, <2>15, <2>17 DEF Inv
<1>6. CASE RefreshFails(c)
  <2>1. /\ pc[c] \in Working /\ loc' = loc
        /\ UNCHANGED <<now, disk, cachedStore, provisioned, made>>
    BY <1>6 DEF RefreshFails, Working, Refreshing
  <2>2. CASE DeleteBegin(c)
    <3>1. TypeOK'
      BY <1>0, <2>1, <2>2, DeleteBeginTypes DEF disk, TypeOK
    <3>2. "delOpen" \in Working /\ "delOpen" \notin Creating \cup {"refresh"}
      BY DEF Working, Deleting, Creating
    <3>3. QED
      BY <1>0, <2>1, <2>2, <3>1, <3>2, WorkOnInv DEF DeleteBegin
  <2>3. CASE /\ session = NoSession
             /\ Goto(c, "open")
             /\ UNCHANGED <<mem, perHandleSessionChain>>
    <3>1. pc' \in [Task -> Label] /\ "open" \in Working /\ "open" \in Creating
      BY <2>3, <1>0 DEF Goto, Label, Working, Creating
    <3>2. TypeOK'
      BY <2>1, <2>3, <3>1, <1>0 DEF mem, disk, TypeOK
    <3>3. QED
      BY <1>0, <2>1, <2>3, <3>1, <3>2, WorkOnInv DEF mem
  <2>4. QED
    BY <1>6, <2>2, <2>3 DEF RefreshFails
<1>7. CASE StartSyncing(c)
  <2>1. /\ pc[c] = "starting" /\ Goto(c, "idle")
        /\ loc' = [loc EXCEPT ![c] = NoLocal]
        /\ syncing' \in {syncing, syncing \cup {loc[c].client}}
        /\ UNCHANGED <<now, session, timerAt, clientToken,
                       perHandleSessionChain, disk, cachedStore, provisioned, made>>
    BY <1>7 DEF StartSyncing
  <2>2. pc' \in [Task -> Label] /\ syncing' \subseteq Nat
    BY <2>1, <1>0 DEF Goto, Label, Settled, Local, TypeOK
  <2>3. loc' \in [Task -> Local] /\ \A d \in Task : d # c => loc'[d] = loc[d]
    BY <1>0, <2>1 DEF NoLocal, Local, NoSession, Session, NoToken, Token
  <2>4. TypeOK'
    BY <2>1, <2>2, <2>3, <1>0 DEF disk, TypeOK
  <2>5. QED
    BY <1>0, <2>1, <2>3, <2>4, WorkOnInv
<1>8. QED
  BY <1>1, <1>2, <1>3, <1>4, <1>5, <1>6, <1>7

\* The steps of a call that creates a session.
LEMMA CreateStepInv ==
    ASSUME SessionAssumption, Inv, NEW c \in Caller,
           \/ BeginCreate(c) \/ UseStoredToken(c) \/ RequestToken(c)
           \/ \E life \in Lifetimes : ReceiveToken(c, life)
           \/ CreateMatrixClient(c) \/ PersistToken(c) \/ CreateFails(c)
    PROVE  Inv'
<1>0. /\ pc \in [Task -> Label] /\ loc \in [Task -> Local] /\ c \in Task
      /\ loc[c] \in Local /\ c # Deleter /\ TypeOK /\ ChainSerialises
  BY DEF Inv, TypeOK, Task, SessionAssumption
<1>1. CASE BeginCreate(c)
  <2>1. /\ AtHead(c) /\ session = NoSession /\ Goto(c, "open")
        /\ UNCHANGED <<now, mem, perHandleSessionChain, disk, cachedStore,
                       provisioned, loc, made>>
    BY <1>1 DEF BeginCreate
  <2>2. pc' \in [Task -> Label] /\ "open" \in Working /\ "open" \in Creating
    BY <2>1, <1>0 DEF Goto, Label, Working, Creating
  <2>3. TypeOK'
    BY <2>1, <2>2, <1>0 DEF mem, disk, TypeOK
  <2>4. QED
    BY <1>0, <2>1, <2>2, <2>3, WorkOnInv DEF mem
<1>2. CASE UseStoredToken(c)
  <2>1. /\ pc[c] = "read" /\ Goto(c, "client")
        /\ loc' = [loc EXCEPT ![c].token = stored]
        /\ UNCHANGED <<now, mem, perHandleSessionChain, disk, cachedStore,
                       provisioned, made>>
    BY <1>2 DEF UseStoredToken
  <2>2. pc' \in [Task -> Label] /\ "client" \in Working /\ "client" \in Creating
        /\ pc[c] \in Working /\ pc[c] \in Creating
    BY <2>1, <1>0 DEF Goto, Label, Working, Creating
  <2>3. loc' \in [Task -> Local] /\ \A d \in Task : d # c => loc'[d] = loc[d]
    BY <2>1, <1>0 DEF Local, TypeOK
  <2>4. TypeOK'
    BY <2>1, <2>2, <2>3, <1>0 DEF mem, disk, TypeOK
  <2>5. session = NoSession
    BY <2>2 DEF Inv, SessionOwned
  <2>6. QED
    BY <1>0, <2>1, <2>2, <2>3, <2>4, <2>5, WorkOnInv DEF mem
<1>3. CASE RequestToken(c)
  <2>1. /\ pc[c] = "read" /\ Goto(c, "fetch")
        /\ loc' = [loc EXCEPT ![c] = [loc[c] EXCEPT !.device = DeviceForService(c),
                                                    !.granted = provisioned]]
        /\ UNCHANGED <<now, mem, perHandleSessionChain, disk, cachedStore,
                       provisioned>>
    BY <1>3, <1>0 DEF RequestToken
  <2>2. pc' \in [Task -> Label] /\ "fetch" \in Working /\ "fetch" \in Creating
        /\ pc[c] \in Working /\ pc[c] \in Creating
    BY <2>1, <1>0 DEF Goto, Label, Working, Creating
  <2>3. /\ made \in [calls : Nat, stores : Nat, devices : Nat, restarts : Nat]
        /\ provisioned \in BOOLEAN /\ stored \in Token
        /\ \/ made' = [made EXCEPT !.devices = made.devices]
           \/ made' = [made EXCEPT !.devices = made.devices + 1]
    BY <1>3, <1>0 DEF RequestToken, TypeOK
  <2>4. made' \in [calls : Nat, stores : Nat, devices : Nat, restarts : Nat]
    BY <2>3
  <2>5. DeviceForService(c) \in Nat
    <3>1. stored.dev \in Nat /\ made.devices + 1 \in Nat
      BY <2>3 DEF Token
    <3>2. loc[c].device \in Nat
      BY <1>0 DEF Local
    <3>3. QED
      BY <3>1, <3>2 DEF DeviceForService
  <2>6. [loc[c] EXCEPT !.device = DeviceForService(c), !.granted = provisioned]
           \in Local
    <3> HIDE DEF DeviceForService
    <3>1. QED
      BY <2>3, <2>5, <1>0 DEF Local
  <2>7. loc' \in [Task -> Local] /\ \A d \in Task : d # c => loc'[d] = loc[d]
    BY <2>1, <2>6, <1>0
  <2>8. TypeOK'
    BY <2>1, <2>2, <2>4, <2>7, <1>0 DEF mem, disk, TypeOK
  <2>9. session = NoSession
    BY <2>2 DEF Inv, SessionOwned
  <2>10. QED
    BY <1>0, <2>1, <2>2, <2>7, <2>8, <2>9, WorkOnInv DEF mem
<1>4. CASE \E life \in Lifetimes : ReceiveToken(c, life)
  <2>1. PICK life \in Lifetimes : ReceiveToken(c, life)
    BY <1>4
  <2>2. /\ pc[c] = "fetch" /\ Goto(c, "client")
        /\ loc' = [loc EXCEPT ![c].token =
                      [dev |-> loc[c].device, exp |-> now + life]]
        /\ UNCHANGED <<now, mem, perHandleSessionChain, disk, cachedStore,
                       provisioned, made>>
    BY <2>1 DEF ReceiveToken
  <2>3. pc' \in [Task -> Label] /\ "client" \in Working /\ "client" \in Creating
        /\ pc[c] \in Working /\ pc[c] \in Creating
    BY <2>2, <1>0 DEF Goto, Label, Working, Creating
  <2>4. [dev |-> loc[c].device, exp |-> now + life] \in Token
    <3>1. loc[c].device \in Nat
      BY <1>0 DEF Local
    <3>2. now + life \in Nat
      BY <1>0 DEF TypeOK, SessionAssumption
    <3>3. QED
      BY <3>1, <3>2 DEF Token
  <2>5. loc' \in [Task -> Local] /\ \A d \in Task : d # c => loc'[d] = loc[d]
    BY <2>2, <2>4, <1>0 DEF Local
  <2>6. TypeOK'
    BY <2>2, <2>3, <2>5, <1>0 DEF mem, disk, TypeOK
  <2>7. session = NoSession
    BY <2>3 DEF Inv, SessionOwned
  <2>8. QED
    BY <1>0, <2>2, <2>3, <2>5, <2>6, <2>7, WorkOnInv DEF mem
<1>5. CASE CreateMatrixClient(c)
  <2> DEFINE tok == loc[c].token
  <2>1. /\ pc[c] = "client" /\ Goto(c, "persist")
        /\ cryptoDevice' = tok.dev
        /\ clientToken' = Append(clientToken, tok)
        /\ timerAt' = scheduleTokenRefresh(timerAt, tok.exp)
        /\ session' = [accessToken |-> tok, matrixClient |-> Len(clientToken) + 1,
                       refreshTimeout |-> NewTimer(tok.exp)]
        /\ UNCHANGED <<now, syncing, perHandleSessionChain, stored, cachedStore,
                       provisioned, loc, made>>
    BY <1>5 DEF CreateMatrixClient, setSession
  <2>2. tok \in Token /\ tok.dev \in Nat /\ tok.exp \in Nat
    <3>1. tok \in Token
      BY <1>0 DEF Local
    <3>2. QED
      BY <3>1 DEF Token
  <2>3. /\ timerAt \in Seq(Nat) /\ clientToken \in Seq(Token)
        /\ now \in Nat /\ RefreshThreshold \in Nat
    BY <1>0 DEF TypeOK, SessionAssumption
  <2>4. timerAt' \in Seq(Nat) /\ NewTimer(tok.exp) \in Nat
    BY <2>1, <2>2, <2>3, AppendProperties, LenProperties
    DEF scheduleTokenRefresh, SchedulesRefresh, NewTimer
  <2>5. /\ clientToken' \in Seq(Token)
        /\ Len(clientToken) + 1 \in DOMAIN clientToken'
        /\ clientToken'[Len(clientToken) + 1] = tok
        /\ Len(clientToken) + 1 \in Nat
    BY <2>1, <2>2, <2>3, AppendProperties, LenProperties
  <2>6. /\ session' \in Session
        /\ session'.matrixClient = Len(clientToken) + 1
        /\ session'.accessToken = tok
    BY <2>1, <2>2, <2>4, <2>5 DEF Session
  <2>7. pc' \in [Task -> Label] /\ pc[c] \in Working /\ "persist" \in Working
    BY <2>1, <1>0 DEF Goto, Label, Working, Creating
  <2>8. TypeOK'
    BY <2>1, <2>2, <2>4, <2>5, <2>6, <2>7, <1>0 DEF TypeOK
  <2>9. ChainSerialises'
    BY <1>0, <2>1, <2>7, ChainMove
  <2>10. ClientUsesCachedToken'
    BY <2>5, <2>6 DEF ClientUsesCachedToken
  <2>11. \A d \in Caller : pc'[d] \notin Creating \cup {"refresh"}
    <3>1. \A d \in Caller : pc[d] \in Working => d = c
      BY <1>0, <2>7, WorkingIsHead
    <3>2. pc'[c] = "persist" /\ \A d \in Caller : d # c => pc'[d] = pc[d]
      BY <2>1, <1>0 DEF Goto, Task
    <3>3. QED
      BY <3>1, <3>2 DEF Working, Creating, Refreshing
  <2>12. SessionOwned'
    BY <2>11 DEF SessionOwned, Creating
  <2>13. QED
    BY <2>8, <2>9, <2>10, <2>12 DEF Inv
<1>6. CASE PersistToken(c)
  <2>1. stored' \in Token /\ cryptoDevice' \in Nat
    BY <1>6, <1>0 DEF PersistToken, saveAccessToken, Local, TypeOK
  <2>2. pc[c] \in Working
    BY <1>6 DEF PersistToken, Working
  <2>3. QED
    BY <1>6, <2>1, <2>2, SettleInv DEF PersistToken
<1>7. CASE CreateFails(c)
  <2>1. stored' \in Token /\ cryptoDevice' \in Nat
    BY <1>7, <1>0 DEF CreateFails, TypeOK
  <2>2. pc[c] \in Working
    BY <1>7 DEF CreateFails, Working, Creating
  <2>3. QED
    BY <1>7, <2>1, <2>2, SettleInv DEF CreateFails
<1>8. QED
  BY <1>1, <1>2, <1>3, <1>4, <1>5, <1>6, <1>7

\* Every step of the specification keeps Inv.
LEMMA NextInv == ASSUME SessionAssumption, Inv, [Next]_vars PROVE Inv'
<1>1. CASE Environment
  <2>1. CASE Tick \/ Restart
    BY <2>1, TickRestartInv
  <2>2. CASE \E purge \in BOOLEAN : Delete(purge)
    BY <2>2, DeleterInv
  <2>3. CASE \E c \in Caller, o \in Ops, d \in DeviceIds : Call(c, o, d)
    <3>1. PICK c \in Caller : \E o \in Ops, d \in DeviceIds : Call(c, o, d)
      BY <2>3
    <3>2. QED
      BY <3>1, EnqueueInv
  <2>4. CASE \E c \in Caller : \E i \in DOMAIN timerAt : FireTimer(c, i)
    <3>1. PICK c \in Caller : \E i \in DOMAIN timerAt : FireTimer(c, i)
      BY <2>4
    <3>2. QED
      BY <3>1, EnqueueInv
  <2>5. QED
    BY <1>1, <2>1, <2>2, <2>3, <2>4 DEF Environment, Reset, DeprovisionHandle,
       ProvisionHandle, GetClient
<1>2. CASE DeleterStep
  <2>1. CASE DeleterBegins
    BY <2>1, DeleterInv
  <2>2. CASE DeleteStep(Deleter)
    BY <2>2, DeleteStepInv DEF Task
  <2>3. QED
    BY <1>2, <2>1, <2>2 DEF DeleterStep
<1>3. CASE \E c \in Caller : CallerStep(c)
  <2>1. PICK c \in Caller : CallerStep(c)
    BY <1>3
  <2>2. CASE DeleteStep(c)
    BY <2>2, DeleteStepInv DEF Task
  <2>3. CASE SessionStep(c)
    <3>1. CASE \/ UseCachedSession(c) \/ handleExpiredToken(c) \/ RequestRefresh(c)
               \/ \E life \in Lifetimes : refreshCachedSessionToken(c, life)
               \/ SaveRefreshed(c) \/ RefreshFails(c) \/ StartSyncing(c)
      BY <3>1, CachedStepInv
    <3>2. CASE \/ BeginCreate(c) \/ UseStoredToken(c) \/ RequestToken(c)
               \/ \E life \in Lifetimes : ReceiveToken(c, life)
               \/ CreateMatrixClient(c) \/ PersistToken(c) \/ CreateFails(c)
      BY <3>2, CreateStepInv
    <3>3. QED
      BY <2>3, <3>1, <3>2 DEF SessionStep
  <2>4. QED
    BY <2>1, <2>2, <2>3 DEF CallerStep
<1>4. CASE UNCHANGED vars
  BY <1>4 DEF vars, mem, disk, Inv, TypeOK, ChainSerialises,
     ClientUsesCachedToken, SessionOwned
<1>5. QED
  BY <1>1, <1>2, <1>3, <1>4 DEF Next

-----------------------------------------------------------------------------
(* The theorems.                                                           *)

\* Every reachable state of SessionManager satisfies Inv.
THEOREM InvHolds == Spec => []Inv
<1>1. Init => Inv
  BY InitInv, SessionAssumption
<1>2. Inv /\ [Next]_vars => Inv'
  BY NextInv, SessionAssumption
<1>3. QED
  BY <1>1, <1>2, PTL DEF Spec

\* Type correctness of the state of SessionManager.
THEOREM TypeCorrect == Spec => []TypeOK
<1>1. Inv => TypeOK
  BY DEF Inv
<1>2. QED
  BY <1>1, InvHolds, PTL

\* Session work of a handle is serialized, for any number of callers, with
\* deleteSession running beside the chain and with storage failing.
THEOREM Serialised == Spec => []ChainSerialises
<1>1. Inv => ChainSerialises
  BY DEF Inv
<1>2. QED
  BY <1>1, InvHolds, PTL

\* The client of the session always uses the token of the session.
THEOREM ClientTokenAgrees == Spec => []ClientUsesCachedToken
<1>1. Inv => ClientUsesCachedToken
  BY DEF Inv
<1>2. QED
  BY <1>1, InvHolds, PTL

\* The session and the clients change in four ways only.
LEMMA SessionChanges ==
    ASSUME Inv, Next
    PROVE  \/ session' = session /\ clientToken' = clientToken
           \/ session' = NoSession /\ clientToken' = clientToken
           \/ \E c \in Caller : CreateMatrixClient(c)
           \/ \E c \in Caller, life \in Lifetimes : refreshCachedSessionToken(c, life)
<1>1. ASSUME NEW t \in Task, DeleteStep(t)
      PROVE  (session' = session \/ session' = NoSession) /\ clientToken' = clientToken
  BY <1>1 DEF DeleteStep, UseHandleStorage, DeleteToken, ClearRustCrypto,
     CloseStorage, DeleteFails, DeleteOpenFails, mem
<1>2. ASSUME DeleterBegins PROVE session' = session /\ clientToken' = clientToken
  BY <1>2 DEF DeleterBegins, DeleteBegin, mem
<1>3. ASSUME Environment
      PROVE  (session' = session \/ session' = NoSession) /\ clientToken' = clientToken
  BY <1>3 DEF Environment, ProvisionHandle, GetClient, Call, FireTimer, Reset,
     DeprovisionHandle, Delete, Tick, Restart, mem
<1>4. ASSUME NEW c \in Caller, SessionStep(c)
      PROVE  \/ session' = session /\ clientToken' = clientToken
             \/ CreateMatrixClient(c)
             \/ \E life \in Lifetimes : refreshCachedSessionToken(c, life)
  BY <1>4 DEF SessionStep, UseCachedSession, handleExpiredToken, DeleteBegin,
     RequestRefresh, SaveRefreshed, RefreshFails, BeginCreate, UseStoredToken,
     RequestToken, ReceiveToken, PersistToken, CreateFails, StartSyncing, mem
<1>5. QED
  BY <1>1, <1>2, <1>3, <1>4 DEF Next, DeleterStep, CallerStep, Task

\* No step replaces the client of a session that is still there.
THEOREM NoDuplicateSessions == Spec => NoDoubleCreate
<1> DEFINE Same == session # NoSession /\ session' # NoSession
                     => session'.matrixClient = session.matrixClient
<1>1. ASSUME Inv, Next PROVE Same
  <2>1. CASE session' = session
    BY <2>1
  <2>2. CASE session' = NoSession
    BY <2>2
  <2>3. CASE \E c \in Caller : CreateMatrixClient(c)
    BY <1>1, <2>3 DEF CreateMatrixClient, Inv, SessionOwned, Creating
  <2>4. CASE \E c \in Caller, life \in Lifetimes : refreshCachedSessionToken(c, life)
    <3>1. PICK c \in Caller, life \in Lifetimes : refreshCachedSessionToken(c, life)
      BY <2>4
    <3>2. session \in {NoSession, loc[c].cachedSession}
      BY <1>1, <3>1 DEF refreshCachedSessionToken, Inv, SessionOwned
    <3>3. loc[c].cachedSession \in Session
      BY <1>1 DEF Inv, TypeOK, Local, Task
    <3>4. session'.matrixClient = loc[c].cachedSession.matrixClient
      BY <3>1, <3>3 DEF refreshCachedSessionToken, setSession, Session
    <3>5. QED
      BY <3>2, <3>4
  <2>5. \/ session' = session \/ session' = NoSession
        \/ \E c \in Caller : CreateMatrixClient(c)
        \/ \E c \in Caller, life \in Lifetimes : refreshCachedSessionToken(c, life)
    BY <1>1, SessionChanges
  <2>6. QED
    BY <2>1, <2>2, <2>3, <2>4, <2>5
<1>2. Inv /\ [Next]_vars => [Same]_vars
  BY <1>1 DEF vars, mem
<1>3. QED
  BY <1>2, InvHolds, PTL DEF Spec, NoDoubleCreate

-----------------------------------------------------------------------------
(***************************************************************************)
(* SessionManager implements SessionSlot, for every set of callers and     *)
(* every bound.  The refinement needs one invariant beyond Inv: if nothing *)
(* may overlap deleteSession, a refresh in flight still has its session.   *)
(***************************************************************************)

Awaited ==
    Overlap = {} =>
        /\ pc[Deleter] \in Settled \/ \A c \in Caller : pc[c] \in Settled
        /\ \A c \in Caller : pc[c] = "refresh" => session # NoSession

-----------------------------------------------------------------------------
(* Awaited is inductive.                                                   *)

\* A step of deleteSession moves its own task only, and drops the session
\* only when it has closed the storage.
LEMMA DeleteMoves ==
    ASSUME SessionAssumption, Inv, NEW t \in Task,
           DeleteStep(t) \/ (t = Deleter /\ DeleterBegins)
    PROVE  /\ pc[t] \in Deleting \cup {"delBegin", "saveOpen", "open"}
           /\ \A d \in Task : d # t => pc'[d] = pc[d]
           /\ pc'[t] # "refresh"
           /\ session' = session \/ pc[t] = "delClose"
<1>1. pc \in [Task -> Label] /\ Deleter \notin Caller
  BY DEF Inv, TypeOK, SessionAssumption
<1>2. PICK label : Goto(t, label) /\ label # "refresh"
  <2>1. CASE DeleteFails(t) \/ DeleteOpenFails(t)
    BY <2>1 DEF DeleteFails, DeleteOpenFails, DeleteThrows, Reject, LeaveChain
  <2>2. CASE UseHandleStorage(t)
    BY <2>2 DEF UseHandleStorage, Opening, AfterOpen
  <2>3. CASE DeleteToken(t) \/ ClearRustCrypto(t) \/ CloseStorage(t)
    BY <2>3 DEF DeleteToken, ClearRustCrypto, CloseStorage
  <2>4. CASE t = Deleter /\ DeleterBegins
    BY <2>4 DEF DeleterBegins, DeleteBegin
  <2>5. QED
    BY <2>1, <2>2, <2>3, <2>4 DEF DeleteStep
<1>3. /\ \A d \in Task : d # t => pc'[d] = pc[d]
      /\ pc'[t] # "refresh"
  BY <1>1, <1>2 DEF Goto
<1>4. /\ pc[t] \in Deleting \cup {"delBegin", "saveOpen", "open"}
      /\ session' = session \/ pc[t] = "delClose"
  BY DEF DeleteStep, DeleteFails, DeleteOpenFails, UseHandleStorage, Opening,
     DeleteToken, ClearRustCrypto, CloseStorage, DeleterBegins, DeleteBegin,
     Deleting, mem
<1>5. QED
  BY <1>3, <1>4

\* A step of session work moves its own task only; what it stores is a
\* session, and a refresh begins only when there is one.
LEMMA SessionMoves ==
    ASSUME SessionAssumption, Inv, NEW c \in Caller, SessionStep(c)
    PROVE  /\ pc[c] \notin Settled
           /\ \A d \in Task : d # c => pc'[d] = pc[d]
           /\ session' = session \/ pc[c] \in {"client", "refresh"}
           /\ pc'[c] = "refresh" => session' # NoSession
<1>1. pc \in [Task -> Label] /\ c \in Task
  BY DEF Inv, TypeOK, Task
<1>2. ASSUME Resolve(c) \/ Reject(c)
      PROVE  \E label : Goto(c, label) /\ label # "refresh"
  BY <1>2 DEF Resolve, Reject, LeaveChain
<1>3. CASE UseCachedSession(c) \/ SaveRefreshed(c) \/ PersistToken(c) \/ CreateFails(c)
  BY <1>1, <1>2, <1>3 DEF UseCachedSession, SaveRefreshed, PersistToken,
     CreateFails, Goto, AtHead, Settled
<1>4. CASE \/ handleExpiredToken(c) \/ RefreshFails(c) \/ BeginCreate(c)
           \/ UseStoredToken(c) \/ RequestToken(c) \/ StartSyncing(c)
           \/ \E life \in Lifetimes : ReceiveToken(c, life)
  <2>1. \/ Goto(c, "delOpen") \/ Goto(c, "open") \/ Goto(c, "client")
        \/ Goto(c, "fetch") \/ Goto(c, "idle")
    BY <1>4 DEF handleExpiredToken, RefreshFails, DeleteBegin, BeginCreate,
       UseStoredToken, RequestToken, StartSyncing, ReceiveToken
  <2>2. pc[c] \notin Settled /\ session' = session
    BY <1>4 DEF handleExpiredToken, RefreshFails, DeleteBegin, BeginCreate,
       UseStoredToken, RequestToken, StartSyncing, ReceiveToken, AtHead,
       Settled, mem
  <2>3. QED
    BY <1>1, <2>1, <2>2 DEF Goto
<1>5. CASE RequestRefresh(c)
  BY <1>1, <1>5 DEF RequestRefresh, Goto, AtHead, Settled, mem
<1>6. CASE \/ CreateMatrixClient(c)
           \/ \E life \in Lifetimes : refreshCachedSessionToken(c, life)
  <2>1. Goto(c, "persist") \/ Goto(c, "saveOpen")
    BY <1>6 DEF CreateMatrixClient, refreshCachedSessionToken
  <2>2. pc[c] \in {"client", "refresh"}
    BY <1>6 DEF CreateMatrixClient, refreshCachedSessionToken
  <2>3. QED
    BY <1>1, <2>1, <2>2 DEF Goto, Settled
<1>7. QED
  BY <1>3, <1>4, <1>5, <1>6 DEF SessionStep

\* The initial state satisfies Awaited: nothing runs.
LEMMA InitAwaited == ASSUME Init PROVE Awaited
BY DEF Init, Awaited, Task, Settled

\* Every step of the specification keeps Awaited.
LEMMA NextAwaited ==
    ASSUME SessionAssumption, Inv, Awaited, [Next]_vars
    PROVE  Awaited'
<1> SUFFICES ASSUME Overlap = {}
             PROVE  /\ pc'[Deleter] \in Settled \/ \A c \in Caller : pc'[c] \in Settled
                    /\ \A c \in Caller : pc'[c] = "refresh" => session' # NoSession
  BY DEF Awaited
<1>0. /\ pc[Deleter] \in Settled \/ \A c \in Caller : pc[c] \in Settled
      /\ \A c \in Caller : pc[c] = "refresh" => session # NoSession
      /\ pc \in [Task -> Label] /\ Deleter \notin Caller
  BY DEF Awaited, Inv, TypeOK, SessionAssumption
<1>1. CASE Environment
  <2>1. CASE \/ \E c \in Caller, o \in Ops, d \in DeviceIds : Call(c, o, d)
             \/ \E c \in Caller : \E i \in DOMAIN timerAt : FireTimer(c, i)
    <3>1. /\ pc[Deleter] \in Settled /\ session' = session
          /\ \E c \in Caller : Goto(c, "queued")
      BY <2>1 DEF Call, FireTimer, Enqueue, mem
    <3>2. QED
      BY <1>0, <3>1 DEF Goto, Task
  <2>2. CASE Reset \/ DeprovisionHandle
    <3>1. /\ \A c \in Caller : pc[c] \in Settled
          /\ session' = session /\ Goto(Deleter, "delBegin")
      BY <2>2 DEF Reset, DeprovisionHandle, Delete, mem
    <3>2. QED
      BY <1>0, <3>1 DEF Goto, Task
  <2>3. CASE Tick
    BY <1>0, <2>3 DEF Tick, mem
  <2>4. CASE Restart
    BY <2>4 DEF Restart, Settled, Task
  <2>5. QED
    BY <1>1, <2>1, <2>2, <2>3, <2>4 DEF Environment, ProvisionHandle, GetClient
<1>2. CASE DeleterStep
  <2>1. /\ \A d \in Task : d # Deleter => pc'[d] = pc[d]
        /\ pc[Deleter] \notin Settled
    BY <1>2, DeleteMoves DEF DeleterStep, Task, Deleting, Settled
  <2>2. \A c \in Caller : pc'[c] = pc[c] /\ pc[c] \in Settled
    BY <1>0, <2>1 DEF Task
  <2>3. QED
    BY <2>2 DEF Settled
<1>3. CASE \E c \in Caller : CallerStep(c)
  <2>1. PICK c \in Caller : CallerStep(c)
    BY <1>3
  <2>2. /\ \A d \in Task : d # c => pc'[d] = pc[d]
        /\ pc[c] \notin Settled
    BY <2>1, DeleteMoves, SessionMoves DEF CallerStep, Task, Deleting, Settled
  <2>3. pc'[Deleter] \in Settled
    BY <1>0, <2>2 DEF Task
  <2>4. CASE session' = session
    <3>1. pc'[c] = "refresh" => session' # NoSession
      BY <2>1, DeleteMoves, SessionMoves DEF CallerStep, Task
    <3>2. QED
      BY <1>0, <2>2, <2>3, <2>4, <3>1 DEF Task
  <2>5. CASE session' # session
    <3>1. pc[c] \in Working
      BY <2>1, <2>5, DeleteMoves, SessionMoves
      DEF CallerStep, Task, Working, Deleting, Creating, Refreshing
    <3>2. \A d \in Caller : pc[d] \in Working => d = c
      BY <3>1, WorkingIsHead DEF Inv
    <3>3. \A d \in Caller : d # c => pc'[d] # "refresh"
      BY <3>2, <2>2 DEF Task, Working, Refreshing
    <3>4. pc'[c] = "refresh" => session' # NoSession
      BY <2>1, DeleteMoves, SessionMoves DEF CallerStep, Task
    <3>5. QED
      BY <2>3, <3>3, <3>4
  <2>6. QED
    BY <2>4, <2>5
<1>4. CASE UNCHANGED vars
  BY <1>0, <1>4 DEF vars, mem
<1>5. QED
  BY <1>1, <1>2, <1>3, <1>4 DEF Next

-----------------------------------------------------------------------------
(* The refinement.                                                         *)

\* A new session enters an empty slot.
LEMMA CreateOpens ==
    ASSUME SessionAssumption, Inv, NEW c \in Caller, CreateMatrixClient(c)
    PROVE  Slot!Open
<1>1. session = NoSession /\ clientToken \in Seq(Token) /\ loc[c].token \in Token
  BY DEF CreateMatrixClient, Inv, SessionOwned, Creating, TypeOK, Local, Task
<1>2. /\ session'.matrixClient = Len(clientToken) + 1
      /\ session'.accessToken = loc[c].token
      /\ clientToken' = Append(clientToken, loc[c].token)
  BY DEF CreateMatrixClient, setSession
<1>3. Len(clientToken') = Len(clientToken) + 1
  BY <1>1, <1>2, AppendProperties
<1>4. session.matrixClient = 0 /\ session.accessToken = NoToken
  BY <1>1 DEF NoSession
<1>5. QED
  BY <1>1, <1>2, <1>3, <1>4 DEF Slot!Open, Slot!Empty, Slot!Token, Slot!NoToken,
     Token, NoToken

\* A refreshed token renews the client in the slot; if the session was
\* deleted meanwhile, the client comes back.
LEMMA RefreshRenews ==
    ASSUME SessionAssumption, Inv, Awaited, NEW c \in Caller,
           NEW life \in Lifetimes, refreshCachedSessionToken(c, life)
    PROVE  Slot!Renew \/ Slot!Revive
<1> DEFINE old == loc[c].cachedSession
           tok == [dev |-> old.accessToken.dev, exp |-> now + life]
<1>1. /\ old \in Session /\ clientToken \in Seq(Token) /\ now + life \in Nat
      /\ old.matrixClient \in DOMAIN clientToken
      /\ session \in {NoSession, old}
      /\ Overlap = {} => session # NoSession
  <2>1. pc[c] = "refresh"
    BY DEF refreshCachedSessionToken
  <2>2. old \in Session /\ clientToken \in Seq(Token)
    BY DEF Inv, TypeOK, Local, Task
  <2>3. now + life \in Nat
    BY DEF Inv, TypeOK, SessionAssumption
  <2>4. QED
    BY <2>1, <2>2, <2>3 DEF Inv, Awaited, SessionOwned
<1>2. tok \in Token /\ tok.dev = old.accessToken.dev
  BY <1>1 DEF Session, Token
<1>3. session' = [old EXCEPT !.accessToken = tok, !.refreshTimeout = NewTimer(tok.exp)]
  BY DEF refreshCachedSessionToken, setSession
<1>4. session'.matrixClient = old.matrixClient /\ session'.accessToken = tok
  <2> HIDE DEF tok
  <2>1. QED
    BY <1>1, <1>3 DEF Session
<1>5. /\ old.matrixClient \in 1..Len(clientToken)
      /\ old.matrixClient # 0 /\ Len(clientToken) \in Nat
  BY <1>1, LenProperties
<1>6. clientToken' = [clientToken EXCEPT ![old.matrixClient] = tok]
  BY DEF refreshCachedSessionToken, updateAccessToken
<1>7. Len(clientToken') = Len(clientToken)
  <2> HIDE DEF tok
  <2>1. /\ clientToken' \in Seq(Token)
        /\ DOMAIN clientToken' = DOMAIN clientToken
    BY <1>1, <1>2, <1>6, ExceptKeepsSeq
  <2>2. QED
    BY <1>1, <2>1, LenProperties
<1>8. CASE session = old
  <2> HIDE DEF tok
  <2>1. QED
    BY <1>2, <1>4, <1>5, <1>7, <1>8 DEF Slot!Renew, Slot!Token, Token
<1>9. CASE session = NoSession
  <2>1. session.matrixClient = 0 /\ session.accessToken = NoToken
    BY <1>9 DEF NoSession
  <2> HIDE DEF tok
  <2>2. QED
    BY <1>1, <1>2, <1>4, <1>5, <1>7, <1>9, <2>1
    DEF Slot!Revive, Slot!Empty, Slot!Token, Slot!NoToken, Token, NoToken
<1>10. QED
  BY <1>1, <1>8, <1>9

\* SessionManager implements SessionSlot: with the client, the token and the
\* number of clients read off the session and the clients ever made, every
\* step of a call, a timeout, a failure or a restart is a step of the slot.
THEOREM SlotImplemented == Spec => ImplementsSlot
<1>1. Init => Slot!Init
  BY DEF Init, Slot!Init, Slot!Empty, Slot!NoToken, NoSession, NoToken
<1>2. Init => Inv /\ Awaited
  BY InitInv, InitAwaited, SessionAssumption
<1>3. Inv /\ Awaited /\ [Next]_vars => (Inv /\ Awaited)'
  BY NextInv, NextAwaited, SessionAssumption
<1>4. ASSUME Inv, Awaited, Next PROVE [Slot!Next]_(Slot!slot)
  <2>1. CASE session' = session /\ clientToken' = clientToken
    BY <2>1 DEF Slot!slot
  <2>2. CASE session' = NoSession /\ clientToken' = clientToken
    BY <2>2 DEF Slot!Next, Slot!Drop, Slot!NoToken, NoSession, NoToken
  <2>3. CASE \E c \in Caller : CreateMatrixClient(c)
    BY <1>4, <2>3, CreateOpens, SessionAssumption DEF Slot!Next
  <2>4. CASE \E c \in Caller, life \in Lifetimes : refreshCachedSessionToken(c, life)
    BY <1>4, <2>4, RefreshRenews, SessionAssumption DEF Slot!Next
  <2>5. QED
    BY <1>4, <2>1, <2>2, <2>3, <2>4, SessionChanges
<1>5. Inv /\ Awaited /\ [Next]_vars => [Slot!Next]_(Slot!slot)
  BY <1>4 DEF vars, mem, Slot!slot
<1>6. QED
  BY <1>1, <1>2, <1>3, <1>5, PTL DEF Spec, ImplementsSlot, Slot!Spec

-----------------------------------------------------------------------------
(***************************************************************************)
(* What SessionManager gives an application that awaits its calls before   *)
(* it deletes a session, when storage works: for every set of callers,     *)
(* every lifetime and threshold, and every number of calls and restarts.   *)
(***************************************************************************)

\* Nothing overlaps deleteSession and storage does not fail.
Careful == Overlap = {} /\ StoreFails = FALSE

Saving   == {"saveOpen", "save", "persist"}
HasStore == {"delToken", "save", "read", "fetch", "client", "persist"}

NoTimer == \A i \in DOMAIN timerAt : timerAt[i] = 0

\* A call that deletes has cleared the timeout, a call that goes on to use
\* its storage has it open, and a call that saves a token saves the session's.
Mine(t) ==
    /\ pc[t] \in Deleting => NoTimer
    /\ pc[t] \in HasStore => loc[t].store = cachedStore
    /\ pc[t] \in Saving => session # NoSession /\ loc[t].token = session.accessToken
    /\ pc[t] # "typeError"
    /\ t = Deleter => pc[t] \in Settled \cup Deleting \cup {"delBegin"}

\* The timeout of a session whose token is not due.
Armed ==
    LET exp == session.accessToken.exp
        i   == session.refreshTimeout
    IN  /\ session # NoSession /\ RefreshThreshold > 0
        /\ ~isTokenExpiredOrExpiringSoon(exp)
        => i \in DOMAIN timerAt /\ timerAt[i] = exp - RefreshThreshold

Persisted == session # NoSession => stored = session.accessToken

Kept ==
    Careful =>
        /\ NoLeakedTimer
        /\ \A t \in Task : Mine(t)
        /\ (\A t \in Task : pc[t] \notin Deleting) => Armed
        /\ (\A t \in Task : pc[t] \notin Deleting \cup Saving) => Persisted

\* What a step of t has to show: nobody else is working.
Goal(t) ==
    /\ NoLeakedTimer /\ Mine(t)
    /\ pc[t] \notin Deleting => Armed
    /\ pc[t] \notin Deleting \cup Saving => Persisted

Runs(t) == \/ pc[t] \in Working
           \/ t \in Caller /\ AtHead(t)
           \/ t = Deleter /\ pc[t] = "delBegin"

-----------------------------------------------------------------------------
(* One task at a time.                                                     *)

\* While a task works, no other one does.
LEMMA OnlyOne ==
    ASSUME SessionAssumption, Inv, Awaited, Careful, NEW t \in Task, Runs(t)
    PROVE  \A u \in Task : u # t => pc[u] \notin Working
<1>1. pc[t] \notin Settled
  BY DEF Runs, AtHead, Settled, Working, Deleting, Creating, Refreshing
<1>2. Settled \cap Working = {}
  BY DEF Settled, Working, Deleting, Creating, Refreshing
<1>3. pc[Deleter] \in Settled \/ \A c \in Caller : pc[c] \in Settled
  BY DEF Awaited, Careful
<1>4. CASE t = Deleter
  BY <1>1, <1>2, <1>3, <1>4 DEF Task
<1>5. CASE t \in Caller
  <2>1. \A d \in Caller : pc[d] \in Working => d = t
    BY <1>5, WorkingIsHead DEF Runs, Inv, SessionAssumption
  <2>2. pc[Deleter] \notin Working
    BY <1>1, <1>2, <1>3, <1>5
  <2>3. QED
    BY <2>1, <2>2 DEF Task
<1>6. QED
  BY <1>4, <1>5 DEF Task

\* So the invariant speaks of that task before its step ...
LEMMA Before ==
    ASSUME SessionAssumption, Inv, Awaited, Kept, Careful, NEW t \in Task, Runs(t)
    PROVE  Goal(t)
<1>1. \A u \in Task : u # t => pc[u] \notin Deleting \cup Saving
  BY OnlyOne DEF Working, Deleting, Saving, Refreshing
<1>2. QED
  BY <1>1 DEF Kept, Goal

\* ... and after it.
LEMMA After ==
    ASSUME SessionAssumption, Inv, Awaited, Kept, Careful, NEW t \in Task, Runs(t),
           \A u \in Task : u # t => pc'[u] = pc[u], Goal(t)'
    PROVE  Kept'
<1>1. \A u \in Task : u # t => pc'[u] \notin Working /\ pc'[u] = pc[u]
  BY OnlyOne
<1>2. \A u \in Task : u # t => Mine(u)'
  <2>1. \A u \in Task : Mine(u)
    BY DEF Kept
  <2>2. QED
    BY <1>1, <2>1 DEF Mine, Working, Deleting, Creating, Refreshing, Saving, HasStore
<1>3. QED
  BY <1>2 DEF Kept, Goal

-----------------------------------------------------------------------------
(* Timeouts.                                                               *)

\* After the only pending timeout is cleared none is.
LEMMA Cleared ==
    ASSUME timerAt \in Seq(Nat), NoLeakedTimer
    PROVE  LET ts == clearTimeout(session.refreshTimeout)
           IN  /\ ts \in Seq(Nat) /\ Len(ts) = Len(timerAt)
               /\ \A i \in DOMAIN ts : ts[i] = 0
<1> DEFINE ts == clearTimeout(session.refreshTimeout)
<1>1. ts \in Seq(Nat)
  BY ZeroingKeepsSeq DEF clearTimeout
<1>2. DOMAIN ts = DOMAIN timerAt /\ \A i \in DOMAIN ts : ts[i] = 0
  BY DEF clearTimeout, NoLeakedTimer
<1>3. Len(ts) = Len(timerAt)
  BY <1>1, <1>2, LenProperties
<1>4. QED
  BY <1>1, <1>2, <1>3

\* A timeout set then is the one of the new session, due in time.
LEMMA Scheduled ==
    ASSUME SessionAssumption, now \in Nat, NEW ts \in Seq(Nat), Len(ts) = Len(timerAt),
           \A i \in DOMAIN ts : ts[i] = 0, NEW exp \in Nat,
           timerAt' = scheduleTokenRefresh(ts, exp), now' = now,
           session'.accessToken.exp = exp, session'.refreshTimeout = NewTimer(exp)
    PROVE  NoLeakedTimer' /\ Armed'
<1>1. CASE SchedulesRefresh(exp)
  <2>1. exp - RefreshThreshold \in Nat
    BY <1>1 DEF SchedulesRefresh, SessionAssumption
  <2>2. /\ timerAt' = Append(ts, exp - RefreshThreshold)
        /\ session'.refreshTimeout = Len(ts) + 1
    BY <1>1 DEF scheduleTokenRefresh, NewTimer
  <2>3. /\ DOMAIN timerAt' = 1..(Len(ts) + 1) /\ DOMAIN ts = 1..Len(ts)
        /\ Len(ts) \in Nat
        /\ \A i \in DOMAIN ts : timerAt'[i] = ts[i]
        /\ timerAt'[Len(ts) + 1] = exp - RefreshThreshold
    BY <2>1, <2>2, AppendProperties, LenProperties
  <2>4. NoLeakedTimer'
    BY <2>2, <2>3 DEF NoLeakedTimer
  <2>5. Armed'
    BY <2>2, <2>3 DEF Armed
  <2>6. QED
    BY <2>4, <2>5
<1>2. CASE ~SchedulesRefresh(exp)
  <2>1. timerAt' = ts
    BY <1>2 DEF scheduleTokenRefresh
  <2>2. NoLeakedTimer'
    BY <2>1 DEF NoLeakedTimer
  <2>3. Armed'
    BY <1>2 DEF Armed, SchedulesRefresh, isTokenExpiredOrExpiringSoon, isTokenExpired,
       isTokenExpiringSoon, SessionAssumption
  <2>4. QED
    BY <2>2, <2>3
<1>3. QED
  BY <1>1, <1>2

-----------------------------------------------------------------------------
(* Steps of deleteSession.                                                 *)

\* deleteSession clears the timeout of the session.
LEMMA BeginKept ==
    ASSUME SessionAssumption, Inv, NEW t \in Task, Goal(t), DeleteBegin(t)
    PROVE  Goal(t)'
<1>1. pc'[t] = "delOpen"
  BY DEF DeleteBegin, Goto, Inv, TypeOK
<1>2. NoTimer'
  BY Cleared DEF DeleteBegin, NoTimer, Goal, Inv, TypeOK
<1>3. NoLeakedTimer'
  BY <1>2 DEF NoTimer, NoLeakedTimer
<1>4. QED
  BY <1>1, <1>2, <1>3 DEF Goal, Mine, Deleting, Saving, HasStore, Settled

\* The steps after it, inside the chain or outside.
LEMMA DeleteStepKept ==
    ASSUME SessionAssumption, Inv, Awaited, Kept, Careful, NEW t \in Task, DeleteStep(t)
    PROVE  Kept'
<1>1. Runs(t)
  BY DEF DeleteStep, DeleteFails, DeleteOpenFails, UseHandleStorage, Opening, DeleteToken,
     ClearRustCrypto, CloseStorage, Runs, Working, Deleting, Creating, Refreshing
<1>2. Goal(t)
  BY <1>1, Before
<1>3. pc \in [Task -> Label] /\ loc \in [Task -> Local]
  BY DEF Inv, TypeOK
<1>4. CASE UseHandleStorage(t)
  <2>1. /\ pc[t] \in Opening /\ pc'[t] = AfterOpen(pc[t])
        /\ UNCHANGED <<now, session, timerAt, stored>>
    BY <1>3, <1>4 DEF UseHandleStorage, Goto, mem, disk
  <2>2. loc'[t].store = cachedStore' /\ loc'[t].token = loc[t].token
    BY <1>3, <1>4 DEF UseHandleStorage, Local
  <2>3. NoLeakedTimer' /\ (NoTimer => NoTimer') /\ (Armed => Armed')
        /\ (Persisted => Persisted')
    BY <1>2, <2>1 DEF Goal, NoLeakedTimer, NoTimer, Armed, Persisted,
       isTokenExpiredOrExpiringSoon, isTokenExpired, isTokenExpiringSoon
  <2>4. \/ pc[t] = "delOpen" /\ pc'[t] = "delToken"
        \/ pc[t] = "saveOpen" /\ pc'[t] = "save"
        \/ pc[t] = "open" /\ pc'[t] = "read"
    BY <2>1 DEF Opening, AfterOpen
  <2>5. Mine(t)'
    BY <1>2, <2>1, <2>2, <2>3, <2>4 DEF Goal, Mine, Deleting, Saving, HasStore, Settled
  <2>6. /\ pc'[t] \in Deleting <=> pc[t] \in Deleting
        /\ pc'[t] \in Saving <=> pc[t] \in Saving
    BY <2>4 DEF Deleting, Saving
  <2>7. Goal(t)'
    BY <1>2, <2>3, <2>5, <2>6 DEF Goal
  <2>8. QED
    BY <1>1, <2>7, DeleteMoves, After
<1>5. CASE DeleteToken(t) \/ ClearRustCrypto(t)
  <2>1. /\ pc[t] \in Deleting /\ pc'[t] \in {"delCrypto", "delClose"}
        /\ UNCHANGED <<session, timerAt>>
    BY <1>3, <1>5 DEF DeleteToken, ClearRustCrypto, Goto, mem, Deleting
  <2>2. Goal(t)'
    BY <1>2, <2>1 DEF Goal, Mine, NoLeakedTimer, NoTimer, Deleting, Saving, HasStore
  <2>3. QED
    BY <1>1, <2>2, DeleteMoves, After
<1>6. CASE CloseStorage(t)
  <2>1. /\ pc[t] \in Deleting /\ pc'[t] = (IF t = Deleter THEN "idle" ELSE "open")
        /\ session' = NoSession /\ timerAt' = timerAt
    BY <1>3, <1>6 DEF CloseStorage, Goto, Deleting
  <2>2. NoLeakedTimer' /\ Armed' /\ Persisted'
    BY <1>2, <2>1 DEF Goal, Mine, NoTimer, NoLeakedTimer, Armed, Persisted
  <2>3. Goal(t)'
    BY <2>1, <2>2 DEF Goal, Mine, Deleting, Saving, HasStore, Settled
  <2>4. QED
    BY <1>1, <2>3, DeleteMoves, After
<1>7. CASE DeleteFails(t) \/ DeleteOpenFails(t)
  BY <1>2, <1>7 DEF DeleteFails, DeleteOpenFails, Careful, StoreIsOpen, Goal, Mine, HasStore
<1>8. QED
  BY <1>4, <1>5, <1>6, <1>7 DEF DeleteStep

\* deleteSession of reset and deprovisionHandle begins.
LEMMA DeleterKept ==
    ASSUME SessionAssumption, Inv, Awaited, Kept, Careful, DeleterBegins
    PROVE  Kept'
<1>1. Runs(Deleter) /\ Deleter \in Task
  BY DEF DeleterBegins, Runs, Task
<1>2. Goal(Deleter)
  BY <1>1, Before
<1>3. CASE DeleteBegin(Deleter)
  BY <1>1, <1>2, <1>3, BeginKept, DeleteMoves, After
<1>4. CASE session = NoSession /\ Goto(Deleter, "idle") /\ UNCHANGED mem
  <2>1. pc'[Deleter] = "idle" /\ UNCHANGED <<session, timerAt>>
    BY <1>1, <1>4 DEF Goto, mem, Inv, TypeOK
  <2>2. NoLeakedTimer' /\ Armed' /\ Persisted'
    BY <1>2, <1>4, <2>1 DEF Goal, NoLeakedTimer, Armed, Persisted
  <2>3. Goal(Deleter)'
    BY <2>1, <2>2 DEF Goal, Mine, Deleting, Saving, HasStore, Settled
  <2>4. QED
    BY <1>1, <2>3, DeleteMoves, After
<1>5. QED
  BY <1>3, <1>4 DEF DeleterBegins

-----------------------------------------------------------------------------
(* Steps of ensureValidSession.                                            *)

\* A call that resolves finds its session.
LEMMA Resolved ==
    ASSUME Inv, NEW c \in Caller, Resolve(c), session # NoSession
    PROVE  pc'[c] \in {"idle", "starting"}
BY DEF Resolve, LeaveChain, Goto, Inv, TypeOK, Task

\* Steps that touch neither the session nor its timeout.
LEMMA PlainKept ==
    ASSUME SessionAssumption, Inv, Awaited, Kept, Careful, NEW c \in Caller,
           \/ UseCachedSession(c) \/ RequestRefresh(c) \/ BeginCreate(c)
           \/ UseStoredToken(c) \/ RequestToken(c)
           \/ \E life \in Lifetimes : ReceiveToken(c, life)
    PROVE  Goal(c)'
<1>0. c \in Task /\ pc \in [Task -> Label] /\ loc \in [Task -> Local] /\ c # Deleter
  BY DEF Inv, TypeOK, Task, SessionAssumption
<1>1. Runs(c)
  BY DEF UseCachedSession, RequestRefresh, BeginCreate, UseStoredToken, RequestToken,
     ReceiveToken, Runs, Working, Creating
<1>2. Goal(c)
  BY <1>0, <1>1, Before
<1>3. UNCHANGED <<now, session, timerAt, stored, cachedStore>>
  BY DEF UseCachedSession, RequestRefresh, BeginCreate, UseStoredToken, RequestToken,
     ReceiveToken, mem, disk
<1>4. NoLeakedTimer' /\ (Armed => Armed') /\ (Persisted => Persisted')
  BY <1>2, <1>3 DEF Goal, NoLeakedTimer, Armed, Persisted,
     isTokenExpiredOrExpiringSoon, isTokenExpired, isTokenExpiringSoon
<1>5. CASE UseCachedSession(c) \/ RequestRefresh(c) \/ BeginCreate(c)
  <2>1. pc[c] = "queued" /\ pc'[c] \in {"idle", "starting", "refresh", "open"}
    BY <1>0, <1>5, Resolved
    DEF UseCachedSession, RequestRefresh, BeginCreate, AtHead, Goto
  <2>2. QED
    BY <1>0, <1>2, <1>4, <2>1 DEF Goal, Mine, Deleting, Saving, HasStore
<1>6. CASE \/ UseStoredToken(c) \/ RequestToken(c)
           \/ \E life \in Lifetimes : ReceiveToken(c, life)
  <2>1. pc[c] \in {"read", "fetch"} /\ pc'[c] \in {"client", "fetch"}
    BY <1>0, <1>6 DEF UseStoredToken, RequestToken, ReceiveToken, Goto
  <2>2. loc'[c].store = loc[c].store
    <3>1. CASE UseStoredToken(c)
      BY <1>0, <3>1 DEF UseStoredToken, Local
    <3>2. CASE RequestToken(c)
      BY <1>0, <3>2 DEF RequestToken, Local
    <3>3. CASE \E life \in Lifetimes : ReceiveToken(c, life)
      <4>1. \E tok : loc' = [loc EXCEPT ![c].token = tok]
        BY <3>3 DEF ReceiveToken
      <4>2. QED
        BY <1>0, <4>1 DEF Local
    <3>4. QED
      BY <1>6, <3>1, <3>2, <3>3
  <2>3. QED
    BY <1>0, <1>2, <1>3, <1>4, <2>1, <2>2 DEF Goal, Mine, Deleting, Saving, HasStore
<1>7. QED
  BY <1>5, <1>6

\* Steps that replace the session and its timeout.
LEMMA SetKept ==
    ASSUME SessionAssumption, Inv, Awaited, Kept, Careful, NEW c \in Caller,
           \/ CreateMatrixClient(c)
           \/ \E life \in Lifetimes : refreshCachedSessionToken(c, life)
    PROVE  Goal(c)'
<1>0. /\ c \in Task /\ pc \in [Task -> Label] /\ loc \in [Task -> Local] /\ c # Deleter
      /\ loc[c] \in Local /\ now \in Nat /\ timerAt \in Seq(Nat) /\ session \in Session
  BY DEF Inv, TypeOK, Task, SessionAssumption
<1>1. Runs(c)
  BY DEF CreateMatrixClient, refreshCachedSessionToken, Runs, Working, Creating, Refreshing
<1>2. Goal(c)
  BY <1>0, <1>1, Before
<1>3. CASE CreateMatrixClient(c)
  <2>1. session = NoSession /\ pc[c] = "client"
    BY <1>3 DEF CreateMatrixClient, Inv, SessionOwned, Creating
  <2>2. /\ pc'[c] = "persist" /\ UNCHANGED <<now, loc, cachedStore>>
        /\ timerAt' = scheduleTokenRefresh(timerAt, loc[c].token.exp)
        /\ session'.accessToken = loc[c].token /\ session'.matrixClient = Len(clientToken) + 1
        /\ session'.refreshTimeout = NewTimer(loc[c].token.exp)
    BY <1>0, <1>3 DEF CreateMatrixClient, setSession, Goto
  <2>3. \A i \in DOMAIN timerAt : timerAt[i] = 0
    <3>1. 0 \notin DOMAIN timerAt
      BY <1>0, LenProperties
    <3>2. QED
      BY <1>2, <2>1, <3>1 DEF Goal, NoLeakedTimer, NoSession
  <2>4. loc[c].token.exp \in Nat
    BY <1>0 DEF Local, Token
  <2>5. NoLeakedTimer' /\ Armed'
    BY <1>0, <2>2, <2>3, <2>4, Scheduled
  <2>6. session' # NoSession
    BY <1>0, <2>2, LenProperties DEF NoSession, Inv, TypeOK
  <2>7. QED
    BY <1>0, <1>2, <2>1, <2>2, <2>5, <2>6
    DEF Goal, Mine, Deleting, Saving, HasStore
<1>4. CASE \E life \in Lifetimes : refreshCachedSessionToken(c, life)
  <2>1. PICK life \in Lifetimes : refreshCachedSessionToken(c, life)
    BY <1>4
  <2> DEFINE tok == [dev |-> session.accessToken.dev, exp |-> now + life]
  <2>2. pc[c] = "refresh" /\ session # NoSession /\ loc[c].cachedSession = session
    BY <2>1 DEF refreshCachedSessionToken, Inv, Awaited, Careful, SessionOwned
  <2>3. /\ timerAt' = scheduleTokenRefresh(clearTimeout(session.refreshTimeout), tok.exp)
        /\ session' = [session EXCEPT !.accessToken = tok, !.refreshTimeout = NewTimer(tok.exp)]
        /\ loc' = [loc EXCEPT ![c].token = tok]
        /\ pc'[c] = "saveOpen" /\ now' = now
    BY <1>0, <2>1, <2>2 DEF refreshCachedSessionToken, setSession, Goto
  <2>4. tok.exp \in Nat
    BY <1>0 DEF SessionAssumption
  <2>5. /\ session'.accessToken = tok /\ session'.refreshTimeout = NewTimer(tok.exp)
        /\ session'.matrixClient = session.matrixClient /\ loc'[c].token = tok
    <3> HIDE DEF tok
    <3>1. QED
      BY <1>0, <2>3 DEF Session, Local
  <2>6. session.matrixClient # 0
    <3>1. session.matrixClient \in DOMAIN clientToken
      BY <2>2 DEF Inv, ClientUsesCachedToken
    <3>2. QED
      BY <3>1, LenProperties DEF Inv, TypeOK
  <2>7. session' # NoSession
    BY <2>5, <2>6 DEF NoSession
  <2> HIDE DEF tok
  <2>8. NoLeakedTimer
    BY <1>2 DEF Goal
  <2>9. NoLeakedTimer' /\ Armed'
    BY <1>0, <2>3, <2>4, <2>5, <2>8, Cleared, Scheduled
  <2>10. QED
    BY <1>0, <2>3, <2>5, <2>7, <2>9 DEF Goal, Mine, Deleting, Saving, HasStore
<1>5. QED
  BY <1>3, <1>4

\* The saving of a token, and the steps that fail.
LEMMA EndKept ==
    ASSUME SessionAssumption, Inv, Awaited, Kept, Careful, NEW c \in Caller,
           SaveRefreshed(c) \/ PersistToken(c) \/ RefreshFails(c) \/ CreateFails(c)
           \/ handleExpiredToken(c)
    PROVE  Goal(c)'
<1>0. c \in Task /\ pc \in [Task -> Label] /\ c # Deleter
  BY DEF Inv, TypeOK, Task, SessionAssumption
<1>1. Runs(c)
  BY DEF SaveRefreshed, PersistToken, RefreshFails, CreateFails, handleExpiredToken, Runs,
     Working, Creating, Refreshing
<1>2. Goal(c)
  BY <1>0, <1>1, Before
<1>3. CASE SaveRefreshed(c) \/ PersistToken(c)
  <2>1. pc[c] \in {"save", "persist"} /\ Resolve(c) /\ stored' = loc[c].token
    BY <1>3 DEF SaveRefreshed, PersistToken, saveAccessToken
  <2>2. UNCHANGED <<now, session, timerAt>>
    BY <1>3 DEF SaveRefreshed, PersistToken
  <2>3. session # NoSession /\ loc[c].token = session.accessToken /\ Armed
    BY <1>2, <2>1 DEF Goal, Mine, Saving, Deleting
  <2>4. pc'[c] \in {"idle", "starting"}
    BY <2>1, <2>3, Resolved
  <2>5. NoLeakedTimer' /\ Armed' /\ Persisted'
    BY <1>2, <2>1, <2>2, <2>3 DEF Goal, NoLeakedTimer, Armed, Persisted,
       isTokenExpiredOrExpiringSoon, isTokenExpired, isTokenExpiringSoon
  <2>6. QED
    BY <1>0, <2>4, <2>5 DEF Goal, Mine, Deleting, Saving, HasStore
<1>4. CASE DeleteBegin(c)
  BY <1>0, <1>2, <1>4, BeginKept
<1>5. CASE session = NoSession /\ Goto(c, "open") /\ UNCHANGED mem
  <2>1. pc'[c] = "open" /\ UNCHANGED <<session, timerAt>>
    BY <1>0, <1>5 DEF Goto, mem
  <2>2. NoLeakedTimer' /\ Armed' /\ Persisted'
    BY <1>2, <1>5, <2>1 DEF Goal, NoLeakedTimer, Armed, Persisted
  <2>3. QED
    BY <1>0, <2>1, <2>2 DEF Goal, Mine, Deleting, Saving, HasStore
<1>6. CASE CreateFails(c)
  <2>1. pc[c] = "fetch"
    BY <1>2, <1>6 DEF CreateFails, Careful, StoreIsOpen, Goal, Mine, HasStore
  <2>2. session = NoSession
    BY <2>1 DEF Inv, SessionOwned, Creating
  <2>3. pc'[c] = "rejected" /\ UNCHANGED <<session, timerAt>>
    BY <1>0, <1>6 DEF CreateFails, Reject, LeaveChain, Goto
  <2>4. NoLeakedTimer' /\ Armed' /\ Persisted'
    BY <1>2, <2>2, <2>3 DEF Goal, NoLeakedTimer, Armed, Persisted
  <2>5. QED
    BY <1>0, <2>3, <2>4 DEF Goal, Mine, Deleting, Saving, HasStore
<1>7. QED
  BY <1>3, <1>4, <1>5, <1>6 DEF RefreshFails, handleExpiredToken

\* Every step of the work of a call.
LEMMA WorkKept ==
    ASSUME SessionAssumption, Inv, Awaited, Kept, Careful, NEW c \in Caller,
           SessionStep(c), ~StartSyncing(c)
    PROVE  Kept'
<1>1. Goal(c)'
  BY PlainKept, SetKept, EndKept DEF SessionStep
<1>2. Runs(c)
  BY DEF SessionStep, UseCachedSession, handleExpiredToken, RequestRefresh,
     refreshCachedSessionToken, SaveRefreshed, RefreshFails, BeginCreate, UseStoredToken,
     RequestToken, ReceiveToken, CreateMatrixClient, PersistToken, CreateFails, Runs,
     Working, Creating, Refreshing
<1>3. c \in Task /\ \A u \in Task : u # c => pc'[u] = pc[u]
  BY SessionMoves DEF Task
<1>4. QED
  BY <1>1, <1>2, <1>3, After

-----------------------------------------------------------------------------
(* Steps beside the work of the calls.                                     *)

\* A task that does not work, before or after, leaves the invariant alone.
LEMMA Aside ==
    ASSUME SessionAssumption, Inv, Kept, Careful, NEW t \in Task,
           pc[t] \notin Working, pc'[t] \in {"queued", "idle", "delBegin"},
           t = Deleter <=> pc'[t] = "delBegin",
           \A u \in Task : u # t => pc'[u] = pc[u] /\ loc'[u] = loc[u],
           UNCHANGED <<session, stored, cachedStore>>,
           NoLeakedTimer', NoTimer => NoTimer', Armed => Armed'
    PROVE  Kept'
<1>1. /\ NoLeakedTimer /\ \A u \in Task : Mine(u)
      /\ (\A u \in Task : pc[u] \notin Deleting) => Armed
      /\ (\A u \in Task : pc[u] \notin Deleting \cup Saving) => Persisted
  BY DEF Kept
<1>2. \A u \in Task : u # t => Mine(u)'
  BY <1>1 DEF Mine
<1>3. Mine(t)'
  BY DEF Mine, Deleting, Saving, HasStore
<1>4. \A u \in Task : /\ pc'[u] \in Deleting <=> pc[u] \in Deleting
                      /\ pc'[u] \in Saving <=> pc[u] \in Saving
  BY DEF Working, Deleting, Refreshing, Saving
<1>5. Persisted => Persisted'
  BY DEF Persisted
<1>6. QED
  BY <1>1, <1>2, <1>3, <1>4, <1>5 DEF Kept

\* Calls, timeouts, the end of startSyncing and the beginning of a deletion.
LEMMA AsideKept ==
    ASSUME SessionAssumption, Inv, Kept, Careful,
           \/ \E c \in Caller : \E o, d : Call(c, o, d)
           \/ \E c \in Caller : \E i \in DOMAIN timerAt : FireTimer(c, i)
           \/ \E c \in Caller : StartSyncing(c)
           \/ Reset \/ DeprovisionHandle
    PROVE  Kept'
<1>0. /\ pc \in [Task -> Label] /\ loc \in [Task -> Local] /\ Deleter \notin Caller
      /\ timerAt \in Seq(Nat) /\ now \in Nat /\ session \in Session /\ NoLeakedTimer
  BY DEF Inv, TypeOK, SessionAssumption, Kept
<1>1. ASSUME UNCHANGED <<now, session, timerAt>>
      PROVE  NoLeakedTimer' /\ (NoTimer => NoTimer') /\ (Armed => Armed')
  BY <1>0, <1>1 DEF NoLeakedTimer, NoTimer, Armed, isTokenExpiredOrExpiringSoon,
     isTokenExpired, isTokenExpiringSoon
<1>2. CASE \E c \in Caller : \E o, d : Call(c, o, d)
  <2>0. PICK c \in Caller : \E o, d : Call(c, o, d)
    BY <1>2
  <2>1. PICK o, d : Call(c, o, d)
    BY <2>0
  <2>2. /\ pc[c] \notin Working /\ pc'[c] = "queued" /\ c \in Task /\ c # Deleter
        /\ \A u \in Task : u # c => pc'[u] = pc[u] /\ loc'[u] = loc[u]
        /\ UNCHANGED <<now, session, timerAt, stored, cachedStore>>
    BY <1>0, <2>1 DEF Call, Enqueue, Goto, Task, mem, disk, Settled, Working, Deleting,
       Creating, Refreshing
  <2>3. QED
    BY <1>1, <2>2, Aside
<1>3. CASE \E c \in Caller : \E i \in DOMAIN timerAt : FireTimer(c, i)
  <2>1. PICK c \in Caller, i \in DOMAIN timerAt : FireTimer(c, i)
    BY <1>3
  <2>2. /\ pc[c] \notin Working /\ pc'[c] = "queued" /\ c \in Task /\ c # Deleter
        /\ \A u \in Task : u # c => pc'[u] = pc[u] /\ loc'[u] = loc[u]
        /\ UNCHANGED <<now, session, stored, cachedStore>>
    BY <1>0, <2>1 DEF FireTimer, Enqueue, Goto, Task, disk, Settled, Working, Deleting,
       Creating, Refreshing
  <2>3. /\ timerAt[i] <= now /\ DOMAIN timerAt' = DOMAIN timerAt
        /\ \A j \in DOMAIN timerAt : timerAt'[j] = IF j = i THEN 0 ELSE timerAt[j]
    BY <2>1 DEF FireTimer, clearTimeout
  <2>4. NoLeakedTimer' /\ (NoTimer => NoTimer')
    BY <1>0, <2>2, <2>3 DEF NoLeakedTimer, NoTimer
  <2>5. Armed => Armed'
    <3> DEFINE exp == session.accessToken.exp
    <3>1. exp \in Nat /\ RefreshThreshold \in Nat
      BY <1>0 DEF Session, Token, SessionAssumption
    <3>2. CASE i # session.refreshTimeout
      BY <2>2, <2>3, <3>2 DEF Armed, isTokenExpiredOrExpiringSoon, isTokenExpired,
         isTokenExpiringSoon
    <3>3. CASE i = session.refreshTimeout
      <4>1. SUFFICES ASSUME Armed, session # NoSession, RefreshThreshold > 0,
                            ~isTokenExpiredOrExpiringSoon(exp)
                     PROVE  FALSE
        BY <2>2 DEF Armed, isTokenExpiredOrExpiringSoon, isTokenExpired, isTokenExpiringSoon
      <4>2. timerAt[i] = exp - RefreshThreshold
        BY <3>3, <4>1 DEF Armed
      <4>3. exp <= now + RefreshThreshold
        BY <1>0, <2>3, <3>1, <4>2
      <4>4. QED
        BY <1>0, <3>1, <4>1, <4>3 DEF isTokenExpiredOrExpiringSoon, isTokenExpired,
           isTokenExpiringSoon
    <3>4. QED
      BY <3>2, <3>3
  <2>6. QED
    BY <2>2, <2>4, <2>5, Aside
<1>4. CASE \E c \in Caller : StartSyncing(c)
  <2>1. PICK c \in Caller : StartSyncing(c)
    BY <1>4
  <2>2. /\ pc[c] \notin Working /\ pc'[c] = "idle" /\ c \in Task /\ c # Deleter
        /\ \A u \in Task : u # c => pc'[u] = pc[u] /\ loc'[u] = loc[u]
        /\ UNCHANGED <<now, session, timerAt, stored, cachedStore>>
    BY <1>0, <2>1 DEF StartSyncing, Goto, Task, disk, Working, Deleting, Creating, Refreshing
  <2>3. QED
    BY <1>1, <2>2, Aside
<1>5. CASE Reset \/ DeprovisionHandle
  <2>1. /\ pc[Deleter] \notin Working /\ pc'[Deleter] = "delBegin" /\ Deleter \in Task
        /\ \A u \in Task : u # Deleter => pc'[u] = pc[u] /\ loc'[u] = loc[u]
        /\ UNCHANGED <<now, session, timerAt, stored, cachedStore>>
    BY <1>0, <1>5 DEF Reset, DeprovisionHandle, Delete, Goto, Task, mem, disk, Settled,
       Working, Deleting, Creating, Refreshing
  <2>2. QED
    BY <1>1, <2>1, Aside
<1>6. QED
  BY <1>2, <1>3, <1>4, <1>5

\* Time passes, or the process starts again.
LEMMA TimeKept ==
    ASSUME SessionAssumption, Inv, Kept, Careful, Tick \/ Restart
    PROVE  Kept'
<1>1. CASE Tick
  <2>1. /\ now' = now + 1 /\ now \in Nat /\ session \in Session
        /\ UNCHANGED <<session, timerAt, stored, cachedStore, pc, loc>>
    BY <1>1 DEF Tick, mem, disk, Inv, TypeOK
  <2>2. Armed => Armed'
    <3>1. session.accessToken.exp \in Nat /\ RefreshThreshold \in Nat
      BY <2>1 DEF Session, Token, SessionAssumption
    <3>2. QED
      BY <2>1, <3>1 DEF Armed, isTokenExpiredOrExpiringSoon, isTokenExpired,
         isTokenExpiringSoon
  <2>3. QED
    BY <2>1, <2>2 DEF Kept, NoLeakedTimer, Mine, NoTimer, Persisted
<1>2. CASE Restart
  <2>1. /\ session' = NoSession /\ \A i \in DOMAIN timerAt' : timerAt'[i] = 0
        /\ \A t \in Task : pc'[t] = "idle"
    BY <1>2 DEF Restart
  <2>2. QED
    BY <2>1 DEF Kept, NoLeakedTimer, Mine, NoTimer, Persisted, Armed, Deleting, Saving,
       HasStore, Settled
<1>3. QED
  BY <1>1, <1>2

-----------------------------------------------------------------------------
(* The theorems.                                                           *)

\* Every step keeps the invariant.
LEMMA NextKept ==
    ASSUME SessionAssumption, Inv, Awaited, Kept, [Next]_vars
    PROVE  Kept'
<1> SUFFICES ASSUME Careful PROVE Kept'
  BY DEF Kept
<1>1. CASE Environment
  BY <1>1, AsideKept, TimeKept DEF Environment, ProvisionHandle, GetClient
<1>2. CASE DeleterStep
  BY <1>2, DeleterKept, DeleteStepKept DEF DeleterStep, Task
<1>3. CASE \E c \in Caller : CallerStep(c)
  BY <1>3, WorkKept, DeleteStepKept, AsideKept DEF CallerStep, Task
<1>4. CASE UNCHANGED vars
  BY <1>4 DEF vars, mem, disk, Kept, NoLeakedTimer, Mine, NoTimer, Persisted, Armed,
     isTokenExpiredOrExpiringSoon, isTokenExpired, isTokenExpiringSoon
<1>5. QED
  BY <1>1, <1>2, <1>3, <1>4 DEF Next

\* The invariant holds in every reachable state.
THEOREM KeptHolds == Spec => []Kept
<1>1. Init => Inv /\ Awaited
  BY InitInv, InitAwaited, SessionAssumption
<1>2. Init => Kept
  BY DEF Init, Kept, NoLeakedTimer, Mine, NoTimer, Persisted, Armed, Deleting, Saving,
     HasStore, Settled, Task
<1>3. Inv /\ Awaited /\ Kept /\ [Next]_vars => (Inv /\ Awaited /\ Kept)'
  BY NextInv, NextAwaited, NextKept, SessionAssumption
<1>4. QED
  BY <1>1, <1>2, <1>3, PTL DEF Spec

\* If the application awaits its calls and storage works, no refresh timeout
\* outlives the session it was set for.
THEOREM TimersOwned == Spec => [](Careful => NoLeakedTimer)
<1>1. Kept => (Careful => NoLeakedTimer)
  BY DEF Kept
<1>2. QED
  BY <1>1, KeptHolds, PTL

\* Then a session whose token is not due has its refresh timeout pending.
THEOREM RefreshesArmed == Spec => [](Careful => RefreshArmed)
<1>1. Kept => (Careful => RefreshArmed)
  BY DEF Kept, Armed, RefreshArmed
<1>2. QED
  BY <1>1, KeptHolds, PTL

\* Then the stored token is the session's whenever no call is under way, so
\* that a restart resumes the device.
THEOREM TokensPersisted == Spec => [](Careful => PersistedWhenIdle)
<1>1. Kept => (Careful => PersistedWhenIdle)
  BY DEF Kept, Persisted, PersistedWhenIdle, Quiescent, Settled, Deleting, Saving
<1>2. QED
  BY <1>1, KeptHolds, PTL

\* Then getMatrixClient finds the session it was promised.
THEOREM ClientFound == Spec => [](Careful => GetMatrixClientFindsSession)
<1>1. Kept => (Careful => GetMatrixClientFindsSession)
  BY DEF Kept, Mine, GetMatrixClientFindsSession, Task
<1>2. QED
  BY <1>1, KeptHolds, PTL
-----------------------------------------------------------------------------
(* What deprovisionHandle leaves behind.  Kept says that a deletion has    *)
(* cleared the timeouts; that the crypto database stays gone until the     *)
(* storage is closed is one more invariant.                                *)

Purged ==
    Careful => (pc[Deleter] = "delClose" /\ loc[Deleter].deleteStorage
                    => cryptoDevice = 0)

\* While deleteSession is about to close the storage no call takes a step, so
\* none creates a crypto database.
LEMMA CallsWait ==
    ASSUME SessionAssumption, Inv, Awaited, Careful, NEW c \in Caller,
           CallerStep(c), pc[Deleter] = "delClose"
    PROVE  FALSE
<1>1. pc[c] \in Settled
  BY DEF Awaited, Careful, Settled
<1>2. pc[c] \notin Settled
  <2>1. CASE SessionStep(c)
    BY <2>1, SessionMoves
  <2>2. CASE DeleteStep(c)
    BY <2>2, DeleteMoves DEF Task, Deleting, Settled
  <2>3. QED
    BY <2>1, <2>2 DEF CallerStep
<1>3. QED
  BY <1>1, <1>2

\* Every step keeps the invariant: a purge reaches the closing of the storage
\* through clearRustCrypto.
LEMMA NextPurged ==
    ASSUME SessionAssumption, Inv, Awaited, Purged, [Next]_vars
    PROVE  Purged'
<1> SUFFICES ASSUME Careful, pc'[Deleter] = "delClose", loc'[Deleter].deleteStorage
             PROVE  cryptoDevice' = 0
  BY DEF Purged, Careful
<1>0. /\ pc \in [Task -> Label] /\ loc \in [Task -> Local]
      /\ Deleter \in Task /\ Deleter \notin Caller
  BY DEF Inv, TypeOK, Task, SessionAssumption
<1>1. CASE Environment
  <2>1. CASE \/ \E c \in Caller : ProvisionHandle(c) \/ GetClient(c)
             \/ \E c \in Caller : \E i \in DOMAIN timerAt : FireTimer(c, i)
    <3>1. PICK c \in Caller : \E o, d : Enqueue(c, o, d) /\ UNCHANGED cryptoDevice
      BY <2>1 DEF ProvisionHandle, GetClient, Call, FireTimer, disk
    <3>2. pc'[Deleter] = pc[Deleter] /\ loc'[Deleter] = loc[Deleter]
      BY <1>0, <3>1 DEF Enqueue, Goto
    <3>3. QED
      BY <3>1, <3>2 DEF Purged
  <2>2. CASE Reset \/ DeprovisionHandle \/ Restart
    BY <1>0, <2>2 DEF Reset, DeprovisionHandle, Delete, Restart, Goto
  <2>3. CASE Tick
    BY <2>3 DEF Tick, disk, Purged
  <2>4. QED
    BY <1>1, <2>1, <2>2, <2>3 DEF Environment
<1>2. CASE DeleterStep
  <2>1. CASE DeleteToken(Deleter)
    BY <1>0, <2>1 DEF DeleteToken, Goto
  <2>2. CASE ClearRustCrypto(Deleter)
    BY <2>2 DEF ClearRustCrypto, clearRustCrypto
  <2>3. CASE CloseStorage(Deleter) \/ DeleterBegins
    BY <1>0, <2>3 DEF CloseStorage, DeleterBegins, DeleteBegin, Goto
  <2>4. CASE DeleteFails(Deleter) \/ DeleteOpenFails(Deleter)
    BY <1>0, <2>4 DEF DeleteFails, DeleteOpenFails, DeleteThrows, Goto
  <2>5. CASE UseHandleStorage(Deleter)
    BY <1>0, <2>5 DEF UseHandleStorage, Opening, AfterOpen, Goto
  <2>6. QED
    BY <1>2, <2>1, <2>2, <2>3, <2>4, <2>5 DEF DeleterStep, DeleteStep
<1>3. CASE \E c \in Caller : CallerStep(c)
  <2>1. PICK c \in Caller : CallerStep(c)
    BY <1>3
  <2>2. pc'[Deleter] = pc[Deleter]
    BY <1>0, <2>1, SessionMoves, DeleteMoves DEF CallerStep, Task
  <2>3. QED
    BY <2>1, <2>2, CallsWait
<1>4. CASE UNCHANGED vars
  BY <1>4 DEF vars, disk, Purged
<1>5. QED
  BY <1>1, <1>2, <1>3, <1>4 DEF Next

\* The step that ends a deletion is the closing of the storage.
LEMMA DeletionEnds ==
    ASSUME SessionAssumption, Inv, Awaited, [Next]_vars,
           pc[Deleter] \in Deleting, pc'[Deleter] = "idle",
           made'.restarts = made.restarts
    PROVE  CloseStorage(Deleter)
<1>0. /\ pc \in [Task -> Label] /\ Deleter \in Task /\ Deleter \notin Caller
      /\ made \in [calls : Nat, stores : Nat, devices : Nat, restarts : Nat]
      /\ pc'[Deleter] # pc[Deleter]
  BY DEF Inv, TypeOK, Task, SessionAssumption, Deleting
<1>1. CASE Environment
  <2>1. CASE \/ \E c \in Caller : ProvisionHandle(c) \/ GetClient(c)
             \/ \E c \in Caller : \E i \in DOMAIN timerAt : FireTimer(c, i)
    <3>1. PICK c \in Caller : \E o, d : Enqueue(c, o, d)
      BY <2>1 DEF ProvisionHandle, GetClient, Call, FireTimer
    <3>2. QED
      BY <1>0, <3>1 DEF Enqueue, Goto
  <2>2. CASE Reset \/ DeprovisionHandle
    BY <1>0, <2>2 DEF Reset, DeprovisionHandle, Delete, Goto
  <2>3. CASE Restart
    <3>1. made'.restarts = made.restarts + 1
      BY <1>0, <2>3 DEF Restart
    <3>2. QED
      BY <1>0, <3>1
  <2>4. CASE Tick
    BY <1>0, <2>4 DEF Tick
  <2>5. QED
    BY <1>1, <2>1, <2>2, <2>3, <2>4 DEF Environment
<1>2. CASE DeleterStep
  <2>1. CASE DeleteToken(Deleter) \/ ClearRustCrypto(Deleter)
    BY <1>0, <2>1 DEF DeleteToken, ClearRustCrypto, Goto
  <2>2. CASE DeleterBegins
    BY <2>2 DEF DeleterBegins, Deleting
  <2>3. CASE DeleteFails(Deleter) \/ DeleteOpenFails(Deleter)
    BY <1>0, <2>3 DEF DeleteFails, DeleteOpenFails, DeleteThrows, Goto
  <2>4. CASE UseHandleStorage(Deleter)
    BY <1>0, <2>4 DEF UseHandleStorage, Opening, AfterOpen, Goto
  <2>5. QED
    BY <1>2, <2>1, <2>2, <2>3, <2>4 DEF DeleterStep, DeleteStep
<1>3. CASE \E c \in Caller : CallerStep(c)
  BY <1>0, <1>3, SessionMoves, DeleteMoves DEF CallerStep, Task
<1>4. CASE UNCHANGED vars
  BY <1>0, <1>4 DEF vars
<1>5. QED
  BY <1>1, <1>2, <1>3, <1>4 DEF Next

\* If the application awaits its calls and storage works, deprovisionHandle
\* leaves no token, no crypto database, no session and no timeout.
THEOREM NothingLeft ==
    ASSUME Careful
    PROVE  Spec => DeprovisionLeavesNothing
<1> DEFINE A == ( /\ pc[Deleter] \in Deleting /\ pc'[Deleter] = "idle"
                  /\ loc[Deleter].deleteStorage /\ made'.restarts = made.restarts )
                => /\ stored' = NoToken /\ cryptoDevice' = 0
                   /\ session' = NoSession
                   /\ \A i \in DOMAIN timerAt' : timerAt'[i] = 0
<1>1. Init => Inv /\ Awaited /\ Purged
  <2>1. Init => Purged
    BY DEF Init, Purged, Task
  <2>2. QED
    BY <2>1, InitInv, InitAwaited, SessionAssumption
<1>2. Inv /\ Awaited /\ Purged /\ [Next]_vars => (Inv /\ Awaited /\ Purged)'
  BY NextInv, NextAwaited, NextPurged, SessionAssumption
<1>3. Inv /\ Awaited /\ Kept /\ Purged /\ [Next]_vars => [A]_vars
  <2> SUFFICES ASSUME Inv, Awaited, Kept, Purged, [Next]_vars,
                      pc[Deleter] \in Deleting, pc'[Deleter] = "idle",
                      loc[Deleter].deleteStorage, made'.restarts = made.restarts
               PROVE  /\ stored' = NoToken /\ cryptoDevice' = 0
                      /\ session' = NoSession
                      /\ \A i \in DOMAIN timerAt' : timerAt'[i] = 0
    OBVIOUS
  <2>1. CloseStorage(Deleter)
    BY DeletionEnds, SessionAssumption
  <2>2. NoTimer
    BY DEF Kept, Mine, Task
  <2>3. cryptoDevice = 0
    BY <2>1 DEF Purged, CloseStorage
  <2>4. QED
    BY <2>1, <2>2, <2>3 DEF CloseStorage, NoTimer
<1>4. QED
  BY <1>1, <1>2, <1>3, KeptHolds, PTL DEF Spec, DeprovisionLeavesNothing
=============================================================================
