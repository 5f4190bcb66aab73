-------------------------- MODULE MessagingProofs --------------------------
(***************************************************************************)
(* Proofs about Messaging for every set of handles, of calls and of        *)
(* listeners, every page size and number of calls, with requests that fail *)
(* and answers that are lost: what an application is told is what was done *)
(* whatever else happened between the requests of its calls.               *)
(*                                                                         *)
(* Each property has an invariant of its own (ListenersAgree, PagesKept,   *)
(* TallyKept, MarksKept, PinsKept, ReactionsKept) on top of Base: the      *)
(* types, the order of the timeline and the requests each operation may    *)
(* have left.                                                              *)
(***************************************************************************)
EXTENDS Messaging, SequenceTheorems, FiniteSetTheorems,
        WellFoundedInduction, TLAPS

----------------------------------------------------------------------------
(* The invariants.                                                         *)

Reqs == [kind : Kind, event : Client!Event, pins : SUBSET Nat, after : SUBSET Task]

Operation == {"none", "sendMessage", "sendThreadMessage", "sendReplyMessage", "sendMedia",
              "editMediaCaption", "editMessage", "deleteMessage", "markAsRead", "markAsUnread",
              "sendTypingNotification", "toggleReaction", "pinUnpinMessage", "getMessages",
              "createPoll", "sendPollResponse", "editPoll", "endPoll", "getPollResponses",
              "downloadMediaFile"}

CallType == [op : Operation, by : Handle, todo : Seq(Reqs), of : Nat, token : Nat,
             start : Nat, upto : Nat, got : FiniteSubsetsOf(Nat), ended : Nat,
             best : [Handle -> Nat], alone : BOOLEAN]

Pages == [token : Nat, start : Nat, seen : SUBSET Nat, twice : SUBSET Nat,
          state : {"none", "open", "done"}]

Types ==
    /\ timeline \in Seq(Client!Event) /\ now \in Nat \ {0} /\ pins \subseteq Nat
    /\ receipt \in [Handle -> Nat] /\ view \in [Handle -> Nat]
    /\ flag \in [Handle -> BOOLEAN]
    /\ call \in [Task -> CallType]
    /\ reader \in [Handle -> Pages]
    /\ asked \in [Handle -> [what : {"nothing", "read", "unread"}, upto : Nat]]

\* The server stamps events with the time of day, in order.
Ordered ==
    /\ \A i, j \in DOMAIN timeline : i <= j => timeline[i].ts <= timeline[j].ts
    /\ \A i \in DOMAIN timeline : timeline[i].ts <= now
    /\ \A i \in DOMAIN timeline : timeline[i].type = "pollEnd" => timeline[i].ts > 0

\* The requests a call of op by h may make.
Good(op, h) ==
    {r \in Reqs :
       /\ r.kind \in {"markers", "receipt", "unmark"} => op = "markAsRead"
       /\ r.kind = "mark" => op = "markAsUnread"
       /\ r.kind \in {"readPins", "writePins"} => op = "pinUnpinMessage"
       /\ r.kind = "page" => op = "getMessages"
       /\ r.kind \in {"ends", "responses"} => op = "getPollResponses"
       /\ r.kind = "event" => r.event.sender = h
       /\ r.event.type \in {"reaction", "redaction"}
            => op \in {"toggleReaction", "deleteMessage"} /\ r.event.txn = 0
       /\ r.after # {} => op = "toggleReaction" /\ r.event.type = "redaction"}

\* And those it has left.
Exact(op, of, todo) ==
    /\ op = "toggleReaction" =>
          /\ Len(todo) = 1 /\ todo[1].kind = "event"
          /\ todo[1].event.type \in {"reaction", "redaction"}
          /\ todo[1].event.type = "reaction" => todo[1].event.of = of
    /\ op = "deleteMessage" =>
          /\ Len(todo) = 1 /\ todo[1].kind = "event"
          /\ todo[1].event.type = "redaction" /\ todo[1].event.of = of
    /\ op = "getMessages" => Len(todo) = 1 /\ todo[1].kind = "page"
    /\ op = "markAsUnread" => Len(todo) = 1 /\ todo[1].kind = "mark"
    /\ op = "markAsRead" =>
          \/ Len(todo) = 2 /\ todo[1].kind = "markers" /\ todo[2].kind = "receipt"
          \/ Len(todo) = 1 /\ todo[1].kind \in {"receipt", "unmark"}
    /\ op = "pinUnpinMessage" =>
          Len(todo) = 1 /\ todo[1].kind \in {"readPins", "writePins"}
    /\ op = "getPollResponses" =>
          \/ Len(todo) = 2 /\ todo[1].kind = "ends" /\ todo[2].kind = "responses"
          \/ Len(todo) = 1 /\ todo[1].kind = "responses"

Shape(c) == c.op # "none" => /\ c.todo \in Seq(Good(c.op, c.by)) /\ c.todo # <<>>
                             /\ Exact(c.op, c.of, c.todo)

Base == Types /\ Ordered /\ \A t \in Task : Shape(call[t])

----------------------------------------------------------------------------
(* Listeners: as long as the calls for an object were awaited, at most one *)
(* of them is under way, the maps and the client agree except for it, and  *)
(* each event emitted since is with the event listener or was told to all. *)

ListenerTypes ==
    /\ messageListeners \in [Obj -> SUBSET Name]
    /\ matrixEventListeners \in [Obj -> Nat] /\ made \in Nat
    /\ pc \in [Task -> {Idle} \cup ({"register", "unregister"} \X Obj)]
    /\ on \subseteq Nat \X Obj /\ pending \subseteq Nat \X Obj \X Nat
    /\ due \in [Obj -> SUBSET Nat] /\ heard \in [Obj -> SUBSET (Nat \X Name \X Nat)]
    /\ orderly \in [Obj -> BOOLEAN]

WaitsFor(t, o) == pc[t] \in {<<"register", o>>, <<"unregister", o>>}

Listening(o) ==
    LET k == matrixEventListeners[o]
    IN  /\ {l \in on : l[2] = o} = IF k = 0 THEN {} ELSE {<<k, o>>}
        /\ k # 0 <=> \/ messageListeners[o] # {} /\ \A t \in Task : pc[t] # <<"register", o>>
                     \/ \E t \in Task : pc[t] = <<"unregister", o>>
        /\ (\E t \in Task : pc[t] = <<"register", o>>) => messageListeners[o] # {}
        /\ (\E t \in Task : pc[t] = <<"unregister", o>>) => messageListeners[o] = {}

HeardOf(o, i)      == {x \in heard[o] : x[3] = i}
WithListener(o, i) == <<matrixEventListeners[o], o, i>> \in pending
Everyone(o, i)     == {<<matrixEventListeners[o], n, i>> : n \in messageListeners[o]}

Fate(o) ==
    /\ \A p \in pending : p[2] = o /\ p[3] \in due[o] => p[1] = matrixEventListeners[o]
    /\ \A x \in heard[o] : x[3] \in due[o]
    /\ \A i \in due[o] :
          HeardOf(o, i) = IF Client!Told(timeline, i) /\ ~WithListener(o, i)
                          THEN Everyone(o, i) ELSE {}

Orderly(o) ==
    /\ \A t, u \in Task : WaitsFor(t, o) /\ WaitsFor(u, o) => t = u
    /\ (\E t \in Task : WaitsFor(t, o)) => due[o] = {} /\ heard[o] = {}
    /\ Listening(o) /\ Fate(o)

\* The client emits the events it has, each once.
Emitted ==
    /\ \A p \in pending : p[3] <= view[Creator]
    /\ \A o \in Obj : \A i \in due[o] : i \in 1..view[Creator]

ListenersAgree ==
    /\ ListenerTypes /\ Emitted
    /\ \A o \in Obj : orderly[o] => Orderly(o)

----------------------------------------------------------------------------
(* Pages: what was given so far is exactly what there is between the token *)
(* and the end of the timeline the first page was read from.               *)

Due(tl, lo, hi) == {i \in (lo + 1)..hi :
                      /\ tl[i].type \in {"message", "media", "member", "pollStart"}
                      /\ tl[i].rel # "replace"}

Covers(tl, set, lo, hi) == set \subseteq (lo + 1)..hi /\ Due(tl, lo, hi) \subseteq set

ReaderOK(tl, r) ==
    /\ r.twice = {} /\ r.token <= r.start /\ r.start <= Len(tl)
    /\ r.token # 0 <=> r.state = "open"
    /\ r.state # "none" => Covers(tl, r.seen, r.token, r.start)

PagesCall(tl, c, r) ==
    /\ c.token = 0 => c.got = {} /\ r.token = 0
    /\ c.token # 0 =>
          /\ c.token <= c.start /\ c.start <= Len(tl)
          /\ r.token # 0 => c.start = r.start /\ c.token <= r.token
          /\ Covers(tl, c.got, c.token, IF r.token # 0 THEN r.token ELSE c.start)

PagesKept ==
    /\ \A h \in Handle : ReaderOK(timeline, reader[h])
    /\ \A t \in Task : call[t].op = "getMessages" =>
          PagesCall(timeline, call[t], reader[call[t].by])
    /\ \A t, u \in Task : /\ call[t].op = "getMessages" /\ call[u].op = "getMessages"
                          /\ call[t].by = call[u].by
                          => t = u

----------------------------------------------------------------------------
(* Polls: the responses counted so far are those between the one read last *)
(* and the newest there was at the first, and the end is the one there was *)
(* when the call began.                                                    *)

Votes(tl, p, u, ended, lo, hi) ==
    {i \in Client!Related(tl, "pollResponse", p) :
       /\ lo <= i /\ i <= hi /\ tl[i].sender = u
       /\ ended # 0 => tl[i].ts <= ended}

IsLast(i, set) == IF set = {} THEN i = 0 ELSE i \in set /\ \A j \in set : j <= i

Ends(tl, p, hi) == {i \in Client!Related(tl, "pollEnd", p) : i <= hi}

EndsAt(tl, p, hi, ended) ==
    IF Ends(tl, p, hi) = {} THEN ended = 0
    ELSE \E e \in Ends(tl, p, hi) : ended = tl[e].ts /\ \A d \in Ends(tl, p, hi) : d <= e

Counted(tl, best, p, ended, lo, hi) ==
    \A u \in Handle : IsLast(best[u], Votes(tl, p, u, ended, lo, hi))

TallyCall(tl, c) ==
    /\ c.token = 0 => c.best = NoBest
    /\ c.todo[1].kind = "ends" => c.token = 0
    /\ c.todo[1].kind = "responses" =>
          /\ c.start <= Len(tl) /\ EndsAt(tl, c.of, c.start, c.ended)
          /\ c.token # 0 => /\ c.start <= c.upto /\ c.upto <= Len(tl) /\ c.token <= c.upto
                            /\ Counted(tl, c.best, c.of, c.ended, c.token, c.upto)

\* A tally of the poll that was told.
Tallied(tl, p) ==
    p.quiet => /\ p.upto \in Nat /\ p.upto <= Len(tl)
               /\ EndsAt(tl, p.poll, p.upto, p.ended)
               /\ Counted(tl, p.best, p.poll, p.ended, 0, p.upto)

TallyKept ==
    /\ \A t \in Task : call[t].op = "getPollResponses" => TallyCall(timeline, call[t])
    /\ Tallied(timeline, polled)

----------------------------------------------------------------------------
(* Unread marks: a call that is alone knows whether the room is marked.    *)

MarkCall(t, h) == call[t].op \in Marking /\ call[t].by = h

MarksKept ==
    /\ \A h \in Handle : receipt[h] <= Len(timeline) /\ view[h] <= Len(timeline)
    /\ \A t \in Task : call[t].op \in Marking =>
          /\ call[t].alone => flag[call[t].by] = (call[t].by \in marked)
          /\ call[t].todo[1].kind \in {"receipt", "unmark"} => call[t].of <= receipt[call[t].by]
          /\ call[t].of <= Len(timeline)
    /\ \A t, u \in Task : /\ call[t].op \in Marking /\ call[u].op \in Marking
                          /\ call[t].by = call[u].by /\ call[t].alone
                          => t = u
    /\ \A h \in Handle : asked[h].what # "nothing" =>
          /\ \A t \in Task : ~MarkCall(t, h)
          /\ asked[h].what = "unread" => h \in marked
          /\ asked[h].what = "read" => h \notin marked /\ asked[h].upto <= receipt[h]

----------------------------------------------------------------------------
(* Pins: until two calls overlap, a call writes what the server has with   *)
(* its message flipped.                                                    *)

PinsKept ==
    ~raced => /\ pins = wanted
              /\ \A t \in Task : /\ call[t].op = "pinUnpinMessage"
                                 /\ call[t].todo[1].kind = "writePins"
                                 => call[t].todo[1].pins = Flip(pins, call[t].of)
              /\ \A t, u \in Task : /\ call[t].op = "pinUnpinMessage"
                                    /\ call[u].op = "pinUnpinMessage"
                                    => t = u

----------------------------------------------------------------------------
(* Reactions: a handle has at most one standing reaction to a message, and *)
(* the redactions on their way take back different ones.                   *)

Stands(tl, i) == /\ i \in DOMAIN tl /\ tl[i].type = "reaction"
                 /\ ~Client!Redacted(tl, DOMAIN tl, i)

\* A redaction is of an event before it, and of a reaction by who reacted.
Tidy(tl) ==
    /\ \A i \in DOMAIN tl : tl[i].type = "redaction" =>
          /\ tl[i].of \in DOMAIN tl
          /\ tl[tl[i].of].type = "reaction" => tl[tl[i].of].sender = tl[i].sender
    /\ \A i, j \in DOMAIN tl :
          Stands(tl, i) /\ Stands(tl, j) /\ tl[i].of = tl[j].of /\ tl[i].sender = tl[j].sender
             => i = j

\* The call takes back a reaction, the target, or one that is being sent.
Undoes(c) == /\ c.op = "toggleReaction" /\ c.todo[1].event.type = "redaction"
             /\ c.todo[1].after = {}
Target(c) == c.todo[1].event.of
Held(c)   == c.op = "toggleReaction" /\ c.todo[1].after # {}
Reacts(c) == c.op = "toggleReaction" /\ c.todo[1].event.type = "reaction"

TakesBack(tl, c) ==
    /\ c.op = "deleteMessage" => c.of \in DOMAIN tl /\ tl[c.of].type # "reaction"
    /\ Undoes(c) => /\ Stands(tl, Target(c)) /\ tl[Target(c)].sender = c.by
                    /\ tl[Target(c)].of = c.of

Odd(tl, tg, sp) == \A h \in Handle, m \in Nat :
    <<h, m>> \notin sp => (Client!Annotated(tl, h, m) <=> <<h, m>> \in tg)

ReactionsKept ==
    /\ Tidy(timeline) /\ Odd(timeline, toggled, spoiled)
    /\ \A t \in Task : TakesBack(timeline, call[t])
    /\ \A t, u \in Task :
          Undoes(call[t]) /\ Undoes(call[u]) /\ Target(call[t]) = Target(call[u]) => t = u

\* A redaction that is held waits for a reaction of the same handle to the
\* same message, and no other waits for it.
EchoesKept ==
    /\ \A u \in Task : Held(call[u]) =>
          \E t \in Task : /\ call[u].todo[1].after = {t} /\ Reacts(call[t])
                          /\ call[t].by = call[u].by /\ call[t].of = call[u].of
    /\ \A u, v \in Task : /\ Held(call[u]) /\ Held(call[v])
                          /\ call[u].todo[1].after = call[v].todo[1].after
                          => u = v

Inv == /\ Base /\ ListenersAgree /\ PagesKept /\ TallyKept /\ MarksKept /\ PinsKept
       /\ ReactionsKept /\ EchoesKept

----------------------------------------------------------------------------
(* Events and requests.                                                    *)

\* Stamping an event leaves what it is about.
LEMMA StampedEvent ==
    ASSUME NEW e \in Client!Event, NEW n \in Nat
    PROVE  /\ Client!Stamped(e, n) \in Client!Event
           /\ Client!Stamped(e, n).type = e.type /\ Client!Stamped(e, n).sender = e.sender
           /\ Client!Stamped(e, n).of = e.of
           /\ e.type \in {"reaction", "redaction"} => Client!Stamped(e, n).txn = e.txn
BY DEF Client!Stamped, Client!Event, Client!Poll

\* Stamping the first request leaves what the requests are.
LEMMA StampGood ==
    ASSUME now \in Nat, NEW op, NEW h, NEW of, NEW todo \in Seq(Good(op, h)), todo # <<>>
    PROVE  /\ Stamp(todo) \in Seq(Good(op, h)) /\ Stamp(todo) # <<>>
           /\ Len(Stamp(todo)) = Len(todo)
           /\ Stamp(todo)[1].kind = todo[1].kind /\ Stamp(todo)[1].pins = todo[1].pins
           /\ Stamp(todo)[1].after = todo[1].after
           /\ Stamp(todo)[1].event.type = todo[1].event.type
           /\ Stamp(todo)[1].event.of = todo[1].event.of
           /\ Exact(op, of, todo) => Exact(op, of, Stamp(todo))
<1> DEFINE r == todo[1]
           e == Client!Stamped(r.event, now)
           q == [r EXCEPT !.event = e]
           s == [todo EXCEPT ![1] = q]
<1>1. Len(todo) \in Nat /\ Len(todo) >= 1 /\ todo \in [1 .. Len(todo) -> Good(op, h)]
  BY LenProperties, EmptySeq
<1>2. r \in Good(op, h) /\ r \in Reqs /\ r.event \in Client!Event
  BY <1>1 DEF Good, Reqs
<1>3. /\ e \in Client!Event /\ e.type = r.event.type /\ e.sender = r.event.sender
      /\ e.of = r.event.of
      /\ r.event.type \in {"reaction", "redaction"} => e.txn = r.event.txn
  BY <1>2, StampedEvent
<1> HIDE DEF e
<1>4. q.kind = r.kind /\ q.pins = r.pins /\ q.after = r.after /\ q.event = e /\ q \in Reqs
  BY <1>2, <1>3 DEF Reqs
<1> HIDE DEF q
<1>5. q \in Good(op, h)
  BY <1>2, <1>3, <1>4 DEF Good
<1>6. Stamp(todo) = s
  BY <1>1, <1>2 DEF Stamp, q, e
<1>7. /\ s \in Seq(Good(op, h)) /\ Len(s) = Len(todo)
      /\ \A j \in 1 .. Len(todo) : s[j] = IF j = 1 THEN q ELSE todo[j]
  BY <1>1, <1>5, ExceptSeq
<1> HIDE DEF s
<1>8. \A i \in 1 .. Len(todo) : /\ s[i].kind = todo[i].kind /\ s[i].pins = todo[i].pins
                                /\ s[i].after = todo[i].after
                                /\ s[i].event.type = todo[i].event.type
                                /\ s[i].event.of = todo[i].event.of
  BY <1>3, <1>4, <1>7
<1>9. s # <<>>
  BY <1>1, <1>7, EmptySeq
<1>10. Exact(op, of, todo) => Exact(op, of, s)
  BY <1>1, <1>7, <1>8 DEF Exact
<1> QED
  BY <1>1, <1>6, <1>7, <1>8, <1>9, <1>10

\* The same of a list that has been stamped already.
LEMMA StampedGood ==
    ASSUME now \in Nat, NEW op, NEW h, NEW of, NEW todo \in Seq(Good(op, h)), todo # <<>>,
           Exact(op, of, todo), NEW s, s = Stamp(todo)
    PROVE  s \in Seq(Good(op, h)) /\ s # <<>> /\ Exact(op, of, s)
BY StampGood

\* The next request of a call, and those after it.
LEMMA NextRequest ==
    ASSUME Base, NEW t \in Task, call[t].op # "none"
    PROVE  /\ call[t].todo \in Seq(Good(call[t].op, call[t].by)) /\ call[t].todo # <<>>
           /\ Request(t) \in Good(call[t].op, call[t].by) /\ Request(t) \in Reqs
           /\ Request(t).event \in Client!Event /\ Len(call[t].todo) \in Nat \ {0}
           /\ Rest(t) \in Seq(Good(call[t].op, call[t].by))
           /\ Len(Rest(t)) = Len(call[t].todo) - 1
           /\ \A i \in 1 .. Len(Rest(t)) : Rest(t)[i] = call[t].todo[i + 1]
           /\ Exact(call[t].op, call[t].of, call[t].todo)
<1>1. /\ call[t].todo \in Seq(Good(call[t].op, call[t].by)) /\ call[t].todo # <<>>
      /\ Exact(call[t].op, call[t].of, call[t].todo)
  BY DEF Base, Shape
<1>2. /\ Rest(t) \in Seq(Good(call[t].op, call[t].by))
      /\ Len(Rest(t)) = Len(call[t].todo) - 1
      /\ \A i \in 1 .. Len(Rest(t)) : Rest(t)[i] = call[t].todo[i + 1]
  BY <1>1, HeadTailProperties DEF Rest
<1>3. Len(call[t].todo) \in Nat \ {0}
  BY <1>1, EmptySeq
<1>4. Request(t) \in Good(call[t].op, call[t].by)
  BY <1>1, <1>3, ElementOfSeq DEF Request
<1> QED
  BY <1>1, <1>2, <1>3, <1>4 DEF Good, Reqs

----------------------------------------------------------------------------
(* What a step leaves as it was.                                           *)

\* tm is the timeline tl, perhaps with events after it.
Longer(tl, tm) == /\ tm \in Seq(Client!Event) /\ Len(tl) <= Len(tm)
                  /\ \A i \in 1 .. Len(tl) : tm[i] = tl[i]

\* The calls c and d differ in whether they are alone at most.
Alike(c, d) ==
    /\ d.op = c.op /\ d.by = c.by /\ d.todo = c.todo /\ d.of = c.of /\ d.token = c.token
    /\ d.start = c.start /\ d.upto = c.upto /\ d.got = c.got /\ d.ended = c.ended
    /\ d.best = c.best /\ (d.alone => c.alone)

\* No call of these operations has moved on or begun.
Still(set) == \A u \in Task : call'[u].op \in set => Alike(call[u], call'[u])

\* The server adds at most one event to the timeline.
LEMMA Appended ==
    ASSUME NEW tl \in Seq(Client!Event), NEW e \in Client!Event
    PROVE  /\ Longer(tl, tl) /\ Longer(tl, Append(tl, e))
           /\ Len(Append(tl, e)) = Len(tl) + 1 /\ Append(tl, e)[Len(tl) + 1] = e
BY AppendProperties, LenProperties DEF Longer

\* The pages read from a timeline do not change when it grows.
LEMMA PagesLonger ==
    ASSUME NEW tl \in Seq(Client!Event), NEW tm, Longer(tl, tm)
    PROVE  /\ \A set : \A lo, hi \in Nat :
                 hi <= Len(tl) /\ Covers(tl, set, lo, hi) => Covers(tm, set, lo, hi)
           /\ \A r \in Pages : ReaderOK(tl, r) => ReaderOK(tm, r)
           /\ \A c \in CallType, r \in Pages :
                 ReaderOK(tl, r) /\ PagesCall(tl, c, r) => PagesCall(tm, c, r)
<1>1. Len(tl) \in Nat /\ Len(tm) \in Nat
  BY LenProperties DEF Longer
<1>2. ASSUME NEW set, NEW lo \in Nat, NEW hi \in Nat, hi <= Len(tl), Covers(tl, set, lo, hi)
      PROVE  Covers(tm, set, lo, hi)
  <2>1. \A i \in (lo + 1)..hi : tm[i] = tl[i]
    BY <1>1, <1>2 DEF Longer
  <2>2. Due(tm, lo, hi) = Due(tl, lo, hi)
    BY <2>1 DEF Due
  <2> QED
    BY <1>2, <2>2 DEF Covers
<1>3. ASSUME NEW r \in Pages, ReaderOK(tl, r) PROVE ReaderOK(tm, r)
  BY <1>1, <1>2, <1>3 DEF ReaderOK, Pages, Longer
<1>4. ASSUME NEW c \in CallType, NEW r \in Pages, ReaderOK(tl, r), PagesCall(tl, c, r)
      PROVE  PagesCall(tm, c, r)
  <2> DEFINE hi == IF r.token # 0 THEN r.token ELSE c.start
  <2>1. /\ c.token \in Nat /\ c.start \in Nat /\ r.token \in Nat /\ r.start \in Nat
    BY DEF CallType, Pages
  <2>2. CASE c.token = 0
    BY <1>4, <2>2 DEF PagesCall
  <2>3. CASE c.token # 0
    <3>1. hi \in Nat /\ hi <= Len(tl)
      BY <1>1, <1>4, <2>1, <2>3 DEF PagesCall, ReaderOK
    <3>2. Covers(tl, c.got, c.token, hi)
      BY <1>4, <2>3 DEF PagesCall
    <3>3. Covers(tm, c.got, c.token, hi)
      BY <1>2, <2>1, <3>1, <3>2
    <3> QED
      BY <1>1, <1>4, <2>1, <2>3, <3>3 DEF PagesCall, Longer
  <2> QED
    BY <2>2, <2>3
<1> QED
  BY <1>2, <1>3, <1>4

\* Nor do the tallies.
LEMMA TallyLonger ==
    ASSUME NEW tl \in Seq(Client!Event), NEW tm, Longer(tl, tm)
    PROVE  /\ \A p, ended : \A hi \in Nat : hi <= Len(tl) =>
                 (EndsAt(tl, p, hi, ended) <=> EndsAt(tm, p, hi, ended))
           /\ \A best, p, ended : \A lo, hi \in Nat : hi <= Len(tl) =>
                 (Counted(tl, best, p, ended, lo, hi) <=> Counted(tm, best, p, ended, lo, hi))
           /\ \A c \in CallType : TallyCall(tl, c) => TallyCall(tm, c)
           /\ \A p : Tallied(tl, p) => Tallied(tm, p)
<1>1. Len(tl) \in Nat /\ Len(tm) \in Nat /\ DOMAIN tl = 1 .. Len(tl) /\ DOMAIN tm = 1 .. Len(tm)
  BY LenProperties DEF Longer
<1>2. ASSUME NEW p, NEW hi \in Nat, hi <= Len(tl)
      PROVE  /\ Ends(tl, p, hi) = Ends(tm, p, hi)
             /\ \A u, ended : \A lo \in Nat :
                   Votes(tl, p, u, ended, lo, hi) = Votes(tm, p, u, ended, lo, hi)
             /\ \A e \in Ends(tl, p, hi) : tm[e] = tl[e]
  <2>1. \A i \in 1 .. Len(tm) : i <= hi => i \in 1 .. Len(tl) /\ tm[i] = tl[i]
    BY <1>1, <1>2 DEF Longer
  <2>2. \A i \in 1 .. Len(tl) : i \in 1 .. Len(tm)
    BY <1>1 DEF Longer
  <2> QED
    BY <1>1, <2>1, <2>2 DEF Ends, Votes, Client!Related
<1>3. ASSUME NEW p, NEW ended, NEW hi \in Nat, hi <= Len(tl)
      PROVE  EndsAt(tl, p, hi, ended) <=> EndsAt(tm, p, hi, ended)
  BY <1>2, <1>3 DEF EndsAt
<1>4. ASSUME NEW best, NEW p, NEW ended, NEW lo \in Nat, NEW hi \in Nat, hi <= Len(tl)
      PROVE  Counted(tl, best, p, ended, lo, hi) <=> Counted(tm, best, p, ended, lo, hi)
  BY <1>2, <1>4 DEF Counted
<1>5. ASSUME NEW c \in CallType, TallyCall(tl, c) PROVE TallyCall(tm, c)
  <2>1. c.start \in Nat /\ c.upto \in Nat /\ c.token \in Nat
    BY DEF CallType
  <2> QED
    BY <1>1, <1>3, <1>4, <1>5, <2>1 DEF TallyCall, Longer
<1>6. ASSUME NEW p, Tallied(tl, p) PROVE Tallied(tm, p)
  <2>1. 0 \in Nat
    OBVIOUS
  <2> QED
    BY <1>1, <1>3, <1>4, <1>6, <2>1 DEF Tallied, Longer
<1> QED
  BY <1>3, <1>4, <1>5, <1>6

\* A set of events has a last one.
LEMMA LastOne ==
    ASSUME NEW n \in Nat, NEW S \in SUBSET (0 .. n), S # {}
    PROVE  \E i \in S : \A j \in S : j <= i
<1> DEFINE R == StrictSubsetOrdering(S)
           Above(i) == {j \in S : i < j}
           T == {Above(i) : i \in S}
<1>1. IsFiniteSet(S) /\ S \subseteq Int
  <2>1. IsFiniteSet(0 .. n)
    BY FS_Interval
  <2>2. IsFiniteSet(S)
    BY <2>1, FS_Subset
  <2>3. \A j \in S : j \in Int
    OBVIOUS
  <2> QED
    BY <2>2, <2>3
<1>2. T \subseteq FiniteSubsetsOf(S) /\ T # {}
  <2>1. \A i \in S : Above(i) \in SUBSET S /\ IsFiniteSet(Above(i))
    BY <1>1, FS_Subset
  <2> QED
    BY <2>1 DEF FiniteSubsetsOf
<1>3. IsWellFoundedOn(R, FiniteSubsetsOf(S))
  BY FS_StrictSubsetOrderingWellFounded
<1> HIDE DEF T, R
<1>4. PICK x \in T : \A y \in T : ~(<<y, x>> \in R)
  BY <1>2, <1>3, WFMin
<1>5. PICK i \in S : x = Above(i)
  BY DEF T
<1>6. ASSUME NEW j \in S, i < j PROVE FALSE
  <2>1. Above(j) \subseteq Above(i) /\ j \in Above(i) /\ j \notin Above(j)
    <3>1. \A k \in S : j < k => i < k
      BY <1>1, <1>6
    <3>2. j \in Int /\ ~(j < j)
      BY <1>1
    <3> QED
      BY <1>6, <3>1, <3>2
  <2>2. Above(j) \in T /\ Above(j) \in SUBSET S /\ Above(i) \in SUBSET S
    BY DEF T
  <2>3. <<Above(j), Above(i)>> \in R
    <3> HIDE DEF Above
    <3> QED
      BY <2>1, <2>2 DEF R, StrictSubsetOrdering
  <2> QED
    BY <1>4, <1>5, <2>2, <2>3
<1> QED
  BY <1>1, <1>6

\* getPollResponses takes the newest end there is.
LEMMA PollEnd ==
    ASSUME NEW tl \in Seq(Client!Event), NEW p
    PROVE  /\ EndsAt(tl, p, Len(tl), Client!PollEndTimestamp(tl, p))
           /\ Client!PollEndTimestamp(tl, p) \in Nat
<1> DEFINE ends == Client!Related(tl, "pollEnd", p)
<1>1. /\ Len(tl) \in Nat /\ DOMAIN tl = 1 .. Len(tl)
      /\ \A i \in DOMAIN tl : tl[i] \in Client!Event /\ tl[i].ts \in Nat
  <2>1. Len(tl) \in Nat /\ DOMAIN tl = 1 .. Len(tl) /\ tl \in [1 .. Len(tl) -> Client!Event]
    BY LenProperties
  <2> QED
    BY <2>1 DEF Client!Event
<1>2. Ends(tl, p, Len(tl)) = ends
  BY <1>1 DEF Ends, Client!Related
<1>3. ends \subseteq 0 .. Len(tl) /\ ends \subseteq DOMAIN tl
  BY <1>1 DEF Client!Related
<1>4. CASE ends = {}
  BY <1>2, <1>4 DEF EndsAt, Client!PollEndTimestamp
<1>5. CASE ends # {}
  <2> DEFINE e == CHOOSE i \in ends : \A j \in ends : j <= i
  <2> HIDE DEF ends
  <2>1. e \in ends /\ \A j \in ends : j <= e
    <3>1. \E i \in ends : \A j \in ends : j <= i
      BY <1>1, <1>3, <1>5, LastOne
    <3> QED
      BY <3>1
  <2>2. Client!PollEndTimestamp(tl, p) = tl[e].ts
    BY <1>5 DEF Client!PollEndTimestamp, ends
  <2> HIDE DEF e
  <2> QED
    BY <1>1, <1>2, <1>3, <1>5, <2>1, <2>2 DEF EndsAt
<1> QED
  BY <1>4, <1>5

----------------------------------------------------------------------------
(* Base is kept.                                                           *)

\* The call t, and it alone, moved on or ended.
Moved(t) == /\ call[t].op # "none" /\ call'[t].op \in {call[t].op, "none"}
            /\ \A u \in Task : u # t => call'[u] = call[u]

\* The redaction that u holds is sent, of the event i.
Freed(u, i) ==
    call'[u] = [call[u] EXCEPT !.todo = <<Sending(Client!deleteMessage(call[u].by, i))>>]

\* The call t ended, and the redactions that were held behind it went on or
\* ended with it.
Settled(t) ==
    /\ call[t].op # "none" /\ call'[t] = NoCall
    /\ \A u \in Task : u # t =>
          \/ call'[u] = call[u]
          \/ /\ u \in Behind(t) /\ call[u].op = "toggleReaction"
             /\ call'[u] = NoCall \/ Freed(u, Len(timeline) + 1)

CallsBase == call \in [Task -> CallType] /\ \A t \in Task : Shape(call[t])

\* No call.
LEMMA NoCallType ==
    NoEvent \in Client!Event /\ NoCall \in CallType /\ Shape(NoCall) /\ NoCall.op = "none"
<1>1. Creator \in Handle
  BY MessagingAssumption
<1>2. Client!Nobody \in Client!Mentions
  BY DEF Client!Nobody, Client!handleMentions, Client!Mentions
<1>3. NoEvent \in Client!Event
  BY <1>1, <1>2 DEF NoEvent, Client!Bare, Client!NewEvent, Client!Event, Client!Type,
     Client!Relation, Client!Poll
<1>4. <<>> \in Seq(Reqs)
  BY EmptySeq
<1>5. NoBest \in [Handle -> Nat]
  BY DEF NoBest
<1>6. NoCall \in CallType
  <2>1. {} \in FiniteSubsetsOf(Nat)
    BY FS_EmptySet DEF FiniteSubsetsOf
  <2> QED
    BY <1>1, <1>4, <1>5, <2>1 DEF NoCall, CallType, Operation
<1>7. NoCall.op = "none"
  BY DEF NoCall
<1> QED
  BY <1>3, <1>6, <1>7 DEF Shape

\* One call changes.
LEMMA CallChanged ==
    ASSUME Base, NEW t \in Task, NEW c \in CallType, Shape(c), call' = [call EXCEPT ![t] = c]
    PROVE  CallsBase' /\ \A u \in Task : call'[u] = IF u = t THEN c ELSE call[u]
BY DEF Base, Types, CallsBase

\* A call ends.
LEMMA FinishStep ==
    ASSUME Base, NEW t \in Task, call[t].op # "none", Finish(t)
    PROVE  CallsBase' /\ Moved(t) /\ call'[t] = NoCall
<1>1. CallsBase' /\ \A u \in Task : call'[u] = IF u = t THEN NoCall ELSE call[u]
  BY NoCallType, CallChanged DEF Finish
<1> QED
  BY <1>1, NoCallType DEF Moved

\* A call goes on, or ends.
LEMMA GoOnStep ==
    ASSUME Base, NEW t \in Task, call[t].op # "none",
           NEW todo \in Seq(Good(call[t].op, call[t].by)),
           todo # <<>> => Exact(call[t].op, call[t].of, todo), GoOn(t, todo)
    PROVE  /\ CallsBase' /\ Moved(t)
           /\ todo = <<>> => call'[t] = NoCall
           /\ todo # <<>> => call'[t] = [call[t] EXCEPT !.todo = Stamp(todo)]
<1>1. CASE todo = <<>>
  BY <1>1, FinishStep DEF GoOn
<1>2. CASE todo # <<>>
  <2> DEFINE s == Stamp(todo)
             c == [call[t] EXCEPT !.todo = s]
  <2>1. call[t] \in CallType /\ call \in [Task -> CallType] /\ now \in Nat
    BY DEF Base, Types
  <2>2. s \in Seq(Good(call[t].op, call[t].by)) /\ s # <<>> /\ Exact(call[t].op, call[t].of, s)
    <3> DEFINE op == call[t].op
               of == call[t].of
               by == call[t].by
    <3>1. now \in Nat /\ todo \in Seq(Good(op, by)) /\ todo # <<>> /\ Exact(op, of, todo)
      BY <1>2, <2>1
    <3> HIDE DEF op, of, by
    <3>2. s = Stamp(todo)
      OBVIOUS
    <3> HIDE DEF s
    <3>3. s \in Seq(Good(op, by)) /\ s # <<>> /\ Exact(op, of, s)
      BY <3>1, <3>2, StampedGood
    <3> QED
      BY <3>3 DEF op, of, by
  <2>3. s \in Seq(Reqs)
    BY <2>2, SeqMonotonic DEF Good
  <2>4. call' = [call EXCEPT ![t] = c]
    BY <1>2, <2>1 DEF GoOn
  <2> HIDE DEF s
  <2>5. c \in CallType /\ c.todo = s /\ c.op = call[t].op /\ c.by = call[t].by /\ c.of = call[t].of
    BY <2>1, <2>3 DEF CallType
  <2>6. Shape(c)
    BY <2>2, <2>5 DEF Shape
  <2> HIDE DEF c
  <2>7. CallsBase' /\ \A u \in Task : call'[u] = IF u = t THEN c ELSE call[u]
    BY <2>4, <2>5, <2>6, CallChanged
  <2>8. Moved(t)
    BY <2>5, <2>7 DEF Moved
  <2> QED
    BY <1>2, <2>7, <2>8 DEF c, s
<1> QED
  BY <1>1, <1>2

\* Only redactions that are held are behind a call.
LEMMA BehindHeld ==
    ASSUME Base, NEW t \in Task, NEW u \in Task
    PROVE  /\ u \in Behind(t) <=> Held(call[u]) /\ t \in call[u].todo[1].after
           /\ Held(call[u]) => call[u].todo[1].event.type = "redaction"
<1>1. ASSUME call[u].op # "none"
      PROVE  call[u].todo[1].after # {} =>
                call[u].op = "toggleReaction" /\ call[u].todo[1].event.type = "redaction"
  <2>1. Request(u) \in Good(call[u].op, call[u].by)
    BY <1>1, NextRequest
  <2> QED
    BY <2>1 DEF Good, Request
<1> QED
  BY <1>1 DEF Behind, Held

\* A call throws, and with it the redaction held behind it.
LEMMA ThrowStep ==
    ASSUME Base, NEW t \in Task, call[t].op # "none", Throw(t)
    PROVE  /\ CallsBase' /\ Settled(t) /\ call'[t] = NoCall
           /\ \A u \in Task : u # t => call'[u] = IF u \in Behind(t) THEN NoCall ELSE call[u]
<1>1. call \in [Task -> CallType] /\ \A u \in Task : Shape(call[u])
  BY DEF Base, Types
<1>2. call' = [u \in Task |-> IF u = t \/ u \in Behind(t) THEN NoCall ELSE call[u]]
  BY DEF Throw
<1>3. CallsBase'
  BY <1>1, <1>2, NoCallType DEF CallsBase
<1>4. \A u \in Behind(t) : call[u].op = "toggleReaction"
  BY BehindHeld DEF Behind, Held
<1> QED
  BY <1>2, <1>3, <1>4 DEF Settled

\* A call that is no longer alone.
LEMMA Joined ==
    ASSUME NEW c \in CallType
    PROVE  LET d == [c EXCEPT !.alone = FALSE] IN d \in CallType /\ Alike(c, d) /\ ~d.alone
BY DEF CallType, Alike

\* The call t of op by h has begun.
Began(t, h, op, of) ==
    /\ call[t].op = "none" /\ op \in ops
    /\ call'[t].op = op /\ call'[t].by = h /\ call'[t].of = of
    /\ call'[t].token = (IF op = "getMessages" THEN reader[h].token ELSE 0)
    /\ call'[t].start = (IF op = "getMessages" THEN reader[h].start ELSE 0)
    /\ call'[t].got = {} /\ call'[t].best = NoBest
    /\ call'[t].alone => Rivals(op, h) = {} /\ flag[h] = (h \in marked)
    /\ \A u \in Task : u # t => /\ Alike(call[u], call'[u])
                                /\ u \in Rivals(op, h) => ~call'[u].alone

\* A call begins with the requests of its operation.
LEMMA BeginStep ==
    ASSUME Base, NEW t \in Task, NEW h \in Handle, NEW op \in Operation, op # "none",
           NEW of \in Nat, NEW todo \in Seq(Good(op, h)), todo # <<>>,
           Exact(op, of, todo), Begin(t, h, op, of, todo)
    PROVE  /\ Base' /\ Began(t, h, op, of) /\ timeline' = timeline
           /\ call'[t].todo = Stamp(todo) /\ call'[t].todo # <<>>
<1> DEFINE s == Stamp(todo)
           tk == IF op = "getMessages" THEN reader[h].token ELSE 0
           st == IF op = "getMessages" THEN reader[h].start ELSE 0
           al == Rivals(op, h) = {} /\ flag[h] = (h \in marked)
           c  == [NoCall EXCEPT !.op = op, !.by = h, !.of = of, !.todo = s,
                                !.token = tk, !.start = st, !.alone = al]
           x(u) == CASE u = t -> c
                     [] u # t /\ u \in Rivals(op, h) -> [call[u] EXCEPT !.alone = FALSE]
                     [] OTHER -> call[u]
<1>1. Types /\ Ordered /\ call \in [Task -> CallType] /\ now \in Nat /\ NoCall \in CallType
  BY NoCallType DEF Base, Types
<1>2. s \in Seq(Good(op, h)) /\ s # <<>> /\ Exact(op, of, s)
  BY <1>1, StampGood
<1>3. s \in Seq(Reqs)
  BY <1>2, SeqMonotonic DEF Good
<1>4. tk \in Nat /\ st \in Nat /\ al \in BOOLEAN
  <2>1. reader[h] \in Pages
    BY <1>1 DEF Types
  <2> QED
    BY <2>1 DEF Pages
<1>5. call' = [u \in Task |-> x(u)] /\ call[t].op = "none" /\ op \in ops
  BY DEF Begin
<1> HIDE DEF s, tk, st, al
<1>6. /\ c \in CallType /\ c.op = op /\ c.by = h /\ c.of = of /\ c.todo = s /\ c.token = tk
      /\ c.start = st /\ c.alone = al /\ c.got = {} /\ c.best = NoBest
  BY <1>1, <1>3, <1>4 DEF CallType, NoCall
<1>7. Shape(c)
  BY <1>2, <1>6 DEF Shape
<1> HIDE DEF c
<1>8. call'[t] = c
  BY <1>5
<1>9. ASSUME NEW u \in Task, u # t
      PROVE  /\ call'[u] \in CallType /\ Alike(call[u], call'[u]) /\ Shape(call'[u])
             /\ u \in Rivals(op, h) => ~call'[u].alone
  <2>1. call[u] \in CallType /\ Shape(call[u])
    BY <1>1 DEF Base
  <2>2. CASE u \in Rivals(op, h)
    <3>1. call'[u] = [call[u] EXCEPT !.alone = FALSE]
      BY <1>5, <1>9, <2>2
    <3>2. call'[u] \in CallType /\ Alike(call[u], call'[u]) /\ ~call'[u].alone
      BY <2>1, <3>1, Joined
    <3> QED
      BY <2>1, <3>2 DEF Shape, Alike
  <2>3. CASE u \notin Rivals(op, h)
    BY <1>5, <1>9, <2>1, <2>3 DEF Alike
  <2> QED
    BY <2>2, <2>3
<1>10. call' \in [Task -> CallType] /\ \A u \in Task : Shape(call'[u])
  <2>1. \A u \in Task : call'[u] \in CallType /\ Shape(call'[u])
    BY <1>6, <1>7, <1>8, <1>9
  <2> QED
    BY <1>5, <2>1
<1>11. UNCHANGED <<timeline, now, pins, receipt, view, flag, reader>>
  BY DEF Begin, server, client
<1>12. asked' \in [Handle -> [what : {"nothing", "read", "unread"}, upto : Nat]]
  BY <1>1 DEF Begin, Types
<1>13. Types'
  BY <1>1, <1>10, <1>11, <1>12 DEF Types
<1>14. Ordered'
  BY <1>1, <1>11 DEF Ordered
<1>15. Base'
  BY <1>10, <1>13, <1>14 DEF Base
<1>16. Began(t, h, op, of)
  BY <1>5, <1>6, <1>8, <1>9 DEF Began, tk, st, al
<1> QED
  BY <1>2, <1>6, <1>8, <1>11, <1>15, <1>16 DEF s

\* Events as they are made.
LEMMA NewEvents ==
    ASSUME NEW h \in Handle, NEW of \in Nat
    PROVE  /\ \A type \in Client!Type, rel \in Client!Relation :
                 /\ Client!Bare(h, type, rel, of) \in Client!Event
                 /\ Client!Bare(h, type, rel, of).type = type
                 /\ Client!Bare(h, type, rel, of).sender = h
                 /\ Client!Bare(h, type, rel, of).of = of
                 /\ Client!Bare(h, type, rel, of).txn = 0
           /\ \A ms, rel : rel \in Client!Relation =>
                 \A c \in {Text(ms), Client!handleFile(ms)} :
                    /\ Client!NewEvent(h, c, rel, of) \in Client!Event
                    /\ Client!NewEvent(h, c, rel, of).type \in {"message", "media"}
                    /\ Client!NewEvent(h, c, rel, of).sender = h
<1>1. \A ms : Client!handleMentions(ms) \in Client!Mentions
  BY DEF Client!handleMentions, Client!Mentions
<1>2. ASSUME NEW type \in Client!Type, NEW rel \in Client!Relation, NEW m \in Client!Mentions
      PROVE  LET e == Client!NewEvent(h, [type |-> type, mentions |-> m], rel, of)
             IN  e \in Client!Event /\ e.type = type /\ e.sender = h /\ e.of = of /\ e.txn = 0
  BY DEF Client!NewEvent, Client!Event
<1>3. ASSUME NEW type \in Client!Type, NEW rel \in Client!Relation
      PROVE  LET e == Client!Bare(h, type, rel, of)
             IN  e \in Client!Event /\ e.type = type /\ e.sender = h /\ e.of = of /\ e.txn = 0
  BY <1>1, <1>2 DEF Client!Bare, Client!Nobody
<1>4. "message" \in Client!Type /\ "media" \in Client!Type
  BY DEF Client!Type
<1>5. ASSUME NEW ms, NEW rel \in Client!Relation
      PROVE  \A c \in {Text(ms), Client!handleFile(ms)} :
                LET e == Client!NewEvent(h, c, rel, of)
                IN  /\ e \in Client!Event /\ e.type \in {"message", "media"} /\ e.sender = h
  BY <1>1, <1>2, <1>4 DEF Text, Client!buildMessageContent, Client!handleFile
<1> QED
  BY <1>3, <1>5

\* Requests of the kinds an operation makes.
LEMMA GoodRequests ==
    ASSUME NEW op, NEW h
    PROVE  /\ \A k \in Kind :
                 /\ Ask(k).kind = k /\ Ask(k).after = {}
                 /\ /\ k \in {"markers", "receipt", "unmark"} => op = "markAsRead"
                    /\ k = "mark" => op = "markAsUnread"
                    /\ k = "readPins" => op = "pinUnpinMessage"
                    /\ k = "page" => op = "getMessages"
                    /\ k \in {"ends", "responses"} => op = "getPollResponses"
                    /\ k \notin {"event", "writePins"}
                    => Ask(k) \in Good(op, h)
           /\ \A e \in Client!Event :
                 /\ Sending(e).kind = "event" /\ Sending(e).event = e
                 /\ Sending(e).after = {}
                 /\ /\ e.sender = h
                    /\ e.type \in {"reaction", "redaction"} =>
                          op \in {"toggleReaction", "deleteMessage"} /\ e.txn = 0
                    => Sending(e) \in Good(op, h)
           /\ \A set \in SUBSET Nat :
                 /\ Pinning(set).kind = "writePins" /\ Pinning(set).pins = set
                 /\ op = "pinUnpinMessage" => Pinning(set) \in Good(op, h)
<1>1. NoEvent \in Client!Event /\ NoEvent.type = "member"
  BY NoCallType DEF NoEvent, Client!Bare, Client!NewEvent
<1>2. \A k \in Kind : /\ Ask(k) \in Reqs /\ Ask(k).kind = k /\ Ask(k).event.type = "member"
                      /\ Ask(k).after = {}
  BY <1>1 DEF Ask, Reqs
<1>3. \A e \in Client!Event : /\ Sending(e) \in Reqs /\ Sending(e).kind = "event"
                              /\ Sending(e).event = e /\ Sending(e).after = {}
  BY <1>1 DEF Sending, Ask, Reqs, Kind
<1>4. \A set \in SUBSET Nat : /\ Pinning(set) \in Reqs /\ Pinning(set).kind = "writePins"
                              /\ Pinning(set).pins = set /\ Pinning(set).event = NoEvent
                              /\ Pinning(set).after = {}
  BY <1>1 DEF Pinning, Ask, Reqs, Kind
<1>5. \A k \in Kind :
         /\ k \in {"markers", "receipt", "unmark"} => op = "markAsRead"
         /\ k = "mark" => op = "markAsUnread"
         /\ k = "readPins" => op = "pinUnpinMessage"
         /\ k = "page" => op = "getMessages"
         /\ k \in {"ends", "responses"} => op = "getPollResponses"
         /\ k \notin {"event", "writePins"}
         => Ask(k) \in Good(op, h)
  BY <1>2 DEF Good
<1>6. \A e \in Client!Event :
         /\ e.sender = h
         /\ e.type \in {"reaction", "redaction"} =>
               op \in {"toggleReaction", "deleteMessage"} /\ e.txn = 0
         => Sending(e) \in Good(op, h)
  BY <1>3 DEF Good
<1>7. \A set \in SUBSET Nat : op = "pinUnpinMessage" => Pinning(set) \in Good(op, h)
  BY <1>1, <1>4 DEF Good
<1> QED
  BY <1>2, <1>3, <1>4, <1>5, <1>6, <1>7

\* Short sequences.
LEMMA Short ==
    ASSUME NEW S
    PROVE  /\ \A x \in S : /\ <<x>> \in Seq(S) /\ <<x>> # <<>>
                           /\ Len(<<x>>) = 1 /\ <<x>>[1] = x
           /\ \A x, y \in S : /\ <<x, y>> \in Seq(S) /\ <<x, y>> # <<>>
                              /\ Len(<<x, y>>) = 2 /\ <<x, y>>[1] = x /\ <<x, y>>[2] = y
OBVIOUS

\* The redaction of an event, as a request.
LEMMA Redacting ==
    ASSUME NEW h \in Handle, NEW i \in Nat
    PROVE  LET e == Client!deleteMessage(h, i)
               r == Sending(e)
           IN  /\ e \in Client!Event /\ e.type = "redaction" /\ e.sender = h /\ e.of = i
               /\ e.txn = 0 /\ r \in Good("toggleReaction", h) /\ r.kind = "event"
               /\ r.event = e /\ r.after = {}
<1> DEFINE e == Client!deleteMessage(h, i)
<1>1. /\ e \in Client!Event /\ e.type = "redaction" /\ e.sender = h /\ e.of = i /\ e.txn = 0
  BY NewEvents DEF Client!deleteMessage, Client!Type, Client!Relation
<1> HIDE DEF e
<1>2. /\ Sending(e) \in Good("toggleReaction", h) /\ Sending(e).kind = "event"
      /\ Sending(e).event = e /\ Sending(e).after = {}
  BY <1>1, GoodRequests
<1> QED
  BY <1>1, <1>2 DEF e

\* A redaction that was held goes on.
LEMMA FreedCall ==
    ASSUME Base, NEW u \in Task, call[u].op = "toggleReaction", NEW i \in Nat,
           call'[u] = [call[u] EXCEPT !.todo = <<Sending(Client!deleteMessage(call[u].by, i))>>]
    PROVE  /\ call'[u] \in CallType /\ Shape(call'[u])
           /\ call'[u].op = "toggleReaction" /\ call'[u].by = call[u].by
           /\ call'[u].of = call[u].of /\ call'[u].todo[1].after = {}
           /\ call'[u].todo[1].event.type = "redaction" /\ call'[u].todo[1].event.of = i
<1> DEFINE r == Sending(Client!deleteMessage(call[u].by, i))
<1>1. call[u] \in CallType /\ call[u].by \in Handle
  BY DEF Base, Types, CallType
<1>2. /\ r \in Good("toggleReaction", call[u].by) /\ r.kind = "event" /\ r.after = {}
      /\ r.event.type = "redaction" /\ r.event.of = i
  BY <1>1, Redacting
<1> DEFINE todo == <<r>>
<1>3. call'[u] = [call[u] EXCEPT !.todo = todo]
  OBVIOUS
<1> HIDE DEF r
<1>4. todo \in Seq(Good("toggleReaction", call[u].by)) /\ todo # <<>> /\ Len(todo) = 1 /\ todo[1] = r
  BY <1>2, Short
<1> HIDE DEF todo
<1>5. todo \in Seq(Reqs)
  BY <1>4, SeqMonotonic DEF Good
<1>6. /\ call'[u] \in CallType /\ call'[u].op = "toggleReaction" /\ call'[u].by = call[u].by
      /\ call'[u].of = call[u].of /\ call'[u].todo = todo
  BY <1>1, <1>3, <1>5 DEF CallType
<1>7. Exact("toggleReaction", call[u].of, todo)
  BY <1>2, <1>4 DEF Exact
<1>8. Shape(call'[u])
  BY <1>4, <1>6, <1>7 DEF Shape
<1> QED
  BY <1>2, <1>4, <1>6, <1>8

\* An event is sent, and the redaction held behind it goes on.
LEMMA ReleaseStep ==
    ASSUME Base, NEW t \in Task, call[t].op # "none", Release(t, Len(timeline) + 1)
    PROVE  /\ CallsBase' /\ Settled(t) /\ call'[t] = NoCall
           /\ \A u \in Task : u # t => IF u \in Behind(t) THEN Freed(u, Len(timeline) + 1)
                                       ELSE call'[u] = call[u]
<1> DEFINE i == Len(timeline) + 1
<1>1. call \in [Task -> CallType] /\ (\A u \in Task : Shape(call[u])) /\ i \in Nat
  BY LenProperties DEF Base, Types
<1> HIDE DEF i
<1>2. /\ call'[t] = NoCall /\ DOMAIN call' = Task
      /\ \A u \in Task : u # t /\ u \in Behind(t) => Freed(u, i)
      /\ \A u \in Task : u # t /\ u \notin Behind(t) => call'[u] = call[u]
      /\ call' = [u \in Task |-> call'[u]]
  BY DEF Release, Freed, i
<1>3. \A u \in Task : u \in Behind(t) => call[u].op = "toggleReaction"
  BY BehindHeld DEF Held
<1>4. ASSUME NEW u \in Task PROVE call'[u] \in CallType /\ Shape(call'[u])
  <2>1. CASE u = t
    BY <1>2, <2>1, NoCallType
  <2>2. CASE u # t /\ u \in Behind(t)
    BY <1>1, <1>2, <1>3, <2>2, FreedCall DEF Freed
  <2>3. CASE u # t /\ u \notin Behind(t)
    BY <1>1, <1>2, <2>3
  <2> QED
    BY <2>1, <2>2, <2>3
<1>5. CallsBase'
  BY <1>2, <1>4 DEF CallsBase
<1> QED
  BY <1>2, <1>3, <1>5 DEF Settled, i

----------------------------------------------------------------------------
(* The calls an application makes.                                         *)

\* A call of an operation begins with its requests, under its guards.
Opening(t, h, op, of, todo) ==
    /\ op # "none" /\ todo # <<>> /\ Exact(op, of, todo) /\ Begin(t, h, op, of, todo)
    /\ op = "getMessages" => Active("getMessages", h) = {}
    /\ op = "getPollResponses" => todo[1].kind = "ends"
    /\ op = "markAsRead" => of = view[h] /\ todo[1].kind = "markers"
    /\ op = "markAsUnread" => of = 0
    /\ op = "pinUnpinMessage" => todo[1].kind = "readPins"
    /\ op = "deleteMessage" => of \in Messages /\ todo[1].event.of = of
    /\ op = "toggleReaction" =>
          \/ /\ todo[1].after = {}
             /\ todo[1].event
                  \in Client!toggleReaction(timeline, KnownAndSent(h), Undone(h), h, of)
          \/ /\ todo[1].event.type = "redaction"
             /\ \E u \in Echoes(h, of) : todo[1].after = {u}

Opens(t, h) == \E op \in Operation, of \in Nat :
                  \E todo \in Seq(Good(op, h)) : Opening(t, h, op, of, todo)

\* Operations whose requests send one event that is no reaction or redaction.
LEMMA OpensSend ==
    ASSUME Base, NEW t \in Task, NEW h \in Handle, NEW of \in Nat, NEW e \in Client!Event,
           e.sender = h, e.type \notin {"reaction", "redaction"},
           NEW op \in {"sendMessage", "sendThreadMessage", "sendReplyMessage", "editMessage",
                       "createPoll", "sendPollResponse", "endPoll"},
           Begin(t, h, op, of, <<Sending(e)>>)
    PROVE  Opens(t, h)
<1> DEFINE todo == <<Sending(e)>>
<1>1. todo \in Seq(Good(op, h)) /\ todo # <<>>
  BY GoodRequests, Short
<1> HIDE DEF todo
<1>2. Exact(op, of, todo)
  BY DEF Exact
<1>3. Opening(t, h, op, of, todo)
  BY <1>1, <1>2 DEF Opening, todo
<1>4. op \in Operation
  BY DEF Operation
<1> QED
  BY <1>1, <1>3, <1>4 DEF Opens

\* Operations that make one request for which their guards hold.
LEMMA OpensAsk ==
    ASSUME Base, NEW t \in Task, NEW h \in Handle, NEW of \in Nat
    PROVE  /\ SendTypingNotification(t, h) => Opens(t, h)
           /\ PinUnpinMessage(t, h, of) => Opens(t, h)
           /\ GetMessages(t, h) => Opens(t, h)
           /\ ~flag[h] /\ Begin(t, h, "markAsUnread", 0, markAsUnread) => Opens(t, h)
<1>1. ASSUME NEW op \in Operation, NEW k \in Kind, NEW f \in Nat, Ask(k) \in Good(op, h),
             <<op, k>> \in {<<"sendTypingNotification", "typing">>, <<"pinUnpinMessage", "readPins">>,
                            <<"getMessages", "page">>, <<"markAsUnread", "mark">>},
             op = "getMessages" => Active("getMessages", h) = {},
             op = "markAsUnread" => f = 0,
             Begin(t, h, op, f, <<Ask(k)>>)
      PROVE  Opens(t, h)
  <2> DEFINE todo == <<Ask(k)>>
  <2>1. todo \in Seq(Good(op, h)) /\ todo # <<>> /\ Len(todo) = 1 /\ todo[1] = Ask(k)
    BY <1>1, Short
  <2>2. todo[1].kind = k
    BY <2>1, GoodRequests
  <2> HIDE DEF todo
  <2>3. Exact(op, f, todo)
    BY <1>1, <2>1, <2>2 DEF Exact
  <2>4. Opening(t, h, op, f, todo)
    BY <1>1, <2>1, <2>2, <2>3 DEF Opening, todo
  <2> QED
    BY <1>1, <2>1, <2>4 DEF Opens
<1>2. {"typing", "readPins", "page", "mark"} \subseteq Kind
  BY DEF Kind
<1>3. /\ Ask("typing") \in Good("sendTypingNotification", h)
      /\ Ask("readPins") \in Good("pinUnpinMessage", h)
      /\ Ask("page") \in Good("getMessages", h) /\ Ask("mark") \in Good("markAsUnread", h)
  BY <1>2, GoodRequests
<1>4. {"sendTypingNotification", "pinUnpinMessage", "getMessages", "markAsUnread"} \subseteq Operation
  BY DEF Operation
<1> QED
  BY <1>1, <1>2, <1>3, <1>4
     DEF SendTypingNotification, PinUnpinMessage, GetMessages, sendTypingNotification,
         pinUnpinMessage, list, markAsUnread

\* Operations that make several requests.
LEMMA OpensTwo ==
    ASSUME Base, NEW t \in Task, NEW h \in Handle, NEW of \in Nat
    PROVE  /\ MarkAsRead(t, h) => Opens(t, h)
           /\ GetPollResponses(t, h, of) => Opens(t, h)
<1>1. {"markers", "receipt", "ends", "responses"} \subseteq Kind
  BY DEF Kind
<1>2. {"markAsRead", "getPollResponses"} \subseteq Operation
  BY DEF Operation
<1>3. ASSUME MarkAsRead(t, h) PROVE Opens(t, h)
  <2> DEFINE todo == <<Ask("markers"), Ask("receipt")>>
             f == view[h]
             op == "markAsRead"
  <2>1. /\ Ask("markers") \in Good(op, h) /\ Ask("receipt") \in Good(op, h)
        /\ Ask("markers").kind = "markers" /\ Ask("receipt").kind = "receipt"
    BY <1>1, GoodRequests
  <2>2. /\ todo \in Seq(Good(op, h)) /\ todo # <<>> /\ Len(todo) = 2
        /\ todo[1] = Ask("markers") /\ todo[2] = Ask("receipt")
    BY <2>1, Short
  <2>3. Begin(t, h, op, f, todo) /\ f \in Nat /\ f = view[h]
    BY <1>3 DEF MarkAsRead, markAsRead, Base, Types
  <2> HIDE DEF todo, f
  <2>4. Exact(op, f, todo)
    BY <2>1, <2>2 DEF Exact
  <2>5. Opening(t, h, op, f, todo)
    BY <2>1, <2>2, <2>3, <2>4 DEF Opening
  <2> QED
    BY <1>2, <2>2, <2>3, <2>5 DEF Opens
<1>4. ASSUME GetPollResponses(t, h, of) PROVE Opens(t, h)
  <2> DEFINE todo == <<Ask("ends"), Ask("responses")>>
             op == "getPollResponses"
  <2>1. /\ Ask("ends") \in Good(op, h) /\ Ask("responses") \in Good(op, h)
        /\ Ask("ends").kind = "ends" /\ Ask("responses").kind = "responses"
    BY <1>1, GoodRequests
  <2>2. /\ todo \in Seq(Good(op, h)) /\ todo # <<>> /\ Len(todo) = 2
        /\ todo[1] = Ask("ends") /\ todo[2] = Ask("responses")
    BY <2>1, Short
  <2>3. Begin(t, h, op, of, todo)
    BY <1>4 DEF GetPollResponses, getPollResponses
  <2> HIDE DEF todo
  <2>4. Exact(op, of, todo)
    BY <2>1, <2>2 DEF Exact
  <2>5. Opening(t, h, op, of, todo)
    BY <2>1, <2>2, <2>3, <2>4 DEF Opening
  <2> QED
    BY <1>2, <2>2, <2>5 DEF Opens
<1> QED
  BY <1>3, <1>4

\* Operations on files, and editPoll.
LEMMA OpensFiles ==
    ASSUME Base, NEW t \in Task, NEW h \in Handle, NEW of \in Nat
    PROVE  /\ SendMedia(t, h, of, 0) => Opens(t, h)
           /\ SendMedia(t, h, 0, of) => Opens(t, h)
           /\ EditMediaCaption(t, h, of) => Opens(t, h)
           /\ DownloadMediaFile(t, h, of) => Opens(t, h)
           /\ EditPoll(t, h, of) => Opens(t, h)
<1> DEFINE Free == {"sendMedia", "editMediaCaption", "downloadMediaFile", "editPoll"}
<1>1. ASSUME NEW op \in Free, NEW f \in Nat, NEW todo \in Seq(Good(op, h)), todo # <<>>,
             Begin(t, h, op, f, todo)
      PROVE  Opens(t, h)
  <2>1. Exact(op, f, todo)
    BY DEF Exact
  <2>2. Opening(t, h, op, f, todo) /\ op \in Operation
    BY <1>1, <2>1 DEF Opening, Operation
  <2> QED
    BY <2>2 DEF Opens
<1>2. {"credential", "upload", "download"} \subseteq Kind
  BY DEF Kind
<1>3. \A op \in Free : /\ Ask("credential") \in Good(op, h) /\ Ask("upload") \in Good(op, h)
                       /\ Ask("download") \in Good(op, h)
  BY <1>2, GoodRequests
<1>4. \A op \in Free, e \in Client!Event :
         e.sender = h /\ e.type \notin {"reaction", "redaction"} => Sending(e) \in Good(op, h)
  BY GoodRequests
<1>5. ASSUME NEW op, NEW x \in Seq(Good(op, h)), NEW y \in Seq(Good(op, h)), x # <<>>
      PROVE  x \o y \in Seq(Good(op, h)) /\ x \o y # <<>>
  <2>1. \A S : \A a, b \in Seq(S) : a \o b \in Seq(S) /\ (a \o b = <<>> => a = <<>>)
    BY ConcatProperties, ConcatEqualIffEmpty
  <2> QED
    BY <1>5, <2>1
<1>6. \A op \in Free : <<Ask("credential")>> \in Seq(Good(op, h)) /\ <<Ask("credential")>> # <<>>
  BY <1>3, Short
<1>7. ASSUME NEW th \in Nat, NEW re \in Nat, SendMedia(t, h, th, re) PROVE Opens(t, h)
  <2> DEFINE file == Client!handleFile({})
             op == "sendMedia"
             e == CASE th # 0 -> Client!sendThreadMessage(h, th, file)
                    [] th = 0 /\ re # 0 -> Client!sendReplyMessage(h, re, file)
                    [] OTHER -> Client!sendMessage(h, file)
  <2>1. e \in Client!Event /\ e.sender = h /\ e.type \notin {"reaction", "redaction"}
    <3>1. "thread" \in Client!Relation /\ "reply" \in Client!Relation /\ "none" \in Client!Relation
      BY DEF Client!Relation
    <3>2. \A f \in Nat : \A rel \in Client!Relation :
             LET n == Client!NewEvent(h, file, rel, f)
             IN  n \in Client!Event /\ n.sender = h /\ n.type \in {"message", "media"}
      BY NewEvents
    <3> HIDE DEF file
    <3>3. CASE th # 0
      BY <3>1, <3>2, <3>3 DEF Client!sendThreadMessage
    <3>4. CASE th = 0 /\ re # 0
      BY <3>1, <3>2, <3>4 DEF Client!sendReplyMessage
    <3>5. CASE th = 0 /\ re = 0
      BY <3>1, <3>2, <3>5 DEF Client!sendMessage
    <3> QED
      BY <3>3, <3>4, <3>5
  <2> HIDE DEF e
  <2>2. PICK thumb \in BOOLEAN :
           Begin(t, h, op, 0, <<Ask("credential")>> \o Append(uploadMediaFile(thumb), Sending(e)))
    BY <1>7 DEF SendMedia, sendMedia, getRoomMediaCredential, e
  <2>3. uploadMediaFile(thumb) \in Seq(Good(op, h))
    BY <1>3, Short DEF uploadMediaFile
  <2>4. Append(uploadMediaFile(thumb), Sending(e)) \in Seq(Good(op, h))
    BY <1>4, <2>1, <2>3, AppendProperties
  <2> DEFINE todo == <<Ask("credential")>> \o Append(uploadMediaFile(thumb), Sending(e))
  <2>5. todo \in Seq(Good(op, h)) /\ todo # <<>>
    BY <1>5, <1>6, <2>4
  <2>6. Begin(t, h, op, 0, todo)
    BY <2>2
  <2> HIDE DEF todo
  <2> QED
    BY <1>1, <2>5, <2>6
<1>8. ASSUME EditMediaCaption(t, h, of) PROVE Opens(t, h)
  <2> DEFINE op == "editMediaCaption"
             e == Client!editMessage(h, of)
             todo == <<Ask("credential")>> \o <<Sending(e)>>
  <2>1. e \in Client!Event /\ e.sender = h /\ e.type \notin {"reaction", "redaction"}
    BY NewEvents DEF Client!editMessage, Client!Type, Client!Relation
  <2>2. Begin(t, h, op, of, todo)
    BY <1>8 DEF EditMediaCaption, getRoomMediaCredential, editMediaCaption
  <2> HIDE DEF e
  <2>3. <<Sending(e)>> \in Seq(Good(op, h))
    BY <1>4, <2>1, Short
  <2>4. todo \in Seq(Good(op, h)) /\ todo # <<>>
    BY <1>5, <1>6, <2>3
  <2> HIDE DEF todo
  <2> QED
    BY <1>1, <2>2, <2>4
<1>9. ASSUME DownloadMediaFile(t, h, of) PROVE Opens(t, h)
  <2> DEFINE op == "downloadMediaFile"
             todo == <<Ask("credential")>> \o <<Ask("download")>>
  <2>1. Begin(t, h, op, of, todo)
    BY <1>9 DEF DownloadMediaFile, getRoomMediaCredential
  <2>2. <<Ask("download")>> \in Seq(Good(op, h))
    BY <1>3, Short
  <2>3. todo \in Seq(Good(op, h)) /\ todo # <<>>
    BY <1>5, <1>6, <2>2
  <2> HIDE DEF todo
  <2> QED
    BY <1>1, <2>1, <2>3
<1>10. ASSUME EditPoll(t, h, of) PROVE Opens(t, h)
  <2> DEFINE op == "editPoll"
             e == Client!endPoll(h, of)
             n == Client!createPoll(h)
             todo == <<Sending(e)>> \o <<Sending(n)>>
  <2>1. /\ e \in Client!Event /\ e.sender = h /\ e.type \notin {"reaction", "redaction"}
        /\ n \in Client!Event /\ n.sender = h /\ n.type \notin {"reaction", "redaction"}
    BY NewEvents DEF Client!endPoll, Client!createPoll, Client!Type, Client!Poll, Client!Relation
  <2>2. Begin(t, h, op, of, todo)
    BY <1>10 DEF EditPoll, editPoll, endPoll, createPoll
  <2> HIDE DEF e, n
  <2>3. /\ <<Sending(e)>> \in Seq(Good(op, h)) /\ <<Sending(e)>> # <<>>
        /\ <<Sending(n)>> \in Seq(Good(op, h))
    BY <1>4, <2>1, Short
  <2>4. todo \in Seq(Good(op, h)) /\ todo # <<>>
    BY <1>5, <2>3
  <2> HIDE DEF todo
  <2> QED
    BY <1>1, <2>2, <2>4
<1> QED
  BY <1>7, <1>8, <1>9, <1>10

\* Operations that send a redaction or a reaction.
LEMMA OpensToggle ==
    ASSUME Base, NEW t \in Task, NEW h \in Handle, NEW m \in Messages
    PROVE  /\ m \in Nat
           /\ DeleteMessage(t, h, m) => Opens(t, h)
           /\ ToggleReaction(t, h, m) => Opens(t, h)
<1>1. m \in Nat /\ KnownAndSent(h) \subseteq Nat
  <2>1. DOMAIN timeline \subseteq Nat
    BY LenProperties DEF Base, Types
  <2> QED
    BY <2>1 DEF Messages, KnownAndSent
<1>2. /\ {"reaction", "redaction"} \subseteq Client!Type
      /\ {"none", "annotation"} \subseteq Client!Relation
  BY DEF Client!Type, Client!Relation
<1>3. \A i \in Nat : LET d == Client!deleteMessage(h, i)
                     IN  /\ d \in Client!Event /\ d.sender = h /\ d.of = i /\ d.txn = 0
                         /\ d.type = "redaction"
  BY <1>2, NewEvents DEF Client!deleteMessage
<1>4. LET r == Client!Bare(h, "reaction", "annotation", m)
      IN  /\ r \in Client!Event /\ r.sender = h /\ r.of = m /\ r.txn = 0 /\ r.type = "reaction"
  BY <1>1, <1>2, NewEvents
<1>5. ASSUME NEW op \in {"deleteMessage", "toggleReaction"}, NEW e \in Client!Event,
             e.sender = h, e.type \in {"reaction", "redaction"}, e.txn = 0
      PROVE  /\ <<Sending(e)>> \in Seq(Good(op, h)) /\ <<Sending(e)>> # <<>>
             /\ Len(<<Sending(e)>>) = 1 /\ <<Sending(e)>>[1].kind = "event"
             /\ <<Sending(e)>>[1].event = e /\ <<Sending(e)>>[1].after = {} /\ op \in Operation
  BY <1>5, GoodRequests, Short DEF Operation
<1>6. ASSUME DeleteMessage(t, h, m) PROVE Opens(t, h)
  <2> DEFINE op == "deleteMessage"
             e == Client!deleteMessage(h, m)
             todo == <<Sending(e)>>
  <2>1. /\ todo \in Seq(Good(op, h)) /\ todo # <<>> /\ Len(todo) = 1 /\ todo[1].kind = "event"
        /\ todo[1].event = e /\ op \in Operation /\ e.type = "redaction" /\ e.of = m
    BY <1>1, <1>3, <1>5
  <2>2. Begin(t, h, op, m, todo)
    BY <1>6 DEF DeleteMessage, delete
  <2> HIDE DEF todo, e
  <2>3. Exact(op, m, todo)
    BY <2>1 DEF Exact
  <2>4. Opening(t, h, op, m, todo)
    BY <2>1, <2>2, <2>3 DEF Opening
  <2> QED
    BY <1>1, <2>1, <2>4 DEF Opens
<1> DEFINE op == "toggleReaction"
<1>7. ASSUME NEW e \in Client!toggleReaction(timeline, KnownAndSent(h), Undone(h), h, m),
             Begin(t, h, op, m, <<Sending(e)>>)
      PROVE  Opens(t, h)
  <2> DEFINE todo == <<Sending(e)>>
             mine == Client!OwnReaction(timeline, KnownAndSent(h), Undone(h), h, m)
  <2>2. mine \subseteq Nat
    BY <1>1 DEF Client!OwnReaction, Client!Reactions
  <2> HIDE DEF mine
  <2>3. \/ \E i \in mine : e = Client!deleteMessage(h, i)
        \/ e = Client!Bare(h, "reaction", "annotation", m)
    BY DEF Client!toggleReaction, mine
  <2>4. /\ e \in Client!Event /\ e.sender = h /\ e.txn = 0
        /\ e.type \in {"reaction", "redaction"} /\ (e.type = "reaction" => e.of = m)
    BY <1>3, <1>4, <2>2, <2>3
  <2>5. /\ todo \in Seq(Good(op, h)) /\ todo # <<>> /\ Len(todo) = 1 /\ todo[1].kind = "event"
        /\ todo[1].event = e /\ todo[1].after = {} /\ op \in Operation
    BY <1>5, <2>4
  <2>6. Begin(t, h, op, m, todo)
    BY <1>7
  <2> HIDE DEF todo
  <2>7. Exact(op, m, todo)
    BY <2>4, <2>5 DEF Exact
  <2>9. Opening(t, h, op, m, todo)
    BY <2>5, <2>6, <2>7 DEF Opening
  <2> QED
    BY <1>1, <2>5, <2>9 DEF Opens
<1>8. ASSUME NEW u \in Echoes(h, m), Begin(t, h, op, m, <<Undoing(h, u)>>)
      PROVE  Opens(t, h)
  <2> DEFINE e == Client!deleteMessage(h, 0)
             r == Undoing(h, u)
             todo == <<Undoing(h, u)>>
  <2>1. /\ e.type = "redaction" /\ Sending(e) \in Good(op, h) /\ Sending(e).kind = "event"
        /\ Sending(e).event = e
    BY Redacting
  <2>2. u \in Task
    BY DEF Echoes, Active
  <2>3. /\ r \in Good(op, h) /\ r.kind = "event" /\ r.event.type = "redaction" /\ r.after = {u}
    <3> HIDE DEF e
    <3>1. r = [Sending(e) EXCEPT !.after = {u}]
      BY DEF Undoing, e
    <3> HIDE DEF r
    <3>2. r \in Reqs /\ r.kind = "event" /\ r.event = e /\ r.after = {u}
      BY <2>1, <2>2, <3>1 DEF Good, Reqs
    <3> QED
      BY <2>1, <3>2 DEF Good
  <2>4. todo \in Seq(Good(op, h)) /\ todo # <<>> /\ Len(todo) = 1 /\ todo[1] = r
    <3> HIDE DEF r
    <3>1. todo = <<r>>
      BY DEF r
    <3> QED
      BY <2>3, <3>1, Short
  <2>5. Begin(t, h, op, m, todo)
    BY <1>8
  <2> HIDE DEF todo, r
  <2>6. Exact(op, m, todo)
    BY <2>3, <2>4 DEF Exact
  <2>7. Opening(t, h, op, m, todo)
    BY <2>3, <2>4, <2>5, <2>6 DEF Opening
  <2>8. op \in Operation
    BY DEF Operation
  <2> QED
    BY <1>1, <2>4, <2>7, <2>8 DEF Opens
<1>9. ToggleReaction(t, h, m) => Opens(t, h)
  BY <1>7, <1>8 DEF ToggleReaction
<1> QED
  BY <1>1, <1>6, <1>9

Module(t, h) == \/ ModuleSend(t, h) \/ ModuleMedia(t, h) \/ ModuleMessage(t, h)
                \/ ModuleRead(t, h) \/ ModulePoll(t, h)

\* What the application calls is begun as above, unless the room is already
\* known to be marked.
LEMMA ModuleOpens ==
    ASSUME Base, NEW t \in Task, NEW h \in Handle, Module(t, h)
    PROVE  Opens(t, h) \/ (flag[h] /\ MarkAsUnread(t, h))
<1>1. Originals \subseteq Messages /\ Messages \subseteq Nat /\ Polls \subseteq Nat /\ 0 \in Nat
  <2>1. DOMAIN timeline \subseteq Nat
    BY LenProperties DEF Base, Types
  <2> QED
    BY <2>1 DEF Originals, Messages, Polls
<1>2. ASSUME NEW m \in Messages PROVE
         /\ DeleteMessage(t, h, m) => Opens(t, h)
         /\ ToggleReaction(t, h, m) => Opens(t, h)
  BY OpensToggle
<1>3. {"none", "thread", "reply", "replace", "reference"} \subseteq Client!Relation
  BY DEF Client!Relation
<1>4. {"message", "pollStart", "pollResponse", "pollEnd"} \subseteq Client!Type
  BY DEF Client!Type, Client!Poll
<1>5. ASSUME NEW of \in Nat, NEW ms PROVE
         /\ Begin(t, h, "sendMessage", 0, sendMessage(h, ms)) => Opens(t, h)
         /\ Begin(t, h, "sendThreadMessage", of, sendThread(h, of, ms)) => Opens(t, h)
         /\ Begin(t, h, "sendReplyMessage", of, sendReply(h, of, ms)) => Opens(t, h)
  <2>1. \A f \in Nat : \A rel \in Client!Relation :
           LET n == Client!NewEvent(h, Text(ms), rel, f)
           IN  n \in Client!Event /\ n.sender = h /\ n.type \notin {"reaction", "redaction"}
    BY NewEvents
  <2>2. Client!sendMessage(h, Text(ms)) = Client!NewEvent(h, Text(ms), "none", 0)
    BY DEF Client!sendMessage
  <2>3. Client!sendThreadMessage(h, of, Text(ms)) = Client!NewEvent(h, Text(ms), "thread", of)
    BY DEF Client!sendThreadMessage
  <2>4. Client!sendReplyMessage(h, of, Text(ms)) = Client!NewEvent(h, Text(ms), "reply", of)
    BY DEF Client!sendReplyMessage
  <2> QED
    BY <1>1, <1>3, <2>1, <2>2, <2>3, <2>4, OpensSend DEF sendMessage, sendThread, sendReply
<1>6. ASSUME NEW of \in Nat PROVE
         /\ EditMessage(t, h, of) => Opens(t, h)
         /\ CreatePoll(t, h) => Opens(t, h)
         /\ SendPollResponse(t, h, of) => Opens(t, h)
         /\ EndPoll(t, h, of) => Opens(t, h)
  <2>1. \A f \in Nat : \A type \in Client!Type, rel \in Client!Relation :
           LET n == Client!Bare(h, type, rel, f)
           IN  n \in Client!Event /\ n.sender = h /\ n.type = type
    BY NewEvents
  <2>2. \A f \in Nat : \A e \in {Client!editMessage(h, f), Client!createPoll(h),
                                 Client!sendPollResponse(h, f), Client!endPoll(h, f)} :
           e \in Client!Event /\ e.sender = h /\ e.type \notin {"reaction", "redaction"}
    BY <1>1, <1>3, <1>4, <2>1
       DEF Client!editMessage, Client!createPoll, Client!sendPollResponse, Client!endPoll
  <2> QED
    BY <1>1, <2>2, OpensSend
       DEF EditMessage, CreatePoll, SendPollResponse, EndPoll, edit, createPoll,
           sendPollResponse, endPoll
<1>7. ModuleSend(t, h) => Opens(t, h)
  BY <1>1, <1>5, OpensAsk DEF ModuleSend, SendMessage, SendReplyMessage, SendThreadMessage
<1>8. ModuleMedia(t, h) => Opens(t, h)
  BY <1>1, OpensFiles DEF ModuleMedia
<1>9. ModuleMessage(t, h) => Opens(t, h)
  BY <1>1, <1>2, <1>6, OpensAsk DEF ModuleMessage
<1>10. ModuleRead(t, h) => Opens(t, h) \/ (flag[h] /\ MarkAsUnread(t, h))
  <2>1. GetMessages(t, h) => Opens(t, h)
    BY <1>1, OpensAsk
  <2>2. ~flag[h] /\ Begin(t, h, "markAsUnread", 0, markAsUnread) => Opens(t, h)
    BY <1>1, OpensAsk
  <2>3. MarkAsRead(t, h) => Opens(t, h)
    BY <1>1, OpensTwo
  <2>4. MarkAsUnread(t, h) => flag[h] \/ (~flag[h] /\ Begin(t, h, "markAsUnread", 0, markAsUnread))
    BY DEF MarkAsUnread
  <2> QED
    BY <2>1, <2>2, <2>3, <2>4 DEF ModuleRead
<1>11. ModulePoll(t, h) => Opens(t, h)
  <2>1. \A p \in Polls : EditPoll(t, h, p) => Opens(t, h)
    BY <1>1, OpensFiles
  <2>2. \A p \in Polls : GetPollResponses(t, h, p) => Opens(t, h)
    BY <1>1, OpensTwo
  <2> QED
    BY <1>1, <1>6, <2>1, <2>2 DEF ModulePoll
<1> QED
  BY <1>7, <1>8, <1>9, <1>10, <1>11 DEF Module

----------------------------------------------------------------------------
(* The answers of the server.                                              *)

\* An event is added to the end of the timeline, with the time of day.
LEMMA AcceptStep ==
    ASSUME Types, Ordered, NEW e \in Client!Event, Accept(e), now' = now
    PROVE  /\ timeline' \in Seq(Client!Event) /\ Ordered' /\ Longer(timeline, timeline')
           /\ \/ timeline' = timeline /\ e.txn # 0
              \/ /\ Len(timeline') = Len(timeline) + 1
                 /\ timeline' = Append(timeline, [e EXCEPT !.ts = now])
                 /\ timeline'[Len(timeline) + 1] = [e EXCEPT !.ts = now]
<1>1. timeline \in Seq(Client!Event) /\ now \in Nat \ {0} /\ Len(timeline) \in Nat
  BY LenProperties DEF Types
<1> DEFINE f == [e EXCEPT !.ts = now]
<1>2. f \in Client!Event /\ f.ts = now
  BY <1>1 DEF Client!Event
<1>3. CASE timeline' = timeline /\ e.txn # 0
  BY <1>1, <1>2, <1>3, Appended DEF Ordered
<1>4. CASE timeline' = Append(timeline, f)
  <2> HIDE DEF f
  <2>1. /\ timeline' \in Seq(Client!Event) /\ Longer(timeline, timeline')
        /\ Len(timeline') = Len(timeline) + 1 /\ timeline'[Len(timeline) + 1] = f
    BY <1>1, <1>2, <1>4, Appended, AppendProperties
  <2>2. DOMAIN timeline = 1 .. Len(timeline) /\ DOMAIN timeline' = 1 .. Len(timeline')
    BY <1>1, <2>1, LenProperties
  <2>3. \A i \in DOMAIN timeline' : \/ i \in DOMAIN timeline /\ timeline'[i] = timeline[i]
                                    \/ i = Len(timeline) + 1 /\ timeline'[i] = f
    BY <1>1, <2>1, <2>2 DEF Longer
  <2>4. \A i \in DOMAIN timeline : timeline[i].ts \in Nat /\ timeline[i].ts <= now /\ i < Len(timeline) + 1
    <3>1. \A i \in DOMAIN timeline : timeline[i] \in Client!Event
      BY <1>1, <2>2, ElementOfSeq
    <3> QED
      BY <1>1, <2>2, <3>1 DEF Ordered, Client!Event
  <2>5. Ordered'
    BY <1>1, <1>2, <2>2, <2>3, <2>4 DEF Ordered
  <2> QED
    BY <1>4, <2>1, <2>5 DEF f
<1> QED
  BY <1>3, <1>4 DEF Accept, Client!Repeated

\* What follows from the calls and the rest of the state.
LEMMA BaseFrom ==
    ASSUME Base, CallsBase', UNCHANGED <<now, receipt, view, flag, reader, asked>>,
           \/ timeline' = timeline
           \/ timeline' \in Seq(Client!Event) /\ Ordered',
           pins' \subseteq Nat
    PROVE  Base'
<1>1. Ordered'
  BY DEF Base, Ordered
<1> QED
  BY <1>1 DEF Base, Types, CallsBase

\* The requests that are left are those of the operation.
LEMMA RestStep ==
    ASSUME Base, NEW t \in Task, call[t].op # "none", Rest(t) # <<>>,
           Request(t).kind \notin {"ends"}
    PROVE  Exact(call[t].op, call[t].of, Rest(t))
<1>1. Len(call[t].todo) \in Nat \ {0} /\ Len(Rest(t)) = Len(call[t].todo) - 1 /\ Len(Rest(t)) \in Nat \ {0}
      /\ (\A i \in 1 .. Len(Rest(t)) : Rest(t)[i] = call[t].todo[i + 1])
      /\ Exact(call[t].op, call[t].of, call[t].todo)
  BY NextRequest, EmptySeq
<1>2. Rest(t)[1] = call[t].todo[2]
  BY <1>1
<1> QED
  BY <1>1, <1>2 DEF Exact, Request

ServerStep(t) == \/ PutEvent(t) \/ PutReceipt(t) \/ PutMark(t) \/ ReadPins(t) \/ WritePins(t)
                 \/ Plain(t) \/ listMessages(t) \/ ReadEnds(t)
                 \/ ReadResponses(t) \/ RequestRefused(t) \/ AnswerLost(t)

\* The answers that add an event to the room or change the pins.
LEMMA EventBase ==
    ASSUME Base, NEW t \in Task,
           PutEvent(t) \/ AnswerLost(t) \/ WritePins(t) \/ RequestRefused(t)
    PROVE  Base' /\ (Moved(t) \/ Settled(t)) /\ Longer(timeline, timeline')
<1>1. Types /\ Ordered /\ timeline \in Seq(Client!Event) /\ pins \subseteq Nat
  BY DEF Base, Types
<1>2. call[t].op # "none"
  BY DEF PutEvent, AnswerLost, WritePins, RequestRefused, Asks
<1>3. /\ Request(t) \in Reqs /\ Request(t).event \in Client!Event
      /\ Rest(t) \in Seq(Good(call[t].op, call[t].by)) /\ Request(t).pins \subseteq Nat
  BY <1>2, NextRequest DEF Reqs
<1>4. CallsBase' /\ (Moved(t) \/ Settled(t))
  <2>1. CASE PutEvent(t) /\ Behind(t) = {}
    <3>1. Rest(t) # <<>> => Exact(call[t].op, call[t].of, Rest(t))
      BY <1>2, <2>1, RestStep DEF PutEvent, Asks
    <3> QED
      BY <1>2, <1>3, <2>1, <3>1, GoOnStep DEF PutEvent
  <2>2. CASE PutEvent(t) /\ Behind(t) # {}
    BY <1>2, <2>2, ReleaseStep DEF PutEvent
  <2>3. CASE AnswerLost(t) \/ RequestRefused(t)
    BY <1>2, <2>3, ThrowStep DEF AnswerLost, RequestRefused
  <2>4. CASE WritePins(t)
    BY <1>2, <2>4, FinishStep DEF WritePins
  <2> QED
    BY <2>1, <2>2, <2>3, <2>4
<1>5. UNCHANGED <<now, receipt, view, flag, reader, asked>>
  BY DEF PutEvent, AnswerLost, WritePins, RequestRefused, client, server, ghost
<1>6. /\ Longer(timeline, timeline')
      /\ timeline' = timeline \/ (timeline' \in Seq(Client!Event) /\ Ordered')
  <2>1. CASE timeline' = timeline
    BY <1>1, <2>1, NoCallType, Appended
  <2>2. CASE Accept(Request(t).event)
    BY <1>1, <1>3, <1>5, <2>2, AcceptStep
  <2>3. timeline' = timeline \/ Accept(Request(t).event)
    BY DEF PutEvent, AnswerLost, WritePins, RequestRefused, server
  <2> QED
    BY <2>1, <2>2, <2>3
<1>7. pins' \subseteq Nat
  BY <1>1, <1>3 DEF PutEvent, AnswerLost, WritePins, RequestRefused, server
<1> QED
  BY <1>4, <1>5, <1>6, <1>7, BaseFrom

\* The answers that change a call alone.
LEMMA CallBase ==
    ASSUME Base, NEW t \in Task, ReadPins(t) \/ Plain(t) \/ ReadEnds(t)
    PROVE  Base' /\ Moved(t) /\ timeline' = timeline
<1>1. Types /\ timeline \in Seq(Client!Event) /\ pins \subseteq Nat /\ call[t] \in CallType
      /\ call \in [Task -> CallType]
  BY DEF Base, Types
<1>2. call[t].op # "none"
  BY DEF ReadPins, Plain, ReadEnds, Asks
<1>3. /\ Rest(t) \in Seq(Good(call[t].op, call[t].by))
      /\ Request(t) \in Good(call[t].op, call[t].by)
      /\ Exact(call[t].op, call[t].of, call[t].todo)
  BY <1>2, NextRequest
<1>4. CallsBase' /\ Moved(t)
  <2>1. CASE ReadPins(t)
    <3> DEFINE set == Flip(pins, call[t].of)
               todo == <<Pinning(set)>>
    <3>1. call[t].op = "pinUnpinMessage"
      BY <1>3, <2>1 DEF ReadPins, Asks, Good
    <3>2. set \in SUBSET Nat
      BY <1>1 DEF Flip, CallType
    <3>3. GoOn(t, todo)
      BY <2>1 DEF ReadPins
    <3> HIDE DEF set
    <3>4. Pinning(set) \in Good(call[t].op, call[t].by) /\ Pinning(set).kind = "writePins"
      BY <3>1, <3>2, GoodRequests
    <3>5. /\ todo \in Seq(Good(call[t].op, call[t].by)) /\ Len(todo) = 1
          /\ todo[1].kind = "writePins"
      BY <3>4, Short
    <3> HIDE DEF todo
    <3>6. Exact(call[t].op, call[t].of, todo)
      BY <3>1, <3>5 DEF Exact
    <3> QED
      BY <1>2, <3>3, <3>5, <3>6, GoOnStep
  <2>2. CASE Plain(t)
    <3>1. Rest(t) # <<>> => Exact(call[t].op, call[t].of, Rest(t))
      BY <1>2, <2>2, RestStep DEF Plain, Asks
    <3> QED
      BY <1>2, <1>3, <2>2, <3>1, GoOnStep DEF Plain
  <2>3. CASE ReadEnds(t)
    <3>1. call[t].op = "getPollResponses"
      BY <1>3, <2>3 DEF ReadEnds, Asks, Good
    <3>2. Len(call[t].todo) = 2 /\ call[t].todo[2].kind = "responses"
      BY <1>3, <2>3, <3>1 DEF Exact, ReadEnds, Asks, Request
    <3>3. Len(Rest(t)) = 1 /\ Rest(t)[1].kind = "responses" /\ Rest(t) # <<>>
      <4>1. Len(Rest(t)) = 1 /\ Rest(t)[1] = call[t].todo[2]
        <5>1. /\ Len(Rest(t)) = Len(call[t].todo) - 1
              /\ \A i \in 1 .. Len(Rest(t)) : Rest(t)[i] = call[t].todo[i + 1]
          BY <1>2, NextRequest
        <5> QED
          BY <3>2, <5>1
      <4>2. Rest(t) # <<>>
        <5> DEFINE r == Rest(t)
        <5>1. Len(r) = 1
          BY <4>1
        <5> HIDE DEF r
        <5>2. r # <<>>
          BY <5>1, EmptySeq
        <5> QED
          BY <5>2 DEF r
      <4> QED
        BY <3>2, <4>1, <4>2
    <3> DEFINE todo == Rest(t)
               en == Client!PollEndTimestamp(timeline, call[t].of)
               c == [call[t] EXCEPT !.todo = todo, !.ended = en, !.start = Len(timeline)]
    <3>4. call' = [call EXCEPT ![t] = c]
      BY <1>1, <2>3 DEF ReadEnds
    <3>5. en \in Nat
      BY <1>1, PollEnd
    <3>6. Len(timeline) \in Nat /\ todo \in Seq(Reqs)
      <4>1. Good(call[t].op, call[t].by) \subseteq Reqs
        BY DEF Good
      <4> QED
        BY <1>1, <1>3, <4>1, LenProperties, SeqMonotonic
    <3> HIDE DEF todo, en
    <3>7. /\ c \in CallType /\ c.op = call[t].op /\ c.by = call[t].by /\ c.of = call[t].of
          /\ c.todo = todo
      BY <1>1, <3>5, <3>6 DEF CallType
    <3>8. Shape(c)
      BY <1>3, <3>1, <3>3, <3>7 DEF Shape, Exact, todo
    <3> HIDE DEF c
    <3>9. CallsBase' /\ \A u \in Task : call'[u] = IF u = t THEN c ELSE call[u]
      BY <3>4, <3>7, <3>8, CallChanged
    <3> QED
      BY <1>2, <3>7, <3>9 DEF Moved
  <2> QED
    BY <2>1, <2>2, <2>3
<1>5. UNCHANGED <<now, receipt, view, flag, reader, asked, timeline, pins>>
  BY DEF ReadPins, Plain, ReadEnds, client, server, ghost
<1> QED
  BY <1>1, <1>4, <1>5, BaseFrom

\* The answers to markAsRead and markAsUnread.
LEMMA MarkBase ==
    ASSUME Base, NEW t \in Task, PutReceipt(t) \/ PutMark(t)
    PROVE  Base' /\ Moved(t) /\ timeline' = timeline
<1>1. Types /\ call[t] \in CallType
  BY DEF Base, Types
<1>2. call[t].op # "none"
  BY DEF PutReceipt, PutMark, Asks
<1>3. /\ Rest(t) \in Seq(Good(call[t].op, call[t].by))
      /\ Request(t) \in Good(call[t].op, call[t].by)
  BY <1>2, NextRequest
<1>4. CallsBase' /\ Moved(t)
  <2>1. CASE PutReceipt(t) /\ Request(t).kind = "markers"
    <3>1. Rest(t) # <<>> => Exact(call[t].op, call[t].of, Rest(t))
      BY <1>2, <2>1, RestStep
    <3> QED
      BY <1>2, <1>3, <2>1, <3>1, GoOnStep DEF PutReceipt
  <2>2. CASE PutReceipt(t) /\ Request(t).kind = "receipt"
    <3> DEFINE todo == <<Ask("unmark")>>
    <3>1. call[t].op = "markAsRead"
      BY <1>3, <2>2 DEF Good
    <3>2. Ask("unmark") \in Good(call[t].op, call[t].by) /\ Ask("unmark").kind = "unmark"
      BY <3>1, GoodRequests DEF Kind
    <3>3. todo \in Seq(Good(call[t].op, call[t].by)) /\ Len(todo) = 1 /\ todo[1].kind = "unmark"
      BY <3>2, Short
    <3>4. GoOn(t, todo) \/ Finish(t)
      BY <2>2 DEF PutReceipt, AfterReceipt
    <3> HIDE DEF todo
    <3>5. Exact(call[t].op, call[t].of, todo)
      BY <3>1, <3>3 DEF Exact
    <3> QED
      BY <1>2, <3>3, <3>4, <3>5, GoOnStep, FinishStep
  <2>3. CASE PutMark(t)
    BY <1>2, <2>3, FinishStep DEF PutMark
  <2> QED
    BY <2>1, <2>2, <2>3 DEF PutReceipt, Asks
<1>5. UNCHANGED <<now, view, flag, reader, timeline, pins>>
  BY DEF PutReceipt, PutMark, client
<1>6. receipt' \in [Handle -> Nat]
  BY <1>1 DEF PutReceipt, PutMark, Receive, Types, CallType
<1>7. asked' \in [Handle -> [what : {"nothing", "read", "unread"}, upto : Nat]]
  <2> DEFINE A == [what : {"nothing", "read", "unread"}, upto : Nat]
  <2>1. \A what \in {"read", "unread"} : [what |-> what, upto |-> call[t].of] \in A
    BY <1>1 DEF CallType
  <2>2. asked \in [Handle -> A]
    BY <1>1 DEF Types
  <2>3. PICK what \in {"read", "unread"} : Over(t, what)
    BY DEF PutReceipt, PutMark
  <2> HIDE DEF A
  <2>4. asked' \in [Handle -> A]
    BY <2>1, <2>2, <2>3 DEF Over
  <2> QED
    BY <2>4 DEF A
<1>8. Types'
  BY <1>1, <1>4, <1>5, <1>6, <1>7 DEF Types, CallsBase
<1>9. Ordered'
  BY <1>5 DEF Base, Ordered
<1> QED
  BY <1>4, <1>5, <1>8, <1>9 DEF Base, CallsBase

\* The numbers of a page.
Top(c)   == IF c.token = 0 THEN Len(timeline) ELSE c.token
Start(c) == IF c.token = 0 THEN Len(timeline) ELSE c.start
Low(c)   == LET want == IF Limit > Cardinality(c.got) THEN Limit - Cardinality(c.got) ELSE 1
            IN  IF Top(c) > want THEN Top(c) - want ELSE 0
Kept(c)  == {i \in (Low(c) + 1) .. Top(c) : Client!Listable(timeline, i)}
OldPages(c) == IF reader[c.by].token = 0 THEN NoPages ELSE reader[c.by]

\* A page that is not the last one the call reads, and one that is.
LEMMA PageStep ==
    ASSUME Base, NEW t \in Task, listMessages(t)
    PROVE  /\ Base' /\ Moved(t) /\ timeline' = timeline
           /\ call[t].op = "getMessages"
           /\ Low(call[t]) \in Nat /\ Top(call[t]) \in Nat /\ Low(call[t]) <= Top(call[t])
           /\ Top(call[t]) # 0 => Low(call[t]) < Top(call[t])
           /\ \/ /\ Low(call[t]) # 0 /\ reader' = reader
                 /\ call'[t] = [call[t] EXCEPT !.token = Low(call[t]), !.start = Start(call[t]),
                                               !.got = call[t].got \cup Kept(call[t])]
              \/ /\ call'[t] = NoCall
                 /\ LET c == call[t]
                        old == OldPages(c)
                        got == c.got \cup Kept(c)
                    IN  reader' = [reader EXCEPT ![c.by] =
                          [token |-> Low(c), start |-> Start(c), seen |-> old.seen \cup got,
                           twice |-> old.twice \cup (old.seen \cap got),
                           state |-> IF Low(c) = 0 THEN "done" ELSE "open"]]
<1> DEFINE c == call[t]
           low == Low(c)
           got == c.got \cup Kept(c)
           start == Start(c)
           old == OldPages(c)
           page == [token |-> low, start |-> start, seen |-> old.seen \cup got,
                    twice |-> old.twice \cup (old.seen \cap got),
                    state |-> IF low = 0 THEN "done" ELSE "open"]
<1>1. Types /\ call[t] \in CallType /\ timeline \in Seq(Client!Event) /\ Len(timeline) \in Nat
      /\ call \in [Task -> CallType]
  BY LenProperties DEF Base, Types
<1>2. call[t].op # "none"
  BY DEF listMessages, Asks
<1>3. Request(t) \in Good(call[t].op, call[t].by)
  BY <1>2, NextRequest
<1>4. call[t].op = "getMessages"
  BY <1>3 DEF listMessages, Asks, Good
<1>5. c.got \subseteq Nat /\ IsFiniteSet(c.got) /\ Cardinality(c.got) \in Nat
  <2>1. c.got \in FiniteSubsetsOf(Nat)
    BY <1>1 DEF CallType
  <2> QED
    BY <2>1, FS_CardinalityType DEF FiniteSubsetsOf
<1>6. /\ low \in Nat /\ Top(c) \in Nat /\ start \in Nat /\ low <= Top(c)
      /\ Top(c) # 0 => low < Top(c)
  <2>1. Top(c) \in Nat /\ start \in Nat
    BY <1>1 DEF Top, Start, CallType
  <2> DEFINE want == IF Limit > Cardinality(c.got) THEN Limit - Cardinality(c.got) ELSE 1
  <2>2. Limit \in Nat
    BY MessagingAssumption
  <2>3. want \in Nat \ {0}
    BY <1>5, <2>2
  <2>4. low = IF Top(c) > want THEN Top(c) - want ELSE 0
    BY DEF Low
  <2> HIDE DEF want, low, start
  <2> QED
    BY <2>1, <2>3, <2>4
<1>7. got \in FiniteSubsetsOf(Nat)
  <2>1. Kept(c) \subseteq (low + 1) .. Top(c) /\ IsFiniteSet((low + 1) .. Top(c))
    <3>1. Kept(c) \subseteq (low + 1) .. Top(c)
      BY DEF Kept
    <3>2. low + 1 \in Int /\ Top(c) \in Int
      BY <1>6
    <3>3. \A a, b \in Int : IsFiniteSet(a .. b)
      BY FS_Interval
    <3> QED
      BY <3>1, <3>2, <3>3
  <2>2. IsFiniteSet(Kept(c))
    BY <2>1, FS_Subset
  <2>3. IsFiniteSet(got)
    BY <1>5, <2>2, FS_Union
  <2>4. Kept(c) \subseteq Nat
    BY <1>6, <2>1
  <2> QED
    BY <1>5, <2>3, <2>4 DEF FiniteSubsetsOf
<1>8. \/ /\ low # 0 /\ reader' = reader
         /\ call' = [call EXCEPT ![t].token = low, ![t].start = start, ![t].got = got]
      \/ Finish(t) /\ reader' = [reader EXCEPT ![c.by] = page]
  BY DEF listMessages, EndToken, Low, Top, Start, Kept, OldPages
<1>9. UNCHANGED <<now, receipt, view, flag, asked, timeline, pins>>
  BY DEF listMessages, server, ghost
<1>10. old \in Pages
  <2>1. reader[c.by] \in Pages
    BY <1>1 DEF Types, CallType
  <2>2. NoPages \in Pages
    BY DEF NoPages, Pages
  <2> QED
    BY <2>1, <2>2 DEF OldPages
<1> HIDE DEF low, got, start, old
<1>11. page \in Pages
  <2>1. old.seen \in SUBSET Nat /\ old.twice \in SUBSET Nat /\ got \in SUBSET Nat
    BY <1>7, <1>10 DEF Pages, FiniteSubsetsOf
  <2> QED
    BY <1>6, <2>1 DEF Pages
<1> HIDE DEF page
<1>12. CASE /\ low # 0 /\ reader' = reader
            /\ call' = [call EXCEPT ![t].token = low, ![t].start = start, ![t].got = got]
  <2> DEFINE d == [c EXCEPT !.token = low, !.start = start, !.got = got]
  <2>1. d \in CallType /\ d.op = c.op /\ d.by = c.by /\ d.of = c.of /\ d.todo = c.todo
    BY <1>1, <1>6, <1>7 DEF CallType
  <2>2. Shape(d)
    BY <2>1 DEF Base, Shape
  <2>3. call' = [call EXCEPT ![t] = d]
    BY <1>1, <1>12
  <2> HIDE DEF d
  <2>4. CallsBase' /\ \A u \in Task : call'[u] = IF u = t THEN d ELSE call[u]
    BY <2>1, <2>2, <2>3, CallChanged
  <2>5. Moved(t)
    BY <1>2, <2>1, <2>4 DEF Moved
  <2>6. Base'
    BY <1>1, <1>9, <1>12, <2>4, BaseFrom DEF Types
  <2> QED
    BY <1>4, <1>6, <1>9, <1>12, <2>4, <2>5, <2>6 DEF d, low, start, got
<1>13. CASE Finish(t) /\ reader' = [reader EXCEPT ![c.by] = page]
  <2>1. CallsBase' /\ Moved(t) /\ call'[t] = NoCall
    BY <1>2, <1>13, FinishStep
  <2>2. reader' \in [Handle -> Pages]
    BY <1>1, <1>11, <1>13 DEF Types
  <2>3. Types' /\ Ordered'
    BY <1>1, <1>9, <2>1, <2>2 DEF Types, CallsBase, Base, Ordered
  <2>4. Base'
    BY <2>1, <2>3 DEF Base, CallsBase
  <2> QED
    BY <1>4, <1>6, <1>9, <1>13, <2>1, <2>4 DEF page, old, low, start, got
<1> QED
  BY <1>8, <1>12, <1>13

\* The responses a tally has still to read.
Upto(c) == IF c.token = 0 THEN Len(timeline) ELSE c.upto
Left(c) == {i \in Client!Related(timeline, "pollResponse", c.of) :
              i <= Upto(c) /\ (c.token = 0 \/ i < c.token)}

\* A response is read, the newest of those left; or there is none and the
\* tally is told.
LEMMA ResponseStep ==
    ASSUME Base, NEW t \in Task, ReadResponses(t)
    PROVE  /\ Base' /\ Moved(t) /\ timeline' = timeline /\ Upto(call[t]) \in Nat
           /\ call[t].op = "getPollResponses" /\ call[t].todo[1].kind = "responses"
           /\ \/ /\ polled' = polled
                 /\ \E i \in Left(call[t]) :
                       /\ \A j \in Left(call[t]) : j <= i
                       /\ call'[t] = [call[t] EXCEPT !.token = i, !.upto = Upto(call[t]),
                            !.best = Client!CountResponse(timeline, call[t].best, call[t].ended, i)]
              \/ /\ Left(call[t]) = {} /\ call'[t] = NoCall
                 /\ polled' = [poll |-> call[t].of, ended |-> call[t].ended,
                               best |-> call[t].best, upto |-> Upto(call[t]),
                               quiet |-> {i \in Client!Related(timeline, "pollEnd", call[t].of) :
                                   call[t].start < i /\ i <= Upto(call[t])} = {}]
<1> DEFINE c == call[t]
           up == Upto(c)
           rest == Left(c)
           i == CHOOSE k \in rest : \A j \in rest : j <= k
           b == Client!CountResponse(timeline, c.best, c.ended, i)
<1>1. /\ Types /\ Ordered /\ c \in CallType /\ timeline \in Seq(Client!Event)
      /\ Len(timeline) \in Nat /\ call \in [Task -> CallType] /\ DOMAIN timeline = 1 .. Len(timeline)
  BY LenProperties DEF Base, Types
<1>2. c.op # "none" /\ Request(t).kind = "responses"
  BY DEF ReadResponses, Asks
<1>3. c.op = "getPollResponses"
  <2>1. Request(t) \in Good(c.op, c.by)
    BY <1>2, NextRequest
  <2> QED
    BY <1>2, <2>1 DEF Good
<1>4. up \in Nat
  BY <1>1 DEF Upto, CallType
<1>5. UNCHANGED <<now, receipt, view, flag, reader, asked, timeline, pins>>
  BY DEF ReadResponses, server, client
<1>6. CASE rest # {}
  <2>1. /\ polled' = polled
        /\ call' = [call EXCEPT ![t].token = i, ![t].upto = up, ![t].best =
                       Client!CountResponse(timeline, @, c.ended, i)]
    BY <1>6 DEF ReadResponses, Upto, Left
  <2>2. rest \subseteq 0 .. Len(timeline) /\ rest \subseteq 1 .. Len(timeline)
    BY <1>1 DEF Left, Client!Related
  <2> HIDE DEF rest
  <2>3. i \in rest /\ \A j \in rest : j <= i
    <3>1. \E k \in rest : \A j \in rest : j <= k
      BY <1>1, <1>6, <2>2, LastOne
    <3> QED
      BY <3>1
  <2> HIDE DEF i, up
  <2>4. timeline[i].sender \in Handle /\ i \in Nat
    <3>1. i \in 1 .. Len(timeline)
      BY <2>2, <2>3
    <3>2. timeline[i] \in Client!Event
      BY <1>1, <3>1, ElementOfSeq
    <3> QED
      BY <3>1, <3>2 DEF Client!Event
  <2>5. b \in [Handle -> Nat]
    BY <1>1, <2>4 DEF Client!CountResponse, CallType
  <2> DEFINE d == [c EXCEPT !.token = i, !.upto = up, !.best = b]
  <2>6. call' = [call EXCEPT ![t] = d]
    BY <1>1, <2>1
  <2> HIDE DEF b
  <2>7. d \in CallType /\ d.op = c.op /\ d.by = c.by /\ d.of = c.of /\ d.todo = c.todo
    BY <1>1, <1>4, <2>4, <2>5 DEF CallType
  <2>8. Shape(d)
    BY <2>7 DEF Base, Shape
  <2> HIDE DEF d
  <2>9. CallsBase' /\ \A u \in Task : call'[u] = IF u = t THEN d ELSE call[u]
    BY <2>6, <2>7, <2>8, CallChanged
  <2>10. Moved(t)
    BY <1>2, <2>7, <2>9 DEF Moved
  <2>11. Base'
    BY <1>1, <1>5, <2>9, BaseFrom DEF Types
  <2>12. call'[t] = [c EXCEPT !.token = i, !.upto = Upto(c), !.best =
                       Client!CountResponse(timeline, c.best, c.ended, i)]
    BY <2>9 DEF d, b, up
  <2> QED
    BY <1>2, <1>3, <1>4, <1>5, <2>1, <2>3, <2>10, <2>11, <2>12 DEF Request, rest, up
<1>7. CASE rest = {}
  <2>1. /\ Finish(t)
        /\ polled' = [poll |-> c.of, ended |-> c.ended, best |-> c.best, upto |-> up,
                      quiet |-> {k \in Client!Related(timeline, "pollEnd", c.of) :
                                   c.start < k /\ k <= up} = {}]
    BY <1>7 DEF ReadResponses, Upto, Left
  <2>2. CallsBase' /\ Moved(t) /\ call'[t] = NoCall
    BY <1>2, <2>1, FinishStep
  <2>3. Base'
    BY <1>1, <1>5, <2>2, BaseFrom DEF Types
  <2> QED
    BY <1>2, <1>3, <1>4, <1>5, <1>7, <2>1, <2>2, <2>3 DEF Request
<1> QED
  BY <1>6, <1>7

\* What the server answers keeps the base, and only adds to the timeline.
LEMMA ServerBase ==
    ASSUME Base, NEW t \in Task, ServerStep(t)
    PROVE  Base' /\ (Moved(t) \/ Settled(t)) /\ Longer(timeline, timeline')
<1>1. timeline' = timeline => Longer(timeline, timeline')
  BY NoCallType, Appended DEF Base, Types
<1> QED
  BY <1>1, EventBase, CallBase, MarkBase, PageStep, ResponseStep DEF ServerStep

\* markAsUnread of a room that is known to be marked changes no call but for
\* whether it is alone.
LEMMA AlreadyMarked ==
    ASSUME Base, NEW t \in Task, NEW h \in Handle, flag[h], MarkAsUnread(t, h)
    PROVE  /\ Base' /\ timeline' = timeline
           /\ \A u \in Task : /\ Alike(call[u], call'[u])
                              /\ u \in Rivals("markAsUnread", h) => ~call'[u].alone
<1>1. Types /\ Ordered /\ call \in [Task -> CallType]
  BY DEF Base, Types
<1>2. /\ UNCHANGED <<server, client, now>>
      /\ call' = [u \in Task |-> [call[u] EXCEPT !.alone = @ /\ u \notin Rivals("markAsUnread", h)]]
      /\ asked' = [asked EXCEPT ![h].what = IF Rivals("markAsUnread", h) = {} /\ h \in marked
                                            THEN "unread" ELSE "nothing"]
  BY DEF MarkAsUnread
<1>3. ASSUME NEW u \in Task
      PROVE  /\ call'[u] \in CallType /\ Shape(call'[u]) /\ Alike(call[u], call'[u])
             /\ u \in Rivals("markAsUnread", h) => ~call'[u].alone
  <2>1. call[u] \in CallType /\ Shape(call[u])
    BY <1>1 DEF Base
  <2>2. PICK al \in BOOLEAN : al = (call[u].alone /\ u \notin Rivals("markAsUnread", h))
    BY <2>1 DEF CallType
  <2>3. call'[u] = [call[u] EXCEPT !.alone = al]
    BY <1>2, <2>2
  <2>4. call'[u] \in CallType /\ Alike(call[u], call'[u]) /\ (call'[u].alone => al)
    <3>1. CASE al
      <4>1. al = TRUE /\ call[u].alone
        BY <2>2, <3>1
      <4>2. call'[u] = [call[u] EXCEPT !.alone = TRUE]
        BY <2>3, <4>1
      <4> QED
        BY <2>1, <4>1, <4>2 DEF CallType, Alike
    <3>2. CASE ~al
      <4>1. al = FALSE
        BY <3>2
      <4>2. call'[u] = [call[u] EXCEPT !.alone = FALSE]
        BY <2>3, <4>1
      <4>3. call'[u] \in CallType /\ Alike(call[u], call'[u]) /\ ~call'[u].alone
        BY <2>1, <4>2, Joined
      <4> QED
        BY <4>3
    <3> QED
      BY <3>1, <3>2
  <2> QED
    BY <2>1, <2>2, <2>4 DEF Shape, Alike
<1>4. call' \in [Task -> CallType]
  BY <1>2, <1>3
<1>5. asked' \in [Handle -> [what : {"nothing", "read", "unread"}, upto : Nat]]
  BY <1>1, <1>2 DEF Types
<1>6. UNCHANGED <<timeline, now, pins, receipt, view, flag, reader>>
  BY <1>2 DEF server, client
<1>7. Types' /\ Ordered'
  BY <1>1, <1>4, <1>5, <1>6 DEF Types, Ordered
<1> QED
  BY <1>3, <1>6, <1>7 DEF Base

\* The steps of the specification.
LEMMA Steps ==
    ASSUME [Next]_vars
    PROVE  \/ \E t \in Task, h \in Handle : Module(t, h) /\ UNCHANGED hearing
           \/ \E t \in Task : ServerStep(t) /\ UNCHANGED hearing
           \/ Tick /\ UNCHANGED hearing
           \/ ListenersNext /\ UNCHANGED chat
           \/ \E h \in Handle :
                 Sync(h) /\ ((h = Creator /\ Emit((view[h] + 1)..Len(timeline))) \/ UNCHANGED hearing)
           \/ UNCHANGED vars
BY DEF Next, MessagingNext, Module, ServerStep

\* Every step keeps the base.
LEMMA BaseKept ==
    ASSUME Base, [Next]_vars
    PROVE  Base' /\ Longer(timeline, timeline')
<1>0. timeline' = timeline => Longer(timeline, timeline')
  BY NoCallType, Appended DEF Base, Types
<1>1. ASSUME NEW t \in Task, NEW h \in Handle, Module(t, h) PROVE Base' /\ timeline' = timeline
  <2>1. CASE Opens(t, h)
    BY <2>1, BeginStep DEF Opens, Opening
  <2>2. CASE flag[h] /\ MarkAsUnread(t, h)
    BY <2>2, AlreadyMarked
  <2> QED
    BY <1>1, <2>1, <2>2, ModuleOpens
<1>2. ASSUME Tick PROVE Base' /\ timeline' = timeline
  <2>1. /\ now' = now + 1 /\ now \in Nat \ {0}
        /\ UNCHANGED <<timeline, pins, receipt, view, flag, reader, asked, call>>
    BY <1>2 DEF Tick, server, client, ghost, Base, Types
  <2>2. \A i \in DOMAIN timeline : timeline[i].ts \in Nat
    <3>1. \A i \in DOMAIN timeline : timeline[i] \in Client!Event
      BY LenProperties, ElementOfSeq DEF Base, Types
    <3> QED
      BY <3>1 DEF Client!Event
  <2>3. Ordered'
    BY <2>1, <2>2 DEF Base, Ordered
  <2> QED
    BY <2>1, <2>3 DEF Base, Types
<1>3. ASSUME NEW h \in Handle, Sync(h) PROVE Base' /\ timeline' = timeline
  <2>1. /\ UNCHANGED <<timeline, pins, receipt, now, reader, asked, call>>
        /\ view' = [view EXCEPT ![h] = Len(timeline)]
        /\ flag' = [flag EXCEPT ![h] = h \in marked]
    BY <1>3 DEF Sync, server, ghost
  <2>2. view' \in [Handle -> Nat] /\ flag' \in [Handle -> BOOLEAN]
    BY <2>1, LenProperties DEF Base, Types
  <2> QED
    BY <2>1, <2>2 DEF Base, Types, Ordered
<1>4. ASSUME UNCHANGED chat PROVE Base' /\ timeline' = timeline
  BY <1>4 DEF chat, server, client, ghost, Base, Types, Ordered
<1> QED
  BY <1>0, <1>1, <1>2, <1>3, <1>4, Steps, ServerBase DEF vars

----------------------------------------------------------------------------
(* Which calls a step moves.                                               *)

\* Calls of other operations are left as they are.
LEMMA StillFrom ==
    ASSUME NEW set, "none" \notin set
    PROVE  /\ \A t \in Task : Moved(t) /\ call[t].op \notin set => Still(set)
           /\ \A t \in Task : Moved(t) /\ call'[t] = NoCall => Still(set)
           /\ \A t \in Task : Settled(t) /\ "toggleReaction" \notin set => Still(set)
           /\ \A t \in Task : \A h, op, of : Began(t, h, op, of) /\ op \notin set => Still(set)
           /\ (\A u \in Task : Alike(call[u], call'[u])) => Still(set)
           /\ call' = call => Still(set)
<1>1. \A c : Alike(c, c)
  BY DEF Alike
<1>2. ASSUME NEW t \in Task, Moved(t), call[t].op \notin set \/ call'[t] = NoCall
      PROVE  Still(set)
  BY <1>1, <1>2, NoCallType DEF Moved, Still
<1>3. ASSUME NEW t \in Task, NEW h, NEW op, NEW of, Began(t, h, op, of), op \notin set
      PROVE  Still(set)
  BY <1>3 DEF Began, Still
<1>4. ASSUME NEW t \in Task, Settled(t), "toggleReaction" \notin set
      PROVE  Still(set)
  <2>1. ASSUME NEW u \in Task, u # t, call'[u] # call[u] PROVE call'[u].op \notin set
    <3>1. call[u].op = "toggleReaction" /\ (call'[u] = NoCall \/ Freed(u, Len(timeline) + 1))
      BY <1>4, <2>1 DEF Settled
    <3>2. CASE call'[u] = NoCall
      BY <3>2, NoCallType
    <3>3. CASE Freed(u, Len(timeline) + 1)
      <4>1. call'[u].op = call[u].op
        BY <3>3 DEF Freed
      <4> QED
        BY <1>4, <3>1, <4>1
    <3> QED
      BY <3>1, <3>2, <3>3
  <2>2. call'[t].op \notin set
    BY <1>4, NoCallType DEF Settled
  <2> QED
    BY <1>1, <2>1, <2>2 DEF Still
<1> QED
  BY <1>1, <1>2, <1>3, <1>4 DEF Still

\* The answers that an operation may have.
LEMMA Answers ==
    ASSUME Base, NEW t \in Task, ServerStep(t)
    PROVE  /\ call[t].op = "getMessages" => listMessages(t) \/ RequestRefused(t)
           /\ call[t].op = "getPollResponses" =>
                 ReadEnds(t) \/ ReadResponses(t) \/ RequestRefused(t)
           /\ call[t].op \in Marking => PutReceipt(t) \/ PutMark(t) \/ RequestRefused(t)
           /\ call[t].op = "pinUnpinMessage" =>
                 ReadPins(t) \/ WritePins(t) \/ AnswerLost(t) \/ RequestRefused(t)
           /\ call[t].op \in {"toggleReaction", "deleteMessage"} =>
                 PutEvent(t) \/ AnswerLost(t) \/ RequestRefused(t)
           /\ RequestRefused(t) => call'[t] = NoCall
           /\ AnswerLost(t) => /\ call'[t] = NoCall
                               /\ call[t].op \notin {"getMessages", "getPollResponses"} \cup Marking
<1>1. call[t].op # "none"
  BY ServerBase DEF Moved, Settled
<1>2. Exact(call[t].op, call[t].of, call[t].todo) /\ Request(t) = call[t].todo[1]
  BY <1>1, NextRequest DEF Request
<1>3. RequestRefused(t) \/ AnswerLost(t) => call'[t] = NoCall
  BY <1>1, ThrowStep DEF RequestRefused, AnswerLost
<1>4. /\ PutEvent(t) => Request(t).kind = "event"
      /\ PutReceipt(t) => Request(t).kind \in {"markers", "receipt"}
      /\ PutMark(t) => Request(t).kind \in {"mark", "unmark"}
      /\ ReadPins(t) => Request(t).kind = "readPins"
      /\ WritePins(t) => Request(t).kind = "writePins"
      /\ Plain(t) => Request(t).kind \in {"credential", "upload", "download", "typing"}
      /\ listMessages(t) => Request(t).kind = "page"
      /\ ReadEnds(t) => Request(t).kind = "ends"
      /\ ReadResponses(t) => Request(t).kind = "responses"
      /\ AnswerLost(t) => Request(t).kind \in {"event", "writePins"}
  BY DEF PutEvent, PutReceipt, PutMark, ReadPins, WritePins, Plain, listMessages,
         ReadEnds, ReadResponses, AnswerLost, Asks
<1>5. /\ call[t].op = "getMessages" => Request(t).kind = "page"
      /\ call[t].op = "getPollResponses" => Request(t).kind \in {"ends", "responses"}
      /\ call[t].op \in Marking => Request(t).kind \in {"markers", "receipt", "mark", "unmark"}
      /\ call[t].op = "pinUnpinMessage" => Request(t).kind \in {"readPins", "writePins"}
      /\ call[t].op \in {"toggleReaction", "deleteMessage"} => Request(t).kind = "event"
  BY <1>2 DEF Exact, Marking
<1> QED
  BY <1>3, <1>4, <1>5 DEF ServerStep

----------------------------------------------------------------------------
(* Pages.                                                                  *)

\* Steps of other operations leave the pages.
LEMMA PagesFrame ==
    ASSUME Base, PagesKept, Base', Longer(timeline, timeline'), Still({"getMessages"}),
           reader' = reader
    PROVE  PagesKept'
<1>1. /\ timeline \in Seq(Client!Event) /\ reader \in [Handle -> Pages]
      /\ call \in [Task -> CallType] /\ call' \in [Task -> CallType]
  BY DEF Base, Types
<1>2. \A h \in Handle : ReaderOK(timeline', reader[h])
  BY <1>1, PagesLonger DEF PagesKept
<1>3. ASSUME NEW t \in Task, call'[t].op = "getMessages"
      PROVE  /\ call[t].op = "getMessages" /\ call[t].by = call'[t].by
             /\ PagesCall(timeline', call'[t], reader[call'[t].by])
  <2>1. Alike(call[t], call'[t])
    BY <1>3 DEF Still
  <2>2. call[t].op = "getMessages" /\ call[t].by = call'[t].by /\ call[t].by \in Handle
    BY <1>1, <1>3, <2>1 DEF Alike, CallType
  <2>3. PagesCall(timeline', call[t], reader[call[t].by])
    BY <1>1, <2>2, PagesLonger DEF PagesKept
  <2> QED
    BY <2>1, <2>2, <2>3 DEF PagesCall, Alike
<1> QED
  BY <1>2, <1>3 DEF PagesKept

\* A call begins to read where the application is.
LEMMA PagesBegin ==
    ASSUME Base, PagesKept, NEW t \in Task, NEW h \in Handle, NEW of, Base',
           timeline' = timeline, reader' = reader, Began(t, h, "getMessages", of), Active("getMessages", h) = {}
    PROVE  PagesKept'
<1> DEFINE r == reader[h]
<1>1. r \in Pages /\ ReaderOK(timeline, r) /\ r.token \in Nat
  BY DEF Base, Types, Pages, PagesKept
<1>2. PagesCall(timeline, call'[t], r)
  <2>1. call'[t].token = r.token /\ call'[t].start = r.start /\ call'[t].got = {}
    BY DEF Began
  <2>2. r.token # 0 => Covers(timeline, {}, r.token, r.token)
    BY <1>1 DEF Covers, Due
  <2> QED
    BY <1>1, <2>1, <2>2 DEF PagesCall, ReaderOK
<1>3. ASSUME NEW u \in Task, u # t, call'[u].op = "getMessages"
      PROVE  /\ call[u].op = "getMessages" /\ call[u].by = call'[u].by /\ call[u].by # h
             /\ PagesCall(timeline, call'[u], reader[call'[u].by])
  <2>1. Alike(call[u], call'[u])
    BY <1>3 DEF Began
  <2>2. call[u].op = "getMessages" /\ call[u].by = call'[u].by
    BY <1>3, <2>1 DEF Alike
  <2>3. call[u].by # h
    BY <2>2 DEF Active
  <2>4. PagesCall(timeline, call[u], reader[call[u].by])
    BY <2>2 DEF PagesKept
  <2> QED
    BY <2>1, <2>2, <2>3, <2>4 DEF PagesCall, Alike
<1>4. call'[t].by = h
  BY DEF Began
<1> QED
  BY <1>2, <1>3, <1>4 DEF PagesKept

\* A page extends what was read down to its end.
LEMMA PagesRead ==
    ASSUME Base, PagesKept, NEW t \in Task, listMessages(t)
    PROVE  PagesKept'
<1> DEFINE c == call[t]
           r == reader[c.by]
           low == Low(c)
           top == Top(c)
           start == Start(c)
           got == c.got \cup Kept(c)
           hi == IF r.token # 0 THEN r.token ELSE start
<1>1. /\ Base' /\ Moved(t) /\ timeline' = timeline /\ c.op = "getMessages"
      /\ low \in Nat /\ top \in Nat /\ low <= top
  BY PageStep
<1>2. /\ timeline \in Seq(Client!Event) /\ Len(timeline) \in Nat /\ c \in CallType
      /\ c.by \in Handle /\ r \in Pages /\ reader \in [Handle -> Pages]
      /\ c.token \in Nat /\ c.start \in Nat /\ r.token \in Nat /\ r.start \in Nat
  BY LenProperties DEF Base, Types, CallType, Pages
<1>3. ReaderOK(timeline, r) /\ PagesCall(timeline, c, r)
  BY <1>1, <1>2 DEF PagesKept
<1>4. /\ start \in Nat /\ hi \in Nat /\ top <= hi /\ hi <= start /\ start <= Len(timeline)
      /\ r.token # 0 => start = r.start
      /\ Covers(timeline, c.got, top, hi)
  <2>1. CASE c.token = 0
    <3>1. c.got = {} /\ r.token = 0 /\ top = Len(timeline) /\ start = Len(timeline)
      BY <1>3, <2>1 DEF PagesCall, Top, Start
    <3>2. Covers(timeline, {}, Len(timeline), Len(timeline))
      BY <1>2 DEF Covers, Due
    <3> QED
      BY <1>2, <3>1, <3>2
  <2>2. CASE c.token # 0
    <3>1. top = c.token /\ start = c.start
      BY <2>2 DEF Top, Start
    <3> QED
      BY <1>2, <1>3, <2>2, <3>1 DEF PagesCall, ReaderOK
  <2> QED
    BY <2>1, <2>2
<1> HIDE DEF low, top, start, hi
<1>5. Covers(timeline, got, low, hi)
  <2>1. got \subseteq (low + 1) .. hi
    BY <1>1, <1>4 DEF Covers, Kept, low, top
  <2>2. ASSUME NEW i \in Due(timeline, low, hi) PROVE i \in got
    <3>1. CASE i <= top
      BY <1>1, <1>4, <2>2, <3>1 DEF Due, Kept, Client!Listable, low, top
    <3>2. CASE ~(i <= top)
      <4>1. i \in Due(timeline, top, hi)
        BY <1>1, <1>4, <2>2, <3>2 DEF Due
      <4> QED
        BY <1>4, <4>1 DEF Covers
    <3> QED
      BY <3>1, <3>2
  <2> QED
    BY <2>1, <2>2 DEF Covers
<1> HIDE DEF got
<1>6. \A u \in Task : u # t => call'[u] = call[u] /\ (call[u].op = "getMessages" => call[u].by # c.by)
  BY <1>1 DEF Moved, PagesKept
<1>7. CASE /\ low # 0 /\ reader' = reader
           /\ call'[t] = [c EXCEPT !.token = low, !.start = start, !.got = got]
  <2>1. /\ call'[t].token = low /\ call'[t].start = start /\ call'[t].got = got
        /\ call'[t].by = c.by
    BY <1>2, <1>7 DEF CallType
  <2>2. PagesCall(timeline, call'[t], r)
    <3>1. r.token # 0 => low <= r.token
      BY <1>1, <1>2, <1>4 DEF hi
    <3>2. Covers(timeline, got, low, IF r.token # 0 THEN r.token ELSE start)
      BY <1>5 DEF hi
    <3>3. low <= start
      BY <1>1, <1>4
    <3> QED
      BY <1>4, <1>7, <2>1, <3>1, <3>2, <3>3 DEF PagesCall
  <2>3. \A h \in Handle : ReaderOK(timeline', reader'[h])
    BY <1>1, <1>7 DEF PagesKept
  <2>4. \A u \in Task : call'[u].op = "getMessages" =>
           /\ call[u].op = "getMessages" /\ call'[u].by = call[u].by
           /\ PagesCall(timeline', call'[u], reader'[call'[u].by])
    <3>1. \A u \in Task : u # t /\ call'[u].op = "getMessages" =>
             call'[u] = call[u] /\ PagesCall(timeline', call'[u], reader'[call'[u].by])
      BY <1>1, <1>6, <1>7 DEF PagesKept
    <3>2. PagesCall(timeline', call'[t], reader'[call'[t].by])
      BY <1>1, <1>7, <2>1, <2>2
    <3> QED
      BY <1>1, <2>1, <3>1, <3>2
  <2> QED
    BY <2>3, <2>4 DEF PagesKept
<1>8. CASE /\ call'[t] = NoCall
           /\ reader' = [reader EXCEPT ![c.by] =
                [token |-> low, start |-> start, seen |-> OldPages(c).seen \cup got,
                 twice |-> OldPages(c).twice \cup (OldPages(c).seen \cap got),
                 state |-> IF low = 0 THEN "done" ELSE "open"]]
  <2> DEFINE old == OldPages(c)
             p == [token |-> low, start |-> start, seen |-> old.seen \cup got,
                   twice |-> old.twice \cup (old.seen \cap got),
                   state |-> IF low = 0 THEN "done" ELSE "open"]
  <2>1. old.twice = {} /\ old.seen \cap got = {} /\ Covers(timeline, old.seen \cup got, low, start)
    <3>1. CASE r.token = 0
      <4>1. old = NoPages /\ hi = start
        BY <3>1 DEF OldPages, hi
      <4>2. old.seen = {} /\ old.twice = {}
        BY <4>1 DEF NoPages
      <4> HIDE DEF old
      <4>3. old.seen \cup got = got
        BY <4>2
      <4> QED
        BY <1>5, <4>1, <4>2, <4>3
    <3>2. CASE r.token # 0
      <4>1. old = r /\ hi = r.token /\ start = r.start
        BY <1>4, <3>2 DEF OldPages, hi
      <4>2. r.twice = {} /\ Covers(timeline, r.seen, r.token, r.start) /\ r.token <= r.start
        BY <1>3, <3>2 DEF ReaderOK
      <4>3. r.seen \cap got = {}
        BY <1>1, <1>2, <1>5, <4>1, <4>2 DEF Covers
      <4>4. Covers(timeline, r.seen \cup got, low, r.start)
        <5>1. low <= r.token
          BY <1>1, <1>2, <1>4, <4>1
        <5>2. r.seen \cup got \subseteq (low + 1) .. r.start
          <6>1. r.seen \subseteq (r.token + 1) .. r.start /\ got \subseteq (low + 1) .. r.token
            BY <1>5, <4>1, <4>2 DEF Covers
          <6>2. \A i \in (r.token + 1) .. r.start : i \in (low + 1) .. r.start
            BY <1>1, <1>2, <5>1
          <6>3. \A i \in (low + 1) .. r.token : i \in (low + 1) .. r.start
            BY <1>1, <1>2, <4>2
          <6> QED
            BY <6>1, <6>2, <6>3
        <5>3. \A i \in Due(timeline, low, r.start) :
                 i \in Due(timeline, low, r.token) \/ i \in Due(timeline, r.token, r.start)
          BY <1>1, <1>2, <5>1 DEF Due
        <5> QED
          BY <1>5, <4>1, <4>2, <5>2, <5>3 DEF Covers
      <4> QED
        BY <4>1, <4>2, <4>3, <4>4
    <3> QED
      BY <3>1, <3>2
  <2> HIDE DEF old
  <2>2. ReaderOK(timeline, p)
    <3>1. low <= start
      BY <1>1, <1>4
    <3> QED
      BY <1>4, <2>1, <3>1 DEF ReaderOK
  <2>3. reader' = [reader EXCEPT ![c.by] = p]
    BY <1>8 DEF old
  <2> HIDE DEF p
  <2>4. \A h \in Handle : reader'[h] = IF h = c.by THEN p ELSE reader[h]
    BY <1>2, <2>3
  <2>5. call'[t].op # "getMessages"
    BY <1>8, NoCallType
  <2>6. \A u \in Task : call'[u].op = "getMessages" => u # t
    BY <2>5
  <2>7. \A u \in Task : call'[u].op = "getMessages" =>
           call[u].op = "getMessages" /\ call'[u] = call[u] /\ reader'[call[u].by] = reader[call[u].by]
    <3>1. \A u \in Task : call[u].by \in Handle
      BY DEF Base, Types, CallType
    <3> QED
      BY <1>6, <2>4, <2>6, <3>1
  <2> QED
    BY <1>1, <2>2, <2>4, <2>7 DEF PagesKept
<1>9. \/ /\ low # 0 /\ reader' = reader
         /\ call'[t] = [c EXCEPT !.token = low, !.start = start, !.got = got]
      \/ /\ call'[t] = NoCall
         /\ reader' = [reader EXCEPT ![c.by] =
              [token |-> low, start |-> start, seen |-> OldPages(c).seen \cup got,
               twice |-> OldPages(c).twice \cup (OldPages(c).seen \cap got),
               state |-> IF low = 0 THEN "done" ELSE "open"]]
  BY PageStep DEF low, start, got
<1> QED
  BY <1>7, <1>8, <1>9

\* A call begins: what else it may change.
BeginsCall(t, h, op, of, todo) ==
    /\ Opening(t, h, op, of, todo) /\ Began(t, h, op, of)
    /\ Len(call'[t].todo) = Len(todo) /\ call'[t].todo[1].kind = todo[1].kind
    /\ call'[t].todo[1].event.type = todo[1].event.type
    /\ call'[t].todo[1].event.of = todo[1].event.of
    /\ call'[t].todo[1].after = todo[1].after
    /\ UNCHANGED <<timeline, pins, receipt, marked, view, flag, reader, toggled, spoiled,
                   wanted, polled>>
    /\ raced' = (raced \/ (op = "pinUnpinMessage" /\ Rivals(op, h) # {}))
    /\ asked' = IF op \in Marking THEN [asked EXCEPT ![h].what = "nothing"] ELSE asked

\* A step is the beginning of a call, markAsUnread that has nothing to do, an
\* answer of the server, or leaves the calls and the server alone.
LEMMA StepCases ==
    ASSUME Base, [Next]_vars
    PROVE  /\ Base' /\ Longer(timeline, timeline')
           /\ \/ \E t \in Task, h \in Handle, op \in Operation, of \in Nat :
                    \E todo \in Seq(Good(op, h)) : BeginsCall(t, h, op, of, todo)
              \/ \E t \in Task, h \in Handle : flag[h] /\ MarkAsUnread(t, h)
              \/ \E t \in Task : ServerStep(t)
              \/ /\ UNCHANGED <<call, timeline, pins, receipt, marked, reader, ghost>>
                 /\ UNCHANGED <<view, flag>> \/ \E h \in Handle : Sync(h)
<1>1. ASSUME NEW t \in Task, NEW h \in Handle, Module(t, h), ~(flag[h] /\ MarkAsUnread(t, h))
      PROVE  \E op \in Operation, of \in Nat :
                \E todo \in Seq(Good(op, h)) : BeginsCall(t, h, op, of, todo)
  <2>1. PICK op \in Operation, of \in Nat : \E todo \in Seq(Good(op, h)) : Opening(t, h, op, of, todo)
    BY <1>1, ModuleOpens DEF Opens
  <2>2. PICK todo \in Seq(Good(op, h)) : Opening(t, h, op, of, todo)
    BY <2>1
  <2>3. op # "none" /\ todo # <<>> /\ Exact(op, of, todo) /\ Begin(t, h, op, of, todo)
    BY <2>2 DEF Opening
  <2>4. Began(t, h, op, of) /\ call'[t].todo = Stamp(todo)
    BY <2>3, BeginStep
  <2>5. now \in Nat /\ Len(todo) \in Nat \ {0}
    BY <2>3, EmptySeq DEF Base, Types
  <2>6. /\ Len(Stamp(todo)) = Len(todo) /\ Stamp(todo)[1].kind = todo[1].kind
        /\ Stamp(todo)[1].event.type = todo[1].event.type
        /\ Stamp(todo)[1].event.of = todo[1].event.of
        /\ Stamp(todo)[1].after = todo[1].after
    BY <2>3, <2>5, StampGood
  <2>7. BeginsCall(t, h, op, of, todo)
    BY <2>2, <2>3, <2>4, <2>6 DEF BeginsCall, Begin, server, client
  <2> QED
    BY <2>7
<1>2. Tick => UNCHANGED <<call, timeline, pins, receipt, marked, reader, ghost, view, flag>>
  BY DEF Tick, server, client
<1>3. UNCHANGED chat => UNCHANGED <<call, timeline, pins, receipt, marked, reader, ghost, view, flag>>
  BY DEF chat, server, client
<1>4. \A h : Sync(h) => UNCHANGED <<call, timeline, pins, receipt, marked, reader, ghost>>
  BY DEF Sync, server
<1> QED
  BY <1>1, <1>2, <1>3, <1>4, Steps, BaseKept DEF vars

\* Every step keeps the pages.
LEMMA PagesNext ==
    ASSUME Base, PagesKept, [Next]_vars
    PROVE  PagesKept'
<1>0. Base' /\ Longer(timeline, timeline') /\ "none" \notin {"getMessages"}
  BY StepCases
<1>1. ASSUME NEW t \in Task, NEW h \in Handle, NEW op \in Operation, NEW of \in Nat,
             NEW todo \in Seq(Good(op, h)), BeginsCall(t, h, op, of, todo)
      PROVE  PagesKept'
  <2>1. Began(t, h, op, of) /\ Opening(t, h, op, of, todo) /\ UNCHANGED <<timeline, reader>>
    BY <1>1 DEF BeginsCall
  <2>2. CASE op = "getMessages"
    BY <1>0, <2>1, <2>2, PagesBegin DEF Opening
  <2>3. CASE op # "getMessages"
    BY <1>0, <2>1, <2>3, StillFrom, PagesFrame
  <2> QED
    BY <2>2, <2>3
<1>2. ASSUME NEW t \in Task, NEW h \in Handle, flag[h] /\ MarkAsUnread(t, h) PROVE PagesKept'
  <2>1. \A u \in Task : Alike(call[u], call'[u])
    BY <1>2, AlreadyMarked
  <2>2. reader' = reader
    BY <1>2 DEF MarkAsUnread, Begin, client
  <2> QED
    BY <1>0, <2>1, <2>2, StillFrom, PagesFrame
<1>3. ASSUME NEW t \in Task, ServerStep(t) PROVE PagesKept'
  <2>1. CASE listMessages(t)
    BY <2>1, PagesRead
  <2>2. CASE ~listMessages(t)
    <3>1. reader' = reader
      BY <1>3, <2>2 DEF ServerStep, PutEvent, PutReceipt, PutMark, ReadPins, WritePins, Plain,
         ReadEnds, ReadResponses, RequestRefused, AnswerLost, client
    <3>2. call[t].op # "getMessages" \/ call'[t] = NoCall
      BY <1>3, <2>2, Answers
    <3>3. Moved(t) \/ Settled(t)
      BY <1>3, ServerBase
    <3> QED
      BY <1>0, <3>1, <3>2, <3>3, StillFrom, PagesFrame
  <2> QED
    BY <2>1, <2>2
<1>4. ASSUME UNCHANGED <<call, reader>> PROVE PagesKept'
  BY <1>0, <1>4, StillFrom, PagesFrame
<1> QED
  BY <1>1, <1>2, <1>3, <1>4, StepCases

----------------------------------------------------------------------------
(* Polls.                                                                  *)

\* Steps of other operations leave the tallies.
LEMMA TallyFrame ==
    ASSUME Base, TallyKept, Base', Longer(timeline, timeline'), Still({"getPollResponses"}),
           polled' = polled
    PROVE  TallyKept'
<1>1. timeline \in Seq(Client!Event) /\ call \in [Task -> CallType]
  BY DEF Base, Types
<1>2. Tallied(timeline', polled)
  BY <1>1, TallyLonger DEF TallyKept
<1>3. ASSUME NEW t \in Task, call'[t].op = "getPollResponses"
      PROVE  TallyCall(timeline', call'[t])
  <2>1. Alike(call[t], call'[t])
    BY <1>3 DEF Still
  <2>2. call[t].op = "getPollResponses"
    BY <1>3, <2>1 DEF Alike
  <2>3. TallyCall(timeline', call[t])
    BY <1>1, <2>2, TallyLonger DEF TallyKept
  <2> QED
    BY <2>1, <2>3 DEF TallyCall, Alike
<1> QED
  BY <1>2, <1>3 DEF TallyKept

\* One call changes, and the tally that was told does not.
LEMMA TallyMoved ==
    ASSUME Base, TallyKept, NEW t \in Task, Moved(t), timeline' = timeline, polled' = polled,
           TallyCall(timeline, call'[t])
    PROVE  TallyKept'
BY DEF TallyKept, Moved

\* The poll has ended, or not, as the room is now.
LEMMA TallyEnds ==
    ASSUME Base, TallyKept, NEW t \in Task, ReadEnds(t)
    PROVE  TallyKept'
<1> DEFINE c == call[t]
           en == Client!PollEndTimestamp(timeline, c.of)
<1>1. /\ Moved(t) /\ timeline' = timeline /\ polled' = polled
      /\ timeline \in Seq(Client!Event) /\ Len(timeline) \in Nat /\ c \in CallType
      /\ call \in [Task -> CallType]
  BY CallBase, LenProperties DEF ReadEnds, ghost, Base, Types
<1>2. c.op # "none" /\ c.todo[1].kind = "ends"
  BY DEF ReadEnds, Asks, Request
<1>3. c.op = "getPollResponses"
  <2>1. Request(t) \in Good(c.op, c.by)
    BY <1>2, NextRequest
  <2> QED
    BY <1>2, <2>1 DEF Good, Request
<1>4. c.token = 0 /\ c.best = NoBest
  BY <1>2, <1>3 DEF TallyKept, TallyCall
<1>5. Rest(t)[1].kind = "responses"
  <2>1. Len(c.todo) = 2 /\ c.todo[2].kind = "responses"
    BY <1>2, <1>3, NextRequest DEF Exact
  <2>2. /\ Len(Rest(t)) = Len(c.todo) - 1
        /\ \A i \in 1 .. Len(Rest(t)) : Rest(t)[i] = c.todo[i + 1]
    BY <1>2, NextRequest
  <2>3. Rest(t)[1] = c.todo[2]
    BY <2>1, <2>2
  <2> QED
    BY <2>1, <2>3
<1>6. EndsAt(timeline, c.of, Len(timeline), en)
  BY <1>1, PollEnd
<1>7. call'[t] = [c EXCEPT !.todo = Rest(t), !.ended = en, !.start = Len(timeline)]
  BY <1>1 DEF ReadEnds
<1> HIDE DEF en
<1>8. /\ call'[t].todo = Rest(t) /\ call'[t].ended = en /\ call'[t].start = Len(timeline)
      /\ call'[t].token = c.token /\ call'[t].best = c.best /\ call'[t].of = c.of
  BY <1>1, <1>7 DEF CallType
<1>9. TallyCall(timeline, call'[t])
  BY <1>1, <1>4, <1>5, <1>6, <1>8 DEF TallyCall
<1> QED
  BY <1>1, <1>9, TallyMoved

\* One response counted: tl in order, those from lo on counted, i the newest
\* before.
LEMMA CountOne ==
    ASSUME NEW tl \in Seq(Client!Event), NEW best \in [Handle -> Nat], NEW p, NEW ended \in Nat,
           NEW lo \in Nat, NEW hi \in Nat, NEW i \in Client!Related(tl, "pollResponse", p),
           i < lo, i <= hi,
           \A a, b \in DOMAIN tl : a <= b => tl[a].ts <= tl[b].ts,
           \A j \in Client!Related(tl, "pollResponse", p) : j < lo /\ j <= hi => j <= i,
           Counted(tl, best, p, ended, lo, hi)
    PROVE  Counted(tl, Client!CountResponse(tl, best, ended, i), p, ended, i, hi)
<1> DEFINE s == tl[i].sender
           new == Client!CountResponse(tl, best, ended, i)
           V(u) == Votes(tl, p, u, ended, lo, hi)
           W(u) == Votes(tl, p, u, ended, i, hi)
<1>1. /\ DOMAIN tl = 1 .. Len(tl) /\ Len(tl) \in Nat /\ i \in DOMAIN tl /\ i \in Nat
      /\ \A j \in DOMAIN tl : tl[j].ts \in Nat /\ j \in Nat \ {0}
  <2>1. DOMAIN tl = 1 .. Len(tl) /\ Len(tl) \in Nat /\ tl \in [1 .. Len(tl) -> Client!Event]
    BY LenProperties
  <2>2. i \in DOMAIN tl
    BY DEF Client!Related
  <2>3. \A j \in 1 .. Len(tl) : tl[j].ts \in Nat
    BY <2>1 DEF Client!Event
  <2> QED
    BY <2>1, <2>2, <2>3
<1>2. s \in Handle
  <2>1. tl[i] \in Client!Event
    BY <1>1, ElementOfSeq
  <2> QED
    BY <2>1 DEF Client!Event
<1>3. \A u \in Handle : \A j : j \in W(u) <=>
         j \in V(u) \/ (j = i /\ u = s /\ (ended # 0 => tl[i].ts <= ended))
  BY <1>1 DEF Votes, Client!Related
<1>4. \A u \in Handle : \A j \in V(u) : j \in DOMAIN tl /\ lo <= j /\ i < j /\ j # 0
  BY <1>1 DEF Votes, Client!Related
<1>5. \A u \in Handle : IsLast(best[u], V(u))
  BY DEF Counted
<1> HIDE DEF V, W
<1>6. ASSUME NEW u \in Handle, \A j : j \in W(u) <=> j \in V(u), new[u] = best[u]
      PROVE  IsLast(new[u], W(u))
  <2>1. W(u) = V(u)
    BY <1>6
  <2> QED
    BY <1>5, <1>6, <2>1
<1>7. CASE ended # 0 /\ tl[i].ts > ended
  <2>1. new = best
    BY <1>7 DEF Client!CountResponse
  <2>2. ~(tl[i].ts <= ended)
    BY <1>1, <1>7
  <2>3. \A u \in Handle : \A j : j \in W(u) <=> j \in V(u)
    BY <1>3, <1>7, <2>2
  <2>4. \A u \in Handle : IsLast(new[u], W(u))
    BY <1>6, <2>1, <2>3
  <2> QED
    BY <2>4 DEF Counted, W
<1>8. CASE ~(ended # 0 /\ tl[i].ts > ended)
  <2>1. ended # 0 => tl[i].ts <= ended
    BY <1>1, <1>8
  <2>2. CASE best[s] # 0
    <3>1. best[s] \in V(s) /\ \A j \in V(s) : j <= best[s]
      BY <1>2, <1>5, <2>2 DEF IsLast
    <3>2. best[s] \in DOMAIN tl /\ i <= best[s]
      BY <1>1, <1>2, <1>4, <3>1
    <3>3. tl[best[s]].ts >= tl[i].ts
      BY <1>1, <3>2
    <3>4. new = best
      BY <2>2, <3>3 DEF Client!CountResponse
    <3>5. IsLast(new[s], W(s))
      BY <1>2, <1>3, <3>1, <3>2, <3>4 DEF IsLast
    <3>6. \A u \in Handle : u # s => IsLast(new[u], W(u))
      BY <1>3, <1>6, <3>4
    <3>7. \A u \in Handle : IsLast(new[u], W(u))
      BY <3>5, <3>6
    <3> QED
      BY <3>7 DEF Counted, W
  <2>3. CASE best[s] = 0
    <3>1. V(s) = {}
      BY <1>2, <1>4, <1>5, <2>3 DEF IsLast
    <3>2. new = [best EXCEPT ![s] = i]
      BY <1>8, <2>3 DEF Client!CountResponse
    <3>3. new[s] = i /\ \A u \in Handle : u # s => new[u] = best[u]
      BY <1>2, <3>2
    <3> HIDE DEF new
    <3>4. \A j : j \in W(s) <=> j = i
      BY <1>2, <1>3, <2>1, <3>1
    <3>5. IsLast(new[s], W(s))
      BY <1>1, <3>3, <3>4 DEF IsLast
    <3>6. \A u \in Handle : u # s => IsLast(new[u], W(u))
      BY <1>3, <1>6, <3>3
    <3>7. \A u \in Handle : IsLast(new[u], W(u))
      BY <3>5, <3>6
    <3> QED
      BY <3>7 DEF Counted, W, new
  <2> QED
    BY <2>2, <2>3
<1> QED
  BY <1>7, <1>8

\* A response is counted, or the tally is told.
LEMMA TallyResponses ==
    ASSUME Base, TallyKept, NEW t \in Task, ReadResponses(t)
    PROVE  TallyKept'
<1> DEFINE c == call[t]
           up == Upto(c)
           lo == IF c.token = 0 THEN up + 1 ELSE c.token
           R == Client!Related(timeline, "pollResponse", c.of)
<1>1. /\ Moved(t) /\ timeline' = timeline /\ up \in Nat
      /\ c.op = "getPollResponses" /\ c.todo[1].kind = "responses"
  BY ResponseStep
<1>2. /\ timeline \in Seq(Client!Event) /\ Len(timeline) \in Nat
      /\ DOMAIN timeline = 1 .. Len(timeline) /\ c \in CallType /\ call \in [Task -> CallType]
      /\ \A a, b \in DOMAIN timeline : a <= b => timeline[a].ts <= timeline[b].ts
  BY LenProperties DEF Base, Types, Ordered
<1>3. /\ c.token \in Nat /\ c.start \in Nat /\ c.ended \in Nat /\ c.best \in [Handle -> Nat]
  BY <1>2 DEF CallType
<1>4. /\ c.token = 0 => c.best = NoBest
      /\ c.start <= Len(timeline) /\ EndsAt(timeline, c.of, c.start, c.ended)
      /\ c.token # 0 => /\ c.start <= c.upto /\ c.upto <= Len(timeline) /\ c.token <= c.upto
                        /\ Counted(timeline, c.best, c.of, c.ended, c.token, c.upto)
  BY <1>1 DEF TallyKept, TallyCall
<1>5. c.start <= up /\ up <= Len(timeline) /\ lo \in Nat
  BY <1>1, <1>2, <1>3, <1>4 DEF Upto
<1>6. Counted(timeline, c.best, c.of, c.ended, lo, up)
  <2>1. CASE c.token = 0
    <3>1. \A u : Votes(timeline, c.of, u, c.ended, lo, up) = {}
      BY <1>1, <1>2, <2>1 DEF Votes, Client!Related
    <3>2. \A u \in Handle : c.best[u] = 0
      BY <1>4, <2>1 DEF NoBest
    <3> HIDE DEF lo
    <3> QED
      BY <3>1, <3>2 DEF Counted, IsLast
  <2>2. CASE c.token # 0
    BY <1>4, <2>2 DEF Upto
  <2> QED
    BY <2>1, <2>2
<1>7. \A j : j \in Left(c) <=> j \in R /\ j < lo /\ j <= up
  <2>1. R \subseteq Nat
    BY <1>2 DEF Client!Related
  <2>2. \A j \in R : j <= up => j < up + 1
    BY <1>1, <2>1
  <2> QED
    BY <2>2 DEF Left
<1> HIDE DEF lo, up
<1>8. ASSUME NEW i \in Left(c), \A j \in Left(c) : j <= i, polled' = polled,
             call'[t] = [c EXCEPT !.token = i, !.upto = up, !.best =
                            Client!CountResponse(timeline, c.best, c.ended, i)]
      PROVE  TallyKept'
  <2> DEFINE b == Client!CountResponse(timeline, c.best, c.ended, i)
  <2>1. i \in R /\ i < lo /\ i <= up /\ i \in DOMAIN timeline /\ i # 0
    BY <1>2, <1>7 DEF Client!Related
  <2>2. \A j \in R : j < lo /\ j <= up => j <= i
    BY <1>7, <1>8
  <2>3. Counted(timeline, b, c.of, c.ended, i, up)
    BY <1>1, <1>2, <1>3, <1>5, <1>6, <2>1, <2>2, CountOne
  <2> HIDE DEF b
  <2>4. /\ call'[t].token = i /\ call'[t].upto = up /\ call'[t].best = b
        /\ call'[t].of = c.of /\ call'[t].ended = c.ended /\ call'[t].start = c.start
        /\ call'[t].todo = c.todo
    BY <1>2, <1>8 DEF CallType, b
  <2>5. TallyCall(timeline, call'[t])
    BY <1>1, <1>4, <1>5, <2>1, <2>3, <2>4 DEF TallyCall
  <2> QED
    BY <1>1, <1>8, <2>5, TallyMoved
<1>9. ASSUME Left(c) = {}, call'[t] = NoCall,
             polled' = [poll |-> c.of, ended |-> c.ended, best |-> c.best, upto |-> up,
                        quiet |-> {i \in Client!Related(timeline, "pollEnd", c.of) :
                                     c.start < i /\ i <= up} = {}]
      PROVE  TallyKept'
  <2> DEFINE p == polled'
  <2>1. p.poll = c.of /\ p.ended = c.ended /\ p.best = c.best /\ p.upto = up
    BY <1>9
  <2>2. ASSUME p.quiet PROVE Tallied(timeline, p)
    <3>1. \A i \in Client!Related(timeline, "pollEnd", c.of) : ~(c.start < i /\ i <= up)
      <4>1. p.quiet = ({i \in Client!Related(timeline, "pollEnd", c.of) : c.start < i /\ i <= up} = {})
        BY <1>9
      <4> QED
        BY <2>2, <4>1
    <3>2. Ends(timeline, c.of, up) = Ends(timeline, c.of, c.start)
      <4>1. Client!Related(timeline, "pollEnd", c.of) \subseteq Nat
        BY <1>2 DEF Client!Related
      <4>2. \A i \in Client!Related(timeline, "pollEnd", c.of) : i <= up <=> i <= c.start
        BY <1>1, <1>3, <1>5, <3>1, <4>1
      <4> QED
        BY <4>2 DEF Ends
    <3>3. EndsAt(timeline, c.of, up, c.ended)
      BY <1>4, <3>2 DEF EndsAt
    <3>4. ASSUME NEW u \in Handle
          PROVE  Votes(timeline, c.of, u, c.ended, 0, up) = Votes(timeline, c.of, u, c.ended, lo, up)
      <4>1. \A j \in R : j <= up => lo <= j
        <5>1. \A j \in R : j \in Nat
          BY <1>2 DEF Client!Related
        <5> QED
          BY <1>1, <1>5, <1>7, <1>9, <5>1
      <4>2. \A j \in R : 0 <= j
        BY <1>2 DEF Client!Related
      <4> QED
        BY <4>1, <4>2 DEF Votes
    <3>5. Counted(timeline, c.best, c.of, c.ended, 0, up)
      BY <1>6, <3>4 DEF Counted
    <3> QED
      BY <1>1, <1>5, <2>1, <3>3, <3>5 DEF Tallied
  <2>3. Tallied(timeline, p)
    BY <2>2 DEF Tallied
  <2>4. \A u \in Task : call'[u].op = "getPollResponses" => u # t
    BY <1>9, NoCallType
  <2> QED
    BY <1>1, <2>3, <2>4 DEF TallyKept, Moved
<1> QED
  BY <1>8, <1>9, ResponseStep DEF up

\* Every step keeps the tallies.
LEMMA TallyNext ==
    ASSUME Base, TallyKept, [Next]_vars
    PROVE  TallyKept'
<1>0. Base' /\ Longer(timeline, timeline') /\ "none" \notin {"getPollResponses"}
  BY StepCases
<1>1. ASSUME NEW t \in Task, NEW h \in Handle, NEW op \in Operation, NEW of \in Nat,
             NEW todo \in Seq(Good(op, h)), BeginsCall(t, h, op, of, todo)
      PROVE  TallyKept'
  <2>1. /\ Began(t, h, op, of) /\ UNCHANGED <<timeline, polled>>
        /\ call'[t].todo[1].kind = todo[1].kind /\ Opening(t, h, op, of, todo)
    BY <1>1 DEF BeginsCall
  <2>2. CASE op = "getPollResponses"
    <3>1. call'[t].token = 0 /\ call'[t].best = NoBest /\ call'[t].todo[1].kind = "ends"
      BY <2>1, <2>2 DEF Began, Opening
    <3>2. TallyCall(timeline, call'[t])
      BY <3>1 DEF TallyCall
    <3>3. \A u \in Task : u # t /\ call'[u].op = "getPollResponses" => TallyCall(timeline, call'[u])
      <4>1. \A u \in Task : u # t => Alike(call[u], call'[u])
        BY <2>1 DEF Began
      <4> QED
        BY <4>1 DEF TallyKept, TallyCall, Alike
    <3> QED
      BY <2>1, <3>2, <3>3 DEF TallyKept
  <2>3. CASE op # "getPollResponses"
    BY <1>0, <2>1, <2>3, StillFrom, TallyFrame
  <2> QED
    BY <2>2, <2>3
<1>2. ASSUME NEW t \in Task, NEW h \in Handle, flag[h] /\ MarkAsUnread(t, h) PROVE TallyKept'
  <2>1. \A u \in Task : Alike(call[u], call'[u])
    BY <1>2, AlreadyMarked
  <2>2. polled' = polled
    BY <1>2 DEF MarkAsUnread, Begin
  <2> QED
    BY <1>0, <2>1, <2>2, StillFrom, TallyFrame
<1>3. ASSUME NEW t \in Task, ServerStep(t) PROVE TallyKept'
  <2>1. CASE ReadEnds(t) \/ ReadResponses(t)
    BY <2>1, TallyEnds, TallyResponses
  <2>2. CASE ~(ReadEnds(t) \/ ReadResponses(t))
    <3>1. polled' = polled
      BY <1>3, <2>2 DEF ServerStep, PutEvent, PutReceipt, PutMark, ReadPins, WritePins, Plain,
         listMessages, RequestRefused, AnswerLost, ghost
    <3>2. call[t].op # "getPollResponses" \/ call'[t] = NoCall
      BY <1>3, <2>2, Answers
    <3>3. Moved(t) \/ Settled(t)
      BY <1>3, ServerBase
    <3> QED
      BY <1>0, <3>1, <3>2, <3>3, StillFrom, TallyFrame
  <2> QED
    BY <2>1, <2>2
<1>4. ASSUME UNCHANGED <<call, ghost>> PROVE TallyKept'
  BY <1>0, <1>4, StillFrom, TallyFrame DEF ghost
<1> QED
  BY <1>1, <1>2, <1>3, <1>4, StepCases

\* What is told is what the events of the room say.
LEMMA TallyTold ==
    ASSUME Base, TallyKept
    PROVE  PollTally
<1> DEFINE p == polled
           ends == {i \in Client!Related(timeline, "pollEnd", p.poll) : i <= p.upto}
           last == {e \in ends : \A d \in ends : d <= e}
<1> SUFFICES ASSUME p.quiet, NEW u \in Handle
             PROVE  LET valid == {i \in Client!Related(timeline, "pollResponse", p.poll) :
                                    /\ i <= p.upto /\ timeline[i].sender = u
                                    /\ \A e \in last : timeline[i].ts <= timeline[e].ts}
                    IN  IF valid = {} THEN p.best[u] = 0
                        ELSE p.best[u] \in valid /\ \A i \in valid : i <= p.best[u]
  BY DEF PollTally
<1>1. /\ p.upto \in Nat /\ EndsAt(timeline, p.poll, p.upto, p.ended)
      /\ Counted(timeline, p.best, p.poll, p.ended, 0, p.upto)
  BY DEF TallyKept, Tallied
<1>2. /\ DOMAIN timeline \subseteq Nat
      /\ \A i \in DOMAIN timeline : timeline[i].type = "pollEnd" => timeline[i].ts > 0
  BY LenProperties DEF Base, Types, Ordered
<1>3. ends = Ends(timeline, p.poll, p.upto) /\ ends \subseteq DOMAIN timeline
      /\ (\A e \in ends : timeline[e].ts > 0)
  BY <1>2 DEF Ends, Client!Related
<1>4. \A i \in DOMAIN timeline : (p.ended # 0 => timeline[i].ts <= p.ended) <=>
                                 \A e \in last : timeline[i].ts <= timeline[e].ts
  <2>1. CASE ends = {}
    BY <1>1, <1>3, <2>1 DEF EndsAt
  <2>2. CASE ends # {}
    <3>1. PICK e \in ends : p.ended = timeline[e].ts /\ \A d \in ends : d <= e
      BY <1>1, <1>3, <2>2 DEF EndsAt
    <3>2. e \in last /\ \A d \in last : d = e
      BY <1>2, <1>3, <3>1
    <3>3. p.ended # 0
      BY <1>3, <3>1
    <3> QED
      BY <3>1, <3>2, <3>3
  <2> QED
    BY <2>1, <2>2
<1> DEFINE valid == {i \in Client!Related(timeline, "pollResponse", p.poll) :
                       /\ i <= p.upto /\ timeline[i].sender = u
                       /\ \A e \in last : timeline[i].ts <= timeline[e].ts}
<1>5. valid = Votes(timeline, p.poll, u, p.ended, 0, p.upto)
  <2> HIDE DEF last
  <2>1. \A i \in Client!Related(timeline, "pollResponse", p.poll) : i \in DOMAIN timeline /\ 0 <= i
    BY <1>2 DEF Client!Related
  <2> QED
    BY <1>4, <2>1 DEF Votes
<1>6. IsLast(p.best[u], valid)
  BY <1>1, <1>5 DEF Counted
<1> HIDE DEF valid, last
<1> QED
  BY <1>6 DEF IsLast, valid

----------------------------------------------------------------------------
(* Unread marks.                                                           *)

\* Steps of other operations leave the marks.
LEMMA MarksFrame ==
    ASSUME Base, MarksKept, Base', Longer(timeline, timeline'), Still(Marking),
           UNCHANGED <<receipt, marked, asked, view, flag>>
    PROVE  MarksKept'
<1>1. /\ Len(timeline) \in Nat /\ Len(timeline') \in Nat /\ Len(timeline) <= Len(timeline')
      /\ receipt \in [Handle -> Nat] /\ view \in [Handle -> Nat] /\ call \in [Task -> CallType]
  BY LenProperties DEF Base, Types, Longer
<1>2. ASSUME NEW t \in Task, call'[t].op \in Marking PROVE Alike(call[t], call'[t])
  BY <1>2 DEF Still
<1>3. \A h \in Handle : receipt[h] <= Len(timeline') /\ view[h] <= Len(timeline')
  BY <1>1 DEF MarksKept
<1>4. ASSUME NEW t \in Task, call'[t].op \in Marking
      PROVE  /\ call'[t].alone => flag[call'[t].by] = (call'[t].by \in marked)
             /\ call'[t].todo[1].kind \in {"receipt", "unmark"} => call'[t].of <= receipt[call'[t].by]
             /\ call'[t].of <= Len(timeline')
  <2>1. Alike(call[t], call'[t]) /\ call[t].op \in Marking
    BY <1>2, <1>4 DEF Alike
  <2>2. call[t].of \in Nat /\ call[t].of <= Len(timeline)
    BY <1>1, <2>1 DEF MarksKept, CallType
  <2>3. call'[t].of <= Len(timeline')
    BY <1>1, <2>1, <2>2 DEF Alike
  <2> QED
    BY <2>1, <2>3 DEF MarksKept, Alike
<1>5. \A t, u \in Task : /\ call'[t].op \in Marking /\ call'[u].op \in Marking
                         /\ call'[t].by = call'[u].by /\ call'[t].alone
                         => t = u
  BY <1>2 DEF MarksKept, Alike
<1>6. \A h \in Handle : asked[h].what # "nothing" => \A t \in Task : ~MarkCall(t, h)'
  BY <1>2 DEF MarksKept, MarkCall, Alike
<1> QED
  BY <1>3, <1>4, <1>5, <1>6 DEF MarksKept

\* A call on the mark begins: no call of the handle but those that began
\* alone is, and what was asked before no longer counts.
LEMMA MarksBegin ==
    ASSUME Base, MarksKept, NEW t \in Task, NEW h \in Handle, NEW op \in Marking, NEW of \in Nat,
           NEW todo \in Seq(Good(op, h)), BeginsCall(t, h, op, of, todo), Base'
    PROVE  MarksKept'
<1>1. /\ Began(t, h, op, of) /\ Opening(t, h, op, of, todo)
      /\ call'[t].todo[1].kind = todo[1].kind
      /\ UNCHANGED <<timeline, receipt, marked, view, flag>>
      /\ asked' = [asked EXCEPT ![h].what = "nothing"]
  BY DEF BeginsCall
<1>2. /\ call'[t].op = op /\ call'[t].by = h /\ call'[t].of = of
      /\ call'[t].alone => Rivals(op, h) = {} /\ flag[h] = (h \in marked)
      /\ \A u \in Task : u # t => /\ Alike(call[u], call'[u])
                                  /\ u \in Rivals(op, h) => ~call'[u].alone
  BY <1>1 DEF Began
<1>3. \A u \in Task : u \in Rivals(op, h) <=> call[u].op \in Marking /\ call[u].by = h
  BY DEF Rivals, Active, Marking
<1>4. of <= Len(timeline) /\ todo[1].kind \notin {"receipt", "unmark"}
  <2>1. CASE op = "markAsRead"
    BY <1>1, <2>1 DEF Opening, MarksKept
  <2>2. CASE op = "markAsUnread"
    <3>1. of = 0 /\ todo[1].kind = "mark"
      BY <1>1, <2>2 DEF Opening, Exact
    <3>2. Len(timeline) \in Nat
      BY LenProperties DEF Base, Types
    <3> QED
      BY <3>1, <3>2
  <2> QED
    BY <2>1, <2>2 DEF Marking
<1>5. \A u \in Task : u # t /\ call'[u].op \in Marking =>
         /\ call'[u].alone => flag[call'[u].by] = (call'[u].by \in marked)
         /\ call'[u].todo[1].kind \in {"receipt", "unmark"} => call'[u].of <= receipt[call'[u].by]
         /\ call'[u].of <= Len(timeline)
  BY <1>2 DEF MarksKept, Alike
<1>6. \A u, v \in Task : /\ call'[u].op \in Marking /\ call'[v].op \in Marking
                         /\ call'[u].by = call'[v].by /\ call'[u].alone
                         => u = v
  <2> SUFFICES ASSUME NEW u \in Task, NEW v \in Task, call'[u].op \in Marking,
                      call'[v].op \in Marking, call'[u].by = call'[v].by, call'[u].alone, u # v
               PROVE  FALSE
    OBVIOUS
  <2>1. CASE u # t /\ v # t
    <3>1. /\ call[u].op \in Marking /\ call[v].op \in Marking /\ call[u].by = call[v].by
          /\ call[u].alone
      BY <1>2, <2>1 DEF Alike
    <3> QED
      BY <2>1, <3>1 DEF MarksKept
  <2>2. CASE u = t /\ v # t
    <3>1. call[v].op \in Marking /\ call[v].by = h
      BY <1>2, <2>2 DEF Alike
    <3> QED
      BY <1>2, <1>3, <2>2, <3>1
  <2>3. CASE u # t /\ v = t
    <3>1. call[u].op \in Marking /\ call[u].by = h
      BY <1>2, <2>3 DEF Alike
    <3> QED
      BY <1>2, <1>3, <2>3, <3>1
  <2> QED
    BY <2>1, <2>2, <2>3
<1>7. /\ asked \in [Handle -> [what : {"nothing", "read", "unread"}, upto : Nat]]
  BY DEF Base, Types
<1>8. asked'[h].what = "nothing" /\ \A g \in Handle : g # h => asked'[g] = asked[g]
  BY <1>1, <1>7
<1>9. \A g \in Handle : g # h /\ asked[g].what # "nothing" => \A u \in Task : ~MarkCall(u, g)'
  <2>1. \A g \in Handle : g # h => ~MarkCall(t, g)'
    BY <1>2 DEF MarkCall
  <2>2. \A g \in Handle, u \in Task : u # t /\ MarkCall(u, g)' => MarkCall(u, g)
    BY <1>2 DEF MarkCall, Alike
  <2> QED
    BY <2>1, <2>2 DEF MarksKept
<1>10. \A g \in Handle : asked'[g].what # "nothing" =>
          /\ \A u \in Task : ~MarkCall(u, g)'
          /\ asked'[g].what = "unread" => g \in marked
          /\ asked'[g].what = "read" => g \notin marked /\ asked'[g].upto <= receipt[g]
  BY <1>8, <1>9 DEF MarksKept
<1>11. \A u \in Task : call'[u].op \in Marking =>
         /\ call'[u].alone => flag[call'[u].by] = (call'[u].by \in marked)
         /\ call'[u].todo[1].kind \in {"receipt", "unmark"} => call'[u].of <= receipt[call'[u].by]
         /\ call'[u].of <= Len(timeline)
  BY <1>1, <1>2, <1>4, <1>5
<1>12. \A g \in Handle : receipt[g] <= Len(timeline) /\ view[g] <= Len(timeline)
  BY DEF MarksKept
<1> QED
  BY <1>1, <1>6, <1>10, <1>11, <1>12 DEF MarksKept

\* markAsUnread of a room that is known to be marked.
LEMMA MarksAlready ==
    ASSUME Base, MarksKept, NEW t \in Task, NEW h \in Handle, flag[h] /\ MarkAsUnread(t, h), Base'
    PROVE  MarksKept'
<1>1. /\ timeline' = timeline
      /\ \A u \in Task : /\ Alike(call[u], call'[u])
                         /\ u \in Rivals("markAsUnread", h) => ~call'[u].alone
  BY AlreadyMarked
<1>2. /\ UNCHANGED <<receipt, marked, view, flag>>
      /\ asked' = [asked EXCEPT ![h].what = IF Rivals("markAsUnread", h) = {} /\ h \in marked
                                            THEN "unread" ELSE "nothing"]
  BY DEF MarkAsUnread, server, client
<1>3. \A u \in Task : u \in Rivals("markAsUnread", h) <=> call[u].op \in Marking /\ call[u].by = h
  BY DEF Rivals, Active, Marking
<1>4. asked \in [Handle -> [what : {"nothing", "read", "unread"}, upto : Nat]]
  BY DEF Base, Types
<1>5. /\ asked'[h].what = "nothing" \/ (/\ asked'[h].what = "unread" /\ h \in marked
                                        /\ Rivals("markAsUnread", h) = {})
      /\ \A g \in Handle : g # h => asked'[g] = asked[g]
  BY <1>2, <1>4
<1>6. \A g \in Handle, u \in Task : MarkCall(u, g)' => MarkCall(u, g)
  BY <1>1 DEF MarkCall, Alike
<1>7. \A g \in Handle : asked'[g].what # "nothing" =>
          /\ \A u \in Task : ~MarkCall(u, g)'
          /\ asked'[g].what = "unread" => g \in marked
          /\ asked'[g].what = "read" => g \notin marked /\ asked'[g].upto <= receipt[g]
  <2>1. \A g \in Handle : g # h => asked'[g] = asked[g]
    BY <1>5
  <2>2. Rivals("markAsUnread", h) = {} => \A u \in Task : ~MarkCall(u, h)
    BY <1>3 DEF MarkCall
  <2> QED
    BY <1>5, <1>6, <2>1, <2>2 DEF MarksKept
<1>8. \A u \in Task : call'[u].op \in Marking =>
         /\ call'[u].alone => flag[call'[u].by] = (call'[u].by \in marked)
         /\ call'[u].todo[1].kind \in {"receipt", "unmark"} => call'[u].of <= receipt[call'[u].by]
         /\ call'[u].of <= Len(timeline)
  BY <1>1 DEF MarksKept, Alike
<1>9. \A u, v \in Task : /\ call'[u].op \in Marking /\ call'[v].op \in Marking
                         /\ call'[u].by = call'[v].by /\ call'[u].alone
                         => u = v
  BY <1>1 DEF MarksKept, Alike
<1>10. \A g \in Handle : receipt[g] <= Len(timeline) /\ view[g] <= Len(timeline)
  BY DEF MarksKept
<1> QED
  BY <1>1, <1>2, <1>7, <1>8, <1>9, <1>10 DEF MarksKept

\* A call on the mark moves on or ends.
LEMMA MarksMoved ==
    ASSUME Base, MarksKept, Base', NEW t \in Task, Moved(t), call[t].op \in Marking,
           UNCHANGED <<timeline, view, flag>>,
           \A g \in Handle : receipt[g] <= receipt'[g] /\ receipt'[g] <= Len(timeline),
           \A g \in Handle : g # call[t].by => (g \in marked' <=> g \in marked),
           \/ /\ call'[t] = NoCall
              /\ \/ asked' = asked
                 \/ \E w \in {"read", "unread"} :
                       /\ call[t].alone
                       /\ asked' = [asked EXCEPT ![call[t].by] = [what |-> w, upto |-> call[t].of]]
                       /\ w = "unread" => call[t].by \in marked'
                       /\ w = "read" => /\ call[t].by \notin marked'
                                        /\ call[t].of <= receipt'[call[t].by]
           \/ /\ call'[t].op = call[t].op /\ call'[t].by = call[t].by /\ call'[t].of = call[t].of
              /\ call'[t].alone = call[t].alone /\ call[t].of <= receipt'[call[t].by]
              /\ UNCHANGED <<marked, asked>>
    PROVE  MarksKept'
<1> DEFINE h == call[t].by
<1>1. /\ call \in [Task -> CallType] /\ h \in Handle /\ Len(timeline) \in Nat
      /\ receipt \in [Handle -> Nat] /\ receipt' \in [Handle -> Nat] /\ view \in [Handle -> Nat]
      /\ asked \in [Handle -> [what : {"nothing", "read", "unread"}, upto : Nat]]
  BY LenProperties DEF Base, Types, CallType
<1>2. \A u \in Task : u # t => call'[u] = call[u]
  BY DEF Moved
<1>3. \A u \in Task : u # t /\ call[u].op \in Marking /\ call[u].by = h => ~call[u].alone /\ ~call[t].alone
  BY DEF MarksKept
<1>4. asked[h].what = "nothing"
  BY <1>1 DEF MarksKept, MarkCall
<1>5. \A u \in Task : call'[u].op \in Marking =>
         /\ call[u].op \in Marking /\ call'[u].by = call[u].by /\ call'[u].alone = call[u].alone
         /\ call'[u].of = call[u].of
  BY <1>2, NoCallType DEF Marking
<1>6. \A g \in Handle : receipt'[g] <= Len(timeline) /\ view[g] <= Len(timeline)
  BY DEF MarksKept
<1>7. ASSUME NEW u \in Task, call'[u].op \in Marking
      PROVE  /\ call'[u].alone => flag[call'[u].by] = (call'[u].by \in marked')
             /\ call'[u].todo[1].kind \in {"receipt", "unmark"} => call'[u].of <= receipt'[call'[u].by]
             /\ call'[u].of <= Len(timeline)
  <2>1. call[u].op \in Marking /\ call'[u].of = call[u].of /\ call[u].of <= Len(timeline)
    BY <1>5, <1>7 DEF MarksKept
  <2>2. CASE u = t
    <3>1. call'[t] # NoCall
      BY <1>7, <2>2, NoCallType DEF Marking
    <3>2. call[t].alone => flag[call[t].by] = (call[t].by \in marked)
      BY DEF MarksKept
    <3> QED
      BY <2>1, <2>2, <3>1, <3>2
  <2>3. CASE u # t
    <3>1. call'[u] = call[u] /\ call[u].by \in Handle /\ call[u].of \in Nat
      BY <1>1, <1>2, <2>3 DEF CallType
    <3>2. /\ call[u].alone => flag[call[u].by] = (call[u].by \in marked)
          /\ call[u].todo[1].kind \in {"receipt", "unmark"} => call[u].of <= receipt[call[u].by]
      BY <2>1 DEF MarksKept
    <3>3. call[u].of <= receipt[call[u].by] => call[u].of <= receipt'[call[u].by]
      BY <1>1, <3>1
    <3>4. call[u].alone => (call[u].by \in marked' <=> call[u].by \in marked)
      BY <1>3, <2>1, <2>3, <3>1
    <3>5. call[u].alone => flag[call[u].by] = (call[u].by \in marked')
      BY <3>2, <3>4
    <3> QED
      BY <2>1, <3>1, <3>2, <3>3, <3>5
  <2> QED
    BY <2>2, <2>3
<1>8. \A u, v \in Task : /\ call'[u].op \in Marking /\ call'[v].op \in Marking
                         /\ call'[u].by = call'[v].by /\ call'[u].alone
                         => u = v
  BY <1>5 DEF MarksKept
<1>9. \A g \in Handle, u \in Task : MarkCall(u, g)' => MarkCall(u, g)
  BY <1>5 DEF MarkCall
<1>10. ASSUME NEW g \in Handle, asked'[g].what # "nothing"
       PROVE  /\ \A u \in Task : ~MarkCall(u, g)'
              /\ asked'[g].what = "unread" => g \in marked'
              /\ asked'[g].what = "read" => g \notin marked' /\ asked'[g].upto <= receipt'[g]
  <2>1. CASE asked'[g] = asked[g]
    <3>1. g # h
      BY <1>4, <1>10, <2>1
    <3>2. /\ \A u \in Task : ~MarkCall(u, g)
          /\ asked[g].what = "unread" => g \in marked
          /\ asked[g].what = "read" => g \notin marked /\ asked[g].upto <= receipt[g]
      BY <1>10, <2>1 DEF MarksKept
    <3>3. asked[g].upto <= receipt[g] => asked[g].upto <= receipt'[g]
      BY <1>1
    <3> QED
      BY <1>9, <2>1, <3>1, <3>2, <3>3
  <2>2. CASE asked'[g] # asked[g]
    <3>1. asked' # asked
      BY <2>2
    <3>2. PICK w \in {"read", "unread"} :
             /\ call[t].alone
             /\ asked' = [asked EXCEPT ![call[t].by] = [what |-> w, upto |-> call[t].of]]
             /\ w = "unread" => call[t].by \in marked'
             /\ w = "read" => /\ call[t].by \notin marked'
                              /\ call[t].of <= receipt'[call[t].by]
      BY <3>1
    <3>3. call'[t] = NoCall
      BY <3>1
    <3>4. g = h
      BY <1>1, <2>2, <3>2
    <3>5. asked'[g].what = w /\ asked'[g].upto = call[t].of
      BY <1>1, <3>2, <3>4
    <3>6. \A u \in Task : ~MarkCall(u, g)'
      <4>1. ~MarkCall(t, g)'
        BY <3>3, NoCallType DEF MarkCall, Marking
      <4>2. \A u \in Task : u # t => ~MarkCall(u, g)
        BY <1>3, <3>2, <3>4 DEF MarkCall
      <4> QED
        BY <1>9, <4>1, <4>2
    <3> QED
      BY <3>2, <3>4, <3>5, <3>6
  <2> QED
    BY <2>1, <2>2
<1> QED
  BY <1>6, <1>7, <1>8, <1>10 DEF MarksKept

\* The receipt is taken.
LEMMA MarksReceipt ==
    ASSUME Base, MarksKept, NEW t \in Task, PutReceipt(t)
    PROVE  MarksKept'
<1> DEFINE c == call[t]
           h == c.by
<1>1. Base' /\ Moved(t) /\ UNCHANGED <<timeline, view, flag, marked>>
  BY MarkBase DEF PutReceipt, client
<1>2. /\ call \in [Task -> CallType] /\ h \in Handle /\ Len(timeline) \in Nat /\ c.of \in Nat
      /\ receipt \in [Handle -> Nat] /\ c \in CallType /\ flag \in [Handle -> BOOLEAN]
  BY LenProperties DEF Base, Types, CallType
<1>3. c.op # "none" /\ Request(t).kind \in {"markers", "receipt"}
  BY DEF PutReceipt, Asks
<1>4. c.op = "markAsRead" /\ c.op \in Marking
  <2>1. Request(t) \in Good(c.op, c.by)
    BY <1>3, NextRequest
  <2> QED
    BY <1>3, <2>1 DEF Good, Marking
<1>5. c.of <= Len(timeline) /\ receipt[h] <= Len(timeline)
  BY <1>2, <1>4 DEF MarksKept
<1>6. receipt' = [receipt EXCEPT ![h] = IF c.of > @ THEN c.of ELSE @]
  BY DEF PutReceipt, Receive
<1>7. /\ \A g \in Handle : receipt[g] <= receipt'[g] /\ receipt'[g] <= Len(timeline)
      /\ c.of <= receipt'[h]
  <2>1. \A g \in Handle : receipt[g] \in Nat /\ receipt[g] <= Len(timeline)
    BY <1>2 DEF MarksKept
  <2>2. receipt'[h] = IF c.of > receipt[h] THEN c.of ELSE receipt[h]
    BY <1>2, <1>6
  <2>3. \A g \in Handle : g # h => receipt'[g] = receipt[g]
    BY <1>2, <1>6
  <2> QED
    BY <1>2, <1>5, <2>1, <2>2, <2>3
<1>8. asked' = IF c.alone /\ call'[t].op = "none"
               THEN [asked EXCEPT ![h] = [what |-> "read", upto |-> c.of]] ELSE asked
  BY DEF PutReceipt, Over
<1>9. ASSUME NEW todo \in Seq(Good(c.op, c.by)), todo # <<>> => Exact(c.op, c.of, todo),
             todo # <<>>, GoOn(t, todo)
      PROVE  MarksKept'
  <2>1. call'[t] = [c EXCEPT !.todo = Stamp(todo)]
    BY <1>3, <1>9, GoOnStep
  <2>2. /\ call'[t].op = c.op /\ call'[t].by = c.by /\ call'[t].of = c.of
        /\ call'[t].alone = c.alone
    BY <1>2, <2>1 DEF CallType
  <2>3. asked' = asked
    BY <1>3, <1>8, <2>2
  <2> QED
    BY <1>1, <1>4, <1>7, <2>2, <2>3, MarksMoved
<1>10. CASE Request(t).kind = "markers"
  <2>1. Rest(t) # <<>>
    <3>1. Len(c.todo) = 2 /\ Len(Rest(t)) = Len(c.todo) - 1
      BY <1>3, <1>4, <1>10, NextRequest DEF Exact, Request
    <3> DEFINE e == <<>>
    <3>2. Len(e) = 0
      BY EmptySeq
    <3> HIDE DEF e
    <3>3. Rest(t) # e
      BY <3>1, <3>2
    <3> QED
      BY <3>3 DEF e
  <2>2. Rest(t) \in Seq(Good(c.op, c.by)) /\ Exact(c.op, c.of, Rest(t))
    BY <1>3, <1>10, <2>1, NextRequest, RestStep
  <2> QED
    BY <1>9, <1>10, <2>1, <2>2 DEF PutReceipt
<1>11. CASE Request(t).kind = "receipt" /\ flag[h]
  <2> DEFINE todo == <<Ask("unmark")>>
  <2>1. Ask("unmark") \in Good(c.op, c.by) /\ Ask("unmark").kind = "unmark"
    BY <1>4, GoodRequests DEF Kind
  <2>2. /\ todo \in Seq(Good(c.op, c.by)) /\ Len(todo) = 1 /\ todo[1].kind = "unmark"
        /\ todo # <<>>
    BY <2>1, Short
  <2>3. GoOn(t, todo)
    BY <1>11 DEF PutReceipt, AfterReceipt
  <2> HIDE DEF todo
  <2>4. Exact(c.op, c.of, todo)
    BY <1>4, <2>2 DEF Exact
  <2> QED
    BY <1>9, <2>2, <2>3, <2>4
<1>12. CASE Request(t).kind = "receipt" /\ ~flag[h]
  <2>1. Finish(t)
    BY <1>12 DEF PutReceipt, AfterReceipt
  <2>2. call'[t] = NoCall
    BY <1>3, <2>1, FinishStep
  <2>3. c.alone => h \notin marked
    <3>1. c.alone => flag[h] = (h \in marked)
      BY <1>4 DEF MarksKept
    <3> QED
      BY <1>12, <3>1
  <2>4. \/ asked' = asked
        \/ c.alone /\ asked' = [asked EXCEPT ![h] = [what |-> "read", upto |-> c.of]]
    BY <1>8
  <2> QED
    BY <1>1, <1>4, <1>7, <2>2, <2>3, <2>4, MarksMoved
<1> QED
  BY <1>3, <1>10, <1>11, <1>12

\* The mark is set or cleared.
LEMMA MarksPut ==
    ASSUME Base, MarksKept, NEW t \in Task, PutMark(t)
    PROVE  MarksKept'
<1> DEFINE c == call[t]
           h == c.by
           w == IF Request(t).kind = "mark" THEN "unread" ELSE "read"
<1>1. Base' /\ Moved(t) /\ UNCHANGED <<timeline, view, flag, receipt>>
  BY MarkBase DEF PutMark, client
<1>2. c.op # "none" /\ Request(t).kind \in {"mark", "unmark"} /\ h \in Handle
  BY DEF PutMark, Asks, Base, Types, CallType
<1>3. c.op \in Marking
  <2>1. Request(t) \in Good(c.op, c.by)
    BY <1>2, NextRequest
  <2> QED
    BY <1>2, <2>1 DEF Good, Marking
<1>4. call'[t] = NoCall
  BY <1>2, FinishStep DEF PutMark
<1>5. \A g \in Handle : receipt[g] <= receipt'[g] /\ receipt'[g] <= Len(timeline)
  <2>1. \A g \in Handle : receipt[g] \in Nat
    BY DEF Base, Types
  <2> QED
    BY <1>1, <2>1 DEF MarksKept
<1>6. marked' = IF Request(t).kind = "mark" THEN marked \cup {h} ELSE marked \ {h}
  BY DEF PutMark
<1>7. \A g \in Handle : g # h => (g \in marked' <=> g \in marked)
  BY <1>6
<1>8. Request(t).kind = "unmark" => c.of <= receipt'[h]
  BY <1>1, <1>3 DEF MarksKept, Request
<1>9. /\ w \in {"read", "unread"} /\ (w = "unread" => h \in marked')
      /\ w = "read" => h \notin marked' /\ c.of <= receipt'[h]
  BY <1>2, <1>6, <1>8
<1>10. \/ asked' = asked
       \/ c.alone /\ asked' = [asked EXCEPT ![h] = [what |-> w, upto |-> c.of]]
  BY DEF PutMark, Over
<1> HIDE DEF w
<1> QED
  BY <1>1, <1>3, <1>4, <1>5, <1>7, <1>9, <1>10, MarksMoved

\* Every step keeps the marks.
LEMMA MarksNext ==
    ASSUME Base, MarksKept, [Next]_vars
    PROVE  MarksKept'
<1>0. Base' /\ Longer(timeline, timeline') /\ "none" \notin Marking
  BY StepCases DEF Marking
<1>1. ASSUME NEW t \in Task, NEW h \in Handle, NEW op \in Operation, NEW of \in Nat,
             NEW todo \in Seq(Good(op, h)), BeginsCall(t, h, op, of, todo)
      PROVE  MarksKept'
  <2>1. CASE op \in Marking
    BY <1>0, <1>1, <2>1, MarksBegin
  <2>2. CASE op \notin Marking
    <3>1. Began(t, h, op, of) /\ UNCHANGED <<receipt, marked, asked, view, flag>>
      BY <1>1, <2>2 DEF BeginsCall
    <3> QED
      BY <1>0, <2>2, <3>1, StillFrom, MarksFrame
  <2> QED
    BY <2>1, <2>2
<1>2. ASSUME NEW t \in Task, NEW h \in Handle, flag[h] /\ MarkAsUnread(t, h) PROVE MarksKept'
  BY <1>0, <1>2, MarksAlready
<1>3. ASSUME NEW t \in Task, ServerStep(t) PROVE MarksKept'
  <2>1. CASE PutReceipt(t) \/ PutMark(t)
    BY <2>1, MarksReceipt, MarksPut
  <2>2. CASE ~(PutReceipt(t) \/ PutMark(t))
    <3>1. UNCHANGED <<receipt, marked, asked, view, flag>>
      BY <1>3, <2>2 DEF ServerStep, PutEvent, ReadPins, WritePins, Plain, ReadEnds, ReadResponses,
         listMessages, RequestRefused, AnswerLost, ghost, server, client
    <3>2. call[t].op \notin Marking \/ call'[t] = NoCall
      BY <1>3, <2>2, Answers
    <3>3. Moved(t) \/ Settled(t)
      BY <1>3, ServerBase
    <3> QED
      BY <1>0, <3>1, <3>2, <3>3, StillFrom, MarksFrame DEF Marking
  <2> QED
    BY <2>1, <2>2
<1>4. ASSUME UNCHANGED <<call, timeline, receipt, marked, ghost>>,
             UNCHANGED <<view, flag>> \/ \E h \in Handle : Sync(h)
      PROVE  MarksKept'
  <2>1. CASE UNCHANGED <<view, flag>>
    BY <1>0, <1>4, <2>1, StillFrom, MarksFrame DEF ghost
  <2>2. ASSUME NEW h \in Handle, Sync(h) PROVE MarksKept'
    <3>1. /\ view' = [view EXCEPT ![h] = Len(timeline)]
          /\ flag' = [flag EXCEPT ![h] = h \in marked] /\ asked' = asked
      BY <1>4, <2>2 DEF Sync, ghost
    <3>2. /\ view \in [Handle -> Nat] /\ flag \in [Handle -> BOOLEAN] /\ Len(timeline) \in Nat
          /\ \A t \in Task : call[t].by \in Handle
      BY LenProperties DEF Base, Types, CallType
    <3>3. \A g \in Handle : view'[g] <= Len(timeline)
      BY <3>1, <3>2 DEF MarksKept
    <3>4. \A g \in Handle : flag[g] = (g \in marked) => flag'[g] = (g \in marked)
      BY <3>1, <3>2
    <3>5. \A t \in Task : call[t].op \in Marking =>
             (call[t].alone => flag'[call[t].by] = (call[t].by \in marked))
      BY <3>2, <3>4 DEF MarksKept
    <3>6. \A g \in Handle, t \in Task : MarkCall(t, g)' <=> MarkCall(t, g)
      BY <1>4 DEF MarkCall
    <3> QED
      BY <1>4, <3>1, <3>3, <3>5, <3>6 DEF MarksKept
  <2> QED
    BY <1>4, <2>1, <2>2
<1> QED
  BY <1>1, <1>2, <1>3, <1>4, StepCases

\* The events a handle has not read.
Unread(tl, known, h, rc) == {i \in known : /\ i > Client!LastRead(tl, known, h, rc)
                                           /\ tl[i].type \in Client!Countable}

\* What getChatSummaries tells of them.
LEMMA Summaries ==
    ASSUME NEW tl, NEW known, NEW h, NEW rc, NEW mk \in BOOLEAN
    PROVE  LET told == Client!getChatSummaries(tl, known, h, rc, mk)
               unread == Unread(tl, known, h, rc)
           IN  /\ told.has = (unread # {} \/ mk)
               /\ told.all = IF unread # {} THEN Cardinality(unread) ELSE IF mk THEN 1 ELSE 0
<1>1. Client!getChatSummaries(tl, known, h, rc, mk).has = (Unread(tl, known, h, rc) # {} \/ mk)
  BY DEF Client!getChatSummaries, Unread
<1>2. Client!getChatSummaries(tl, known, h, rc, mk).all =
         IF Unread(tl, known, h, rc) # {} THEN Cardinality(Unread(tl, known, h, rc))
         ELSE IF mk THEN 1 ELSE 0
  <2>1. \A S : Client!Cardinality(S) = Cardinality(S)
    BY Zenon DEF Client!Cardinality, Cardinality
  <2>2. Client!getChatSummaries(tl, known, h, rc, mk).all =
           IF Unread(tl, known, h, rc) # {} THEN Client!Cardinality(Unread(tl, known, h, rc))
           ELSE IF mk THEN 1 ELSE 0
    BY Zenon DEF Client!getChatSummaries, Unread
  <2> QED
    BY <2>1, <2>2, Zenon
<1> QED
  BY <1>1, <1>2

\* The unread count a client that is up to date tells.
LEMMA MarksTold ==
    ASSUME Base, MarksKept
    PROVE  UnreadTold
<1> SUFFICES ASSUME NEW h \in Handle, Synced(h)
             PROVE  LET told == GetChatSummaries(h)
                        since == {i \in DOMAIN timeline :
                                    /\ i > asked[h].upto /\ timeline[i].sender # h
                                    /\ timeline[i].type \in Client!Countable}
                    IN  /\ asked[h].what = "unread" => told.all > 0 /\ told.has
                        /\ asked[h].what = "read" => told.all <= Cardinality(since) /\ ~flag[h]
  BY DEF UnreadTold
<1> DEFINE since == {i \in DOMAIN timeline : /\ i > asked[h].upto /\ timeline[i].sender # h
                                             /\ timeline[i].type \in Client!Countable}
           known == DOMAIN timeline
           read == {i \in known : i = receipt[h] \/ timeline[i].sender = h}
           mark == Client!LastRead(timeline, known, h, receipt[h])
           unread == {i \in known : i > mark /\ timeline[i].type \in Client!Countable}
           told == GetChatSummaries(h)
<1>1. /\ DOMAIN timeline = 1 .. Len(timeline) /\ Len(timeline) \in Nat /\ receipt[h] \in Nat
      /\ asked[h].upto \in Nat /\ receipt[h] <= Len(timeline) /\ flag[h] \in BOOLEAN
  BY LenProperties DEF Base, Types, MarksKept
<1>2. Known(h) = known /\ flag[h] = (h \in marked)
  BY <1>1 DEF Known, Synced
<1>3. /\ told.all = (IF unread # {} THEN Cardinality(unread) ELSE IF flag[h] THEN 1 ELSE 0)
      /\ told.has = (unread # {} \/ flag[h])
  <2>1. told = Client!getChatSummaries(timeline, known, h, receipt[h], flag[h])
    BY <1>2 DEF GetChatSummaries
  <2>2. unread = Unread(timeline, known, h, receipt[h])
    BY DEF Unread
  <2> HIDE DEF told, unread, known
  <2>3. told.has = (unread # {} \/ flag[h])
    BY <1>1, <2>1, <2>2, Summaries
  <2>4. told.all = (IF unread # {} THEN Cardinality(unread) ELSE IF flag[h] THEN 1 ELSE 0)
    BY <1>1, <2>1, <2>2, Summaries, Zenon
  <2> QED
    BY <2>3, <2>4
<1>4. IsFiniteSet(unread) /\ IsFiniteSet(since) /\ Cardinality(unread) \in Nat /\ Cardinality(since) \in Nat
      /\ (unread # {} => Cardinality(unread) # 0)
  <2>1. IsFiniteSet(known)
    BY <1>1, FS_Interval
  <2>2. IsFiniteSet(unread) /\ IsFiniteSet(since)
    BY <2>1, FS_Subset
  <2> HIDE DEF unread, since
  <2> QED
    BY <2>2, FS_CardinalityType, FS_EmptySet
<1>5. mark \in Nat /\ receipt[h] <= mark /\ \A i \in read : i <= mark
  <2> DEFINE all == read \cup {0}
  <2>1. all \subseteq 0 .. Len(timeline) /\ all # {}
    BY <1>1
  <2>2. \E i \in all : \A j \in all : j <= i
    BY <1>1, <2>1, LastOne
  <2>3. mark = CHOOSE i \in all : \A j \in read : j <= i
    BY DEF Client!LastRead
  <2>4. \E i \in all : \A j \in read : j <= i
    BY <2>2
  <2>5. mark \in all /\ \A j \in read : j <= mark
    <3> HIDE DEF all, read, mark
    <3> QED
      BY <2>3, <2>4
  <2>6. receipt[h] = 0 \/ receipt[h] \in read
    BY <1>1
  <2>7. mark \in Nat
    BY <1>1, <2>1, <2>5
  <2> HIDE DEF mark
  <2> QED
    BY <1>1, <2>5, <2>6, <2>7
<1> HIDE DEF told
<1>6. ASSUME asked[h].what = "unread" PROVE told.all > 0 /\ told.has
  <2>1. flag[h]
    BY <1>2, <1>6 DEF MarksKept
  <2> HIDE DEF unread
  <2>2. told.has
    BY <1>3, <2>1
  <2>3. told.all > 0
    BY <1>3, <1>4, <2>1
  <2> QED
    BY <2>2, <2>3
<1>7. ASSUME asked[h].what = "read" PROVE told.all <= Cardinality(since) /\ ~flag[h]
  <2>1. ~flag[h] /\ asked[h].upto <= receipt[h]
    BY <1>2, <1>7 DEF MarksKept
  <2>2. unread \subseteq since
    <3> HIDE DEF mark
    <3>1. ASSUME NEW i \in unread PROVE i \in since
      <4>1. i \in known /\ i > mark /\ i \in Nat
        BY <1>1
      <4>2. i > asked[h].upto
        BY <1>1, <1>5, <2>1, <4>1
      <4>3. timeline[i].sender # h
        <5>1. i \notin read
          BY <1>5, <4>1
        <5> QED
          BY <4>1, <5>1
      <4> QED
        BY <4>1, <4>2, <4>3
    <3> QED
      BY <3>1
  <2>3. Cardinality(unread) <= Cardinality(since)
    <3> HIDE DEF unread, since
    <3> QED
      BY <1>4, <2>2, FS_Subset
  <2> HIDE DEF unread, since
  <2>4. told.all <= Cardinality(since)
    BY <1>3, <1>4, <2>1, <2>3
  <2> QED
    BY <2>1, <2>4
<1> QED
  BY <1>6, <1>7 DEF told

----------------------------------------------------------------------------
(* Pins.                                                                   *)

\* Steps of other operations leave the pins.
LEMMA PinsFrame ==
    ASSUME PinsKept, Still({"pinUnpinMessage"}), UNCHANGED <<pins, wanted>>, raced => raced'
    PROVE  PinsKept'
<1>1. \A t \in Task : call'[t].op = "pinUnpinMessage" => Alike(call[t], call'[t])
  BY DEF Still
<1> QED
  BY <1>1 DEF PinsKept, Alike

\* A call begins: two at once are a race.
LEMMA PinsBegin ==
    ASSUME PinsKept, NEW t \in Task, NEW h \in Handle, NEW of \in Nat, NEW todo,
           BeginsCall(t, h, "pinUnpinMessage", of, todo), Base
    PROVE  PinsKept'
<1> DEFINE op == "pinUnpinMessage"
<1>1. /\ Began(t, h, op, of) /\ Opening(t, h, op, of, todo) /\ UNCHANGED <<pins, wanted>>
      /\ call'[t].todo[1].kind = todo[1].kind
      /\ raced' = (raced \/ Rivals(op, h) # {})
  BY DEF BeginsCall
<1>2. call'[t].todo[1].kind = "readPins"
  BY <1>1 DEF Opening
<1>3. \A u \in Task : u # t => Alike(call[u], call'[u])
  BY <1>1 DEF Began
<1>4. \A u \in Task : call[u].op = op => u \in Rivals(op, h)
  <2>1. \A u \in Task : call[u].by \in Handle
    BY DEF Base, Types, CallType
  <2>2. Rivals(op, h) = UNION {Active(op, g) : g \in Handle}
    BY DEF Rivals, Marking
  <2> QED
    BY <2>1, <2>2 DEF Active
<1>5. SUFFICES ASSUME ~raced' PROVE PinsKept'
  BY DEF PinsKept
<1>6. ~raced /\ \A u \in Task : u # t => call'[u].op # op
  BY <1>1, <1>3, <1>4, <1>5 DEF Alike
<1> QED
  BY <1>1, <1>2, <1>6 DEF PinsKept

\* The pins are read: the call will write them with its message flipped.
LEMMA PinsRead ==
    ASSUME Base, PinsKept, NEW t \in Task, ReadPins(t)
    PROVE  PinsKept'
<1> DEFINE set == Flip(pins, call[t].of)
           todo == <<Pinning(set)>>
<1>1. /\ call[t].op # "none" /\ Request(t).kind = "readPins" /\ GoOn(t, todo)
      /\ UNCHANGED <<pins, wanted, raced>>
  BY DEF ReadPins, Asks, server, ghost
<1>2. call[t].op = "pinUnpinMessage" /\ call[t] \in CallType /\ pins \subseteq Nat /\ now \in Nat
  <2>1. Request(t) \in Good(call[t].op, call[t].by)
    BY <1>1, NextRequest
  <2> QED
    BY <1>1, <2>1 DEF Good, Base, Types
<1>3. set \in SUBSET Nat
  BY <1>2 DEF Flip, CallType
<1> HIDE DEF set
<1>4. /\ Pinning(set) \in Good(call[t].op, call[t].by) /\ Pinning(set).kind = "writePins"
      /\ Pinning(set).pins = set
  BY <1>2, <1>3, GoodRequests DEF Pinning, Ask
<1>5. /\ todo \in Seq(Good(call[t].op, call[t].by)) /\ Len(todo) = 1
      /\ todo[1].kind = "writePins" /\ todo[1].pins = set /\ todo # <<>>
  BY <1>4, Short
<1> HIDE DEF todo
<1>6. Exact(call[t].op, call[t].of, todo)
  BY <1>2, <1>5 DEF Exact
<1>7. Moved(t) /\ call'[t] = [call[t] EXCEPT !.todo = Stamp(todo)]
  BY <1>1, <1>5, <1>6, GoOnStep
<1>8. Stamp(todo)[1].pins = set /\ Stamp(todo)[1].kind = "writePins"
  <2>1. \A op, h : \A x \in Seq(Good(op, h)) : x # <<>> =>
           Stamp(x)[1].pins = x[1].pins /\ Stamp(x)[1].kind = x[1].kind
    BY <1>2, StampGood
  <2> QED
    BY <1>5, <2>1
<1>9. /\ call'[t].todo[1].pins = set /\ call'[t].of = call[t].of /\ call'[t].op = call[t].op
  BY <1>2, <1>7, <1>8 DEF CallType
<1>10. \A u \in Task : u # t => call'[u] = call[u]
  BY <1>7 DEF Moved
<1> QED
  BY <1>1, <1>2, <1>9, <1>10 DEF PinsKept, set

\* The pins are written: no other call has read them before.
LEMMA PinsWritten ==
    ASSUME Base, PinsKept, NEW t \in Task, WritePins(t)
    PROVE  PinsKept'
<1>1. /\ call[t].op # "none" /\ Request(t).kind = "writePins" /\ Finish(t) /\ raced' = raced
      /\ pins' = Request(t).pins /\ wanted' = Flip(wanted, call[t].of)
  BY DEF WritePins, Asks
<1>2. call[t].op = "pinUnpinMessage"
  <2>1. Request(t) \in Good(call[t].op, call[t].by)
    BY <1>1, NextRequest
  <2> QED
    BY <1>1, <2>1 DEF Good
<1>3. Moved(t) /\ call'[t].op = "none"
  BY <1>1, FinishStep, NoCallType
<1>4. \A u \in Task : call'[u].op = "pinUnpinMessage" => u # t /\ call[u].op = "pinUnpinMessage"
  BY <1>3 DEF Moved
<1>5. ASSUME ~raced PROVE pins' = wanted' /\ \A u \in Task : call'[u].op # "pinUnpinMessage"
  BY <1>1, <1>2, <1>4, <1>5 DEF PinsKept, Request
<1> QED
  BY <1>1, <1>5 DEF PinsKept

\* Every step keeps the pins.
LEMMA PinsNext ==
    ASSUME Base, PinsKept, [Next]_vars
    PROVE  PinsKept'
<1> DEFINE set == {"pinUnpinMessage"}
<1>0. Base' /\ "none" \notin set
  BY StepCases
<1>1. ASSUME NEW t \in Task, NEW h \in Handle, NEW op \in Operation, NEW of \in Nat,
             NEW todo \in Seq(Good(op, h)), BeginsCall(t, h, op, of, todo)
      PROVE  PinsKept'
  <2>1. CASE op = "pinUnpinMessage"
    BY <1>1, <2>1, PinsBegin
  <2>2. CASE op # "pinUnpinMessage"
    <3>1. Began(t, h, op, of) /\ UNCHANGED <<pins, wanted>> /\ (raced => raced')
      BY <1>1, <2>2 DEF BeginsCall
    <3> QED
      BY <1>0, <2>2, <3>1, StillFrom, PinsFrame
  <2> QED
    BY <2>1, <2>2
<1>2. ASSUME NEW t \in Task, NEW h \in Handle, flag[h] /\ MarkAsUnread(t, h) PROVE PinsKept'
  <2>1. \A u \in Task : Alike(call[u], call'[u])
    BY <1>2, AlreadyMarked
  <2>2. UNCHANGED <<pins, wanted, raced>>
    BY <1>2 DEF MarkAsUnread, Begin, server
  <2> QED
    BY <1>0, <2>1, <2>2, StillFrom, PinsFrame
<1>3. ASSUME NEW t \in Task, ServerStep(t) PROVE PinsKept'
  <2>1. CASE ReadPins(t) \/ WritePins(t)
    BY <2>1, PinsRead, PinsWritten
  <2>2. CASE AnswerLost(t) /\ Request(t).kind = "writePins"
    BY <2>2 DEF AnswerLost, PinsKept
  <2>3. CASE ~(ReadPins(t) \/ WritePins(t)) /\ ~(AnswerLost(t) /\ Request(t).kind = "writePins")
    <3>1. UNCHANGED <<pins, wanted>> /\ (raced => raced')
      <4>1. CASE AnswerLost(t)
        BY <2>3, <4>1 DEF AnswerLost, Asks
      <4>2. ASSUME ~AnswerLost(t) PROVE UNCHANGED <<pins, wanted, raced>>
        BY <1>3, <2>3, <4>2 DEF ServerStep, PutEvent, PutReceipt, PutMark, Plain, ReadEnds,
           ReadResponses, listMessages, RequestRefused, ghost, server
      <4> QED
        BY <4>1, <4>2
    <3>2. call[t].op \notin set \/ call'[t] = NoCall
      BY <1>3, <2>3, Answers
    <3>3. Moved(t) \/ Settled(t)
      BY <1>3, ServerBase
    <3> QED
      BY <1>0, <3>1, <3>2, <3>3, StillFrom, PinsFrame
  <2> QED
    BY <2>1, <2>2, <2>3
<1>4. ASSUME UNCHANGED <<call, pins, ghost>> PROVE PinsKept'
  BY <1>0, <1>4, StillFrom, PinsFrame DEF ghost
<1> QED
  BY <1>1, <1>2, <1>3, <1>4, StepCases

----------------------------------------------------------------------------
(* Reactions.                                                              *)

\* Who has reacted to a message.
LEMMA Reacted ==
    ASSUME NEW tl, NEW h, NEW m
    PROVE  Client!Annotated(tl, h, m) <=>
              \E i \in DOMAIN tl : Stands(tl, i) /\ tl[i].of = m /\ tl[i].sender = h
BY DEF Client!Annotated, Client!Reactions, Stands

\* What stands once an event is added.
LEMMA Grown ==
    ASSUME NEW tl \in Seq(Client!Event), NEW e \in Client!Event, Tidy(tl)
    PROVE  LET tm == Append(tl, e)
               n == Len(tl) + 1
           IN  /\ DOMAIN tm = DOMAIN tl \cup {n} /\ n \notin DOMAIN tl /\ tm[n] = e
               /\ \A i \in DOMAIN tl :
                     /\ tm[i] = tl[i]
                     /\ Stands(tm, i) <=> Stands(tl, i) /\ ~(e.type = "redaction" /\ e.of = i)
               /\ Stands(tm, n) <=> e.type = "reaction"
<1> DEFINE tm == Append(tl, e)
           n == Len(tl) + 1
<1>1. /\ DOMAIN tl = 1 .. Len(tl) /\ Len(tl) \in Nat /\ DOMAIN tm = 1 .. n /\ tm[n] = e
      /\ \A i \in DOMAIN tl : tm[i] = tl[i]
  BY AppendProperties, LenProperties
<1>2. DOMAIN tm = DOMAIN tl \cup {n} /\ n \notin DOMAIN tl
  BY <1>1
<1> HIDE DEF tm, n
<1>3. \A i : Client!Redacted(tm, DOMAIN tm, i) <=>
                Client!Redacted(tl, DOMAIN tl, i) \/ (e.type = "redaction" /\ e.of = i)
  BY <1>1, <1>2 DEF Client!Redacted
<1>4. ~Client!Redacted(tl, DOMAIN tl, n)
  BY <1>2 DEF Tidy, Client!Redacted
<1>5. \A i \in DOMAIN tl :
         Stands(tm, i) <=> Stands(tl, i) /\ ~(e.type = "redaction" /\ e.of = i)
  BY <1>1, <1>2, <1>3 DEF Stands
<1>6. Stands(tm, n) <=> e.type = "reaction"
  BY <1>1, <1>2, <1>3, <1>4 DEF Stands
<1> QED
  BY <1>1, <1>2, <1>5, <1>6 DEF tm, n

\* An event that neither is a reaction nor takes one back.
LEMMA GrownPlain ==
    ASSUME NEW tl \in Seq(Client!Event), NEW e \in Client!Event, Tidy(tl), e.type # "reaction",
           e.type = "redaction" => e.of \in DOMAIN tl /\ tl[e.of].type # "reaction"
    PROVE  LET tm == Append(tl, e)
           IN  /\ Tidy(tm) /\ \A i \in DOMAIN tl : Stands(tl, i) => Stands(tm, i)
               /\ \A h, m : Client!Annotated(tm, h, m) <=> Client!Annotated(tl, h, m)
<1> DEFINE tm == Append(tl, e)
           n == Len(tl) + 1
<1>1. /\ DOMAIN tm = DOMAIN tl \cup {n} /\ n \notin DOMAIN tl /\ tm[n] = e /\ ~Stands(tm, n)
      /\ \A i \in DOMAIN tl :
            /\ tm[i] = tl[i]
            /\ Stands(tm, i) <=> Stands(tl, i) /\ ~(e.type = "redaction" /\ e.of = i)
  BY Grown
<1> HIDE DEF tm, n
<1>2. \A i \in DOMAIN tl : Stands(tm, i) <=> Stands(tl, i)
  BY <1>1 DEF Stands
<1>3. Tidy(tm)
  <2>1. \A i \in DOMAIN tm : tm[i].type = "redaction" =>
           /\ tm[i].of \in DOMAIN tm
           /\ tm[tm[i].of].type = "reaction" => tm[tm[i].of].sender = tm[i].sender
    BY <1>1 DEF Tidy
  <2>2. \A i, j \in DOMAIN tm :
           Stands(tm, i) /\ Stands(tm, j) /\ tm[i].of = tm[j].of /\ tm[i].sender = tm[j].sender
              => i = j
    BY <1>1, <1>2 DEF Tidy
  <2> QED
    BY <2>1, <2>2 DEF Tidy
<1>4. \A h, m : Client!Annotated(tm, h, m) <=> Client!Annotated(tl, h, m)
  BY <1>1, <1>2, Reacted
<1> QED
  BY <1>2, <1>3, <1>4 DEF tm

\* A reaction, the only one of the handle.
LEMMA GrownReaction ==
    ASSUME NEW tl \in Seq(Client!Event), NEW e \in Client!Event, Tidy(tl), e.type = "reaction",
           ~Client!Annotated(tl, e.sender, e.of)
    PROVE  LET tm == Append(tl, e)
           IN  /\ Tidy(tm) /\ \A i \in DOMAIN tl : Stands(tl, i) => Stands(tm, i)
               /\ \A h, m : Client!Annotated(tm, h, m) <=>
                               Client!Annotated(tl, h, m) \/ (h = e.sender /\ m = e.of)
<1> DEFINE tm == Append(tl, e)
           n == Len(tl) + 1
<1>1. /\ DOMAIN tm = DOMAIN tl \cup {n} /\ n \notin DOMAIN tl /\ tm[n] = e /\ Stands(tm, n)
      /\ \A i \in DOMAIN tl : tm[i] = tl[i] /\ (Stands(tm, i) <=> Stands(tl, i))
  BY Grown
<1> HIDE DEF tm, n
<1>2. \A i \in DOMAIN tl : ~(Stands(tl, i) /\ tl[i].of = e.of /\ tl[i].sender = e.sender)
  BY Reacted
<1>3. Tidy(tm)
  <2>1. \A i \in DOMAIN tm : tm[i].type = "redaction" =>
           /\ tm[i].of \in DOMAIN tm
           /\ tm[tm[i].of].type = "reaction" => tm[tm[i].of].sender = tm[i].sender
    BY <1>1 DEF Tidy
  <2>2. \A i, j \in DOMAIN tm :
           Stands(tm, i) /\ Stands(tm, j) /\ tm[i].of = tm[j].of /\ tm[i].sender = tm[j].sender
              => i = j
    BY <1>1, <1>2 DEF Tidy
  <2> QED
    BY <2>1, <2>2 DEF Tidy
<1>4. \A h, m : Client!Annotated(tm, h, m) <=>
                   Client!Annotated(tl, h, m) \/ (h = e.sender /\ m = e.of)
  BY <1>1, Reacted
<1> QED
  BY <1>1, <1>3, <1>4 DEF tm

\* The redaction of a reaction that stands, by who reacted.
LEMMA GrownRedaction ==
    ASSUME NEW tl \in Seq(Client!Event), NEW e \in Client!Event, Tidy(tl), e.type = "redaction",
           Stands(tl, e.of), tl[e.of].sender = e.sender
    PROVE  LET tm == Append(tl, e)
           IN  /\ Tidy(tm) /\ \A i \in DOMAIN tl : Stands(tl, i) /\ i # e.of => Stands(tm, i)
               /\ \A h, m : Client!Annotated(tm, h, m) <=>
                               /\ Client!Annotated(tl, h, m)
                               /\ ~(h = e.sender /\ m = tl[e.of].of)
<1> DEFINE tm == Append(tl, e)
           n == Len(tl) + 1
<1>1. /\ DOMAIN tm = DOMAIN tl \cup {n} /\ n \notin DOMAIN tl /\ tm[n] = e /\ ~Stands(tm, n)
      /\ \A i \in DOMAIN tl : tm[i] = tl[i] /\ (Stands(tm, i) <=> Stands(tl, i) /\ i # e.of)
  BY Grown
<1> HIDE DEF tm, n
<1>2. e.of \in DOMAIN tl
  BY DEF Stands
<1>3. Tidy(tm)
  <2>1. \A i \in DOMAIN tm : tm[i].type = "redaction" =>
           /\ tm[i].of \in DOMAIN tm
           /\ tm[tm[i].of].type = "reaction" => tm[tm[i].of].sender = tm[i].sender
    BY <1>1, <1>2 DEF Tidy
  <2>2. \A i, j \in DOMAIN tm :
           Stands(tm, i) /\ Stands(tm, j) /\ tm[i].of = tm[j].of /\ tm[i].sender = tm[j].sender
              => i = j
    BY <1>1 DEF Tidy
  <2> QED
    BY <2>1, <2>2 DEF Tidy
<1>4. \A i \in DOMAIN tl : /\ Stands(tl, i) /\ tl[i].of = tl[e.of].of /\ tl[i].sender = e.sender
                           => i = e.of
  BY <1>2 DEF Tidy
<1>5. \A h, m : Client!Annotated(tm, h, m) <=>
                   Client!Annotated(tl, h, m) /\ ~(h = e.sender /\ m = tl[e.of].of)
  <2> SUFFICES ASSUME NEW h, NEW m
               PROVE  Client!Annotated(tm, h, m) <=>
                         Client!Annotated(tl, h, m) /\ ~(h = e.sender /\ m = tl[e.of].of)
    OBVIOUS
  <2>1. Client!Annotated(tm, h, m) <=>
           \E i \in DOMAIN tl : Stands(tl, i) /\ i # e.of /\ tl[i].of = m /\ tl[i].sender = h
    BY <1>1, Reacted
  <2>2. Client!Annotated(tl, h, m) <=>
           \E i \in DOMAIN tl : Stands(tl, i) /\ tl[i].of = m /\ tl[i].sender = h
    BY Reacted
  <2> QED
    BY <1>2, <1>4, <2>1, <2>2
<1> QED
  BY <1>1, <1>3, <1>5 DEF tm

\* The operations about reactions and what takes events back.
Taking == {"toggleReaction", "deleteMessage"}

\* A call still takes back what stands.
LEMMA StillTakes ==
    ASSUME NEW tl \in Seq(Client!Event), NEW tm, Longer(tl, tm), NEW c, TakesBack(tl, c),
           Undoes(c) => Stands(tm, Target(c))
    PROVE  TakesBack(tm, c)
<1>1. /\ DOMAIN tl = 1 .. Len(tl) /\ DOMAIN tm = 1 .. Len(tm) /\ Len(tl) \in Nat
      /\ Len(tm) \in Nat /\ Len(tl) <= Len(tm) /\ \A i \in DOMAIN tl : tm[i] = tl[i]
  BY LenProperties DEF Longer
<1>2. DOMAIN tl \subseteq DOMAIN tm
  BY <1>1
<1> QED
  BY <1>1, <1>2 DEF TakesBack, Stands

\* Other steps leave the reactions.
LEMMA ReactFrame ==
    ASSUME Base, ReactionsKept, Still(Taking), UNCHANGED <<toggled, spoiled>>,
           \/ timeline' = timeline
           \/ \E e \in Client!Event : /\ timeline' = Append(timeline, e)
                                      /\ e.type \notin {"reaction", "redaction"}
    PROVE  ReactionsKept'
<1>1. timeline \in Seq(Client!Event) /\ Longer(timeline, timeline')
  BY NoCallType, Appended DEF Base, Types
<1>2. /\ Tidy(timeline') /\ \A i \in DOMAIN timeline : Stands(timeline, i) => Stands(timeline', i)
      /\ \A h, m : Client!Annotated(timeline', h, m) <=> Client!Annotated(timeline, h, m)
  <2>1. CASE timeline' = timeline
    BY <2>1 DEF ReactionsKept
  <2>2. ASSUME NEW e \in Client!Event, timeline' = Append(timeline, e),
               e.type \notin {"reaction", "redaction"}
        PROVE  /\ Tidy(timeline')
               /\ \A i \in DOMAIN timeline : Stands(timeline, i) => Stands(timeline', i)
               /\ \A h, m : Client!Annotated(timeline', h, m) <=> Client!Annotated(timeline, h, m)
    <3>1. Tidy(timeline)
      BY DEF ReactionsKept
    <3> QED
      BY <1>1, <2>2, <3>1, GrownPlain
  <2> QED
    BY <2>1, <2>2
<1>3. ASSUME NEW t \in Task, call'[t].op \in Taking
      PROVE  /\ TakesBack(timeline', call'[t]) /\ Target(call'[t]) = Target(call[t])
             /\ Undoes(call'[t]) <=> Undoes(call[t])
  <2>1. Alike(call[t], call'[t])
    BY <1>3 DEF Still
  <2>2. TakesBack(timeline', call[t])
    <3>1. TakesBack(timeline, call[t])
      BY DEF ReactionsKept
    <3>2. Undoes(call[t]) => Stands(timeline', Target(call[t]))
      BY <1>2, <3>1 DEF TakesBack, Stands
    <3> QED
      BY <1>1, <3>1, <3>2, StillTakes
  <2> QED
    BY <2>1, <2>2 DEF TakesBack, Undoes, Target, Alike
<1>4. \A t \in Task : call'[t].op \notin Taking => ~Undoes(call'[t]) /\ TakesBack(timeline', call'[t])
  BY DEF Taking, Undoes, TakesBack
<1>5. \A t, u \in Task :
         Undoes(call'[t]) /\ Undoes(call'[u]) /\ Target(call'[t]) = Target(call'[u]) => t = u
  BY <1>3, <1>4 DEF ReactionsKept
<1>6. Odd(timeline', toggled, spoiled)
  BY <1>2 DEF ReactionsKept, Odd
<1> QED
  BY <1>2, <1>3, <1>4, <1>5, <1>6 DEF ReactionsKept

\* A toggle begins: the reaction it takes back, if any, stands, and no other
\* call takes it back.
LEMMA ReactBegin ==
    ASSUME Base, ReactionsKept, NEW t \in Task, NEW h \in Handle, NEW op \in Taking,
           NEW of \in Nat, NEW todo \in Seq(Good(op, h)), BeginsCall(t, h, op, of, todo)
    PROVE  ReactionsKept'
<1> DEFINE e == todo[1].event
<1>1. /\ Began(t, h, op, of) /\ Opening(t, h, op, of, todo)
      /\ call'[t].todo[1].event.type = e.type /\ call'[t].todo[1].event.of = e.of
      /\ call'[t].todo[1].after = todo[1].after
      /\ UNCHANGED <<timeline, toggled, spoiled>>
  BY DEF BeginsCall
<1>2. call'[t].op = op /\ call'[t].by = h /\ call'[t].of = of
      /\ \A u \in Task : u # t => Alike(call[u], call'[u])
  BY <1>1 DEF Began
<1>3. ASSUME op = "toggleReaction", e.type = "redaction", todo[1].after = {}
      PROVE  /\ Stands(timeline, e.of) /\ timeline[e.of].sender = h /\ timeline[e.of].of = of
             /\ \A u \in Task : Undoes(call[u]) => Target(call[u]) # e.of
  <2> DEFINE known == KnownAndSent(h)
             mine == Client!OwnReaction(timeline, known, Undone(h), h, of)
             i == e.of
  <2>1. e \in Client!toggleReaction(timeline, known, Undone(h), h, of)
    BY <1>1, <1>3 DEF Opening
  <2>2. \A j : Client!deleteMessage(h, j).of = j
    BY DEF Client!deleteMessage, Client!Bare, Client!NewEvent
  <2>3. Client!Bare(h, "reaction", "annotation", of).type = "reaction"
    BY DEF Client!Bare, Client!NewEvent
  <2>4. i \in mine
    <3> HIDE DEF mine, known
    <3>1. \/ \E j \in mine : e = Client!deleteMessage(h, j)
          \/ e = Client!Bare(h, "reaction", "annotation", of)
      BY <2>1 DEF Client!toggleReaction, mine
    <3> QED
      BY <1>3, <2>2, <2>3, <3>1
  <2>5. /\ i \in known /\ timeline[i].type = "reaction" /\ timeline[i].of = of
        /\ ~Client!Redacted(timeline, known, i) /\ i \notin Undone(h) /\ timeline[i].sender = h
    <3> HIDE DEF known, i
    <3> QED
      BY <2>4 DEF Client!OwnReaction, Client!Reactions
  <2>6. i \in DOMAIN timeline
    BY <2>5 DEF KnownAndSent
  <2>7. ~Client!Redacted(timeline, DOMAIN timeline, i)
    <3>1. ASSUME NEW j \in DOMAIN timeline, timeline[j].type = "redaction", timeline[j].of = i
          PROVE  FALSE
      <4>1. timeline[j].sender = h
        BY <2>5, <3>1 DEF ReactionsKept, Tidy
      <4>2. j \in known
        BY <3>1, <4>1 DEF KnownAndSent, Client!Poll
      <4> QED
        BY <2>5, <3>1, <4>2 DEF Client!Redacted
    <3> QED
      BY <3>1 DEF Client!Redacted
  <2>8. ASSUME NEW u \in Task, Undoes(call[u]), Target(call[u]) = i PROVE FALSE
    <3>1. call[u].by = h
      BY <2>5, <2>8 DEF ReactionsKept, TakesBack
    <3>2. u \in Active("toggleReaction", h) /\ call[u].todo[1].event.type = "redaction"
      BY <2>8, <3>1 DEF Active, Undoes
    <3>3. i \in Undone(h)
      BY <2>8, <3>2 DEF Undone, Target
    <3> QED
      BY <2>5, <3>3
  <2> QED
    BY <2>5, <2>6, <2>7, <2>8 DEF Stands
<1>4. op = "deleteMessage" => of \in DOMAIN timeline /\ timeline[of].type # "reaction"
  BY <1>1 DEF Opening, Messages
<1>5. TakesBack(timeline, call'[t])
  BY <1>1, <1>2, <1>3, <1>4 DEF TakesBack, Undoes, Target
<1>6. \A u \in Task : u # t =>
         /\ TakesBack(timeline, call'[u]) /\ Target(call'[u]) = Target(call[u])
         /\ Undoes(call'[u]) <=> Undoes(call[u])
  <2>1. \A u \in Task : TakesBack(timeline, call[u])
    BY DEF ReactionsKept
  <2> QED
    BY <1>2, <2>1 DEF TakesBack, Undoes, Target, Alike
<1>7. Undoes(call'[t]) => \A u \in Task : Undoes(call[u]) => Target(call[u]) # Target(call'[t])
  BY <1>1, <1>2, <1>3 DEF Undoes, Target
<1>8. \A u, v \in Task :
         Undoes(call'[u]) /\ Undoes(call'[v]) /\ Target(call'[u]) = Target(call'[v]) => u = v
  BY <1>6, <1>7 DEF ReactionsKept
<1>9. Tidy(timeline) /\ Odd(timeline, toggled, spoiled)
  BY DEF ReactionsKept
<1> QED
  BY <1>1, <1>5, <1>6, <1>8, <1>9 DEF ReactionsKept

\* The call u now takes back the reaction that t has just sent.
Loosed(t, u) ==
    /\ Reacts(call[t]) /\ Undoes(call'[u]) /\ Target(call'[u]) = Len(timeline) + 1
    /\ call'[u].by = call[t].by /\ call'[u].of = call[t].of

\* A toggle or the redaction of a message reaches the server.
LEMMA ReactPut ==
    ASSUME Base, ReactionsKept, NEW t \in Task, call[t].op \in Taking, call'[t] = NoCall,
           Request(t).after = {},
           \A u \in Task : u # t => call'[u] = call[u] \/ call'[u] = NoCall \/ Loosed(t, u),
           \A u, v \in Task : u # t /\ v # t /\ Loosed(t, u) /\ Loosed(t, v) => u = v,
           Accept(Request(t).event), ~Duplicate(Request(t).event), now' = now,
           \/ /\ call[t].op = "deleteMessage" /\ UNCHANGED <<toggled, spoiled>>
           \/ /\ call[t].op = "toggleReaction"
              /\ \/ /\ toggled' = Flip(toggled, <<call[t].by, call[t].of>>)
                    /\ spoiled' = spoiled
                 \/ /\ toggled' = toggled
                    /\ spoiled' = spoiled \cup {<<call[t].by, call[t].of>>}
    PROVE  ReactionsKept'
<1> DEFINE r == Request(t).event
           e == [r EXCEPT !.ts = now]
           c == call[t]
<1>1. /\ Types /\ Ordered /\ timeline \in Seq(Client!Event) /\ now \in Nat
      /\ Tidy(timeline) /\ Odd(timeline, toggled, spoiled)
      /\ \A u \in Task : TakesBack(timeline, call[u])
  BY DEF Base, Types, ReactionsKept
<1>2. /\ r \in Client!Event /\ r.sender = c.by /\ r.txn = 0
      /\ r.type \in {"reaction", "redaction"} /\ (r.type = "reaction" => r.of = c.of)
      /\ c.op = "deleteMessage" => r.type = "redaction" /\ r.of = c.of
      /\ Undoes(c) <=> c.op = "toggleReaction" /\ r.type = "redaction"
      /\ Target(c) = r.of
  <2>1. /\ Request(t) \in Good(c.op, c.by) /\ Request(t) \in Reqs /\ r \in Client!Event
        /\ Exact(c.op, c.of, c.todo)
    BY NextRequest DEF Taking
  <2>2. /\ Request(t).kind = "event" /\ r.type \in {"reaction", "redaction"}
        /\ (r.type = "reaction" => r.of = c.of)
        /\ c.op = "deleteMessage" => r.type = "redaction" /\ r.of = c.of
    BY <2>1 DEF Exact, Request, Taking
  <2> QED
    BY <2>1, <2>2 DEF Good, Undoes, Target, Request
<1>3. /\ e \in Client!Event /\ e.type = r.type /\ e.of = r.of /\ e.sender = r.sender
  BY <1>1, <1>2 DEF Client!Event
<1>4. timeline' = Append(timeline, e) /\ Longer(timeline, timeline')
  <2> HIDE DEF r
  <2> QED
    BY <1>1, <1>2, AcceptStep DEF r
<1>5. c.by \in Handle /\ c.of \in Nat
  BY DEF Base, Types, CallType
<1> HIDE DEF e, r
<1>6. r.type = "reaction" => ~Client!Annotated(timeline, c.by, c.of)
  BY <1>2 DEF Duplicate, r
<1>7. /\ Tidy(timeline')
      /\ \A i \in DOMAIN timeline :
            Stands(timeline, i) /\ (Undoes(c) => i # r.of) => Stands(timeline', i)
      /\ c.op = "deleteMessage" =>
            \A h, m : Client!Annotated(timeline', h, m) <=> Client!Annotated(timeline, h, m)
      /\ c.op = "toggleReaction" =>
            /\ \A h, m : h # c.by \/ m # c.of =>
                  (Client!Annotated(timeline', h, m) <=> Client!Annotated(timeline, h, m))
            /\ Client!Annotated(timeline', c.by, c.of) <=> ~Client!Annotated(timeline, c.by, c.of)
  <2>1. CASE c.op = "deleteMessage"
    <3>1. e.type = "redaction" /\ e.of \in DOMAIN timeline /\ timeline[e.of].type # "reaction"
      BY <1>1, <1>2, <1>3, <2>1 DEF TakesBack
    <3> QED
      BY <1>1, <1>3, <1>4, <2>1, <3>1, GrownPlain
  <2>2. CASE c.op = "toggleReaction" /\ r.type = "reaction"
    <3>1. /\ Tidy(timeline') /\ \A i \in DOMAIN timeline : Stands(timeline, i) => Stands(timeline', i)
          /\ \A h, m : Client!Annotated(timeline', h, m) <=>
                          Client!Annotated(timeline, h, m) \/ (h = c.by /\ m = c.of)
      BY <1>1, <1>2, <1>3, <1>4, <1>6, <2>2, GrownReaction
    <3> QED
      BY <1>6, <2>2, <3>1
  <2>3. CASE c.op = "toggleReaction" /\ r.type = "redaction"
    <3>1. Stands(timeline, e.of) /\ timeline[e.of].sender = e.sender /\ timeline[e.of].of = c.of
      BY <1>1, <1>2, <1>3, <2>3 DEF TakesBack
    <3>2. /\ Tidy(timeline')
          /\ \A i \in DOMAIN timeline : Stands(timeline, i) /\ i # r.of => Stands(timeline', i)
          /\ \A h, m : Client!Annotated(timeline', h, m) <=>
                          Client!Annotated(timeline, h, m) /\ ~(h = c.by /\ m = c.of)
      BY <1>1, <1>2, <1>3, <1>4, <2>3, <3>1, GrownRedaction
    <3>3. Client!Annotated(timeline, c.by, c.of)
      BY <1>2, <1>3, <3>1, Reacted DEF Stands
    <3> QED
      BY <1>2, <2>3, <3>2, <3>3
  <2> QED
    BY <1>2, <2>1, <2>2, <2>3 DEF Taking
<1>8. \A u \in Task : u # t => call'[u] = call[u] \/ call'[u] = NoCall \/ Loosed(t, u)
  OBVIOUS
<1>9. \A u \in Task : call'[u] = NoCall => ~Undoes(call'[u]) /\ TakesBack(timeline', call'[u])
  BY NoCallType DEF Undoes, TakesBack
<1>10. ASSUME NEW u \in Task, u # t, call'[u] = call[u]
       PROVE  /\ TakesBack(timeline', call'[u])
              /\ Undoes(call[u]) => Target(call[u]) \in DOMAIN timeline
  <2>1. TakesBack(timeline, call[u])
    BY <1>1
  <2>2. Undoes(call[u]) => Stands(timeline', Target(call[u])) /\ Target(call[u]) \in DOMAIN timeline
    <3>1. Undoes(call[u]) /\ Undoes(c) => Target(call[u]) # r.of
      BY <1>2, <1>10 DEF ReactionsKept
    <3>2. Undoes(call[u]) => Stands(timeline, Target(call[u])) /\ Target(call[u]) \in DOMAIN timeline
      BY <2>1 DEF TakesBack, Stands
    <3> QED
      BY <1>7, <3>1, <3>2
  <2> QED
    BY <1>1, <1>4, <1>10, <2>1, <2>2, StillTakes
<1>13. ASSUME NEW u \in Task, Loosed(t, u) PROVE TakesBack(timeline', call'[u])
  <2> DEFINE n == Len(timeline) + 1
  <2>1. c.op = "toggleReaction" /\ e.type = "reaction" /\ e.of = c.of /\ e.sender = c.by
    BY <1>2, <1>3, <1>13 DEF Loosed, Reacts, Request, r
  <2>2. timeline'[n] = e /\ Stands(timeline', n)
    BY <1>1, <1>3, <1>4, <2>1, Grown
  <2> QED
    BY <1>13, <2>1, <2>2 DEF Loosed, TakesBack, Undoes
<1>14. \A u \in Task : TakesBack(timeline', call'[u])
  BY <1>8, <1>9, <1>10, <1>13
<1>15. \A u, v \in Task : u # t /\ v # t /\ Loosed(t, u) /\ Loosed(t, v) => u = v
  OBVIOUS
<1>16. Len(timeline) + 1 \notin DOMAIN timeline
  BY <1>1, LenProperties
<1>11. ASSUME NEW u \in Task, NEW v \in Task, Undoes(call'[u]), Undoes(call'[v]),
              Target(call'[u]) = Target(call'[v])
       PROVE  u = v
  <2>1. u # t /\ v # t /\ call'[u] # NoCall /\ call'[v] # NoCall
    BY <1>9, <1>11
  <2>2. CASE call'[u] = call[u] /\ call'[v] = call[v]
    BY <1>11, <2>2 DEF ReactionsKept
  <2>3. CASE Loosed(t, u) /\ Loosed(t, v)
    BY <1>15, <2>1, <2>3
  <2>4. CASE call'[u] = call[u] /\ Loosed(t, v)
    BY <1>10, <1>11, <1>16, <2>1, <2>4 DEF Loosed
  <2>5. CASE call'[v] = call[v] /\ Loosed(t, u)
    BY <1>10, <1>11, <1>16, <2>1, <2>5 DEF Loosed
  <2> QED
    BY <1>8, <2>1, <2>2, <2>3, <2>4, <2>5
<1>12. Odd(timeline', toggled', spoiled')
  <2> SUFFICES ASSUME NEW h \in Handle, NEW m \in Nat, <<h, m>> \notin spoiled'
               PROVE  Client!Annotated(timeline', h, m) <=> <<h, m>> \in toggled'
    BY DEF Odd
  <2>1. <<h, m>> \notin spoiled
    OBVIOUS
  <2>2. Client!Annotated(timeline, h, m) <=> <<h, m>> \in toggled
    BY <1>1, <2>1 DEF Odd
  <2>3. CASE c.op = "deleteMessage"
    BY <1>7, <2>2, <2>3
  <2>4. CASE c.op = "toggleReaction" /\ ~(h = c.by /\ m = c.of)
    <3>1. <<h, m>> # <<c.by, c.of>>
      BY <2>4
    <3>2. <<h, m>> \in toggled' <=> <<h, m>> \in toggled
      BY <2>4, <3>1 DEF Flip
    <3> QED
      BY <1>7, <2>2, <2>4, <3>2
  <2>5. CASE c.op = "toggleReaction" /\ h = c.by /\ m = c.of
    <3>1. <<h, m>> \in toggled' <=> <<h, m>> \notin toggled
      BY <2>5 DEF Flip
    <3> QED
      BY <1>7, <2>2, <2>5, <3>1
  <2> QED
    BY <2>3, <2>4, <2>5 DEF Taking
<1> QED
  BY <1>7, <1>11, <1>12, <1>14 DEF ReactionsKept

\* An event of another operation reaches the server.
LEMMA ReactOther ==
    ASSUME Base, ReactionsKept, NEW t \in Task, Moved(t), call[t].op \notin Taking,
           Accept(Request(t).event), now' = now, UNCHANGED <<toggled, spoiled>>
    PROVE  ReactionsKept'
<1> DEFINE r == Request(t).event
           e == [r EXCEPT !.ts = now]
<1>1. r \in Client!Event /\ r.type \notin {"reaction", "redaction"}
  <2>1. Request(t) \in Good(call[t].op, call[t].by) /\ Request(t) \in Reqs
    BY NextRequest DEF Moved
  <2> QED
    BY <2>1 DEF Good, Reqs, Taking
<1>2. e \in Client!Event /\ e.type = r.type
  BY <1>1 DEF Client!Event, Base, Types
<1>3. timeline' = timeline \/ timeline' = Append(timeline, e)
  BY DEF Accept
<1>4. Still(Taking)
  BY StillFrom DEF Taking
<1> HIDE DEF e, r
<1> QED
  BY <1>1, <1>2, <1>3, <1>4, ReactFrame

\* An answer moves one call, unless the call throws or its event goes with
\* others behind it.
LEMMA ServerMoves ==
    ASSUME Base, NEW t \in Task, ServerStep(t)
    PROVE  \/ Moved(t)
           \/ (RequestRefused(t) \/ AnswerLost(t)) /\ Throw(t) /\ call[t].op # "none"
           \/ /\ PutEvent(t) /\ Behind(t) # {} /\ Release(t, Len(timeline) + 1)
              /\ call[t].op # "none"
<1>1. ReadPins(t) \/ Plain(t) \/ ReadEnds(t) => Moved(t)
  BY CallBase
<1>2. PutReceipt(t) \/ PutMark(t) => Moved(t)
  BY MarkBase
<1>3. listMessages(t) \/ ReadResponses(t) => Moved(t)
  BY PageStep, ResponseStep
<1>4. WritePins(t) => Moved(t)
  BY FinishStep DEF WritePins, Asks
<1>5. RequestRefused(t) \/ AnswerLost(t) => Throw(t) /\ call[t].op # "none"
  BY DEF RequestRefused, AnswerLost, Asks
<1>6. ASSUME PutEvent(t), Behind(t) = {} PROVE Moved(t)
  <2>1. call[t].op # "none" /\ Request(t).kind = "event" /\ GoOn(t, Rest(t))
    BY <1>6 DEF PutEvent, Asks
  <2>2. Rest(t) # <<>> => Exact(call[t].op, call[t].of, Rest(t))
    BY <2>1, RestStep
  <2>3. Rest(t) \in Seq(Good(call[t].op, call[t].by))
    BY <2>1, NextRequest
  <2> QED
    BY <2>1, <2>2, <2>3, GoOnStep
<1>7. PutEvent(t) /\ Behind(t) # {} => Release(t, Len(timeline) + 1) /\ call[t].op # "none"
  BY DEF PutEvent, Asks
<1> QED
  BY <1>1, <1>2, <1>3, <1>4, <1>5, <1>6, <1>7 DEF ServerStep

\* What is behind a call of which there is an echo.
LEMMA Followers ==
    ASSUME Base, EchoesKept, NEW t \in Task
    PROVE  /\ \A u \in Behind(t) : /\ u \in Task /\ Reacts(call[t]) /\ Held(call[u]) /\ u # t
                                   /\ call[u].by = call[t].by /\ call[u].of = call[t].of
                                   /\ call[u].todo[1].after = {t}
           /\ \A u, v \in Behind(t) : u = v
<1>1. ASSUME NEW u \in Behind(t)
      PROVE  /\ u \in Task /\ Reacts(call[t]) /\ Held(call[u]) /\ u # t
             /\ call[u].by = call[t].by /\ call[u].of = call[t].of
             /\ call[u].todo[1].after = {t}
  <2>1. u \in Task
    BY DEF Behind
  <2>2. Held(call[u]) /\ t \in call[u].todo[1].after /\ call[u].todo[1].event.type = "redaction"
    BY <2>1, BehindHeld
  <2>3. PICK v \in Task : /\ call[u].todo[1].after = {v} /\ Reacts(call[v])
                          /\ call[v].by = call[u].by /\ call[v].of = call[u].of
    BY <2>1, <2>2 DEF EchoesKept
  <2>4. v = t
    BY <2>2, <2>3
  <2> QED
    BY <2>1, <2>2, <2>3, <2>4 DEF Reacts
<1>2. \A u, v \in Behind(t) : u = v
  BY <1>1 DEF EchoesKept
<1> QED
  BY <1>1, <1>2

\* Nothing is behind a call that is no toggle.
LEMMA MovedAlone ==
    ASSUME Base, EchoesKept, NEW t \in Task, ServerStep(t), call[t].op # "toggleReaction"
    PROVE  Moved(t)
<1>1. Behind(t) = {}
  BY Followers DEF Reacts
<1>2. CASE Throw(t) /\ call[t].op # "none"
  BY <1>1, <1>2, ThrowStep, NoCallType DEF Moved
<1> QED
  BY <1>1, <1>2, ServerMoves

\* What becomes of the calls when a toggle or a redaction is answered.
LEMMA ReactMoves ==
    ASSUME Base, ReactionsKept, EchoesKept, NEW t \in Task, PutEvent(t) \/ AnswerLost(t),
           call[t].op \in Taking
    PROVE  /\ call'[t] = NoCall
           /\ \A u \in Task : u # t => call'[u] = call[u] \/ call'[u] = NoCall \/ Loosed(t, u)
           /\ \A u, v \in Task : u # t /\ v # t /\ Loosed(t, u) /\ Loosed(t, v) => u = v
<1>0. call[t].op # "none" /\ ServerStep(t)
  BY DEF Taking, ServerStep
<1>1. \A u \in Task : Undoes(call[u]) => Target(call[u]) # Len(timeline) + 1
  <2>1. \A u \in Task : Undoes(call[u]) => Target(call[u]) \in DOMAIN timeline
    BY DEF ReactionsKept, TakesBack, Stands
  <2>2. Len(timeline) + 1 \notin DOMAIN timeline
    BY LenProperties DEF Base, Types
  <2> QED
    BY <2>1, <2>2
<1>2. ASSUME call'[t] = NoCall,
             \A u \in Task : u # t => call'[u] = call[u] \/ call'[u] = NoCall
      PROVE  \A u \in Task : u # t => ~Loosed(t, u)
  BY <1>1, <1>2, NoCallType DEF Loosed, Undoes
<1>3. CASE Moved(t)
  <2>1. call'[t] = NoCall
    <3>1. CASE AnswerLost(t)
      BY <1>0, <3>1, Answers
    <3>2. CASE PutEvent(t)
      <4>1. /\ Rest(t) \in Seq(Good(call[t].op, call[t].by)) /\ Len(call[t].todo) = 1
            /\ Len(Rest(t)) = Len(call[t].todo) - 1
        BY <1>0, NextRequest DEF Exact, Taking
      <4>2. Rest(t) = <<>>
        BY <4>1, EmptySeq
      <4>3. Behind(t) = {} => call'[t] = NoCall
        BY <1>0, <3>2, <4>2, FinishStep DEF PutEvent, GoOn
      <4>4. Behind(t) # {} => call'[t] = NoCall
        BY <1>0, <3>2, ReleaseStep DEF PutEvent
      <4> QED
        BY <4>3, <4>4
    <3> QED
      BY <3>1, <3>2
  <2>2. \A u \in Task : u # t => call'[u] = call[u]
    BY <1>3 DEF Moved
  <2> QED
    BY <1>2, <2>1, <2>2
<1>4. CASE Throw(t)
  <2>1. call'[t] = NoCall /\ \A u \in Task : u # t => call'[u] = call[u] \/ call'[u] = NoCall
    BY <1>0, <1>4, ThrowStep
  <2> QED
    BY <1>2, <2>1
<1>5. CASE Release(t, Len(timeline) + 1)
  <2>1. /\ call'[t] = NoCall
        /\ \A u \in Task : u # t => IF u \in Behind(t) THEN Freed(u, Len(timeline) + 1)
                                    ELSE call'[u] = call[u]
    BY <1>0, <1>5, ReleaseStep
  <2>2. ASSUME NEW u \in Task, u # t, u \in Behind(t) PROVE Loosed(t, u)
    <3>1. /\ Reacts(call[t]) /\ call[u].op = "toggleReaction"
          /\ call[u].by = call[t].by /\ call[u].of = call[t].of
      BY <2>2, Followers DEF Held
    <3>2. Len(timeline) + 1 \in Nat
      BY LenProperties DEF Base, Types
    <3> DEFINE i == Len(timeline) + 1
    <3>3. call'[u] = [call[u] EXCEPT !.todo = <<Sending(Client!deleteMessage(call[u].by, i))>>]
      BY <2>1, <2>2 DEF Freed
    <3> HIDE DEF i
    <3>4. /\ call'[u].op = "toggleReaction" /\ call'[u].by = call[u].by
          /\ call'[u].of = call[u].of /\ call'[u].todo[1].after = {}
          /\ call'[u].todo[1].event.type = "redaction" /\ call'[u].todo[1].event.of = i
      BY <3>1, <3>2, <3>3, FreedCall DEF i
    <3> QED
      BY <3>1, <3>4 DEF Loosed, Undoes, Target, i
  <2>3. \A u \in Task : u # t /\ Loosed(t, u) => u \in Behind(t)
    BY <1>1, <2>1 DEF Loosed
  <2> QED
    BY <2>1, <2>2, <2>3, Followers
<1> QED
  BY <1>0, <1>3, <1>4, <1>5, ServerMoves

\* Every step keeps the reactions.
LEMMA ReactionsNext ==
    ASSUME Base, ReactionsKept, EchoesKept, [Next]_vars
    PROVE  ReactionsKept'
<1>0. Base' /\ "none" \notin Taking
  BY StepCases DEF Taking
<1>1. ASSUME NEW t \in Task, NEW h \in Handle, NEW op \in Operation, NEW of \in Nat,
             NEW todo \in Seq(Good(op, h)), BeginsCall(t, h, op, of, todo)
      PROVE  ReactionsKept'
  <2>1. CASE op \in Taking
    BY <1>1, <2>1, ReactBegin
  <2>2. CASE op \notin Taking
    <3>1. Began(t, h, op, of) /\ UNCHANGED <<timeline, toggled, spoiled>>
      BY <1>1 DEF BeginsCall
    <3> QED
      BY <1>0, <2>2, <3>1, StillFrom, ReactFrame
  <2> QED
    BY <2>1, <2>2
<1>2. ASSUME NEW t \in Task, NEW h \in Handle, flag[h] /\ MarkAsUnread(t, h) PROVE ReactionsKept'
  <2>1. timeline' = timeline /\ \A u \in Task : Alike(call[u], call'[u])
    BY <1>2, AlreadyMarked
  <2>2. UNCHANGED <<toggled, spoiled>>
    BY <1>2 DEF MarkAsUnread, Begin
  <2> QED
    BY <1>0, <2>1, <2>2, StillFrom, ReactFrame
<1>3. ASSUME NEW t \in Task, ServerStep(t) PROVE ReactionsKept'
  <2>1. (Moved(t) \/ Settled(t)) /\ call[t].op # "none"
    BY <1>3, ServerBase DEF Moved, Settled
  <2>2. CASE PutEvent(t) \/ (AnswerLost(t) /\ Request(t).kind = "event")
    <3>1. /\ Accept(Request(t).event) /\ ~Duplicate(Request(t).event) /\ now' = now
          /\ Request(t).after = {}
          /\ \/ /\ toggled' = IF call[t].op = "toggleReaction"
                              THEN Flip(toggled, <<call[t].by, call[t].of>>) ELSE toggled
                /\ spoiled' = spoiled
             \/ /\ toggled' = toggled
                /\ spoiled' = IF call[t].op = "toggleReaction"
                              THEN spoiled \cup {<<call[t].by, call[t].of>>} ELSE spoiled
      BY <2>2 DEF PutEvent, AnswerLost, Asks
    <3>2. CASE call[t].op \in Taking
      <4>1. /\ call'[t] = NoCall
            /\ \A u \in Task : u # t =>
                  call'[u] = call[u] \/ call'[u] = NoCall \/ Loosed(t, u)
            /\ \A u, v \in Task : u # t /\ v # t /\ Loosed(t, u) /\ Loosed(t, v) => u = v
        BY <1>3, <2>2, <3>2, ReactMoves
      <4>2. \/ /\ call[t].op = "deleteMessage" /\ UNCHANGED <<toggled, spoiled>>
            \/ /\ call[t].op = "toggleReaction"
               /\ \/ /\ toggled' = Flip(toggled, <<call[t].by, call[t].of>>)
                     /\ spoiled' = spoiled
                  \/ /\ toggled' = toggled
                     /\ spoiled' = spoiled \cup {<<call[t].by, call[t].of>>}
        BY <3>1, <3>2 DEF Taking
      <4> QED
        BY <3>1, <3>2, <4>1, <4>2, ReactPut
    <3>3. CASE call[t].op \notin Taking
      <4>1. Moved(t)
        BY <1>3, <2>2, <3>3, MovedAlone DEF Taking
      <4> QED
        BY <3>1, <3>3, <4>1, ReactOther DEF Taking
    <3> QED
      BY <3>2, <3>3
  <2>3. CASE ~PutEvent(t) /\ ~(AnswerLost(t) /\ Request(t).kind = "event")
    <3>1. UNCHANGED <<timeline, toggled, spoiled>>
      <4>1. CASE AnswerLost(t)
        <5>1. call[t].op # "toggleReaction"
          <6>1. Exact(call[t].op, call[t].of, call[t].todo)
            BY <2>1, NextRequest
          <6> QED
            BY <2>3, <4>1, <6>1 DEF Exact, Request
        <5> QED
          BY <2>3, <4>1, <5>1 DEF AnswerLost
      <4>2. CASE ~AnswerLost(t)
        BY <1>3, <2>3, <4>2 DEF ServerStep, PutReceipt, PutMark, ReadPins, WritePins, Plain,
           ReadEnds, ReadResponses, listMessages, RequestRefused, ghost, server
      <4> QED
        BY <4>1, <4>2
    <3>2. Moved(t) => call[t].op \notin Taking \/ call'[t] = NoCall
      BY <1>3, <2>3, Answers DEF Taking
    <3>3. CASE Moved(t)
      BY <1>0, <3>1, <3>2, <3>3, StillFrom, ReactFrame
    <3>4. CASE ~Moved(t)
      <4>1. Throw(t) /\ call[t].op # "none"
        BY <1>3, <2>1, <2>3, <3>4, ServerMoves
      <4>2. \A u \in Task : call'[u] = call[u] \/ call'[u] = NoCall
        BY <4>1, ThrowStep
      <4>3. Still(Taking)
        BY <1>0, <4>2, NoCallType DEF Still, Alike
      <4> QED
        BY <3>1, <4>3, ReactFrame
    <3> QED
      BY <3>3, <3>4
  <2> QED
    BY <2>2, <2>3
<1>4. ASSUME UNCHANGED <<call, timeline, ghost>> PROVE ReactionsKept'
  BY <1>0, <1>4, StillFrom, ReactFrame DEF ghost
<1> QED
  BY <1>1, <1>2, <1>3, <1>4, StepCases

\* Steps that leave the toggles leave what is held.
LEMMA EchoesFrame ==
    ASSUME EchoesKept, \A u \in Task : Alike(call[u], call'[u])
    PROVE  EchoesKept'
<1>1. \A u \in Task : /\ Held(call'[u]) <=> Held(call[u]) /\ call'[u].todo = call[u].todo
                      /\ Reacts(call'[u]) <=> Reacts(call[u])
                      /\ call'[u].by = call[u].by /\ call'[u].of = call[u].of
  BY DEF Alike, Held, Reacts
<1> QED
  BY <1>1 DEF EchoesKept

\* Every step keeps what is held.
LEMMA EchoesNext ==
    ASSUME Base, EchoesKept, [Next]_vars
    PROVE  EchoesKept'
<1>1. ASSUME NEW t \in Task, NEW h \in Handle, NEW op \in Operation, NEW of \in Nat,
             NEW todo \in Seq(Good(op, h)), BeginsCall(t, h, op, of, todo)
      PROVE  EchoesKept'
  <2>1. /\ call[t].op = "none" /\ call'[t].op = op /\ call'[t].by = h /\ call'[t].of = of
        /\ call'[t].todo[1].after = todo[1].after /\ Opening(t, h, op, of, todo)
        /\ \A u \in Task : u # t => Alike(call[u], call'[u])
    BY <1>1 DEF BeginsCall, Began
  <2>2. \A u \in Task : u # t =>
           /\ Held(call'[u]) <=> Held(call[u]) /\ call'[u].todo = call[u].todo
           /\ Reacts(call'[u]) <=> Reacts(call[u])
           /\ call'[u].by = call[u].by /\ call'[u].of = call[u].of
    BY <2>1 DEF Alike, Held, Reacts
  <2>3. ASSUME NEW u \in Task, u # t, Held(call'[u])
        PROVE  \E v \in Task : /\ call'[u].todo[1].after = {v} /\ Reacts(call'[v])
                               /\ call'[v].by = call'[u].by /\ call'[v].of = call'[u].of
    <3>1. Held(call[u])
      BY <2>2, <2>3
    <3>2. PICK v \in Task : /\ call[u].todo[1].after = {v} /\ Reacts(call[v])
                            /\ call[v].by = call[u].by /\ call[v].of = call[u].of
      BY <3>1 DEF EchoesKept
    <3>3. v # t
      BY <2>1, <3>2 DEF Reacts
    <3> QED
      BY <2>2, <2>3, <3>2, <3>3
  <2>4. ASSUME Held(call'[t])
        PROVE  \E v \in Task :
                  /\ v # t /\ call'[t].todo[1].after = {v} /\ Reacts(call'[v])
                  /\ call'[v].by = h /\ call'[v].of = of
                  /\ \A u \in Task : u # t /\ Held(call'[u]) => call'[u].todo[1].after # {v}
    <3>1. op = "toggleReaction" /\ todo[1].after # {}
      BY <2>1, <2>4 DEF Held
    <3>2. PICK v \in Echoes(h, of) : todo[1].after = {v}
      BY <2>1, <3>1 DEF Opening
    <3>3. /\ v \in Task /\ Reacts(call[v]) /\ call[v].by = h /\ call[v].of = of
          /\ \A u \in Task : call[u].op # "none" => v \notin call[u].todo[1].after
      BY <3>2 DEF Echoes, Active, Reacts
    <3>4. v # t
      BY <2>1, <3>3 DEF Reacts
    <3>5. ASSUME NEW u \in Task, u # t, Held(call'[u]) PROVE call'[u].todo[1].after # {v}
      <4>1. Held(call[u]) /\ call'[u].todo = call[u].todo
        BY <2>2, <3>5
      <4> QED
        BY <3>3, <4>1 DEF Held
    <3> QED
      BY <2>1, <2>2, <3>2, <3>3, <3>4, <3>5
  <2>5. \A u, v \in Task : /\ Held(call'[u]) /\ Held(call'[v])
                           /\ call'[u].todo[1].after = call'[v].todo[1].after
                           => u = v
    <3>1. \A u, v \in Task : /\ u # t /\ v # t /\ Held(call'[u]) /\ Held(call'[v])
                             /\ call'[u].todo[1].after = call'[v].todo[1].after
                             => u = v
      BY <2>2 DEF EchoesKept
    <3>2. Held(call'[t]) => \A u \in Task : u # t /\ Held(call'[u]) =>
                               call'[u].todo[1].after # call'[t].todo[1].after
      BY <2>4
    <3> QED
      BY <3>1, <3>2
  <2> QED
    BY <2>1, <2>3, <2>4, <2>5 DEF EchoesKept
<1>2. ASSUME NEW t \in Task, ServerStep(t) PROVE EchoesKept'
  <2> DEFINE i == Len(timeline) + 1
  <2>1. ASSUME call[t].op # "none" => ~Held(call'[t]),
               \A u \in Task : /\ u # t
                               => \/ call'[u] = call[u] /\ u \notin Behind(t)
                                  \/ ~Held(call'[u]) /\ u \in Behind(t),
               call[t].op # "none"
        PROVE  EchoesKept'
    <3>1. \A u \in Task : Held(call'[u]) => u # t /\ call'[u] = call[u] /\ u \notin Behind(t)
      BY <2>1
    <3>2. ASSUME NEW u \in Task, Held(call'[u])
          PROVE  \E v \in Task : /\ call'[u].todo[1].after = {v} /\ Reacts(call'[v])
                                 /\ call'[v].by = call'[u].by /\ call'[v].of = call'[u].of
      <4>1. Held(call[u]) /\ call'[u] = call[u] /\ u \notin Behind(t)
        BY <3>1, <3>2
      <4>2. PICK v \in Task : /\ call[u].todo[1].after = {v} /\ Reacts(call[v])
                              /\ call[v].by = call[u].by /\ call[v].of = call[u].of
        BY <4>1 DEF EchoesKept
      <4>3. v # t
        BY <4>1, <4>2, BehindHeld
      <4>4. v \notin Behind(t)
        BY <4>2, BehindHeld DEF Reacts
      <4> QED
        BY <2>1, <4>1, <4>2, <4>3, <4>4
    <3>3. \A u, v \in Task : /\ Held(call'[u]) /\ Held(call'[v])
                             /\ call'[u].todo[1].after = call'[v].todo[1].after
                             => u = v
      BY <3>1 DEF EchoesKept
    <3> QED
      BY <3>2, <3>3 DEF EchoesKept
  <2>2. ~Held(NoCall)
    BY NoCallType DEF Held
  <2>3. CASE Moved(t) /\ Behind(t) = {}
    <3>1. ~Held(call'[t])
      <4>1. CASE call[t].op = "toggleReaction"
        <5>1. PutEvent(t) \/ AnswerLost(t) \/ RequestRefused(t)
          BY <1>2, <4>1, Answers
        <5>2. CASE AnswerLost(t) \/ RequestRefused(t)
          BY <1>2, <2>2, <5>2, Answers
        <5>3. CASE PutEvent(t)
          <6>1. /\ Rest(t) \in Seq(Good(call[t].op, call[t].by)) /\ Len(call[t].todo) = 1
                /\ Len(Rest(t)) = Len(call[t].todo) - 1
            BY <4>1, NextRequest DEF Exact
          <6>2. Rest(t) = <<>>
            BY <6>1, EmptySeq
          <6> QED
            BY <2>2, <2>3, <4>1, <5>3, <6>2, FinishStep DEF PutEvent, GoOn
        <5> QED
          BY <5>1, <5>2, <5>3
      <4>2. CASE call[t].op # "toggleReaction"
        BY <2>3, <4>2 DEF Moved, Held
      <4> QED
        BY <4>1, <4>2
    <3>2. call[t].op # "none" /\ \A u \in Task : u # t => call'[u] = call[u] /\ u \notin Behind(t)
      BY <2>3 DEF Moved
    <3> QED
      BY <2>1, <3>1, <3>2
  <2>4. CASE Throw(t) /\ call[t].op # "none"
    <3>1. /\ call'[t] = NoCall
          /\ \A u \in Task : u # t => call'[u] = IF u \in Behind(t) THEN NoCall ELSE call[u]
      BY <2>4, ThrowStep
    <3> QED
      BY <2>1, <2>2, <2>4, <3>1
  <2>5. CASE Release(t, i) /\ call[t].op # "none"
    <3>1. /\ call'[t] = NoCall
          /\ \A u \in Task : u # t => IF u \in Behind(t) THEN Freed(u, i) ELSE call'[u] = call[u]
      BY <2>5, ReleaseStep
    <3>2. ASSUME NEW u \in Task, u # t, u \in Behind(t) PROVE ~Held(call'[u])
      <4>1. call[u].op = "toggleReaction" /\ i \in Nat
        BY <3>2, BehindHeld, LenProperties DEF Held, Base, Types
      <4>2. call'[u] = [call[u] EXCEPT !.todo = <<Sending(Client!deleteMessage(call[u].by, i))>>]
        BY <3>1, <3>2 DEF Freed
      <4> HIDE DEF i
      <4>3. call'[u].todo[1].after = {}
        BY <4>1, <4>2, FreedCall
      <4> QED
        BY <4>3 DEF Held
    <3> QED
      BY <2>1, <2>2, <2>5, <3>1, <3>2
  <2>6. CASE Moved(t) /\ Behind(t) # {}
    <3>1. call[t].op = "toggleReaction"
      BY <2>6, Followers DEF Reacts
    <3>2. PutEvent(t) \/ AnswerLost(t) \/ RequestRefused(t)
      BY <1>2, <3>1, Answers
    <3>3. Throw(t) \/ Release(t, i)
      BY <2>6, <3>2 DEF PutEvent, AnswerLost, RequestRefused
    <3> QED
      BY <2>4, <2>5, <3>1, <3>3
  <2> QED
    BY <1>2, <2>3, <2>4, <2>5, <2>6, ServerMoves
<1>3. ASSUME \A u \in Task : Alike(call[u], call'[u]) PROVE EchoesKept'
  BY <1>3, EchoesFrame
<1>4. ASSUME NEW t \in Task, NEW h \in Handle, flag[h] /\ MarkAsUnread(t, h) PROVE EchoesKept'
  BY <1>3, <1>4, AlreadyMarked
<1>5. call' = call => EchoesKept'
  BY <1>3 DEF Alike
<1> QED
  BY <1>1, <1>2, <1>4, <1>5, StepCases

\* A client that is up to date shows who has reacted.
LEMMA TogglesTold ==
    ASSUME Base, PinsKept, ReactionsKept
    PROVE  TogglesFlip
<1>1. DOMAIN timeline = 1 .. Len(timeline) /\ Len(timeline) \in Nat
  BY LenProperties DEF Base, Types
<1>2. \A h \in Handle : Synced(h) => Known(h) = DOMAIN timeline
  BY <1>1 DEF Synced, Known
<1>3. \A h \in Handle, m \in Originals : <<h, m>> \notin spoiled =>
         (Client!Annotated(timeline, h, m) <=> <<h, m>> \in toggled)
  <2>1. Originals \subseteq Nat
    BY <1>1 DEF Originals, Messages
  <2> QED
    BY <2>1 DEF ReactionsKept, Odd
<1>4. \A h \in Handle : \A m : Client!Annotated(timeline, h, m) <=>
                              h \in Client!getReactions(timeline, DOMAIN timeline, m)
  BY DEF Client!Annotated, Client!getReactions
<1>5. ~raced => pins = wanted
  BY DEF PinsKept
<1>6. \A h \in Handle, m \in Originals : <<h, m>> \notin spoiled =>
         /\ Client!Annotated(timeline, h, m) <=> <<h, m>> \in toggled
         /\ Synced(h) => (h \in Client!getReactions(timeline, Known(h), m)
                             <=> <<h, m>> \in toggled)
  BY <1>2, <1>3, <1>4
<1> QED
  BY <1>5, <1>6 DEF TogglesFlip

----------------------------------------------------------------------------
(* What follows for the readers of messages.                               *)

\* The texts getMessage, getMessages and getPinnedMessages show.
LEMMA Shown ==
    ASSUME NEW tl, NEW m, NEW edits, NEW latest,
           edits = Client!getReplacements(tl, DOMAIN tl, m),
           latest = Client!LatestEdit(tl, edits)
    PROVE  LET one == Client!get(tl, DOMAIN tl, m)
               all == Client!processMessage(tl, DOMAIN tl, m)
               pin == Client!ProcessPinned(tl, DOMAIN tl, m)
           IN  /\ all.text = one.text /\ all.media = one.media
               /\ edits # {} => one.text = latest
               /\ tl[m].type = "message" => pin.text = one.text /\ one.media = 0
<1> DEFINE shown == Client!fromMatrixToEntity(tl, DOMAIN tl, m)
           one == Client!get(tl, DOMAIN tl, m)
           all == Client!processMessage(tl, DOMAIN tl, m)
           pin == Client!ProcessPinned(tl, DOMAIN tl, m)
           new == Client!Edited(shown, latest)
<1>1. /\ shown = [media |-> shown.media, text |-> shown.text, thread |-> shown.thread]
      /\ tl[m].type = "message" => shown.media = 0
  BY DEF Client!fromMatrixToEntity
<1>2. CASE edits = {}
  <2>1. one = shown /\ all = shown /\ pin = shown
    BY <1>2 DEF Client!get, Client!processMessage, Client!ProcessPinned
  <2> HIDE DEF one, all, pin, shown
  <2>2. /\ all.text = one.text /\ all.media = one.media
        /\ tl[m].type = "message" => pin.text = one.text /\ one.media = 0
    BY <1>1, <2>1
  <2> QED
    BY <1>2, <2>2 DEF one, all, pin
<1>3. CASE edits # {}
  <2>1. /\ one = new /\ all = [new EXCEPT !.thread = shown.thread]
        /\ pin = [media |-> 0, text |-> latest, thread |-> 0]
    BY <1>3 DEF Client!get, Client!processMessage, Client!ProcessPinned
  <2> HIDE DEF shown
  <2>2. /\ new = [media |-> new.media, text |-> new.text, thread |-> new.thread]
        /\ new.text = latest /\ (shown.media = 0 => new.media = 0)
    BY <1>1 DEF Client!Edited
  <2> HIDE DEF one, all, pin, new
  <2>3. /\ all.text = one.text /\ all.media = one.media /\ one.text = latest
        /\ tl[m].type = "message" => pin.text = one.text /\ one.media = 0
    BY <1>1, <2>1, <2>2
  <2> QED
    BY <2>3 DEF one, all, pin
<1> QED
  BY <1>2, <1>3

\* The edit with the latest time is the last one.
LEMMA LastEdit ==
    ASSUME Base, NEW edits, edits \subseteq DOMAIN timeline, edits # {}
    PROVE  LET i == Client!LatestEdit(timeline, edits) IN i \in edits /\ \A e \in edits : e <= i
<1> DEFINE After(i) == \A j \in edits : \/ timeline[j].ts < timeline[i].ts
                                        \/ timeline[j].ts = timeline[i].ts /\ j <= i
           l == Client!LatestEdit(timeline, edits)
<1>1. DOMAIN timeline = 1 .. Len(timeline) /\ Len(timeline) \in Nat
  BY LenProperties DEF Base, Types
<1>2. \A i \in DOMAIN timeline : timeline[i].ts \in Nat
  <2>1. \A i \in DOMAIN timeline : timeline[i] \in Client!Event
    BY <1>1, ElementOfSeq DEF Base, Types
  <2> QED
    BY <2>1 DEF Client!Event
<1>3. PICK k \in edits : \A j \in edits : j <= k
  <2>1. edits \subseteq 0 .. Len(timeline)
    BY <1>1
  <2> QED
    BY <1>1, <2>1, LastOne
<1>4. \A i, j \in DOMAIN timeline : i <= j => timeline[i].ts <= timeline[j].ts
  BY DEF Base, Ordered
<1>5. After(k)
  BY <1>2, <1>3, <1>4
<1>6. l \in edits /\ After(l)
  <2>1. l = CHOOSE i \in edits : After(i)
    BY DEF Client!LatestEdit
  <2> HIDE DEF l, After
  <2> QED
    BY <1>5, <2>1
<1> HIDE DEF l
<1>7. k <= l
  BY <1>1, <1>2, <1>3, <1>4, <1>6
<1>8. \A e \in edits : e <= l
  BY <1>1, <1>3, <1>6, <1>7
<1> QED
  BY <1>6, <1>8 DEF l

\* Readers that are up to date show the last edit.
LEMMA ReadersTold ==
    ASSUME Base
    PROVE  ReadersAgree
<1> SUFFICES ASSUME NEW h \in Handle, NEW m \in Originals, Synced(h)
             PROVE  LET edits == Client!getReplacements(timeline, DOMAIN timeline, m)
                        one   == GetMessage(h, m)
                        all   == Client!processMessage(timeline, Known(h), m)
                        pin   == GetPinnedMessages(h, m)
                    IN  /\ all.text = one.text /\ all.media = one.media
                        /\ edits # {} => one.text \in edits /\ \A e \in edits : e <= one.text
                        /\ timeline[m].type = "message" => pin.text = one.text /\ one.media = 0
  BY DEF ReadersAgree
<1> DEFINE edits == Client!getReplacements(timeline, DOMAIN timeline, m)
           latest == Client!LatestEdit(timeline, edits)
           one == Client!get(timeline, DOMAIN timeline, m)
           all == Client!processMessage(timeline, DOMAIN timeline, m)
           pin == Client!ProcessPinned(timeline, DOMAIN timeline, m)
<1>1. Known(h) = DOMAIN timeline
  BY LenProperties DEF Synced, Known, Base, Types
<1>2. /\ GetMessage(h, m) = one /\ GetPinnedMessages(h, m) = pin
      /\ Client!processMessage(timeline, Known(h), m) = all
  BY <1>1 DEF GetMessage, GetPinnedMessages
<1>3. edits \subseteq DOMAIN timeline
  BY DEF Client!getReplacements
<1>4. /\ all.text = one.text /\ all.media = one.media /\ (edits # {} => one.text = latest)
      /\ timeline[m].type = "message" => pin.text = one.text /\ one.media = 0
  BY Shown
<1> HIDE DEF edits
<1>5. edits # {} => latest \in edits /\ \A e \in edits : e <= latest
  BY <1>3, LastEdit
<1> HIDE DEF one, all, pin, latest
<1>6. edits # {} => one.text \in edits /\ \A e \in edits : e <= one.text
  BY <1>4, <1>5
<1> QED
  BY <1>2, <1>4, <1>6 DEF edits

\* When there are no more pages, all the messages there were have been given.
LEMMA PagesTold ==
    ASSUME Base, PagesKept
    PROVE  PagesComplete
<1> SUFFICES ASSUME NEW h \in Handle, reader[h].state = "done", NEW i \in 1 .. reader[h].start,
                    timeline[i].type \in {"message", "media", "member", "pollStart"},
                    timeline[i].rel # "replace"
             PROVE  i \in reader[h].seen \ reader[h].twice
  BY DEF PagesComplete
<1>1. reader[h] \in Pages /\ ReaderOK(timeline, reader[h])
  BY DEF Base, Types, PagesKept
<1>2. /\ reader[h].twice = {} /\ reader[h].token = 0
      /\ Covers(timeline, reader[h].seen, 0, reader[h].start)
  BY <1>1 DEF ReaderOK, Pages
<1>3. i \in Due(timeline, 0, reader[h].start)
  BY <1>1 DEF Due, Pages
<1> QED
  BY <1>2, <1>3 DEF Covers

----------------------------------------------------------------------------
(* Listeners.                                                              *)

\* What a call of the listeners waits for.
LEMMA Waits ==
    ASSUME ListenerTypes, NEW t \in Task
    PROVE  /\ pc[t] = Idle \/ \E o \in Obj : pc[t] \in {<<"register", o>>, <<"unregister", o>>}
           /\ pc[t][1] = "register" => \E o \in Obj : pc[t] = <<"register", o>> /\ pc[t][2] = o
           /\ pc[t][1] = "unregister" => \E o \in Obj : pc[t] = <<"unregister", o>> /\ pc[t][2] = o
<1>1. pc[t] = Idle \/ \E w \in {"register", "unregister"}, o \in Obj : pc[t] = <<w, o>>
  BY DEF ListenerTypes
<1>2. Idle[1] = "idle" /\ \A w, o : <<w, o>>[1] = w /\ <<w, o>>[2] = o
  BY DEF Idle
<1> QED
  BY <1>1, <1>2

\* The values a call waits with differ.
LEMMA Distinct ==
    ASSUME NEW o, NEW p
    PROVE  /\ <<"register", o>> # Idle /\ <<"unregister", o>> # Idle
           /\ <<"register", o>> # <<"unregister", p>>
           /\ <<"register", o>> = <<"register", p>> => o = p
           /\ <<"unregister", o>> = <<"unregister", p>> => o = p
BY DEF Idle

\* A call for an object begins or ends with nothing to account for: what has
\* been emitted so far is no longer due.
LEMMA NothingDue ==
    ASSUME NEW o \in Obj, due'[o] = {}, heard'[o] = {}
    PROVE  Fate(o)'
BY DEF Fate

\* What is so of an object depends on what is its own.
LEMMA ListenersFrame ==
    ASSUME NEW o \in Obj, Orderly(o),
           {l \in on' : l[2] = o} = {l \in on : l[2] = o},
           {p \in pending' : p[2] = o} = {p \in pending : p[2] = o},
           messageListeners'[o] = messageListeners[o],
           matrixEventListeners'[o] = matrixEventListeners[o],
           due'[o] = due[o], heard'[o] = heard[o],
           \A t \in Task : /\ pc'[t] = <<"register", o>> <=> pc[t] = <<"register", o>>
                           /\ pc'[t] = <<"unregister", o>> <=> pc[t] = <<"unregister", o>>,
           \A i \in due[o] : Client!Told(timeline', i) <=> Client!Told(timeline, i)
    PROVE  Orderly(o)'
<1>1. \A t \in Task : WaitsFor(t, o)' <=> WaitsFor(t, o)
  BY DEF WaitsFor
<1>2. Listening(o)'
  BY DEF Orderly, Listening
<1>3. Fate(o)'
  <2>1. \A p : p \in pending' /\ p[2] = o <=> p \in pending /\ p[2] = o
    <3>1. \A p : p \in {q \in pending' : q[2] = o} <=> p \in {q \in pending : q[2] = o}
      OBVIOUS
    <3> QED
      BY <3>1
  <2>2. \A i : <<matrixEventListeners[o], o, i>>[2] = o
    OBVIOUS
  <2>3. \A i : WithListener(o, i)' <=> WithListener(o, i)
    BY <2>1, <2>2 DEF WithListener
  <2>4. \A i : HeardOf(o, i)' = HeardOf(o, i) /\ Everyone(o, i)' = Everyone(o, i)
    BY DEF HeardOf, Everyone
  <2>5. Fate(o)
    BY DEF Orderly
  <2> QED
    BY <2>1, <2>3, <2>4, <2>5 DEF Fate
<1> QED
  BY <1>1, <1>2, <1>3 DEF Orderly

\* A name is registered or unregistered, and if the object has its first or
\* its last name the call waits for the client.
LEMMA ListenersBegin ==
    ASSUME ListenersAgree, NEW t \in Task, NEW o \in Obj, NEW n \in Name,
           registerMessageListener(t, o, n) \/ unregisterMessageListener(t, o, n),
           UNCHANGED <<timeline, view>>
    PROVE  ListenersAgree'
<1>1. ListenerTypes /\ Emitted
  BY DEF ListenersAgree
<1>2. /\ pc[t] = Idle /\ UNCHANGED <<matrixEventListeners, on, made, pending>>
      /\ orderly' = [orderly EXCEPT ![o] = @ /\ Calm(o)]
      /\ due' = [due EXCEPT ![o] = {}] /\ heard' = [heard EXCEPT ![o] = {}]
  BY DEF registerMessageListener, unregisterMessageListener, Disturb
<1>3. /\ pc' \in [Task -> {Idle} \cup ({"register", "unregister"} \X Obj)]
      /\ \A u \in Task : u # t => pc'[u] = pc[u]
      /\ pc'[t] \in {Idle, <<"register", o>>, <<"unregister", o>>}
  BY <1>1, <1>2 DEF ListenerTypes, registerMessageListener, unregisterMessageListener
<1>4. /\ messageListeners' \in [Obj -> SUBSET Name]
      /\ \A p \in Obj : p # o => messageListeners'[p] = messageListeners[p]
  <2>1. messageListeners \in [Obj -> SUBSET Name]
    BY <1>1 DEF ListenerTypes
  <2>2. PICK set \in SUBSET Name : messageListeners' = [messageListeners EXCEPT ![o] = set]
    BY <2>1 DEF registerMessageListener, unregisterMessageListener
  <2> QED
    BY <2>1, <2>2
<1>5. /\ due' \in [Obj -> SUBSET Nat] /\ heard' \in [Obj -> SUBSET (Nat \X Name \X Nat)]
      /\ due'[o] = {} /\ heard'[o] = {}
      /\ \A p \in Obj : p # o => due'[p] = due[p] /\ heard'[p] = heard[p]
  BY <1>1, <1>2 DEF ListenerTypes
<1>6. /\ orderly' \in [Obj -> BOOLEAN]
      /\ orderly'[o] => orderly[o] /\ Calm(o)
      /\ \A p \in Obj : p # o => orderly'[p] = orderly[p]
  BY <1>1, <1>2 DEF ListenerTypes
<1>7. ListenerTypes' /\ Emitted'
  BY <1>1, <1>2, <1>3, <1>4, <1>5, <1>6 DEF ListenerTypes, Emitted
<1>8. ASSUME NEW p \in Obj, p # o, orderly'[p] PROVE Orderly(p)'
  <2>1. Orderly(p)
    BY <1>6, <1>8 DEF ListenersAgree
  <2>2. \A u \in Task : /\ pc'[u] = <<"register", p>> <=> pc[u] = <<"register", p>>
                        /\ pc'[u] = <<"unregister", p>> <=> pc[u] = <<"unregister", p>>
    BY <1>2, <1>3, <1>8, Distinct
  <2> QED
    BY <1>2, <1>4, <1>5, <1>8, <2>1, <2>2, ListenersFrame
<1>9. ASSUME orderly'[o] PROVE Orderly(o)'
  <2>1. Listening(o) /\ \A u \in Task : pc[u] # <<"register", o>> /\ pc[u] # <<"unregister", o>>
    <3>1. orderly[o] /\ Calm(o)
      BY <1>6, <1>9
    <3>2. Orderly(o)
      BY <3>1 DEF ListenersAgree
    <3>3. <<"register", o>>[2] = o /\ <<"unregister", o>>[2] = o
      OBVIOUS
    <3> QED
      BY <3>1, <3>2, <3>3 DEF Orderly, Calm
  <2>2. /\ {l \in on : l[2] = o} = IF matrixEventListeners[o] = 0 THEN {}
                                   ELSE {<<matrixEventListeners[o], o>>}
        /\ matrixEventListeners[o] # 0 <=> messageListeners[o] # {}
    BY <2>1 DEF Listening
  <2>3. \A u \in Task : WaitsFor(u, o)' => u = t
    BY <1>3, <2>1 DEF WaitsFor
  <2>4. ASSUME registerMessageListener(t, o, n) PROVE Listening(o)'
    <3>1. messageListeners'[o] # {}
      BY <1>1, <2>4 DEF ListenerTypes, registerMessageListener
    <3>2. pc'[t] = IF matrixEventListeners[o] = 0 THEN <<"register", o>> ELSE Idle
      BY <1>1, <1>2, <2>4 DEF ListenerTypes, registerMessageListener
    <3>3. \A u \in Task : pc'[u] # <<"unregister", o>>
      BY <1>3, <2>1, <3>2, Distinct
    <3>4. matrixEventListeners[o] # 0 <=> \A u \in Task : pc'[u] # <<"register", o>>
      BY <1>3, <2>1, <3>2, Distinct
    <3> QED
      BY <1>2, <2>2, <3>1, <3>3, <3>4 DEF Listening
  <2>5. ASSUME unregisterMessageListener(t, o, n) PROVE Listening(o)'
    <3>1. messageListeners'[o] = messageListeners[o] \ {n} /\ n \in messageListeners[o]
      BY <1>1, <2>5 DEF ListenerTypes, unregisterMessageListener
    <3>2. pc'[t] = IF messageListeners[o] = {n} THEN <<"unregister", o>> ELSE Idle
      BY <1>1, <1>2, <2>5 DEF ListenerTypes, unregisterMessageListener
    <3>3. \A u \in Task : pc'[u] # <<"register", o>>
      BY <1>3, <2>1, <3>2, Distinct
    <3>4. messageListeners'[o] = {} <=> \E u \in Task : pc'[u] = <<"unregister", o>>
      BY <1>3, <2>1, <3>1, <3>2, Distinct
    <3>5. matrixEventListeners[o] # 0
      BY <2>2, <3>1
    <3> QED
      BY <1>2, <2>2, <3>3, <3>4, <3>5 DEF Listening
  <2>6. Listening(o)'
    BY <2>4, <2>5
  <2> QED
    BY <1>5, <2>3, <2>6, NothingDue DEF Orderly
<1> QED
  BY <1>7, <1>8, <1>9 DEF ListenersAgree

\* The call goes on: the event listener is put on the client or taken off.
LEMMA ListenersEnd ==
    ASSUME ListenersAgree, NEW t \in Task, registerEventListener(t) \/ unregisterEventListener(t),
           UNCHANGED <<timeline, view>>
    PROVE  ListenersAgree'
<1>1. ListenerTypes /\ Emitted
  BY DEF ListenersAgree
<1>2. PICK o \in Obj : pc[t] \in {<<"register", o>>, <<"unregister", o>>} /\ pc[t][2] = o
  BY <1>1, Waits DEF registerEventListener, unregisterEventListener
<1>3. /\ UNCHANGED pending /\ pc' = [pc EXCEPT ![t] = Idle]
      /\ orderly' = [orderly EXCEPT ![o] = @ /\ TRUE]
      /\ due' = [due EXCEPT ![o] = {}] /\ heard' = [heard EXCEPT ![o] = {}]
  BY <1>2 DEF registerEventListener, unregisterEventListener, Disturb
<1>4. /\ pc' \in [Task -> {Idle} \cup ({"register", "unregister"} \X Obj)]
      /\ pc'[t] = Idle /\ \A u \in Task : u # t => pc'[u] = pc[u]
  BY <1>1, <1>3 DEF ListenerTypes
<1>5. /\ due' \in [Obj -> SUBSET Nat] /\ heard' \in [Obj -> SUBSET (Nat \X Name \X Nat)]
      /\ due'[o] = {} /\ heard'[o] = {}
      /\ \A p \in Obj : p # o => due'[p] = due[p] /\ heard'[p] = heard[p]
  BY <1>1, <1>3 DEF ListenerTypes
<1>6. orderly' \in [Obj -> BOOLEAN] /\ \A p \in Obj : orderly'[p] => orderly[p]
  BY <1>1, <1>3 DEF ListenerTypes
<1>7. /\ messageListeners' \in [Obj -> SUBSET Name] /\ matrixEventListeners' \in [Obj -> Nat]
      /\ made' \in Nat /\ on' \subseteq Nat \X Obj
      /\ \A p \in Obj : p # o => /\ messageListeners'[p] = messageListeners[p]
                                 /\ matrixEventListeners'[p] = matrixEventListeners[p]
                                 /\ {l \in on' : l[2] = p} = {l \in on : l[2] = p}
  <2>1. CASE registerEventListener(t)
    <3>1. /\ on' = on \cup {<<made + 1, o>>} /\ messageListeners' = messageListeners
          /\ matrixEventListeners' = [matrixEventListeners EXCEPT ![o] = made + 1]
          /\ made' = made + 1
      BY <1>2, <2>1 DEF registerEventListener
    <3> QED
      BY <1>1, <3>1 DEF ListenerTypes
  <2>2. CASE unregisterEventListener(t)
    <3>1. /\ on' = on \ {<<matrixEventListeners[o], o>>} /\ made' = made
          /\ messageListeners' = [messageListeners EXCEPT ![o] = {}]
          /\ matrixEventListeners' = [matrixEventListeners EXCEPT ![o] = 0]
      BY <1>2, <2>2 DEF unregisterEventListener
    <3> QED
      BY <1>1, <3>1 DEF ListenerTypes
  <2> QED
    BY <2>1, <2>2
<1>8. ListenerTypes' /\ Emitted'
  BY <1>1, <1>3, <1>4, <1>5, <1>6, <1>7 DEF ListenerTypes, Emitted
<1>9. ASSUME NEW p \in Obj, p # o, orderly'[p] PROVE Orderly(p)'
  <2>1. Orderly(p)
    BY <1>6, <1>9 DEF ListenersAgree
  <2>2. \A u \in Task : /\ pc'[u] = <<"register", p>> <=> pc[u] = <<"register", p>>
                        /\ pc'[u] = <<"unregister", p>> <=> pc[u] = <<"unregister", p>>
    BY <1>2, <1>4, <1>9, Distinct
  <2> QED
    BY <1>3, <1>5, <1>7, <1>9, <2>1, <2>2, ListenersFrame
<1>10. ASSUME orderly'[o] PROVE Orderly(o)'
  <2>1. Orderly(o)
    BY <1>6, <1>10 DEF ListenersAgree
  <2>2. \A u \in Task : pc'[u] # <<"register", o>> /\ pc'[u] # <<"unregister", o>>
    BY <1>2, <1>4, <2>1, Distinct DEF Orderly, WaitsFor
  <2>3. {l \in on : l[2] = o} = IF matrixEventListeners[o] = 0 THEN {}
                                ELSE {<<matrixEventListeners[o], o>>}
    BY <2>1 DEF Orderly, Listening
  <2>4. ASSUME registerEventListener(t) PROVE Listening(o)'
    <3>1. pc[t] = <<"register", o>>
      BY <1>2, <2>4, Distinct DEF registerEventListener
    <3>2. \A u \in Task : pc[u] # <<"unregister", o>>
      BY <2>1, <3>1, Distinct DEF Orderly, WaitsFor
    <3>3. matrixEventListeners[o] = 0 /\ messageListeners[o] # {}
      BY <2>1, <3>1, <3>2 DEF Orderly, Listening
    <3>4. /\ on' = on \cup {<<made + 1, o>>} /\ matrixEventListeners'[o] = made + 1
          /\ messageListeners' = messageListeners /\ made + 1 # 0
      BY <1>1, <1>2, <2>4 DEF ListenerTypes, registerEventListener
    <3>5. {l \in on' : l[2] = o} = {<<made + 1, o>>}
      BY <2>3, <3>3, <3>4
    <3> QED
      BY <2>2, <3>3, <3>4, <3>5 DEF Listening
  <2>5. ASSUME unregisterEventListener(t) PROVE Listening(o)'
    <3>1. /\ on' = on \ {<<matrixEventListeners[o], o>>} /\ matrixEventListeners'[o] = 0
          /\ messageListeners'[o] = {}
      BY <1>1, <1>2, <2>5 DEF ListenerTypes, unregisterEventListener
    <3>2. {l \in on' : l[2] = o} = {}
      BY <2>3, <3>1
    <3> QED
      BY <2>2, <3>1, <3>2 DEF Listening
  <2>6. Listening(o)'
    BY <2>4, <2>5
  <2>7. \A u \in Task : ~WaitsFor(u, o)'
    BY <2>2 DEF WaitsFor
  <2> QED
    BY <1>5, <2>6, <2>7, NothingDue DEF Orderly
<1> QED
  BY <1>8, <1>9, <1>10 DEF ListenersAgree

\* The call throws: its object is no longer accounted for.
LEMMA ListenersFail ==
    ASSUME ListenersAgree, NEW t \in Task, ListenerCallFails(t), UNCHANGED <<timeline, view>>
    PROVE  ListenersAgree'
<1>1. ListenerTypes /\ Emitted
  BY DEF ListenersAgree
<1>2. PICK o \in Obj : pc[t] \in {<<"register", o>>, <<"unregister", o>>} /\ pc[t][2] = o
  <2>1. pc[t] # Idle
    BY DEF ListenerCallFails
  <2>2. PICK o \in Obj : pc[t] \in {<<"register", o>>, <<"unregister", o>>}
    BY <1>1, <2>1, Waits
  <2> QED
    BY <2>2
<1>3. /\ UNCHANGED <<messageListeners, matrixEventListeners, on, made, pending>>
      /\ pc' = [pc EXCEPT ![t] = Idle] /\ orderly' = [orderly EXCEPT ![o] = @ /\ FALSE]
      /\ due' = [due EXCEPT ![o] = {}] /\ heard' = [heard EXCEPT ![o] = {}]
  BY <1>2 DEF ListenerCallFails, Disturb
<1>4. /\ pc' \in [Task -> {Idle} \cup ({"register", "unregister"} \X Obj)]
      /\ pc'[t] = Idle /\ \A u \in Task : u # t => pc'[u] = pc[u]
  BY <1>1, <1>3 DEF ListenerTypes
<1>5. /\ due' \in [Obj -> SUBSET Nat] /\ heard' \in [Obj -> SUBSET (Nat \X Name \X Nat)]
      /\ due'[o] = {}
      /\ \A p \in Obj : p # o => due'[p] = due[p] /\ heard'[p] = heard[p]
  BY <1>1, <1>3 DEF ListenerTypes
<1>6. /\ orderly' \in [Obj -> BOOLEAN] /\ ~orderly'[o]
      /\ \A p \in Obj : orderly'[p] => orderly[p]
  BY <1>1, <1>3 DEF ListenerTypes
<1>7. ListenerTypes' /\ Emitted'
  BY <1>1, <1>3, <1>4, <1>5, <1>6 DEF ListenerTypes, Emitted
<1>8. ASSUME NEW p \in Obj, orderly'[p] PROVE Orderly(p)'
  <2>1. Orderly(p) /\ p # o
    BY <1>6, <1>8 DEF ListenersAgree
  <2>2. \A u \in Task : /\ pc'[u] = <<"register", p>> <=> pc[u] = <<"register", p>>
                        /\ pc'[u] = <<"unregister", p>> <=> pc[u] = <<"unregister", p>>
    BY <1>2, <1>4, <2>1, Distinct
  <2> QED
    BY <1>3, <1>5, <2>1, <2>2, ListenersFrame
<1> QED
  BY <1>7, <1>8 DEF ListenersAgree

\* Events: every listener on the client is called with each of them.
LEMMA ListenersEmit ==
    ASSUME ListenersAgree, Base, MarksKept, Sync(Creator),
           Emit((view[Creator] + 1)..Len(timeline))
    PROVE  ListenersAgree'
<1> DEFINE new == (view[Creator] + 1)..Len(timeline)
<1>1. ListenerTypes /\ Emitted
  BY DEF ListenersAgree
<1>2. /\ pending' = pending \cup {<<l[1], l[2], i>> : l \in on, i \in new}
      /\ due' = [o \in Obj |-> IF orderly[o] /\ Calm(o) THEN due[o] \cup new ELSE due[o]]
      /\ UNCHANGED <<messageListeners, matrixEventListeners, on, made, pc, heard, orderly>>
  BY DEF Emit
<1>3. /\ view[Creator] \in Nat /\ Len(timeline) \in Nat /\ view[Creator] <= Len(timeline)
      /\ view'[Creator] = Len(timeline) /\ timeline' = timeline
  BY MessagingAssumption, LenProperties DEF Base, Types, MarksKept, Sync, server
<1>4. new \subseteq Nat /\ \A i \in new : i > view[Creator] /\ i \in 1..Len(timeline)
  BY <1>3
<1> HIDE DEF new
<1>5. \A p \in pending' : p \in pending \/ \E l \in on, i \in new : p = <<l[1], l[2], i>>
  BY <1>2
<1>6. ListenerTypes'
  <2>1. \A l \in on : l[1] \in Nat /\ l[2] \in Obj
    BY <1>1 DEF ListenerTypes
  <2>2. pending' \subseteq Nat \X Obj \X Nat
    BY <1>1, <1>4, <1>5, <2>1 DEF ListenerTypes
  <2>3. due' \in [Obj -> SUBSET Nat]
    BY <1>1, <1>2, <1>4 DEF ListenerTypes
  <2> QED
    BY <1>1, <1>2, <2>2, <2>3 DEF ListenerTypes
<1>7. Emitted'
  <2>1. ASSUME NEW p \in pending' PROVE p[3] <= view'[Creator]
    <3>1. CASE p \in pending
      <4>1. p[3] \in Nat /\ p[3] <= view[Creator]
        BY <1>1, <3>1 DEF Emitted, ListenerTypes
      <4> QED
        BY <1>3, <4>1
    <3>2. CASE p \notin pending
      BY <1>3, <1>4, <1>5, <2>1, <3>2
    <3> QED
      BY <3>1, <3>2
  <2>2. ASSUME NEW o \in Obj, NEW i \in due'[o] PROVE i \in 1..view'[Creator]
    <3>1. i \in due[o] \/ i \in new
      BY <1>2, <2>2
    <3>2. CASE i \in due[o]
      <4>1. i \in 1..view[Creator]
        BY <1>1, <3>2 DEF Emitted
      <4> QED
        BY <1>3, <4>1
    <3>3. CASE i \in new
      BY <1>3, <1>4, <3>3
    <3> QED
      BY <3>1, <3>2, <3>3
  <2> QED
    BY <2>1, <2>2 DEF Emitted
<1>8. ASSUME NEW o \in Obj, orderly'[o] PROVE Orderly(o)'
  <2>1. Orderly(o) /\ Listening(o) /\ Fate(o) /\ orderly[o]
    BY <1>2, <1>8 DEF ListenersAgree, Orderly
  <2>2. Listening(o)' /\ \A t \in Task : WaitsFor(t, o)' <=> WaitsFor(t, o)
    BY <1>2, <2>1 DEF Listening, WaitsFor
  <2>3. CASE Calm(o)
    <3>1. \A t \in Task : pc[t] # <<"register", o>> /\ pc[t] # <<"unregister", o>>
      BY <2>3 DEF Calm
    <3>2. /\ {l \in on : l[2] = o} = IF matrixEventListeners[o] = 0 THEN {}
                                     ELSE {<<matrixEventListeners[o], o>>}
          /\ matrixEventListeners[o] # 0 <=> messageListeners[o] # {}
      BY <2>1, <3>1 DEF Listening
    <3>3. due'[o] = due[o] \cup new
      BY <1>2, <2>1, <2>3
    <3>4. \A i \in due[o] : i \notin new
      <4>1. \A i \in due[o] : i \in 1..view[Creator]
        BY <1>1 DEF Emitted
      <4> QED
        BY <1>3, <1>4, <4>1
    <3>5. ASSUME NEW p \in pending', p[2] = o, p[3] \in due'[o]
          PROVE  p[1] = matrixEventListeners[o]
      <4>1. CASE p \in pending
        <5>1. p[3] \in Nat /\ p[3] <= view[Creator]
          BY <1>1, <4>1 DEF Emitted, ListenerTypes
        <5>2. p[3] \in due[o]
          BY <1>3, <1>4, <3>3, <3>5, <5>1
        <5> QED
          BY <2>1, <3>5, <4>1, <5>2 DEF Fate
      <4>2. CASE p \notin pending
        <5>1. PICK l \in on, i \in new : p = <<l[1], l[2], i>>
          BY <1>5, <4>2
        <5>2. l \in {k \in on : k[2] = o} /\ p[1] = l[1]
          BY <3>5, <5>1
        <5>3. l = <<matrixEventListeners[o], o>>
          BY <3>2, <5>2
        <5> QED
          BY <5>2, <5>3
      <4> QED
        BY <4>1, <4>2
    <3>6. \A x \in heard'[o] : x[3] \in due'[o]
      BY <1>2, <2>1, <3>3 DEF Fate
    <3>7. ASSUME NEW i \in due[o]
          PROVE  HeardOf(o, i)' = IF Client!Told(timeline, i) /\ ~WithListener(o, i)'
                                  THEN Everyone(o, i)' ELSE {}
      <4>1. HeardOf(o, i)' = HeardOf(o, i) /\ Everyone(o, i)' = Everyone(o, i)
        BY <1>2 DEF HeardOf, Everyone
      <4>2. WithListener(o, i)' <=> WithListener(o, i)
        <5>1. \A l \in on, j \in new : <<matrixEventListeners[o], o, i>> # <<l[1], l[2], j>>
          BY <3>4
        <5> QED
          BY <1>2, <5>1 DEF WithListener
      <4> QED
        BY <2>1, <4>1, <4>2 DEF Fate
    <3>8. ASSUME NEW i \in new
          PROVE  HeardOf(o, i)' = IF Client!Told(timeline, i) /\ ~WithListener(o, i)'
                                  THEN Everyone(o, i)' ELSE {}
      <4>1. HeardOf(o, i)' = {}
        BY <1>2, <2>1, <3>4 DEF HeardOf, Fate
      <4>2. CASE matrixEventListeners[o] = 0
        <5>1. Everyone(o, i)' = {}
          BY <1>2, <3>2, <4>2 DEF Everyone
        <5> QED
          BY <4>1, <5>1
      <4>3. CASE matrixEventListeners[o] # 0
        <5>1. PICK l \in on : l = <<matrixEventListeners[o], o>>
          BY <3>2, <4>3
        <5>2. <<l[1], l[2], i>> \in pending'
          BY <1>2, <5>1
        <5>3. WithListener(o, i)'
          BY <1>2, <5>1, <5>2 DEF WithListener
        <5> QED
          BY <4>1, <5>3
      <4> QED
        BY <4>2, <4>3
    <3>9. Fate(o)'
      BY <1>2, <1>3, <3>3, <3>5, <3>6, <3>7, <3>8 DEF Fate
    <3>10. \A t \in Task : ~WaitsFor(t, o)'
      BY <2>2, <3>1 DEF WaitsFor
    <3> QED
      BY <2>2, <3>9, <3>10 DEF Orderly
  <2>4. CASE ~Calm(o)
    <3>1. due'[o] = due[o] /\ heard'[o] = heard[o]
      BY <1>2, <2>4
    <3>2. ASSUME NEW p \in pending', p[2] = o, p[3] \in due[o]
          PROVE  p \in pending
      <4>1. p[3] \in 1..view[Creator]
        BY <1>1, <3>2 DEF Emitted
      <4>2. p[3] \notin new
        BY <1>3, <1>4, <4>1
      <4> QED
        BY <1>5, <4>2
    <3>3. \A i \in due[o] : WithListener(o, i)' <=> WithListener(o, i)
      <4>1. \A i : <<matrixEventListeners[o], o, i>>[2] = o /\ <<matrixEventListeners[o], o, i>>[3] = i
        OBVIOUS
      <4> QED
        BY <1>2, <3>2, <4>1 DEF WithListener
    <3>4. \A i : HeardOf(o, i)' = HeardOf(o, i) /\ Everyone(o, i)' = Everyone(o, i)
      BY <1>2 DEF HeardOf, Everyone
    <3>5. Fate(o)'
      BY <1>2, <1>3, <2>1, <3>1, <3>2, <3>3, <3>4 DEF Fate
    <3> QED
      BY <2>1, <2>2, <3>1, <3>5 DEF Orderly
  <2> QED
    BY <2>3, <2>4
<1> QED
  BY <1>6, <1>7, <1>8 DEF ListenersAgree

\* An event listener is through with an event of the object o: nothing
\* changes for the other objects.
LEMMA ListenersThrough ==
    ASSUME ListenersAgree, NEW k \in pending, pending' = pending \ {k},
           UNCHANGED <<messageListeners, matrixEventListeners, on, made, pc, orderly, timeline, view>>,
           NEW dd \in SUBSET Nat, dd \subseteq due[k[2]], due' = [due EXCEPT ![k[2]] = dd],
           NEW hh \in SUBSET (Nat \X Name \X Nat), heard' = [heard EXCEPT ![k[2]] = hh],
           orderly[k[2]] => /\ Fate(k[2])'
                            /\ (\E t \in Task : WaitsFor(t, k[2])) => hh = {}
    PROVE  ListenersAgree'
<1> DEFINE o == k[2]
<1>1. ListenerTypes /\ Emitted /\ o \in Obj
  BY DEF ListenersAgree, ListenerTypes
<1>2. /\ due' \in [Obj -> SUBSET Nat] /\ heard' \in [Obj -> SUBSET (Nat \X Name \X Nat)]
      /\ due'[o] = dd /\ heard'[o] = hh
      /\ \A p \in Obj : p # o => due'[p] = due[p] /\ heard'[p] = heard[p]
  BY <1>1 DEF ListenerTypes
<1>3. ListenerTypes' /\ Emitted'
  BY <1>1, <1>2 DEF ListenerTypes, Emitted
<1>4. ASSUME NEW p \in Obj, p # o, orderly'[p] PROVE Orderly(p)'
  <2>1. Orderly(p)
    BY <1>4 DEF ListenersAgree
  <2>2. {q \in pending' : q[2] = p} = {q \in pending : q[2] = p}
    BY <1>4
  <2> QED
    BY <1>2, <1>4, <2>1, <2>2, ListenersFrame
<1>5. ASSUME orderly'[o] PROVE Orderly(o)'
  <2>1. Orderly(o) /\ Fate(o)' /\ \A t \in Task : WaitsFor(t, o)' <=> WaitsFor(t, o)
    BY <1>1, <1>5 DEF ListenersAgree, WaitsFor
  <2>2. Listening(o)'
    BY <2>1 DEF Orderly, Listening
  <2>3. (\E t \in Task : WaitsFor(t, o)) => dd = {} /\ hh = {}
    BY <1>5, <2>1 DEF Orderly
  <2> QED
    BY <1>2, <2>1, <2>2, <2>3 DEF Orderly
<1> QED
  BY <1>3, <1>4, <1>5 DEF ListenersAgree

\* An event listener calls the names of its object.
LEMMA ListenersCall ==
    ASSUME ListenersAgree, NEW k \in pending, eventListener(k, Client!Told(timeline, k[3])),
           UNCHANGED <<timeline, view>>
    PROVE  ListenersAgree'
<1> DEFINE o == k[2]
           i == k[3]
           names == {<<k[1], n, i>> : n \in messageListeners[o]}
           told == Client!Told(timeline, i) /\ i \in due[o]
           hh == IF told THEN heard[o] \cup names ELSE heard[o]
<1>1. /\ ListenerTypes /\ k = <<k[1], o, i>> /\ k[1] \in Nat /\ o \in Obj /\ i \in Nat
      /\ heard[o] \subseteq Nat \X Name \X Nat /\ due[o] \subseteq Nat
      /\ messageListeners[o] \subseteq Name
  BY DEF ListenersAgree, ListenerTypes
<1>2. /\ pending' = pending \ {k}
      /\ heard' = IF told THEN [heard EXCEPT ![o] = heard[o] \cup names] ELSE heard
      /\ UNCHANGED <<messageListeners, matrixEventListeners, on, made, pc, due, orderly>>
  BY DEF eventListener
<1>3. names \subseteq Nat \X Name \X Nat
  BY <1>1
<1>4. \A x \in names : x[1] = k[1] /\ x[3] = i
  OBVIOUS
<1> HIDE DEF names, told
<1>5. heard' = [heard EXCEPT ![o] = hh] /\ heard'[o] = hh /\ hh \in SUBSET (Nat \X Name \X Nat)
  BY <1>1, <1>2, <1>3 DEF ListenerTypes
<1>6. due' = [due EXCEPT ![o] = due[o]]
  BY <1>1, <1>2 DEF ListenerTypes
<1>7. ASSUME orderly[o] PROVE Fate(o)' /\ ((\E t \in Task : WaitsFor(t, o)) => hh = {})
  <2>1. Orderly(o) /\ Fate(o)
    BY <1>1, <1>7 DEF ListenersAgree, Orderly
  <2>2. (\E t \in Task : WaitsFor(t, o)) => hh = {}
    BY <2>1 DEF Orderly, told
  <2>3. i \in due[o] => k[1] = matrixEventListeners[o]
    BY <2>1 DEF Fate
  <2>4. \A x \in heard'[o] : x[3] \in due[o]
    BY <1>4, <1>5, <2>1 DEF Fate, told
  <2>5. ASSUME NEW j \in due[o]
        PROVE  HeardOf(o, j)' = IF Client!Told(timeline, j) /\ ~WithListener(o, j)'
                                THEN Everyone(o, j)' ELSE {}
    <3>1. Everyone(o, j)' = Everyone(o, j)
      BY <1>2 DEF Everyone
    <3>2. CASE j = i
      <4>1. WithListener(o, i) /\ ~WithListener(o, i)' /\ k[1] = matrixEventListeners[o]
        BY <1>1, <1>2, <2>3, <2>5, <3>2 DEF WithListener
      <4>2. HeardOf(o, i) = {}
        BY <2>1, <2>5, <3>2, <4>1 DEF Fate
      <4>3. names = Everyone(o, i)
        BY <4>1 DEF names, Everyone
      <4>4. told <=> Client!Told(timeline, i)
        BY <2>5, <3>2 DEF told
      <4>5. HeardOf(o, i)' = IF told THEN names ELSE {}
        BY <1>4, <1>5, <4>2 DEF HeardOf
      <4> QED
        BY <3>1, <3>2, <4>1, <4>3, <4>4, <4>5
    <3>3. CASE j # i
      <4>1. WithListener(o, j)' <=> WithListener(o, j)
        <5>1. <<matrixEventListeners[o], o, j>> # k
          BY <1>1, <3>3
        <5> QED
          BY <1>2, <5>1 DEF WithListener
      <4>2. HeardOf(o, j)' = HeardOf(o, j)
        BY <1>4, <1>5, <3>3 DEF HeardOf
      <4> QED
        BY <2>1, <3>1, <4>1, <4>2 DEF Fate
    <3> QED
      BY <3>2, <3>3
  <2>6. \A p \in pending' : p[2] = o /\ p[3] \in due[o] => p[1] = matrixEventListeners[o]
    BY <1>2, <2>1 DEF Fate
  <2>7. Fate(o)'
    BY <1>2, <2>4, <2>5, <2>6 DEF Fate
  <2> QED
    BY <2>2, <2>7
<1> HIDE DEF hh
<1>8. due[o] \in SUBSET Nat
  BY <1>1
<1> QED
  BY <1>1, <1>2, <1>5, <1>6, <1>7, <1>8, ListenersThrough

\* An event listener returns without a call: the event is no longer due.
LEMMA ListenersSwallow ==
    ASSUME ListenersAgree, NEW k \in pending, EventSwallowed(k), UNCHANGED <<timeline, view>>
    PROVE  ListenersAgree'
<1> DEFINE o == k[2]
           i == k[3]
           dd == due[o] \ {i}
<1>1. /\ ListenerTypes /\ k = <<k[1], o, i>> /\ o \in Obj
      /\ heard[o] \in SUBSET (Nat \X Name \X Nat) /\ dd \in SUBSET Nat /\ dd \subseteq due[o]
  BY DEF ListenersAgree, ListenerTypes
<1>2. /\ pending' = pending \ {k} /\ due' = [due EXCEPT ![o] = dd]
      /\ UNCHANGED <<messageListeners, matrixEventListeners, on, made, pc, heard, orderly>>
  BY DEF EventSwallowed
<1>3. heard' = [heard EXCEPT ![o] = heard[o]] /\ due'[o] = dd
  BY <1>1, <1>2 DEF ListenerTypes
<1>4. ASSUME orderly[o] PROVE Fate(o)' /\ ((\E t \in Task : WaitsFor(t, o)) => heard[o] = {})
  <2>1. Orderly(o) /\ Fate(o)
    BY <1>1, <1>4 DEF ListenersAgree, Orderly
  <2>2. i \in due[o] => HeardOf(o, i) = {}
    BY <1>1, <2>1 DEF Fate, WithListener
  <2>3. \A x \in heard'[o] : x[3] \in dd
    BY <1>2, <2>1, <2>2 DEF Fate, HeardOf
  <2>4. ASSUME NEW j \in dd
        PROVE  /\ WithListener(o, j)' <=> WithListener(o, j)
               /\ HeardOf(o, j)' = HeardOf(o, j) /\ Everyone(o, j)' = Everyone(o, j)
    <3>1. <<matrixEventListeners[o], o, j>> # k
      BY <1>1
    <3> QED
      BY <1>2, <3>1 DEF WithListener, HeardOf, Everyone
  <2>5. \A p \in pending' : p[2] = o /\ p[3] \in dd => p[1] = matrixEventListeners[o]
    BY <1>2, <2>1 DEF Fate
  <2>6. \A j \in dd : HeardOf(o, j) = IF Client!Told(timeline, j) /\ ~WithListener(o, j)
                                      THEN Everyone(o, j) ELSE {}
    BY <2>1 DEF Fate
  <2> HIDE DEF dd
  <2>7. Fate(o)'
    BY <1>2, <1>3, <2>3, <2>4, <2>5, <2>6 DEF Fate
  <2> QED
    BY <2>1, <2>7 DEF Orderly
<1> HIDE DEF dd
<1> QED
  BY <1>1, <1>2, <1>3, <1>4, ListenersThrough

\* What the calls and the server do leaves the events that were emitted.
LEMMA ViewsGrow ==
    ASSUME Base, MarksKept, [Next]_vars
    PROVE  /\ view[Creator] \in Nat /\ view'[Creator] \in Nat /\ view[Creator] <= view'[Creator]
           /\ \A i \in 1..view[Creator] : Client!Told(timeline', i) <=> Client!Told(timeline, i)
<1>1. Base' /\ Longer(timeline, timeline')
  BY StepCases
<1>2. /\ Creator \in Handle /\ view \in [Handle -> Nat] /\ view' \in [Handle -> Nat]
      /\ Len(timeline) \in Nat /\ view[Creator] <= Len(timeline)
  BY <1>1, MessagingAssumption, LenProperties DEF Base, Types, MarksKept
<1>3. \A i \in 1..view[Creator] : timeline'[i] = timeline[i]
  BY <1>1, <1>2 DEF Longer
<1>4. view' = view \/ \E h \in Handle : Sync(h)
  <2>1. ASSUME NEW t \in Task, NEW h \in Handle, MarkAsUnread(t, h), flag[h] PROVE view' = view
    BY <2>1 DEF MarkAsUnread, client, server, ghost
  <2>2. ASSUME NEW t \in Task, ServerStep(t) PROVE view' = view
    BY <2>2 DEF ServerStep, PutEvent, PutReceipt, PutMark, ReadPins, WritePins, Plain, ReadEnds,
       ReadResponses, listMessages, RequestRefused, AnswerLost, client
  <2> QED
    BY <2>1, <2>2, StepCases DEF BeginsCall
<1>5. view[Creator] <= view'[Creator]
  BY <1>2, <1>4 DEF Sync
<1> QED
  BY <1>2, <1>3, <1>5 DEF Client!Told

\* Every step keeps the listeners.
LEMMA ListenersKept ==
    ASSUME Base, MarksKept, ListenersAgree, [Next]_vars
    PROVE  ListenersAgree'
<1>1. ASSUME UNCHANGED hearing PROVE ListenersAgree'
  <2>1. UNCHANGED <<messageListeners, matrixEventListeners, on, made, pc, pending, due, heard, orderly>>
    BY <1>1 DEF hearing
  <2>2. ListenerTypes /\ Emitted /\ ListenerTypes'
    BY <2>1 DEF ListenersAgree, ListenerTypes
  <2>3. Emitted'
    <3>1. \A p \in pending : p[3] \in Nat
      BY <2>2 DEF ListenerTypes
    <3> QED
      BY <2>1, <2>2, <3>1, ViewsGrow DEF Emitted
  <2>4. ASSUME NEW o \in Obj, orderly'[o] PROVE Orderly(o)'
    <3>1. Orderly(o)
      BY <2>1, <2>4 DEF ListenersAgree
    <3>2. \A i \in due[o] : Client!Told(timeline', i) <=> Client!Told(timeline, i)
      BY <2>2, ViewsGrow DEF Emitted
    <3> QED
      BY <2>1, <3>1, <3>2, ListenersFrame
  <2> QED
    BY <2>2, <2>3, <2>4 DEF ListenersAgree
<1>2. ASSUME ListenersNext, UNCHANGED chat PROVE ListenersAgree'
  <2>1. UNCHANGED <<timeline, view>>
    BY <1>2 DEF chat, server, client
  <2> QED
    BY <1>2, <2>1, ListenersBegin, ListenersEnd, ListenersFail, ListenersCall, ListenersSwallow
    DEF ListenersNext
<1> QED
  BY <1>1, <1>2, ListenersEmit, Steps DEF vars

\* What was heard of the events once nothing is under way.
LEMMA ListenersTold ==
    ASSUME ListenersAgree
    PROVE  DeliveredOnce
<1> SUFFICES ASSUME NEW o \in Obj, orderly[o], Calm(o), \A p \in pending : p[2] # o
             PROVE  /\ Cardinality({l \in on : l[2] = o}) =
                          (IF messageListeners[o] # {} THEN 1 ELSE 0)
                    /\ \A i \in due[o], n \in Name :
                          Cardinality({x \in heard[o] : x[2] = n /\ x[3] = i}) =
                             (IF n \in messageListeners[o] /\ Client!Told(timeline, i) THEN 1 ELSE 0)
  BY DEF DeliveredOnce
<1>1. Listening(o) /\ Fate(o) /\ messageListeners[o] \subseteq Name
  BY DEF ListenersAgree, ListenerTypes, Orderly
<1>2. /\ matrixEventListeners[o] # 0 <=> messageListeners[o] # {}
      /\ {l \in on : l[2] = o} = IF matrixEventListeners[o] = 0 THEN {}
                                 ELSE {<<matrixEventListeners[o], o>>}
  BY <1>1 DEF Listening, Calm
<1>3. Cardinality({l \in on : l[2] = o}) = (IF messageListeners[o] # {} THEN 1 ELSE 0)
  BY <1>2, FS_EmptySet, FS_Singleton
<1>4. ASSUME NEW i \in due[o], NEW n \in Name
      PROVE  Cardinality({x \in heard[o] : x[2] = n /\ x[3] = i}) =
                (IF n \in messageListeners[o] /\ Client!Told(timeline, i) THEN 1 ELSE 0)
  <2>1. ~WithListener(o, i)
    BY DEF WithListener
  <2>2. HeardOf(o, i) = IF Client!Told(timeline, i) THEN Everyone(o, i) ELSE {}
    BY <1>1, <2>1 DEF Fate
  <2>3. {x \in heard[o] : x[2] = n /\ x[3] = i} = {x \in HeardOf(o, i) : x[2] = n}
    BY DEF HeardOf
  <2>4. {x \in Everyone(o, i) : x[2] = n} =
           IF n \in messageListeners[o] THEN {<<matrixEventListeners[o], n, i>>} ELSE {}
    BY DEF Everyone
  <2>5. {x \in heard[o] : x[2] = n /\ x[3] = i} =
           IF n \in messageListeners[o] /\ Client!Told(timeline, i)
           THEN {<<matrixEventListeners[o], n, i>>} ELSE {}
    BY <2>2, <2>3, <2>4
  <2> QED
    BY <2>5, FS_EmptySet, FS_Singleton
<1> QED
  BY <1>3, <1>4

----------------------------------------------------------------------------
(* The theorems.                                                           *)

\* The room as the creator made it.
LEMMA FirstEvents ==
    ASSUME Init
    PROVE  /\ timeline \in Seq(Client!Event) /\ Len(timeline) = 3
           /\ \A i \in DOMAIN timeline : /\ timeline[i].ts = 0
                                         /\ timeline[i].type \in {"member", "message", "pollStart"}
<1> DEFINE a == Client!Bare(Creator, "member", "none", 0)
           b == Client!sendMessage(Creator, Client!buildMessageContent({}))
           c == Client!createPoll(Creator)
<1>1. Creator \in Handle
  BY MessagingAssumption
<1>2. /\ {} \in SUBSET Handle /\ Client!handleMentions({}) \in Client!Mentions
  BY DEF Client!handleMentions, Client!Mentions
<1>3. a \in Client!Event /\ a.ts = 0 /\ a.type = "member"
  BY <1>1, <1>2 DEF Client!Bare, Client!NewEvent, Client!Nobody, Client!Event, Client!Type,
     Client!Relation, Client!Poll
<1>4. b \in Client!Event /\ b.ts = 0 /\ b.type = "message"
  BY <1>1, <1>2 DEF Client!sendMessage, Client!buildMessageContent, Client!NewEvent,
     Client!Event, Client!Type, Client!Relation, Client!Poll
<1>5. c \in Client!Event /\ c.ts = 0 /\ c.type = "pollStart"
  BY <1>1, <1>2 DEF Client!createPoll, Client!Bare, Client!NewEvent, Client!Nobody,
     Client!Event, Client!Type, Client!Relation, Client!Poll
<1>6. timeline = <<a, b, c>>
  BY DEF Init
<1> HIDE DEF a, b, c
<1>7. /\ timeline \in Seq(Client!Event) /\ Len(timeline) = 3 /\ DOMAIN timeline = {1, 2, 3}
      /\ timeline[1] = a /\ timeline[2] = b /\ timeline[3] = c
  BY <1>3, <1>4, <1>5, <1>6
<1> QED
  BY <1>3, <1>4, <1>5, <1>7

\* The base holds at the beginning.
LEMMA BaseInit ==
    ASSUME Init
    PROVE  Base
<1>1. /\ timeline \in Seq(Client!Event) /\ Len(timeline) = 3 /\ now = 1
      /\ \A i \in DOMAIN timeline : timeline[i].ts = 0 /\ timeline[i].type # "pollEnd"
  BY FirstEvents DEF Init
<1>2. call = [t \in Task |-> NoCall] /\ NoCall \in CallType /\ Shape(NoCall)
  BY NoCallType DEF Init
<1>3. NoPages \in Pages
  BY DEF NoPages, Pages
<1>4. Types
  <2>1. pins \subseteq Nat /\ receipt \in [Handle -> Nat] /\ view \in [Handle -> Nat]
        /\ flag \in [Handle -> BOOLEAN]
    BY <1>1 DEF Init
  <2>2. reader \in [Handle -> Pages] /\ call \in [Task -> CallType]
    BY <1>2, <1>3 DEF Init
  <2>3. asked \in [Handle -> [what : {"nothing", "read", "unread"}, upto : Nat]]
    BY DEF Init
  <2> QED
    BY <1>1, <2>1, <2>2, <2>3 DEF Types
<1>5. Ordered
  BY <1>1 DEF Ordered
<1> QED
  BY <1>2, <1>4, <1>5 DEF Base

\* So do the other invariants.
LEMMA InvInit ==
    ASSUME Init
    PROVE  Inv
<1>1. Base
  BY BaseInit
<1>2. /\ Len(timeline) = 3
      /\ \A i \in DOMAIN timeline : timeline[i].type \notin {"reaction", "redaction"}
  BY FirstEvents
<1>3. \A t \in Task : call[t] = NoCall /\ call[t].op = "none"
  BY NoCallType DEF Init
<1>4. ListenersAgree
  <2>1. /\ messageListeners = [o \in Obj |-> {}] /\ matrixEventListeners = [o \in Obj |-> 0]
        /\ on = {} /\ made = 0 /\ pending = {} /\ pc = [t \in Task |-> Idle]
        /\ due = Quiet /\ heard = Quiet /\ orderly = [o \in Obj |-> TRUE]
    BY DEF Init, ListenersInit
  <2>2. ListenerTypes /\ Emitted
    BY <2>1 DEF ListenerTypes, Quiet, Emitted
  <2>3. ASSUME NEW o \in Obj PROVE Orderly(o)
    <3>1. \A t \in Task : pc[t] # <<"register", o>> /\ pc[t] # <<"unregister", o>>
      BY <2>1, Distinct
    <3>2. Listening(o)
      BY <2>1, <3>1 DEF Listening
    <3> QED
      BY <2>1, <3>1, <3>2 DEF Orderly, WaitsFor, Fate, Quiet
  <2> QED
    BY <2>2, <2>3 DEF ListenersAgree
<1>5. PagesKept
  <2>1. \A h \in Handle : reader[h] = NoPages
    BY DEF Init
  <2> QED
    BY <1>2, <1>3, <2>1 DEF PagesKept, ReaderOK, NoPages
<1>6. TallyKept
  BY <1>3 DEF Init, NoTally, TallyKept, Tallied
<1>7. MarksKept
  <2>1. \A h \in Handle : receipt[h] = 0 /\ view[h] = 3 /\ asked[h].what = "nothing"
    BY <1>2 DEF Init
  <2> QED
    BY <1>2, <1>3, <2>1 DEF MarksKept, Marking
<1>8. PinsKept
  BY <1>3 DEF Init, PinsKept
<1>9. ReactionsKept
  <2>1. Tidy(timeline) /\ \A h, m : ~Client!Annotated(timeline, h, m)
    BY <1>2, Reacted DEF Tidy, Stands
  <2>2. Odd(timeline, toggled, spoiled)
    BY <2>1 DEF Init, Odd
  <2> QED
    BY <1>3, <2>1, <2>2 DEF ReactionsKept, TakesBack, Undoes
<1>10. EchoesKept
  BY <1>3 DEF EchoesKept, Held
<1> QED
  BY <1>1, <1>4, <1>5, <1>6, <1>7, <1>8, <1>9, <1>10 DEF Inv

\* Whatever the calls of the handles and the requests that fail, the room,
\* the calls under way and the listeners are as Inv says: the requests each
\* call of MessagingModule has left are those of its operation, the timeline
\* is in the order of its times, and each aspect keeps its own invariant.
THEOREM MessagingInvariant == Spec => []Inv
<1>1. Init => Inv
  BY InvInit
<1>2. Inv /\ [Next]_vars => Inv'
  BY BaseKept, ListenersKept, PagesNext, TallyNext, MarksNext, PinsNext, ReactionsNext,
     EchoesNext DEF Inv
<1> QED
  BY <1>1, <1>2, PTL DEF Spec

\* toggleReaction and pinUnpinMessage flip, however the calls overlap, and a
\* client that is up to date shows it.
THEOREM TogglesHold == Spec => []TogglesFlip
<1>1. Inv => TogglesFlip
  BY TogglesTold DEF Inv
<1> QED
  BY <1>1, MessagingInvariant, PTL

\* The unread counts of getChatSummaries are those of the last markAsRead or
\* markAsUnread.
THEOREM UnreadCounts == Spec => []UnreadTold
<1>1. Inv => UnreadTold
  BY MarksTold DEF Inv
<1> QED
  BY <1>1, MessagingInvariant, PTL

\* Page after page of listMessages gives every message exactly once, for
\* every page size and whatever is sent or deleted in between.
THEOREM EveryMessageOnce == Spec => []PagesComplete
<1>1. Inv => PagesComplete
  BY PagesTold DEF Inv
<1> QED
  BY <1>1, MessagingInvariant, PTL

\* getPollResponses counts the last valid response of every handle.
THEOREM TallyExact == Spec => []PollTally
<1>1. Inv => PollTally
  BY TallyTold DEF Inv
<1> QED
  BY <1>1, MessagingInvariant, PTL

\* getMessage, getMessages and getPinnedMessages show the last edit.
THEOREM ReadersSame == Spec => []ReadersAgree
<1>1. Inv => ReadersAgree
  BY ReadersTold DEF Inv
<1> QED
  BY <1>1, MessagingInvariant, PTL

\* Every event emitted since the last register or unregister call for a
\* HandleId object reaches each of its listeners exactly once, if the
\* application awaits its calls for the object and none fails.
THEOREM ListenersHearOnce == Spec => []DeliveredOnce
<1>1. Inv => DeliveredOnce
  BY ListenersTold DEF Inv
<1> QED
  BY <1>1, MessagingInvariant, PTL
=============================================================================
