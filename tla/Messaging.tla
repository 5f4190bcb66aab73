----------------------------- MODULE Messaging -----------------------------
(***************************************************************************)
(* The messaging of a room: MessagingModule, its use cases and             *)
(* MatrixMessagingService over the events of MatrixEvents, and the message *)
(* listeners of the creator of the room.                                   *)
(*                                                                         *)
(* The home server orders the events of the room in one timeline and keeps *)
(* its pinned events, and for each handle a read receipt and whether it    *)
(* marked the room unread.  Every handle has a client that knows a prefix  *)
(* of the timeline and the flag as of its last sync.  A call is a sequence *)
(* of requests; calls of one application and of several handles interleave *)
(* request by request, and a request may fail before or after it took      *)
(* effect.                                                                 *)
(*                                                                         *)
(* External: the home server; the Matrix SDK, which shows a handle the     *)
(* reactions it sends at once, holds the redaction of an event that is     *)
(* still being sent, and keeps an event it could not send.                 *)
(***************************************************************************)
EXTENDS MessageListeners, Sequences

CONSTANTS
    Handle, Creator,
    Scenarios,   \* sets of operations explored together
    MentionSets, \* who a message may mention
    Limit,       \* messages asked for in a page
    Faults,      \* requests may fail
    MaxCalls,    \* calls in each scenario
    MaxTime

Client == INSTANCE MatrixEvents

ASSUME MessagingAssumption ==
    /\ Limit \in Nat \ {0} /\ MaxCalls \in [Scenarios -> Nat] /\ MaxTime \in Nat \ {0}
    /\ Faults \in BOOLEAN /\ Creator \in Handle

VARIABLES
    timeline,   \* server: the events of the room
    pins,       \* server: the pinned events
    receipt,    \* server: the last event each handle has read
    marked,     \* server: the handles that marked the room unread
    now,        \* the time of day
    view,       \* client: how much of the timeline it knows
    flag,       \* client: the room is marked unread, as of its last sync
    failed,     \* client: reactions it could not send, as <<handle, message>>
    call,       \* the call of each task
    reader,     \* the pages each handle has read
    ops, calls,
    toggled,    \* history: <<handle, message>> toggled an odd number of times
    spoiled,    \* history: reactions a lost answer left in doubt
    raced,      \* history: pins that two calls changed at once
    wanted,     \* history: the pins that the calls asked for
    asked,      \* history: the last thing each handle asked of the unread count
    polled      \* history: the last tally of a poll that was told

server == <<timeline, pins, receipt, marked>>
client == <<view, flag, failed, reader>>
ghost  == <<toggled, spoiled, raced, wanted, asked, polled>>
chat   == <<server, client, ghost, now, call, ops>>
vars   == <<chat, calls, hearing>>

----------------------------------------------------------------------------
(* Data.                                                                   *)

Kind == {"event", "markers", "receipt", "mark", "unmark", "readPins",
         "writePins", "page", "ends", "responses", "credential", "upload",
         "download", "typing"}

\* A request; event is what it sends, pins what it writes, after the call
\* whose event is still being sent and must get its id first.
NoEvent      == Client!Bare(Creator, "member", "none", 0)
Ask(kind)    == [kind |-> kind, event |-> NoEvent, pins |-> {}, after |-> {}]
Sending(e)   == [Ask("event") EXCEPT !.event = e]
Pinning(set) == [Ask("writePins") EXCEPT !.pins = set]
Undoing(h, u) == [Sending(Client!deleteMessage(h, 0)) EXCEPT !.after = {u}]

\* of: the event a call is about; token, start, upto, got, ended and best are the
\* variables of listMessages and getPollResponses; alone: no call like it
\* has overlapped, and the client was up to date when it began.
NoBest == [u \in Handle |-> 0]
NoCall == [op |-> "none", by |-> Creator, todo |-> <<>>,
           of |-> 0, token |-> 0, start |-> 0, upto |-> 0, got |-> {}, ended |-> 0,
           best |-> NoBest, alone |-> TRUE]

NoPages == [token |-> 0, start |-> 0, seen |-> {}, twice |-> {}, state |-> "none"]
NoTally == [poll |-> 0, ended |-> 0, best |-> NoBest, upto |-> 0, quiet |-> FALSE]

\* The room as the creator made it, with a first message and a poll in it.
Init == /\ timeline = <<Client!Bare(Creator, "member", "none", 0),
                        Client!sendMessage(Creator, Client!buildMessageContent({})),
                        Client!createPoll(Creator)>>
        /\ pins = {} /\ marked = {} /\ now = 1
        /\ receipt = [h \in Handle |-> 0]
        /\ view = [h \in Handle |-> Len(timeline)]
        /\ flag = [h \in Handle |-> FALSE]
        /\ failed = {}
        /\ call = [t \in Task |-> NoCall]
        /\ reader = [h \in Handle |-> NoPages]
        /\ ops \in Scenarios /\ calls = 0
        /\ toggled = {} /\ spoiled = {} /\ raced = FALSE /\ wanted = {}
        /\ asked = [h \in Handle |-> [what |-> "nothing", upto |-> 0]]
        /\ polled = NoTally
        /\ ListenersInit

----------------------------------------------------------------------------
(* What a client knows.                                                    *)

Known(h) == 1..view[h]

\* With what it sent itself, which the SDK adds without a sync.
KnownAndSent(h) ==
    {i \in DOMAIN timeline : \/ i <= view[h]
                             \/ /\ timeline[i].sender = h
                                /\ timeline[i].type \notin Client!Poll}

Synced(h) == view[h] = Len(timeline) /\ flag[h] = (h \in marked)

Active(op, h) == {t \in Task : call[t].op = op /\ call[t].by = h}

\* Reactions of h to m that are being sent and not yet taken back.
Echoes(h, m) ==
    {u \in Active("toggleReaction", h) :
        /\ call[u].of = m /\ call[u].todo[1].event.type = "reaction"
        /\ \A v \in Task : call[v].op # "none" => u \notin call[v].todo[1].after}

\* Reactions of h whose redaction is on its way.
Undone(h) ==
    {call[t].todo[1].event.of :
        t \in {u \in Active("toggleReaction", h) :
                 call[u].todo[1].event.type = "redaction"}}

Messages == {i \in DOMAIN timeline : timeline[i].type \in {"message", "media"}}
Originals == {i \in Messages : timeline[i].rel # "replace"}
Polls == {i \in DOMAIN timeline : timeline[i].type = "pollStart"}

----------------------------------------------------------------------------
(* MatrixMessagingService: the requests of each operation.                 *)

Text(ms) == Client!buildMessageContent(ms)

sendMessage(h, ms)    == <<Sending(Client!sendMessage(h, Text(ms)))>>
sendThread(h, of, ms) == <<Sending(Client!sendThreadMessage(h, of, Text(ms)))>>
sendReply(h, of, ms)  == <<Sending(Client!sendReplyMessage(h, of, Text(ms)))>>

\* The thumbnail of an image or a video is uploaded before the file.
uploadMediaFile(thumb) ==
    IF thumb THEN <<Ask("upload"), Ask("upload")>> ELSE <<Ask("upload")>>

sendMedia(h, thread, reply, thumb) ==
    LET file == Client!handleFile({})
    IN  Append(uploadMediaFile(thumb),
               Sending(CASE thread # 0 -> Client!sendThreadMessage(h, thread, file)
                         [] thread = 0 /\ reply # 0
                              -> Client!sendReplyMessage(h, reply, file)
                         [] OTHER -> Client!sendMessage(h, file)))

editMediaCaption(h, m) == <<Sending(Client!editMessage(h, m))>>
edit(h, m)             == <<Sending(Client!editMessage(h, m))>>
delete(h, m)           == <<Sending(Client!deleteMessage(h, m))>>
list                   == <<Ask("page")>>

\* sendReadReceipt; what follows depends on the flag once these are answered.
markAsRead   == <<Ask("markers"), Ask("receipt")>>
markAsUnread == <<Ask("mark")>>

sendTypingNotification == <<Ask("typing")>>
pinUnpinMessage        == <<Ask("readPins")>>

createPoll(h)          == <<Sending(Client!createPoll(h))>>
sendPollResponse(h, p) == <<Sending(Client!sendPollResponse(h, p))>>
endPoll(h, p)          == <<Sending(Client!endPoll(h, p))>>
\* A poll cannot be changed: it is ended and made anew.
editPoll(h, p)         == endPoll(h, p) \o createPoll(h)
getPollResponses       == <<Ask("ends"), Ask("responses")>>

\* MediaCredentialManager: the key of the cache is a new object each time, so
\* it is never found and every credential is fetched anew.
getRoomMediaCredential == <<Ask("credential")>>

----------------------------------------------------------------------------
(* Calls.                                                                  *)

\* The next request of a call is put together when it is sent.
Stamp(todo) == [todo EXCEPT ![1].event = Client!Stamped(@, now)]

Marking == {"markAsRead", "markAsUnread"}

\* Calls that work on the same thing: they race if they overlap.
Rivals(op, h) == CASE op \in Marking -> UNION {Active(o, h) : o \in Marking}
                   [] op = "pinUnpinMessage" -> UNION {Active(op, g) : g \in Handle}
                   [] OTHER -> {}

Begin(t, h, op, of, todo) ==
    /\ call[t].op = "none" /\ op \in ops /\ calls < MaxCalls[ops]
    /\ calls' = calls + 1
    /\ call' = [u \in Task |->
                  CASE u = t -> [NoCall EXCEPT
                                   !.op = op, !.by = h, !.of = of, !.todo = Stamp(todo),
                                   !.token = IF op = "getMessages" THEN reader[h].token ELSE 0,
                                   !.start = IF op = "getMessages" THEN reader[h].start ELSE 0,
                                   !.alone = /\ Rivals(op, h) = {}
                                             /\ flag[h] = (h \in marked)]
                    [] u # t /\ u \in Rivals(op, h) -> [call[u] EXCEPT !.alone = FALSE]
                    [] OTHER -> call[u]]
    /\ raced' = (raced \/ (op = "pinUnpinMessage" /\ Rivals(op, h) # {}))
    /\ asked' = IF op \in Marking THEN [asked EXCEPT ![h].what = "nothing"] ELSE asked
    /\ UNCHANGED <<server, client, now, ops, toggled, spoiled, wanted, polled>>

Finish(t) == call' = [call EXCEPT ![t] = NoCall]

\* On to the next request, or the end of the call.
GoOn(t, todo) ==
    IF todo = <<>> THEN Finish(t)
    ELSE call' = [call EXCEPT ![t].todo = Stamp(todo)]

----------------------------------------------------------------------------
(* The use cases.                                                          *)

SendMessage(t, h) == \E ms \in MentionSets :
    Begin(t, h, "sendMessage", 0, sendMessage(h, ms))
SendThreadMessage(t, h, m) == \E ms \in MentionSets :
    Begin(t, h, "sendThreadMessage", m, sendThread(h, m, ms))
SendReplyMessage(t, h, m) == \E ms \in MentionSets :
    Begin(t, h, "sendReplyMessage", m, sendReply(h, m, ms))
SendMedia(t, h, thread, reply) == \E thumb \in BOOLEAN :
    Begin(t, h, "sendMedia", 0,
          getRoomMediaCredential \o sendMedia(h, thread, reply, thumb))
EditMediaCaption(t, h, m) ==
    Begin(t, h, "editMediaCaption", m, getRoomMediaCredential \o editMediaCaption(h, m))
EditMessage(t, h, m)   == Begin(t, h, "editMessage", m, edit(h, m))
DeleteMessage(t, h, m) == Begin(t, h, "deleteMessage", m, delete(h, m))

MarkAsRead(t, h)   == Begin(t, h, "markAsRead", view[h], markAsRead)
\* Nothing is sent if the room is known to be marked.
MarkAsUnread(t, h) ==
    \/ ~flag[h] /\ Begin(t, h, "markAsUnread", 0, markAsUnread)
    \/ /\ flag[h] /\ "markAsUnread" \in ops /\ calls < MaxCalls[ops]
       /\ calls' = calls + 1
       /\ asked' = [asked EXCEPT ![h].what =
                      IF Rivals("markAsUnread", h) = {} /\ h \in marked
                      THEN "unread" ELSE "nothing"]
       /\ call' = [u \in Task |-> [call[u] EXCEPT !.alone =
                                    @ /\ u \notin Rivals("markAsUnread", h)]]
       /\ UNCHANGED <<server, client, now, ops, toggled, spoiled, raced, wanted, polled>>

SendTypingNotification(t, h) ==
    Begin(t, h, "sendTypingNotification", 0, sendTypingNotification)

\* A reaction found in the timeline is redacted, one that is still being sent
\* too.  It throws, as it always may, if the reaction could not be sent.
ToggleReaction(t, h, m) ==
    /\ <<h, m>> \notin failed
    /\ LET sent == Client!OwnReaction(timeline, KnownAndSent(h), Undone(h), h, m)
       IN  \/ /\ sent # {} \/ Echoes(h, m) = {}
              /\ \E e \in Client!toggleReaction(timeline, KnownAndSent(h), Undone(h), h, m) :
                    Begin(t, h, "toggleReaction", m, <<Sending(e)>>)
           \/ /\ sent = {}
              /\ \E u \in Echoes(h, m) :
                    Begin(t, h, "toggleReaction", m, <<Undoing(h, u)>>)

PinUnpinMessage(t, h, m) == Begin(t, h, "pinUnpinMessage", m, pinUnpinMessage)

\* An application that reads page after page.
GetMessages(t, h) ==
    Active("getMessages", h) = {} /\ Begin(t, h, "getMessages", 0, list)

CreatePoll(t, h)          == Begin(t, h, "createPoll", 0, createPoll(h))
SendPollResponse(t, h, p) == Begin(t, h, "sendPollResponse", p, sendPollResponse(h, p))
EditPoll(t, h, p)         == Begin(t, h, "editPoll", p, editPoll(h, p))
EndPoll(t, h, p)          == Begin(t, h, "endPoll", p, endPoll(h, p))
GetPollResponses(t, h, p) == Begin(t, h, "getPollResponses", p, getPollResponses)

\* Calls that only read what the client has: a message, how it shows among
\* the pinned ones, and the unread counts.
GetMessage(h, m)        == Client!get(timeline, Known(h), m)
GetPinnedMessages(h, m) == Client!ProcessPinned(timeline, Known(h), m)
GetChatSummaries(h)     ==
    Client!getChatSummaries(timeline, Known(h), h, receipt[h], flag[h])

DownloadMediaFile(t, h, m) ==
    Begin(t, h, "downloadMediaFile", m, getRoomMediaCredential \o <<Ask("download")>>)

----------------------------------------------------------------------------
(* MessagingModule.                                                        *)

ModuleSend(t, h) ==
    \/ SendMessage(t, h)
    \/ \E m \in Originals : SendReplyMessage(t, h, m) \/ SendThreadMessage(t, h, m)
    \/ SendTypingNotification(t, h)

ModuleMedia(t, h) ==
    \/ \E m \in Originals \cup {0} : SendMedia(t, h, m, 0) \/ SendMedia(t, h, 0, m)
    \/ \E m \in Originals : /\ timeline[m].type = "media"
                            /\ EditMediaCaption(t, h, m) \/ DownloadMediaFile(t, h, m)

ModuleMessage(t, h) ==
    \/ \E m \in Messages : DeleteMessage(t, h, m)
    \/ \E m \in Originals : \/ timeline[m].type = "message" /\ EditMessage(t, h, m)
                            \/ ToggleReaction(t, h, m)
                            \/ PinUnpinMessage(t, h, m)

ModuleRead(t, h) == GetMessages(t, h) \/ MarkAsRead(t, h) \/ MarkAsUnread(t, h)

ModulePoll(t, h) ==
    \/ CreatePoll(t, h)
    \/ \E p \in Polls : \/ SendPollResponse(t, h, p) \/ EditPoll(t, h, p)
                        \/ EndPoll(t, h, p)         \/ GetPollResponses(t, h, p)

----------------------------------------------------------------------------
(* Requests at the server (external), and what the call does with the      *)
(* answer.                                                                 *)

Request(t) == call[t].todo[1]
Rest(t)    == Tail(call[t].todo)
Asks(t, kinds) == /\ call[t].op # "none" /\ Request(t).kind \in kinds
                  /\ Request(t).after = {}

\* External: the call that takes back the event t sends is held behind it.
\* It gets the id of the event, or fails if the event could not be sent.
Behind(t) == {u \in Task : call[u].op # "none" /\ t \in call[u].todo[1].after}
Release(t, i) ==
    call' = [u \in Task |->
               CASE u = t -> NoCall
                 [] u # t /\ u \in Behind(t)
                      -> [call[u] EXCEPT !.todo = <<Sending(Client!deleteMessage(call[u].by, i))>>]
                 [] OTHER -> call[u]]
Throw(t) == call' = [u \in Task |-> IF u = t \/ u \in Behind(t) THEN NoCall ELSE call[u]]

\* The server takes an event: unless it is a transaction it knows.
Accept(e) == timeline' = IF Client!Repeated(timeline, e) THEN timeline
                         ELSE Append(timeline, [e EXCEPT !.ts = now])

Duplicate(e) == e.type = "reaction" /\ Client!Annotated(timeline, e.sender, e.of)

Flip(set, x) == (set \ {x}) \cup ({x} \ set)

PutEvent(t) ==
    /\ Asks(t, {"event"}) /\ ~Duplicate(Request(t).event)
    /\ Accept(Request(t).event)
    /\ IF Behind(t) = {} THEN GoOn(t, Rest(t)) ELSE Release(t, Len(timeline) + 1)
    /\ toggled' = IF call[t].op = "toggleReaction"
                  THEN Flip(toggled, <<call[t].by, call[t].of>>) ELSE toggled
    /\ UNCHANGED <<pins, receipt, marked, client, now, ops, calls,
                   spoiled, raced, wanted, asked, polled>>

\* Mutant: the flag is left as it is.
FlagKept(t) == Finish(t)

\* sendReadReceipt once the receipt is sent: the flag is cleared if it is set.
AfterReceipt(t) ==
    IF flag[call[t].by] THEN GoOn(t, <<Ask("unmark")>>) ELSE Finish(t)

\* External: a receipt for an older event is ignored.
Receive(h, i) == receipt' = [receipt EXCEPT ![h] = IF i > @ THEN i ELSE @]

\* History: a call that ran alone and is over.
Over(t, what) == asked' = IF call[t].alone /\ call'[t].op = "none" THEN
                           [asked EXCEPT ![call[t].by] = [what |-> what, upto |-> call[t].of]]
                         ELSE asked

PutReceipt(t) ==
    /\ Asks(t, {"markers", "receipt"})
    /\ Receive(call[t].by, call[t].of)
    /\ IF Request(t).kind = "markers" THEN GoOn(t, Rest(t)) ELSE AfterReceipt(t)
    /\ Over(t, "read")
    /\ UNCHANGED <<timeline, pins, marked, client, now, ops, calls,
                   toggled, spoiled, raced, wanted, polled>>

PutMark(t) ==
    /\ Asks(t, {"mark", "unmark"})
    /\ marked' = IF Request(t).kind = "mark" THEN marked \cup {call[t].by}
                 ELSE marked \ {call[t].by}
    /\ Finish(t)
    /\ Over(t, IF Request(t).kind = "mark" THEN "unread" ELSE "read")
    /\ UNCHANGED <<timeline, pins, receipt, client, now, ops, calls,
                   toggled, spoiled, raced, wanted, polled>>

\* pinUnpinMessage: the pins are read, and written with the message added or
\* removed.
ReadPins(t) ==
    /\ Asks(t, {"readPins"})
    /\ GoOn(t, <<Pinning(Flip(pins, call[t].of))>>)
    /\ UNCHANGED <<server, client, ghost, now, ops, calls>>

WritePins(t) ==
    /\ Asks(t, {"writePins"})
    /\ pins' = Request(t).pins
    /\ wanted' = Flip(wanted, call[t].of)
    /\ Finish(t)
    /\ UNCHANGED <<timeline, receipt, marked, client, now, ops, calls,
                   toggled, spoiled, raced, asked, polled>>

\* Requests that change nothing the model keeps.
Plain(t) ==
    /\ Asks(t, {"credential", "upload", "download", "typing"})
    /\ GoOn(t, Rest(t))
    /\ UNCHANGED <<server, client, ghost, now, ops, calls>>

----------------------------------------------------------------------------
(* Reading.                                                                *)

\* Mutant: the next page starts after what was kept of this one.
TokenOfKept(top, want, kept) == IF kept = {} \/ top <= want THEN 0
                                ELSE (CHOOSE i \in kept : \A j \in kept : i >= j) - 1

\* External: a page is the want events up to top; the server gives a token
\* for the ones before, if any.
EndToken(top, want, kept) == IF top > want THEN top - want ELSE 0

\* listMessages: pages are asked for until there are enough messages, and
\* what they hold is given to the application with the token of the last.
listMessages(t) ==
    /\ Asks(t, {"page"})
    /\ LET c     == call[t]
           top   == IF c.token = 0 THEN Len(timeline) ELSE c.token
           start == IF c.token = 0 THEN Len(timeline) ELSE c.start
           want  == IF Limit > Cardinality(c.got) THEN Limit - Cardinality(c.got) ELSE 1
           low   == IF top > want THEN top - want ELSE 0
           kept  == {i \in (low + 1)..top : Client!Listable(timeline, i)}
           got   == c.got \cup kept
           end   == EndToken(top, want, kept)
           old   == IF reader[c.by].token = 0 THEN NoPages ELSE reader[c.by]
       IN  IF end # 0 /\ Cardinality(got) < Limit
           THEN /\ call' = [call EXCEPT ![t].token = end, ![t].start = start,
                                        ![t].got = got]
                /\ UNCHANGED reader
           ELSE /\ Finish(t)
                /\ reader' = [reader EXCEPT ![c.by] =
                     [token |-> end, start |-> start,
                      seen  |-> old.seen \cup got,
                      twice |-> old.twice \cup (old.seen \cap got),
                      state |-> IF end = 0 THEN "done" ELSE "open"]]
    /\ UNCHANGED <<server, view, flag, failed, ghost, now, ops, calls>>

\* getPollResponses: whether the poll has ended, then its responses, the
\* newest first; a page holds one.
ReadEnds(t) ==
    /\ Asks(t, {"ends"})
    /\ call' = [call EXCEPT ![t].todo = Rest(t),
                            ![t].ended = Client!PollEndTimestamp(timeline, call[t].of),
                            ![t].start = Len(timeline)]
    /\ UNCHANGED <<server, client, ghost, now, ops, calls>>

ReadResponses(t) ==
    /\ Asks(t, {"responses"})
    /\ LET c     == call[t]
           upto  == IF c.token = 0 THEN Len(timeline) ELSE c.upto
           rest  == {i \in Client!Related(timeline, "pollResponse", c.of) :
                       i <= upto /\ (c.token = 0 \/ i < c.token)}
           next  == CHOOSE i \in rest : \A j \in rest : j <= i
           late  == {i \in Client!Related(timeline, "pollEnd", c.of) :
                       c.start < i /\ i <= upto}
       IN  IF rest # {}
           THEN /\ call' = [call EXCEPT
                       ![t].token = next, ![t].upto = upto,
                       ![t].best = Client!CountResponse(timeline, @, c.ended, next)]
                /\ UNCHANGED polled
           ELSE /\ Finish(t)
                /\ polled' = [poll |-> c.of, ended |-> c.ended, best |-> c.best,
                              upto |-> upto, quiet |-> late = {}]
    /\ UNCHANGED <<server, client, now, ops, calls,
                   toggled, spoiled, raced, wanted, asked>>

----------------------------------------------------------------------------
(* Faults, syncs and time.                                                 *)

\* A request that fails: the call throws.  A reaction stays with the client.
RequestRefused(t) ==
    /\ Asks(t, Kind)
    /\ Faults \/ (Request(t).kind = "event" /\ Duplicate(Request(t).event))
    /\ Throw(t)
    /\ failed' = IF Request(t).event.type = "reaction"
                 THEN failed \cup {<<call[t].by, call[t].of>>} ELSE failed
    /\ UNCHANGED <<server, view, flag, reader, ghost, now, ops, calls>>

\* The answer is lost: the call throws though the server did as asked.
AnswerLost(t) ==
    /\ Faults /\ Asks(t, {"event", "writePins"})
    /\ Throw(t)
    /\ IF Request(t).kind = "event"
       THEN ~Duplicate(Request(t).event) /\ Accept(Request(t).event) /\ UNCHANGED pins
       ELSE pins' = Request(t).pins /\ UNCHANGED timeline
    /\ spoiled' = IF call[t].op = "toggleReaction"
                  THEN spoiled \cup {<<call[t].by, call[t].of>>} ELSE spoiled
    /\ failed' = IF Request(t).event.type = "reaction"
                 THEN failed \cup {<<call[t].by, call[t].of>>} ELSE failed
    /\ raced' = (raced \/ Request(t).kind = "writePins")
    /\ UNCHANGED <<receipt, marked, view, flag, reader,
                   now, ops, calls, toggled, wanted, asked, polled>>

\* External: a sync brings a client up to date.
Sync(h) ==
    /\ ~Synced(h)
    /\ view' = [view EXCEPT ![h] = Len(timeline)]
    /\ flag' = [flag EXCEPT ![h] = h \in marked]
    /\ failed' = {f \in failed : f[1] # h \/ ~Client!Annotated(timeline, h, f[2])}
    /\ UNCHANGED <<server, reader, ghost, now, call, ops, calls>>

Tick == /\ now < MaxTime
        /\ now' = now + 1
        /\ UNCHANGED <<server, client, ghost, call, ops, calls>>

ListenersNext ==
    \/ /\ \E t \in Task, o \in Obj, n \in Name :
             \/ "registerMessageListener" \in ops /\ registerMessageListener(t, o, n)
             \/ "unregisterMessageListener" \in ops /\ unregisterMessageListener(t, o, n)
       /\ calls < MaxCalls[ops] /\ calls' = calls + 1
    \/ /\ \/ \E t \in Task : \/ registerEventListener(t) \/ unregisterEventListener(t)
                             \/ Faults /\ ListenerCallFails(t)
          \/ \E p \in pending : \/ eventListener(p, Client!Told(timeline, p[3]))
                                \/ Faults /\ EventSwallowed(p)
       /\ UNCHANGED calls

MessagingNext ==
    \/ \E t \in Task, h \in Handle :
          \/ ModuleSend(t, h) \/ ModuleMedia(t, h) \/ ModuleMessage(t, h)
          \/ ModuleRead(t, h) \/ ModulePoll(t, h)
    \/ \E t \in Task :
          \/ PutEvent(t) \/ PutReceipt(t) \/ PutMark(t) \/ ReadPins(t) \/ WritePins(t)
          \/ Plain(t)
          \/ listMessages(t) \/ ReadEnds(t) \/ ReadResponses(t)
          \/ RequestRefused(t) \/ AnswerLost(t)
    \/ Tick

Next == \/ MessagingNext /\ UNCHANGED hearing
        \/ ListenersNext /\ UNCHANGED chat
        \/ \E h \in Handle :
              /\ Sync(h)
              /\ IF h = Creator THEN Emit((view[h] + 1)..Len(timeline)) ELSE UNCHANGED hearing

Spec == Init /\ [][Next]_vars

----------------------------------------------------------------------------
(* Properties.                                                             *)

\* toggleReaction and pinUnpinMessage flip: whatever calls of a handle
\* overlap, a toggle while its own reaction is being sent included, its
\* reaction to a message stands if it toggled it an odd number of times
\* (unless an answer was lost), and a client that is up to date and has none of
\* its own toggles under way or failed shows it among the senders; the pinned
\* messages are those the calls asked for, unless two calls changed them at
\* once.
TogglesFlip ==
    /\ \A h \in Handle, m \in Originals :
          <<h, m>> \notin spoiled =>
             /\ Client!Annotated(timeline, h, m) <=> <<h, m>> \in toggled
             /\ /\ Synced(h) /\ <<h, m>> \notin failed
                /\ Active("toggleReaction", h) = {}
                => (h \in Client!getReactions(timeline, Known(h), m)
                       <=> <<h, m>> \in toggled)
    /\ ~raced => pins = wanted

\* The unread count a client that is up to date tells: at least one after
\* markAsUnread; after markAsRead no message that the client had then is
\* counted, and only messages that others sent since are (as long as the
\* calls of the handle did not overlap and each began up to date).
UnreadTold ==
    \A h \in Handle :
        LET told == GetChatSummaries(h)
            since == {i \in DOMAIN timeline :
                        /\ i > asked[h].upto /\ timeline[i].sender # h
                        /\ timeline[i].type \in Client!Countable}
        IN  Synced(h) => /\ asked[h].what = "unread" => told.all > 0 /\ told.has
                         /\ asked[h].what = "read" =>
                              told.all <= Cardinality(since) /\ ~flag[h]

\* Reading page after page with the tokens listMessages gives, an
\* application gets every message that was there when it began exactly once,
\* whatever is sent, edited or deleted between two pages.
PagesComplete ==
    \A h \in Handle :
        reader[h].state = "done" =>
            \A i \in 1..reader[h].start :
                /\ timeline[i].type \in {"message", "media", "member", "pollStart"}
                /\ timeline[i].rel # "replace"
                => i \in reader[h].seen \ reader[h].twice

\* getPollResponses counts for each handle the last response it sent before
\* the poll ended, and nothing else, if the poll was not ended while the
\* responses were read: what counts is decided by the events of the room as
\* they were when the first responses were read, not by what the call saw.
PollTally ==
    polled.quiet =>
        \A u \in Handle :
            LET ends  == {i \in Client!Related(timeline, "pollEnd", polled.poll) :
                            i <= polled.upto}
                last  == {e \in ends : \A d \in ends : d <= e}
                valid == {i \in Client!Related(timeline, "pollResponse", polled.poll) :
                            /\ i <= polled.upto /\ timeline[i].sender = u
                            /\ \A e \in last : timeline[i].ts <= timeline[e].ts}
            IN  IF valid = {} THEN polled.best[u] = 0
                ELSE polled.best[u] \in valid /\ \A i \in valid : i <= polled.best[u]

\* getMessage, getMessages and getPinnedMessages show the same text for a
\* message, the one of its last edit that was not deleted, at a client that is
\* up to date (for a file only the first two do, and it stays a file).
ReadersAgree ==
    \A h \in Handle, m \in Originals :
        LET edits == Client!getReplacements(timeline, DOMAIN timeline, m)
            one   == GetMessage(h, m)
            all   == Client!processMessage(timeline, Known(h), m)
            pin   == GetPinnedMessages(h, m)
        IN  Synced(h) =>
              /\ all.text = one.text /\ all.media = one.media
              /\ edits # {} => one.text \in edits /\ \A e \in edits : e <= one.text
              /\ timeline[m].type = "message" => pin.text = one.text /\ one.media = 0

\* Of the calls for a HandleId object no two overlapped and none failed (calls
\* for other objects may overlap them): the client has one event listener for
\* the object exactly while names are registered with it, and every event
\* emitted since the last call reaches each name once and nobody else, if it
\* is of a type that is told and the listener could read it.
DeliveredOnce ==
    \A o \in Obj :
        orderly[o] /\ Calm(o) /\ (\A p \in pending : p[2] # o) =>
            /\ Cardinality({l \in on : l[2] = o}) =
                  (IF messageListeners[o] # {} THEN 1 ELSE 0)
            /\ \A i \in due[o], n \in Name :
                  Cardinality({x \in heard[o] : x[2] = n /\ x[3] = i}) =
                     (IF n \in messageListeners[o] /\ Client!Told(timeline, i) THEN 1 ELSE 0)
=============================================================================
