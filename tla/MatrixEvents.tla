---------------------------- MODULE MatrixEvents ----------------------------
(***************************************************************************)
(* The message events MatrixClientManager sends to a room and what it      *)
(* computes from a timeline of them: reactions, edits, unread counts and   *)
(* the tally of a poll.                                                    *)
(*                                                                         *)
(* An event is named by its place in the room's timeline tl; known is the  *)
(* set of events a client has.  The text of a message is the place of the  *)
(* event that carries it, 0 for none.                                      *)
(***************************************************************************)
EXTENDS Naturals, Sequences, FiniteSets

CONSTANT Handle

----------------------------------------------------------------------------
(* Data.                                                                   *)

Poll     == {"pollStart", "pollResponse", "pollEnd"}
Type     == Poll \cup {"member", "message", "media", "reaction", "redaction"}
Relation == {"none", "thread", "reply", "replace", "annotation", "reference"}
Mentions == [users : SUBSET Handle, chat : BOOLEAN]
Event    == [type : Type, sender : Handle, rel : Relation, of : Nat,
             mentions : Mentions, ts : Nat, txn : Nat]

\* MatrixMessagingService.handleMentions: handles by name, or the whole chat.
handleMentions(ms) == [users |-> ms \cap Handle, chat |-> "chat" \in ms]
Nobody             == handleMentions({})

\* buildMessageContent, and the content of a file.
buildMessageContent(ms) == [type |-> "message", mentions |-> handleMentions(ms)]
handleFile(ms)          == [type |-> "media", mentions |-> handleMentions(ms)]

NewEvent(h, content, rel, of) ==
    [type |-> content.type, sender |-> h, rel |-> rel, of |-> of,
     mentions |-> content.mentions, ts |-> 0, txn |-> 0]

Bare(h, type, rel, of) ==
    NewEvent(h, [type |-> type, mentions |-> Nobody], rel, of)

----------------------------------------------------------------------------
(* Sending.                                                                *)

sendMessage(h, content)           == NewEvent(h, content, "none", 0)
sendThreadMessage(h, of, content) == NewEvent(h, content, "thread", of)
sendReplyMessage(h, of, content)  == NewEvent(h, content, "reply", of)
\* The event of an edit has no mentions: they are in its new content.
editMessage(h, of)      == Bare(h, "message", "replace", of)
deleteMessage(h, of)    == Bare(h, "redaction", "none", of)
createPoll(h)           == Bare(h, "pollStart", "none", 0)
sendPollResponse(h, of) == Bare(h, "pollResponse", "reference", of)
endPoll(h, of)          == Bare(h, "pollEnd", "reference", of)

\* Poll events are sent with the time of day as their transaction, and the
\* server (external) answers a transaction it has seen with the old event.
Stamped(e, now) == IF e.type \in Poll THEN [e EXCEPT !.txn = now] ELSE e
Repeated(tl, e) ==
    /\ e.txn # 0
    /\ \E i \in DOMAIN tl : /\ tl[i].type = e.type /\ tl[i].sender = e.sender
                            /\ tl[i].txn = e.txn

----------------------------------------------------------------------------
(* Reactions.                                                              *)

Redacted(tl, known, i) == \E j \in known : tl[j].type = "redaction" /\ tl[j].of = i

Reactions(tl, known, m) ==
    {i \in known : /\ tl[i].type = "reaction" /\ tl[i].of = m
                   /\ ~Redacted(tl, known, i)}

\* External: a second reaction of the same handle is refused.
Annotated(tl, h, m) == \E i \in Reactions(tl, DOMAIN tl, m) : tl[i].sender = h

\* Mutant: anyone's reaction is taken for the handle's.
AnyReaction(tl, known, undone, h, m) == Reactions(tl, known, m) \ undone

\* The handle's reactions that toggleReaction finds: those it is already
\* removing (undone) have lost their content.
OwnReaction(tl, known, undone, h, m) ==
    {i \in Reactions(tl, known, m) \ undone : tl[i].sender = h}

\* The event toggleReaction sends: the redaction of a reaction found, or a
\* new reaction.
toggleReaction(tl, known, undone, h, m) ==
    LET mine == OwnReaction(tl, known, undone, h, m)
    IN  IF mine # {} THEN {deleteMessage(h, i) : i \in mine}
        ELSE {Bare(h, "reaction", "annotation", m)}

getReactions(tl, known, m) == {tl[i].sender : i \in Reactions(tl, known, m)}

----------------------------------------------------------------------------
(* What a message shows.                                                   *)

\* MessageTransformer.fromMatrixToEntity, for the event i.
fromMatrixToEntity(tl, known, i) ==
    [media  |-> IF tl[i].type = "media" /\ ~Redacted(tl, known, i) THEN i ELSE 0,
     text   |-> IF Redacted(tl, known, i) THEN 0 ELSE i,
     thread |-> IF tl[i].rel = "thread" THEN tl[i].of ELSE 0]

getReplacements(tl, known, m) ==
    {i \in known : /\ tl[i].type = "message" /\ tl[i].rel = "replace"
                   /\ tl[i].of = m /\ ~Redacted(tl, known, i)}

\* Mutant: the first edit.
FirstEdit(tl, edits) == CHOOSE i \in edits : \A j \in edits : i <= j

\* The last of the edits, sorted by their time.
LatestEdit(tl, edits) ==
    CHOOSE i \in edits : \A j \in edits :
        tl[j].ts < tl[i].ts \/ (tl[j].ts = tl[i].ts /\ j <= i)

\* An edit of a file changes its caption, any other edit takes its place.
Edited(shown, edit) ==
    IF shown.media # 0 THEN [shown EXCEPT !.text = edit]
    ELSE [media |-> 0, text |-> edit, thread |-> 0]

\* get: the event and its edits as the client knows them.
get(tl, known, m) ==
    LET edits == getReplacements(tl, known, m)
        shown == fromMatrixToEntity(tl, known, m)
    IN  IF edits = {} THEN shown ELSE Edited(shown, LatestEdit(tl, edits))

\* list: the event comes from the server, its edits from the client; an
\* edited message stays in its thread.
processMessage(tl, known, m) ==
    LET edits == getReplacements(tl, known, m)
        shown == fromMatrixToEntity(tl, DOMAIN tl, m)
    IN  IF edits = {} THEN shown
        ELSE [Edited(shown, LatestEdit(tl, edits)) EXCEPT !.thread = shown.thread]

\* getPinnedMessages: an edit takes the place of a file, too.
ProcessPinned(tl, known, m) ==
    LET edits == getReplacements(tl, known, m)
    IN  IF edits = {} THEN fromMatrixToEntity(tl, known, m)
        ELSE [media |-> 0, text |-> LatestEdit(tl, edits), thread |-> 0]

\* listMessages leaves out edits, reactions and what belongs to a poll.  A
\* redacted edit has lost the relation that made it one.
Listable(tl, i) ==
    /\ tl[i].type \in {"message", "media", "member", "pollStart"}
    /\ tl[i].rel = "replace" => Redacted(tl, DOMAIN tl, i)

\* The types of which an event listener tells the application.
Told(tl, i) == tl[i].type \in {"message", "media", "reaction", "redaction"}

----------------------------------------------------------------------------
(* Unread counts.                                                          *)

Countable == {"message", "media", "member", "pollStart", "reaction"}

\* External: a handle has read what it sent itself.
LastRead(tl, known, h, receipt) ==
    LET read == {i \in known : i = receipt \/ tl[i].sender = h}
    IN  CHOOSE i \in read \cup {0} : \A j \in read : j <= i

\* getChatSummaries, for a client with these events.
getChatSummaries(tl, known, h, receipt, marked) ==
    LET unread   == {i \in known : /\ i > LastRead(tl, known, h, receipt)
                                   /\ tl[i].type \in Countable}
        mentions == {i \in unread : \/ tl[i].mentions.chat
                                    \/ h \in tl[i].mentions.users}
    IN  [has      |-> unread # {} \/ marked,
         all      |-> IF unread # {} THEN Cardinality(unread)
                      ELSE IF marked THEN 1 ELSE 0,
         mentions |-> Cardinality(mentions),
         threads  |-> [m \in {tl[i].of : i \in {j \in unread : tl[j].rel = "thread"}}
                         |-> Cardinality({i \in unread : /\ tl[i].rel = "thread"
                                                         /\ tl[i].of = m})]]

----------------------------------------------------------------------------
(* Polls.                                                                  *)

Related(tl, type, p) == {i \in DOMAIN tl : tl[i].type = type /\ tl[i].of = p}

\* The newest end of the poll; the server gives the newest event first.
PollEndTimestamp(tl, p) ==
    LET ends == Related(tl, "pollEnd", p)
    IN  IF ends = {} THEN 0
        ELSE tl[CHOOSE i \in ends : \A j \in ends : j <= i].ts

\* Mutant: a response as old as the one counted replaces it.
CountOlder(tl, best, ended, i) ==
    IF \/ ended # 0 /\ tl[i].ts > ended
       \/ best[tl[i].sender] # 0 /\ tl[best[tl[i].sender]].ts < tl[i].ts
    THEN best
    ELSE [best EXCEPT ![tl[i].sender] = i]

\* One response counted into best, the response each handle has so far.
CountResponse(tl, best, ended, i) ==
    IF \/ ended # 0 /\ tl[i].ts > ended
       \/ best[tl[i].sender] # 0 /\ tl[best[tl[i].sender]].ts >= tl[i].ts
    THEN best
    ELSE [best EXCEPT ![tl[i].sender] = i]
=============================================================================
