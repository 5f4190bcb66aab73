---------------------------- MODULE MCMessaging ----------------------------
(* Small instances of Messaging.                                           *)
EXTENDS Messaging, TLC

CONSTANTS alice, bob, t1, t2, o1, o2, n1, n2

Handles == {alice, bob}
Tasks   == {t1, t2}
Objects == {o1, o2}
Names   == {n1, n2}
Chat    == {{"chat"}}

\* Operations that touch the same state, explored together.
Reading  == {"sendMessage", "sendReplyMessage", "createPoll", "markAsRead", "markAsUnread",
             "sendTypingNotification"}
Reacting == {"toggleReaction", "deleteMessage"}
Repinning == {"pinUnpinMessage", "deleteMessage"}
Paging   == {"sendThreadMessage", "editMessage", "deleteMessage", "getMessages"}
Media    == {"sendMedia", "editMediaCaption", "downloadMediaFile"}
Voting   == {"sendPollResponse", "endPoll", "getPollResponses"}
Revoting == {"sendPollResponse", "editPoll", "getPollResponses"}
Hearing  == {"sendMessage", "registerMessageListener", "unregisterMessageListener"}
Ignoring == {"createPoll", "registerMessageListener", "unregisterMessageListener"}
Together == {Reading, Reacting, Repinning, Paging, Media, Voting, Revoting, Hearing, Ignoring}

Budget == [s \in Together |-> CASE s \in {Media, Revoting} -> 2
                                [] s \in {Reacting, Repinning, Hearing} -> 4
                                [] OTHER -> 3]

Symmetric == Permutations(Tasks) \cup Permutations(Names) \cup Permutations(Objects)
=============================================================================
