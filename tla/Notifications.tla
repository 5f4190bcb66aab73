--------------------------- MODULE Notifications ---------------------------
(***************************************************************************)
(* The notification settings of one handle: DefaultNotificationService     *)
(* over the push rules that MatrixClientManager reads and writes.          *)
(*                                                                         *)
(* The home server keeps the rules.  A setting is spread over several of   *)
(* them and is written one request at a time, so calls of the application  *)
(* that overlap interleave rule by rule and a call that fails leaves its   *)
(* prefix behind.                                                          *)
(*                                                                         *)
(* External: the home server and how it evaluates push rules (the first    *)
(* enabled rule that matches decides; override rules before underride      *)
(* ones; a user's own rules before the server's).                          *)
(***************************************************************************)
EXTENDS Naturals, Sequences

CONSTANTS
    Task,       \* calls that may be under way
    Recipient,  \* chats with a rule of their own
    Faults,     \* requests may fail
    MaxCalls

\* The rule of a chat is named after its room, which no rule of the server is.
ASSUME NotificationsAssumption ==
    /\ Faults \in BOOLEAN /\ MaxCalls \in Nat /\ Recipient # {}
    /\ Recipient \cap {"message", "encrypted", "is_user_mention", "roomnotif",
                       "is_room_mention", "contains_display_name", "invite_for_me",
                       "room_one_to_one", "encrypted_room_one_to_one",
                       "chat", "event", "elsewhere"} = {}

VARIABLES
    rules,      \* server: the push rules
    todo,       \* requests each call still has to make
    level,      \* the level, or TRUE/FALSE, each call was given
    what,       \* what each call sets
    calls,
    asked       \* history: the setting the last call left, if it ran alone

vars == <<rules, todo, level, what, calls, asked>>

----------------------------------------------------------------------------
(* Data.                                                                   *)

MessageLevel == {"allMessages", "mentions", "mute"}
Underride    == {"message", "encrypted"}
Mention      == {"is_user_mention", "roomnotif", "is_room_mention"}
OneToOne     == {"room_one_to_one", "encrypted_room_one_to_one"}  \* never written
RuleId       == Underride \cup Mention \cup OneToOne \cup
                {"contains_display_name", "invite_for_me"} \cup Recipient
Rule         == [exists : BOOLEAN, notify : BOOLEAN, enabled : BOOLEAN]

Setting == {"chat", "event"} \cup Recipient     \* what a call may set
Value   == MessageLevel \cup {"on", "off", "clear", "unknown"}

\* A request: actions, enabled, add or delete; ignore: its error is.
Write == [rule : RuleId, set : {"actions", "enabled", "add", "delete", "read"},
          on : BOOLEAN, ignore : BOOLEAN]

Put(rule, set, on) == [rule |-> rule, set |-> set, on |-> on, ignore |-> FALSE]

NoRule   == [exists |-> FALSE, notify |-> FALSE, enabled |-> FALSE]
Notifies == [exists |-> TRUE, notify |-> TRUE, enabled |-> TRUE]

Init == /\ rules \in [RuleId -> {NoRule, Notifies}]
        /\ \A r \in RuleId : /\ r \in Recipient => ~rules[r].exists
                             /\ r \notin Recipient \cup {"invite_for_me"}
                                  => rules[r].exists
        /\ todo = [t \in Task |-> <<>>]
        /\ level = [t \in Task |-> "unknown"]
        /\ what = [t \in Task |-> "chat"]
        /\ calls = 0
        /\ asked = [s \in Setting |-> "unknown"]

----------------------------------------------------------------------------
(* MatrixClientManager: one request each.                                  *)

addPushRule(r, notify)      == [rules EXCEPT ![r] =
                                  [exists |-> TRUE, notify |-> notify, enabled |-> TRUE]]
deletePushRule(r)           == [rules EXCEPT ![r] = NoRule]
setPushRuleEnabled(r, on)   == [rules EXCEPT ![r].enabled = on]
setPushRuleActions(r, on)   == [rules EXCEPT ![r].notify = on]

\* External: only adding works on a rule that is not there.
Possible(w) == w.set \in {"add", "read"} \/ rules[w.rule].exists

Effect(w) == CASE w.set = "add"     -> addPushRule(w.rule, w.on)
               [] w.set = "delete"  -> deletePushRule(w.rule)
               [] w.set = "enabled" -> setPushRuleEnabled(w.rule, w.on)
               [] w.set = "actions" -> setPushRuleActions(w.rule, w.on)
               [] OTHER             -> rules

----------------------------------------------------------------------------
(* DefaultNotificationService: the requests of each operation.             *)

Both(r, notify, on) == <<Put(r, "actions", notify), Put(r, "enabled", on)>>

\* Mutant: the rule for encrypted messages is left as it is.
NoEncrypted(l) ==
    LET all == l = "allMessages" IN
    Both("message", all, all) \o Both("contains_display_name", all, all)
      \o Both("is_user_mention", l # "mute", l = "mentions")
      \o Both("roomnotif", l # "mute", l = "mentions")
      \o Both("is_room_mention", l # "mute", l = "mentions")

\* Twelve requests.  The rules for mentions carry an action for allMessages
\* too, but are enabled for mentions only.
setDefaultChatRules(l) ==
    LET all     == l = "allMessages"
        mention == l \in {"allMessages", "mentions"}
        only    == l = "mentions" IN
    Both("message", all, all) \o Both("encrypted", all, all)
      \o Both("contains_display_name", all, all)
      \o Both("is_user_mention", mention, only) \o Both("roomnotif", mention, only)
      \o Both("is_room_mention", mention, only)

\* Once the rules are read: the rule is added only to switch it on; actions
\* are written only if they change.
setInviteForMeEnabled(rule, enabled) ==
    CASE ~rule.exists /\ enabled  -> <<Put("invite_for_me", "add", TRUE)>>
      [] ~rule.exists /\ ~enabled -> <<>>
      [] OTHER -> (IF rule.notify # enabled
                   THEN <<Put("invite_for_me", "actions", enabled)>> ELSE <<>>)
                  \o <<Put("invite_for_me", "enabled", enabled)>>

setDefaultEventRules == <<Put("invite_for_me", "read", TRUE)>>

clearRecipientChatRules(r) == <<Put(r, "delete", TRUE)>>

\* Mutant: the new rule goes first.
DeletedLast(r, l) ==
    <<Put(r, "add", l = "allMessages"),
      [Put(r, "delete", TRUE) EXCEPT !.ignore = TRUE]>>

\* The old rule goes first, and whether that works does not matter.
setRecipientChatRules(r, l) ==
    <<[Put(r, "delete", TRUE) EXCEPT !.ignore = TRUE],
      Put(r, "add", l = "allMessages")>>

\* getSettings reads the actions of two rules, enabled or not.
DefaultLevel == IF rules["message"].notify THEN "allMessages"
                ELSE IF rules["is_user_mention"].notify THEN "mentions" ELSE "mute"

isInviteForMeEnabled == /\ rules["invite_for_me"].exists
                        /\ rules["invite_for_me"].enabled
                        /\ rules["invite_for_me"].notify

RecipientLevel(r) == IF ~rules[r].exists \/ ~rules[r].enabled THEN "clear"
                     ELSE IF rules[r].notify THEN "allMessages" ELSE "mute"

getSettings(s) == CASE s = "chat"  -> DefaultLevel
                    [] s = "event" -> IF isInviteForMeEnabled THEN "on" ELSE "off"
                    [] OTHER       -> RecipientLevel(s)

----------------------------------------------------------------------------
(* External: whether the home server sends a notification for a message.   *)

\* says: the rules for mentions that the text would match; of an encrypted
\* message the server does not see it.  A room that is nobody's Recipient is
\* elsewhere.  (Texts with the local part of the handle in them, for which
\* the server has one more rule, are left out.)
Message == [room : Recipient \cup {"elsewhere"}, encrypted : BOOLEAN,
            oneToOne : BOOLEAN, says : SUBSET (Mention \cup {"contains_display_name"})]

Matching(m) ==
    IF m.encrypted
    THEN {"encrypted"} \cup {r \in {"encrypted_room_one_to_one"} : m.oneToOne}
    ELSE {"message"} \cup m.says \cup {r \in {"room_one_to_one"} : m.oneToOne}

RuleOrder == <<"is_user_mention", "contains_display_name", "is_room_mention", "roomnotif",
               "encrypted_room_one_to_one", "room_one_to_one", "message", "encrypted">>

InForce(r)    == rules[r].exists /\ rules[r].enabled
Applies(m, r) == r \in Matching(m) /\ InForce(r)

\* The first rule that applies decides; that of the room comes before all.
Pushes(m) ==
    IF m.room \in Recipient /\ InForce(m.room) THEN rules[m.room].notify
    ELSE \E i \in 1 .. 8 :
            /\ Applies(m, RuleOrder[i]) /\ rules[RuleOrder[i]].notify
            /\ \A j \in 1 .. (i - 1) : ~Applies(m, RuleOrder[j])

----------------------------------------------------------------------------
(* The use cases, and NotificationsModule.                                 *)

Idle(t) == todo[t] = <<>>

\* Another call that sets the same is under way.
Overlaps(t, s) == \E u \in Task \ {t} : ~Idle(u) /\ what[u] = s

Begin(t, s, l, requests) ==
    /\ Idle(t) /\ calls < MaxCalls
    /\ todo' = [todo EXCEPT ![t] = requests]
    /\ level' = [level EXCEPT ![t] = l] /\ what' = [what EXCEPT ![t] = s]
    /\ calls' = calls + 1
    /\ asked' = [asked EXCEPT ![s] = IF Overlaps(t, s) THEN "unknown" ELSE "pending"]
    /\ UNCHANGED rules

SetDefaultChatRules(t, l) == Begin(t, "chat", l, setDefaultChatRules(l))
SetDefaultEventRules(t, on) ==
    Begin(t, "event", IF on THEN "on" ELSE "off", setDefaultEventRules)
SetRecipientChatRules(t, r, l) == Begin(t, r, l, setRecipientChatRules(r, l))
ClearRecipientChatRules(t, r) == Begin(t, r, "clear", clearRecipientChatRules(r))

NotificationsModule(t) ==
    \/ \E l \in MessageLevel : SetDefaultChatRules(t, l)
    \/ \E on \in BOOLEAN : SetDefaultEventRules(t, on)
    \/ \E r \in Recipient : \/ \E l \in MessageLevel : SetRecipientChatRules(t, r, l)
                            \/ ClearRecipientChatRules(t, r)

\* What is left to do once the first request has been answered.
Rest(t) == IF Head(todo[t]).set = "read"
           THEN setInviteForMeEnabled(rules["invite_for_me"], level[t] = "on")
           ELSE Tail(todo[t])

\* asked is settled by the last request of a call nothing overlapped.
Settle(t, value) ==
    asked' = IF asked[what[t]] = "unknown" THEN asked
             ELSE [asked EXCEPT ![what[t]] = value]

Request(t) ==
    /\ ~Idle(t) /\ Possible(Head(todo[t]))
    /\ rules' = Effect(Head(todo[t]))
    /\ todo' = [todo EXCEPT ![t] = Rest(t)]
    /\ IF Rest(t) = <<>> THEN Settle(t, level[t]) ELSE UNCHANGED asked
    /\ UNCHANGED <<level, what, calls>>

\* A request that fails ends the call, unless its error is ignored.
RequestFails(t) ==
    /\ ~Idle(t) /\ (Faults \/ ~Possible(Head(todo[t])))
    /\ IF Head(todo[t]).ignore
       THEN todo' = [todo EXCEPT ![t] = Tail(@)] /\ UNCHANGED asked
       ELSE todo' = [todo EXCEPT ![t] = <<>>] /\ Settle(t, "unknown")
    /\ UNCHANGED <<rules, level, what, calls>>

Next == \E t \in Task : NotificationsModule(t) \/ Request(t) \/ RequestFails(t)

Spec == Init /\ [][Next]_vars

----------------------------------------------------------------------------
(* Properties.                                                             *)

(* The push rules, the requests the calls of DefaultNotificationService    *)
(* have left and what they were given are well formed.                     *)
TypeOK == /\ rules \in [RuleId -> Rule]
          /\ todo \in [Task -> Seq(Write)]
          /\ level \in [Task -> Value]
          /\ what \in [Task -> Setting]
          /\ calls \in Nat
          /\ asked \in [Setting -> Value \cup {"pending"}]

(* getSettings reports what the last call set, if that call succeeded and  *)
(* no other call for the same setting overlapped it; "mentions" is not     *)
(* kept for a single recipient and is reported as mute.                    *)
SettingReadBack ==
    \A s \in Setting : asked[s] \notin {"unknown", "pending"} =>
        getSettings(s) = IF s \in Recipient /\ asked[s] = "mentions"
                         THEN "mute" ELSE asked[s]

(* The settings decide what notifies, by the first push rule that applies *)
(* to a message.  A chat with rules of its own goes by them alone.  For    *)
(* the others the default is missed by no message: at allMessages every    *)
(* message notifies, encrypted or not and whatever it says, and at         *)
(* mentions one the server can see a mention in.  And, in rooms of more    *)
(* than two, it lets nothing else through: nothing at mute, and at         *)
(* mentions only mentions.  (In a room of two the rules that               *)
(* setDefaultChatRules does not write decide: every message notifies.)     *)
SettingHonoured ==
    \A m \in Message :
        LET own     == m.room \in Recipient /\ asked[m.room] \in MessageLevel
            default == /\ m.room = "elsewhere" \/ asked[m.room] = "clear"
                       /\ asked["chat"] \in MessageLevel
            l       == asked["chat"]
            mention == ~m.encrypted /\ m.says \cap Mention # {}
        IN  /\ own => (Pushes(m) <=> asked[m.room] = "allMessages")
            /\ default /\ (l = "allMessages" \/ (l = "mentions" /\ mention)) => Pushes(m)
            /\ default /\ Pushes(m) /\ ~m.oneToOne
                   => l = "allMessages" \/ (l = "mentions" /\ mention)
=============================================================================
