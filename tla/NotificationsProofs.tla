------------------------ MODULE NotificationsProofs ------------------------
(***************************************************************************)
(* Proofs about Notifications for every set of calls and of chats, every   *)
(* number of calls, with and without faults: whatever else is under way, a *)
(* setting that was written alone is read back as it was given and decides *)
(* what notifies.                                                          *)
(*                                                                         *)
(* A setting has its own rules (Footprint), and calls for other settings   *)
(* stay out of them (Owned).  While a call for a setting is alone, each    *)
(* rule it is about either has its final value or is still to be written   *)
(* (Underway); once it is over all of them have (Reached).                 *)
(***************************************************************************)
EXTENDS Notifications, SequenceTheorems, TLAPS

----------------------------------------------------------------------------
(* The inductive invariant.                                                *)

ChatRule == Underride \cup Mention \cup {"contains_display_name"}

Footprint(s) == IF s = "chat" THEN ChatRule
                ELSE IF s = "event" THEN {"invite_for_me"} ELSE {s}

\* The requests a call for s may make.
Owned(s) == {w \in Write :
               /\ w.rule \in Footprint(s)
               /\ s = "chat" => w.set \in {"actions", "enabled"}
               /\ s # "event" => w.set # "read"}

\* What a level means for a rule, and the requests that say so.
WantsNotify(r, l)  == l = "allMessages" \/ (r \in Mention /\ l = "mentions")
WantsEnabled(r, l) == \/ r \in Mention /\ l = "mentions"
                      \/ r \notin Mention /\ l = "allMessages"
Plan(l) == {Put(r, "actions", WantsNotify(r, l)) : r \in ChatRule} \cup
           {Put(r, "enabled", WantsEnabled(r, l)) : r \in ChatRule}

\* The rules f have what the request w asks for.
Done(f, w) == /\ w.set = "actions" => f[w.rule].notify = w.on
              /\ w.set = "enabled" => f[w.rule].enabled = w.on

Occurs(w, q) == \E i \in 1 .. Len(q) : q[i] = w

Invite == "invite_for_me"

\* A call that set s to l, alone, has the requests q left.
Underway(f, s, l, q) ==
    IF s = "chat"
    THEN /\ l \in MessageLevel /\ q \in Seq(Plan(l))
         /\ \A w \in Plan(l) : Done(f, w) \/ Occurs(w, q)
    ELSE IF s = "event"
    THEN /\ l \in {"on", "off"}
         /\ \/ q = <<Put(Invite, "read", TRUE)>>
            \/ q = <<Put(Invite, "add", TRUE)>> /\ l = "on"
            \/ /\ q = <<Put(Invite, "actions", l = "on"), Put(Invite, "enabled", l = "on")>>
               /\ f[Invite].exists
            \/ /\ q = <<Put(Invite, "enabled", l = "on")>>
               /\ f[Invite].exists /\ f[Invite].notify = (l = "on")
    ELSE \/ /\ l \in MessageLevel
            /\ \/ q = <<[Put(s, "delete", TRUE) EXCEPT !.ignore = TRUE],
                        Put(s, "add", l = "allMessages")>>
               \/ q = <<Put(s, "add", l = "allMessages")>>
         \/ l = "clear" /\ q = <<Put(s, "delete", TRUE)>>

\* The rules f are those of the setting s at v.
Reached(f, s, v) ==
    IF s = "chat"
    THEN v \in MessageLevel /\ \A w \in Plan(v) : Done(f, w)
    ELSE IF s = "event"
    THEN /\ v \in {"on", "off"}
         /\ (f[Invite].exists /\ f[Invite].enabled /\ f[Invite].notify) <=> v = "on"
    ELSE \/ v = "clear" /\ f[s] = NoRule
         \/ /\ v \in MessageLevel
            /\ f[s] = [exists |-> TRUE, notify |-> v = "allMessages", enabled |-> TRUE]

Inv == /\ TypeOK
       /\ \A r \in ChatRule : rules[r].exists
       /\ \A r \in OneToOne : rules[r] = Notifies
       /\ \A t \in Task : todo[t] \in Seq(Owned(what[t]))
       /\ \A t \in Task : ~Idle(t) => asked[what[t]] \in {"unknown", "pending"}
       /\ \A t, u \in Task :
             ~Idle(t) /\ ~Idle(u) /\ what[t] = what[u] /\ asked[what[t]] = "pending" => t = u
       /\ \A t \in Task : ~Idle(t) /\ asked[what[t]] = "pending" =>
             Underway(rules, what[t], level[t], todo[t])
       /\ \A s \in Setting : asked[s] \notin {"unknown", "pending"} =>
             Reached(rules, s, asked[s])

----------------------------------------------------------------------------
(* Rules and requests.                                                     *)

\* Settings have no rule in common.
LEMMA Footprints ==
    ASSUME NotificationsAssumption
    PROVE  /\ \A s \in Setting : Footprint(s) \subseteq RuleId
           /\ \A s, u \in Setting : s # u => Footprint(s) \cap Footprint(u) = {}
           /\ \A s \in Setting : s \notin {"chat", "event"} => s \in Recipient
           /\ ChatRule \cap (Recipient \cup {"invite_for_me"}) = {}
           /\ OneToOne \subseteq RuleId /\ \A s \in Setting : Footprint(s) \cap OneToOne = {}
<1>1. /\ ChatRule \subseteq RuleId /\ "invite_for_me" \in RuleId
      /\ ChatRule \cap (Recipient \cup {"invite_for_me"}) = {}
  BY DEF ChatRule, RuleId, Underride, Mention, NotificationsAssumption
<1>2. \A s \in Setting : s \notin {"chat", "event"} => s \in Recipient /\ s \in RuleId
  BY DEF Setting, RuleId
<1>3. "invite_for_me" \notin Recipient
  BY DEF NotificationsAssumption
<1>4. OneToOne \subseteq RuleId /\ OneToOne \cap (ChatRule \cup {"invite_for_me"} \cup Recipient) = {}
  BY DEF NotificationsAssumption, RuleId, OneToOne, ChatRule, Underride, Mention
<1> QED
  BY <1>1, <1>2, <1>3, <1>4 DEF Footprint

\* The requests of a plan, and what they are about.
LEMMA PlanTyped ==
    ASSUME NEW l
    PROVE  /\ Plan(l) \subseteq Owned("chat")
           /\ \A w \in Plan(l) : /\ w \in Write /\ w.rule \in ChatRule /\ ~w.ignore
                                 /\ w.set \in {"actions", "enabled"}
           /\ \A v, w \in Plan(l) : v.rule = w.rule /\ v.set = w.set => v.on = w.on
           /\ \A r \in ChatRule : \E w \in Plan(l) :
                 w.rule = r /\ w.set = "actions" /\ w.on = WantsNotify(r, l)
           /\ \A r \in ChatRule : \E w \in Plan(l) :
                 w.rule = r /\ w.set = "enabled" /\ w.on = WantsEnabled(r, l)
<1>1. /\ \A r : WantsNotify(r, l) \in BOOLEAN
      /\ \A r : WantsEnabled(r, l) \in BOOLEAN
  BY DEF WantsNotify, WantsEnabled
<1>2. ChatRule \subseteq RuleId
  BY DEF ChatRule, RuleId
<1>3. ASSUME NEW w \in Plan(l)
      PROVE  /\ w \in Write /\ w.rule \in ChatRule /\ ~w.ignore
             /\ \/ w.set = "actions" /\ w.on = WantsNotify(w.rule, l)
                \/ w.set = "enabled" /\ w.on = WantsEnabled(w.rule, l)
  <2>1. CASE \E r \in ChatRule : w = Put(r, "actions", WantsNotify(r, l))
    BY <1>1, <1>2, <2>1 DEF Put, Write
  <2>2. CASE \E r \in ChatRule : w = Put(r, "enabled", WantsEnabled(r, l))
    BY <1>1, <1>2, <2>2 DEF Put, Write
  <2> QED
    BY <1>3, <2>1, <2>2 DEF Plan
<1>4. /\ \A r \in ChatRule : Put(r, "actions", WantsNotify(r, l)) \in Plan(l)
      /\ \A r \in ChatRule : Put(r, "enabled", WantsEnabled(r, l)) \in Plan(l)
  BY DEF Plan
<1>5. \A r, x, on : /\ Put(r, x, on).rule = r /\ Put(r, x, on).set = x
                    /\ Put(r, x, on).on = on
  BY DEF Put
<1>6. Plan(l) \subseteq Owned("chat")
  BY <1>3 DEF Owned, Footprint
<1>7. \A v, w \in Plan(l) : v.rule = w.rule /\ v.set = w.set => v.on = w.on
  <2> SUFFICES ASSUME NEW v \in Plan(l), NEW w \in Plan(l), v.rule = w.rule, v.set = w.set
               PROVE  v.on = w.on
    OBVIOUS
  <2>1. CASE v.set = "actions"
    BY <1>3, <2>1
  <2>2. CASE v.set = "enabled"
    BY <1>3, <2>2
  <2> QED
    BY <1>3, <2>1, <2>2
<1> QED
  BY <1>3, <1>4, <1>5, <1>6, <1>7

\* A request changes its own rule only, as it says.
LEMMA EffectOf ==
    ASSUME rules \in [RuleId -> Rule], NEW w \in Write
    PROVE  /\ Effect(w) \in [RuleId -> Rule]
           /\ \A r \in RuleId \ {w.rule} : Effect(w)[r] = rules[r]
           /\ w.set = "add" => Effect(w)[w.rule] = [exists |-> TRUE, notify |-> w.on, enabled |-> TRUE]
           /\ w.set = "delete" => Effect(w)[w.rule] = NoRule
           /\ w.set = "read" => Effect(w) = rules
           /\ w.set = "actions" => /\ Effect(w)[w.rule].notify = w.on
                                   /\ Effect(w)[w.rule].enabled = rules[w.rule].enabled
                                   /\ Effect(w)[w.rule].exists = rules[w.rule].exists
           /\ w.set = "enabled" => /\ Effect(w)[w.rule].enabled = w.on
                                   /\ Effect(w)[w.rule].notify = rules[w.rule].notify
                                   /\ Effect(w)[w.rule].exists = rules[w.rule].exists
<1>0. /\ w.rule \in RuleId /\ w.on \in BOOLEAN
      /\ w.set \in {"actions", "enabled", "add", "delete", "read"}
  BY DEF Write
<1>1. CASE w.set = "add"
  <2>1. Effect(w) = [rules EXCEPT ![w.rule] = [exists |-> TRUE, notify |-> w.on, enabled |-> TRUE]]
    BY <1>1 DEF Effect, addPushRule
  <2> QED
    BY <1>0, <1>1, <2>1 DEF Rule
<1>2. CASE w.set = "delete"
  <2>1. Effect(w) = [rules EXCEPT ![w.rule] = NoRule]
    BY <1>2 DEF Effect, deletePushRule
  <2> QED
    BY <1>0, <1>2, <2>1 DEF Rule, NoRule
<1>3. CASE w.set = "enabled"
  <2>1. Effect(w) = [rules EXCEPT ![w.rule].enabled = w.on]
    BY <1>3 DEF Effect, setPushRuleEnabled
  <2> QED
    BY <1>0, <1>3, <2>1 DEF Rule
<1>4. CASE w.set = "actions"
  <2>1. Effect(w) = [rules EXCEPT ![w.rule].notify = w.on]
    BY <1>4 DEF Effect, setPushRuleActions
  <2> QED
    BY <1>0, <1>4, <2>1 DEF Rule
<1>5. CASE w.set = "read"
  <2>1. Effect(w) = rules
    BY <1>5 DEF Effect
  <2> QED
    BY <1>5, <2>1
<1> QED
  BY <1>0, <1>1, <1>2, <1>3, <1>4, <1>5

\* Rules outside its footprint mean nothing to a setting.
LEMMA Frame ==
    ASSUME NEW f, NEW g, NEW s, \A r \in Footprint(s) : f[r] = g[r]
    PROVE  /\ \A l, q : Underway(f, s, l, q) => Underway(g, s, l, q)
           /\ \A v : Reached(f, s, v) => Reached(g, s, v)
<1>1. CASE s = "chat"
  <2>1. \A l : \A w \in Plan(l) : Done(f, w) => Done(g, w)
    BY <1>1, PlanTyped DEF Footprint, Done
  <2> QED
    BY <1>1, <2>1 DEF Underway, Reached
<1>2. CASE s = "event"
  <2>1. f[Invite] = g[Invite]
    BY <1>2 DEF Footprint, Invite
  <2> QED
    BY <1>2, <2>1 DEF Underway, Reached
<1>3. CASE s \notin {"chat", "event"}
  <2>1. f[s] = g[s]
    BY <1>3 DEF Footprint
  <2> QED
    BY <1>3, <2>1 DEF Underway, Reached
<1> QED
  BY <1>1, <1>2, <1>3

----------------------------------------------------------------------------
(* Sequences of requests.                                                  *)

\* What is in one of two sequences is in the two together.
LEMMA OccursConcat ==
    ASSUME NEW S, NEW p \in Seq(S), NEW q \in Seq(S), NEW w, Occurs(w, p) \/ Occurs(w, q)
    PROVE  Occurs(w, p \o q)
<1>1. /\ Len(p \o q) = Len(p) + Len(q) /\ Len(p) \in Nat /\ Len(q) \in Nat
      /\ \A i \in 1 .. Len(p) + Len(q) :
            (p \o q)[i] = IF i <= Len(p) THEN p[i] ELSE q[i - Len(p)]
  BY ConcatProperties, LenProperties
<1>2. CASE Occurs(w, p)
  <2>1. PICK i \in 1 .. Len(p) : p[i] = w
    BY <1>2 DEF Occurs
  <2>2. i \in 1 .. Len(p) + Len(q) /\ i <= Len(p)
    BY <1>1
  <2>3. (p \o q)[i] = w
    BY <1>1, <2>1, <2>2
  <2> QED
    BY <1>1, <2>2, <2>3 DEF Occurs
<1>3. CASE Occurs(w, q)
  <2>1. PICK i \in 1 .. Len(q) : q[i] = w
    BY <1>3 DEF Occurs
  <2>2. /\ i + Len(p) \in 1 .. Len(p) + Len(q) /\ ~(i + Len(p) <= Len(p))
        /\ (i + Len(p)) - Len(p) = i
    BY <1>1
  <2>3. (p \o q)[i + Len(p)] = w
    BY <1>1, <2>1, <2>2
  <2> QED
    BY <1>1, <2>2, <2>3 DEF Occurs
<1> QED
  BY <1>2, <1>3

\* What is in a sequence is its head or in its tail.
LEMMA OccursTail ==
    ASSUME NEW S, NEW q \in Seq(S), q # <<>>
    PROVE  /\ Head(q) \in S /\ Tail(q) \in Seq(S)
           /\ \A w : Occurs(w, q) => w = Head(q) \/ Occurs(w, Tail(q))
<1>1. /\ Head(q) \in S /\ Tail(q) \in Seq(S) /\ Len(Tail(q)) = Len(q) - 1
      /\ \A i \in 1 .. Len(Tail(q)) : Tail(q)[i] = q[i + 1]
      /\ Len(q) \in Nat
  BY HeadTailProperties, LenProperties
<1>2. Head(q) = q[1]
  OBVIOUS
<1>3. ASSUME NEW w, Occurs(w, q), w # Head(q) PROVE Occurs(w, Tail(q))
  <2>1. PICK i \in 1 .. Len(q) : q[i] = w
    BY <1>3 DEF Occurs
  <2>2. i # 1
    BY <1>2, <1>3, <2>1
  <2>3. i - 1 \in 1 .. Len(Tail(q)) /\ (i - 1) + 1 = i
    BY <1>1, <2>2
  <2>4. Tail(q)[i - 1] = w
    BY <1>1, <2>1, <2>3
  <2> QED
    BY <2>3, <2>4 DEF Occurs
<1> QED
  BY <1>1, <1>3

\* setDefaultChatRules makes every request of its plan.
LEMMA ChatPlan ==
    ASSUME NEW l
    PROVE  /\ setDefaultChatRules(l) \in Seq(Plan(l)) /\ setDefaultChatRules(l) # <<>>
           /\ \A w \in Plan(l) : Occurs(w, setDefaultChatRules(l))
<1> DEFINE S == Plan(l)
           P(r) == Both(r, WantsNotify(r, l), WantsEnabled(r, l))
           A(r) == Put(r, "actions", WantsNotify(r, l))
           E(r) == Put(r, "enabled", WantsEnabled(r, l))
           q1 == P("message")
           q2 == q1 \o P("encrypted")
           q3 == q2 \o P("contains_display_name")
           q4 == q3 \o P("is_user_mention")
           q5 == q4 \o P("roomnotif")
           q6 == q5 \o P("is_room_mention")
<1>1. setDefaultChatRules(l) = q6
  <2> DEFINE all     == l = "allMessages"
             mention == l \in {"allMessages", "mentions"}
             only    == l = "mentions"
  <2>1. \A r \in {"message", "encrypted", "contains_display_name"} :
           all = WantsNotify(r, l) /\ all = WantsEnabled(r, l)
    BY DEF WantsNotify, WantsEnabled, Mention
  <2>2. \A r \in Mention : mention = WantsNotify(r, l) /\ only = WantsEnabled(r, l)
    <3> SUFFICES ASSUME NEW r \in Mention
                 PROVE  mention = WantsNotify(r, l) /\ only = WantsEnabled(r, l)
      OBVIOUS
    <3>1. mention = (l = "allMessages" \/ l = "mentions")
      OBVIOUS
    <3>2. WantsNotify(r, l) = (l = "allMessages" \/ l = "mentions")
      BY DEF WantsNotify
    <3>3. only = WantsEnabled(r, l)
      BY DEF WantsEnabled
    <3> QED
      BY <3>1, <3>2, <3>3
  <2>3. /\ P("message") = Both("message", all, all)
        /\ P("encrypted") = Both("encrypted", all, all)
        /\ P("contains_display_name") = Both("contains_display_name", all, all)
    BY <2>1
  <2>4. /\ P("is_user_mention") = Both("is_user_mention", mention, only)
        /\ P("roomnotif") = Both("roomnotif", mention, only)
        /\ P("is_room_mention") = Both("is_room_mention", mention, only)
    BY <2>2 DEF Mention
  <2> QED
    BY <2>3, <2>4 DEF setDefaultChatRules
<1>2. \A r \in ChatRule : A(r) \in S /\ E(r) \in S
  BY DEF Plan
<1>3. ASSUME NEW r \in ChatRule
      PROVE  P(r) \in Seq(S) /\ Occurs(A(r), P(r)) /\ Occurs(E(r), P(r)) /\ Len(P(r)) = 2
  <2>1. P(r) = <<A(r), E(r)>>
    BY DEF Both
  <2>2. \A x, y \in S : <<x, y>> \in Seq(S) /\ Len(<<x, y>>) = 2
    OBVIOUS
  <2>3. \A x, y \in S : <<x, y>>[1] = x /\ <<x, y>>[2] = y
    OBVIOUS
  <2>4. \A x, y \in S : Occurs(x, <<x, y>>) /\ Occurs(y, <<x, y>>)
    BY <2>2, <2>3 DEF Occurs
  <2> HIDE DEF P, A, E
  <2> QED
    BY <1>2, <2>1, <2>2, <2>4
<1> HIDE DEF P, A, E, S
<1>4. ChatRule = {"message", "encrypted", "contains_display_name", "is_user_mention",
                  "roomnotif", "is_room_mention"}
  BY DEF ChatRule, Underride, Mention
<1>5. /\ q1 \in Seq(S) /\ q2 \in Seq(S) /\ q3 \in Seq(S)
      /\ q4 \in Seq(S) /\ q5 \in Seq(S) /\ q6 \in Seq(S)
  <2>1. q1 \in Seq(S)
    BY <1>3, <1>4
  <2>2. q2 \in Seq(S)
    BY <1>3, <1>4, <2>1, ConcatProperties
  <2>3. q3 \in Seq(S)
    BY <1>3, <1>4, <2>2, ConcatProperties
  <2>4. q4 \in Seq(S)
    BY <1>3, <1>4, <2>3, ConcatProperties
  <2>5. q5 \in Seq(S)
    BY <1>3, <1>4, <2>4, ConcatProperties
  <2>6. q6 \in Seq(S)
    BY <1>3, <1>4, <2>5, ConcatProperties
  <2> QED
    BY <2>1, <2>2, <2>3, <2>4, <2>5, <2>6
<1>6. ASSUME NEW w
      PROVE  /\ Occurs(w, P("message")) => Occurs(w, q6)
             /\ Occurs(w, P("encrypted")) => Occurs(w, q6)
             /\ Occurs(w, P("contains_display_name")) => Occurs(w, q6)
             /\ Occurs(w, P("is_user_mention")) => Occurs(w, q6)
             /\ Occurs(w, P("roomnotif")) => Occurs(w, q6)
             /\ Occurs(w, P("is_room_mention")) => Occurs(w, q6)
  <2>1. Occurs(w, q1) \/ Occurs(w, P("encrypted")) => Occurs(w, q2)
    BY <1>3, <1>4, <1>5, OccursConcat
  <2>2. Occurs(w, q2) \/ Occurs(w, P("contains_display_name")) => Occurs(w, q3)
    BY <1>3, <1>4, <1>5, OccursConcat
  <2>3. Occurs(w, q3) \/ Occurs(w, P("is_user_mention")) => Occurs(w, q4)
    BY <1>3, <1>4, <1>5, OccursConcat
  <2>4. Occurs(w, q4) \/ Occurs(w, P("roomnotif")) => Occurs(w, q5)
    BY <1>3, <1>4, <1>5, OccursConcat
  <2>5. Occurs(w, q5) \/ Occurs(w, P("is_room_mention")) => Occurs(w, q6)
    BY <1>3, <1>4, <1>5, OccursConcat
  <2> HIDE DEF q2, q3, q4, q5, q6
  <2> QED
    BY <2>1, <2>2, <2>3, <2>4, <2>5
<1>7. \A w \in S : \E r \in ChatRule : w = A(r) \/ w = E(r)
  BY DEF S, Plan, A, E
<1>8. q6 # <<>>
  <2>1. Occurs(A("message"), q6)
    BY <1>3, <1>4, <1>6
  <2> HIDE DEF q6
  <2>2. Len(<<>>) = 0
    OBVIOUS
  <2> QED
    BY <2>1, <2>2 DEF Occurs
<1> HIDE DEF q1, q2, q3, q4, q5, q6
<1>9. ASSUME NEW w \in S PROVE Occurs(w, q6)
  <2>1. PICK r \in ChatRule : w = A(r) \/ w = E(r)
    BY <1>7
  <2>2. Occurs(w, P(r))
    BY <1>3, <2>1
  <2> QED
    BY <1>4, <1>6, <2>2
<1> QED
  BY <1>1, <1>5, <1>8, <1>9 DEF S

\* Requests for a setting are well formed.
LEMMA OwnedTyped == ASSUME NEW s, NEW q \in Seq(Owned(s)) PROVE q \in Seq(Write)
BY SeqMonotonic DEF Owned

----------------------------------------------------------------------------
(* A call begins.                                                          *)

\* A call for s begins with the requests q.
LEMMA BeginInv ==
    ASSUME NotificationsAssumption, Inv, NEW t \in Task, NEW s \in Setting, NEW l \in Value,
           NEW q \in Seq(Owned(s)), Underway(rules, s, l, q), Begin(t, s, l, q)
    PROVE  Inv'
<1>1. /\ rules' = rules /\ todo' = [todo EXCEPT ![t] = q] /\ todo[t] = <<>>
      /\ level' = [level EXCEPT ![t] = l] /\ what' = [what EXCEPT ![t] = s]
      /\ calls' = calls + 1
      /\ asked' = [asked EXCEPT ![s] = IF Overlaps(t, s) THEN "unknown" ELSE "pending"]
  BY DEF Begin, Idle
<1>2. TypeOK'
  BY <1>1, OwnedTyped DEF Inv, TypeOK, Value
<1>3. \A x \in Task : x # t => todo'[x] = todo[x] /\ what'[x] = what[x] /\ level'[x] = level[x]
  BY <1>1 DEF Inv, TypeOK
<1>4. todo'[t] = q /\ what'[t] = s /\ level'[t] = l
  BY <1>1 DEF Inv, TypeOK
<1>5. /\ asked'[s] = IF Overlaps(t, s) THEN "unknown" ELSE "pending"
      /\ \A u \in Setting : u # s => asked'[u] = asked[u]
  BY <1>1 DEF Inv, TypeOK
<1>6. \A x \in Task : what[x] \in Setting
  BY DEF Inv, TypeOK
<1>7. ASSUME NEW x \in Task, x # t, ~Idle(x)', what'[x] = s
      PROVE  asked'[s] = "unknown"
  BY <1>3, <1>5, <1>7 DEF Overlaps, Idle
<1>8. (\A r \in ChatRule : rules'[r].exists) /\ (\A r \in OneToOne : rules'[r] = Notifies)
  BY <1>1 DEF Inv
<1>9. \A x \in Task : todo'[x] \in Seq(Owned(what'[x]))
  BY <1>3, <1>4 DEF Inv
<1>10. \A x \in Task : ~Idle(x)' => asked'[what'[x]] \in {"unknown", "pending"}
  BY <1>3, <1>4, <1>5, <1>6 DEF Inv, Idle
<1>11. ASSUME NEW x \in Task, NEW y \in Task, ~Idle(x)', ~Idle(y)', what'[x] = what'[y],
              asked'[what'[x]] = "pending"
       PROVE  x = y
  <2>1. CASE what'[x] = s
    BY <1>7, <1>11, <2>1
  <2>2. CASE what'[x] # s
    <3>1. x # t /\ y # t
      BY <1>4, <1>11, <2>2
    <3> QED
      BY <1>3, <1>5, <1>6, <1>11, <2>2, <3>1 DEF Inv, Idle
  <2> QED
    BY <2>1, <2>2
<1>12. ASSUME NEW x \in Task, ~Idle(x)', asked'[what'[x]] = "pending"
       PROVE  Underway(rules', what'[x], level'[x], todo'[x])
  <2>1. CASE x = t
    BY <1>1, <1>4, <2>1
  <2>2. CASE x # t
    <3>1. what'[x] # s
      BY <1>7, <1>12, <2>2
    <3> QED
      BY <1>1, <1>3, <1>5, <1>6, <1>12, <2>2, <3>1 DEF Inv, Idle
  <2> QED
    BY <2>1, <2>2
<1>13. \A u \in Setting : asked'[u] \notin {"unknown", "pending"} => Reached(rules', u, asked'[u])
  BY <1>1, <1>5 DEF Inv
<1> QED
  BY <1>2, <1>8, <1>9, <1>10, <1>11, <1>12, <1>13 DEF Inv

\* The four operations of NotificationsModule.
LEMMA ModuleInv ==
    ASSUME NotificationsAssumption, Inv, NEW t \in Task, NotificationsModule(t)
    PROVE  Inv'
<1>1. CASE \E l \in MessageLevel : SetDefaultChatRules(t, l)
  <2>1. PICK l \in MessageLevel : SetDefaultChatRules(t, l)
    BY <1>1
  <2> DEFINE q == setDefaultChatRules(l)
  <2>2. q \in Seq(Plan(l)) /\ \A w \in Plan(l) : Occurs(w, q)
    BY ChatPlan
  <2>3. q \in Seq(Owned("chat"))
    BY <2>2, PlanTyped, SeqMonotonic
  <2>4. Underway(rules, "chat", l, q)
    BY <2>2 DEF Underway
  <2>5. "chat" \in Setting /\ l \in Value
    BY DEF Setting, Value
  <2> HIDE DEF q
  <2> QED
    BY <2>1, <2>3, <2>4, <2>5, BeginInv DEF SetDefaultChatRules, q
<1>2. CASE \E on \in BOOLEAN : SetDefaultEventRules(t, on)
  <2>1. PICK on \in BOOLEAN : SetDefaultEventRules(t, on)
    BY <1>2
  <2> DEFINE q == setDefaultEventRules
             l == IF on THEN "on" ELSE "off"
             w == Put(Invite, "read", TRUE)
  <2>2. w \in Owned("event")
    BY DEF Owned, Write, Put, Invite, Footprint, RuleId
  <2>3. q = <<w>>
    BY DEF setDefaultEventRules, Invite
  <2> HIDE DEF w
  <2>4. q \in Seq(Owned("event"))
    BY <2>2, <2>3
  <2>5. "event" \in Setting /\ l \in Value /\ l \in {"on", "off"}
    BY DEF Setting, Value
  <2> HIDE DEF q, l
  <2>6. Underway(rules, "event", l, q)
    BY <2>3, <2>5 DEF Underway, w
  <2> QED
    BY <2>1, <2>4, <2>5, <2>6, BeginInv DEF SetDefaultEventRules, q, l
<1>3. CASE \E r \in Recipient : \E l \in MessageLevel : SetRecipientChatRules(t, r, l)
  <2>1. PICK r \in Recipient, l \in MessageLevel : SetRecipientChatRules(t, r, l)
    BY <1>3
  <2> DEFINE q == setRecipientChatRules(r, l)
             v == [Put(r, "delete", TRUE) EXCEPT !.ignore = TRUE]
             w == Put(r, "add", l = "allMessages")
  <2>2. r \notin {"chat", "event"} /\ r \in Setting /\ r \in RuleId
    BY DEF NotificationsAssumption, Setting, RuleId
  <2>3. Footprint(r) = {r}
    BY <2>2 DEF Footprint
  <2>4. v \in Owned(r) /\ w \in Owned(r)
    BY <2>2, <2>3 DEF Owned, Write, Put
  <2>5. q = <<v, w>>
    BY DEF setRecipientChatRules
  <2>6. l \in Value
    BY DEF Value
  <2>7. Underway(rules, r, l, q)
    BY <2>2, <2>5 DEF Underway
  <2> HIDE DEF v, w
  <2>8. q \in Seq(Owned(r))
    BY <2>4, <2>5
  <2> HIDE DEF q
  <2> QED
    BY <2>1, <2>2, <2>6, <2>7, <2>8, BeginInv DEF SetRecipientChatRules, q
<1>4. CASE \E r \in Recipient : ClearRecipientChatRules(t, r)
  <2>1. PICK r \in Recipient : ClearRecipientChatRules(t, r)
    BY <1>4
  <2> DEFINE q == clearRecipientChatRules(r)
             w == Put(r, "delete", TRUE)
  <2>2. r \notin {"chat", "event"} /\ r \in Setting /\ r \in RuleId
    BY DEF NotificationsAssumption, Setting, RuleId
  <2>3. Footprint(r) = {r}
    BY <2>2 DEF Footprint
  <2>4. w \in Owned(r)
    BY <2>2, <2>3 DEF Owned, Write, Put
  <2>5. q = <<w>>
    BY DEF clearRecipientChatRules
  <2>6. "clear" \in Value
    BY DEF Value
  <2>7. Underway(rules, r, "clear", q)
    BY <2>2, <2>5 DEF Underway
  <2> HIDE DEF w
  <2>8. q \in Seq(Owned(r))
    BY <2>4, <2>5
  <2> HIDE DEF q
  <2> QED
    BY <2>1, <2>2, <2>6, <2>7, <2>8, BeginInv DEF ClearRecipientChatRules, q
<1> QED
  BY <1>1, <1>2, <1>3, <1>4 DEF NotificationsModule

----------------------------------------------------------------------------
(* A request is answered, or fails.                                        *)

\* A call goes on with the requests q: it changed rules of its own setting
\* only, and the setting is where the requests left say it is.
LEMMA StepInv ==
    ASSUME NotificationsAssumption, Inv, NEW t \in Task, ~Idle(t),
           NEW q \in Seq(Owned(what[t])), NEW v \in Value,
           rules' \in [RuleId -> Rule],
           \A r \in RuleId \ Footprint(what[t]) : rules'[r] = rules[r],
           \A r \in ChatRule : rules'[r].exists,
           todo' = [todo EXCEPT ![t] = q], UNCHANGED <<level, what, calls>>,
           \/ /\ asked' = asked
              /\ asked[what[t]] = "pending" /\ q # <<>>
                   => Underway(rules', what[t], level[t], q)
           \/ /\ asked' = [asked EXCEPT ![what[t]] = v]
              /\ asked[what[t]] = "pending" /\ q = <<>>
              /\ v \notin {"unknown", "pending"} => Reached(rules', what[t], v)
    PROVE  Inv'
<1> DEFINE s == what[t]
<1>1. s \in Setting /\ asked[s] \in {"unknown", "pending"}
  BY DEF Inv, TypeOK
<1>2. todo'[t] = q /\ \A x \in Task : x # t => todo'[x] = todo[x]
  BY DEF Inv, TypeOK
<1>3. /\ \A x \in Task : what'[x] = what[x] /\ level'[x] = level[x] /\ what[x] \in Setting
      /\ \A u \in Setting \ {s} : asked'[u] = asked[u]
  BY <1>1 DEF Inv, TypeOK
<1>4. TypeOK'
  <2>1. q \in Seq(Write)
    BY OwnedTyped
  <2>2. asked' \in [Setting -> Value \cup {"pending"}]
    BY DEF Inv, TypeOK
  <2> QED
    BY <2>1, <2>2 DEF Inv, TypeOK
<1>5. ASSUME NEW u \in Setting, u # s
      PROVE  /\ \A l, p : Underway(rules, u, l, p) => Underway(rules', u, l, p)
             /\ \A x : Reached(rules, u, x) => Reached(rules', u, x)
  <2>1. \A r \in Footprint(u) : rules[r] = rules'[r]
    BY <1>1, <1>5, Footprints
  <2> QED
    BY <2>1, Frame
<1>6. \A x \in Task : todo'[x] \in Seq(Owned(what'[x]))
  BY <1>2, <1>3 DEF Inv
<1>7. ASSUME NEW x \in Task, x # t, ~Idle(x)', what[x] = s
      PROVE  asked[s] = "unknown" /\ asked' = asked
  BY <1>1, <1>2, <1>7 DEF Inv, Idle
<1>8. ASSUME ~Idle(t)'
      PROVE  /\ asked' = asked
             /\ asked[s] = "pending" => Underway(rules', s, level[t], q)
  BY <1>2, <1>8 DEF Idle
<1>9. \A x \in Task : ~Idle(x)' => asked'[what'[x]] \in {"unknown", "pending"}
  <2> SUFFICES ASSUME NEW x \in Task, ~Idle(x)'
               PROVE  asked'[what'[x]] \in {"unknown", "pending"}
    OBVIOUS
  <2>1. CASE x = t
    BY <1>1, <1>3, <1>8, <2>1
  <2>2. CASE x # t /\ what[x] = s
    BY <1>3, <1>7, <2>2
  <2>3. CASE x # t /\ what[x] # s
    <3>1. ~Idle(x) /\ asked'[what'[x]] = asked[what[x]]
      BY <1>2, <1>3, <2>3 DEF Idle
    <3> QED
      BY <3>1 DEF Inv
  <2> QED
    BY <2>1, <2>2, <2>3
<1>10. \A x, y \in Task :
          ~Idle(x)' /\ ~Idle(y)' /\ what'[x] = what'[y] /\ asked'[what'[x]] = "pending" => x = y
  <2> SUFFICES ASSUME NEW x \in Task, NEW y \in Task, ~Idle(x)', ~Idle(y)',
                      what'[x] = what'[y], asked'[what'[x]] = "pending"
               PROVE  x = y
    OBVIOUS
  <2>1. CASE what[x] = s
    BY <1>3, <1>7, <2>1
  <2>2. CASE what[x] # s
    <3>1. x # t /\ y # t /\ asked[what[x]] = "pending" /\ what[x] = what[y]
      BY <1>3, <2>2
    <3>2. ~Idle(x) /\ ~Idle(y)
      BY <1>2, <3>1 DEF Idle
    <3> QED
      BY <3>1, <3>2 DEF Inv
  <2> QED
    BY <2>1, <2>2
<1>11. \A x \in Task : ~Idle(x)' /\ asked'[what'[x]] = "pending" =>
           Underway(rules', what'[x], level'[x], todo'[x])
  <2> SUFFICES ASSUME NEW x \in Task, ~Idle(x)', asked'[what'[x]] = "pending"
               PROVE  Underway(rules', what'[x], level'[x], todo'[x])
    OBVIOUS
  <2>1. CASE x = t
    BY <1>2, <1>3, <1>8, <2>1
  <2>2. CASE x # t
    <3>1. what[x] # s
      BY <1>3, <1>7, <2>2
    <3>2. ~Idle(x) /\ asked[what[x]] = "pending" /\ todo'[x] = todo[x]
      BY <1>2, <1>3, <2>2, <3>1 DEF Idle
    <3>3. Underway(rules, what[x], level[x], todo[x])
      BY <3>2 DEF Inv
    <3> QED
      BY <1>3, <1>5, <3>1, <3>2, <3>3
  <2> QED
    BY <2>1, <2>2
<1>12. \A u \in Setting : asked'[u] \notin {"unknown", "pending"} => Reached(rules', u, asked'[u])
  <2> SUFFICES ASSUME NEW u \in Setting, asked'[u] \notin {"unknown", "pending"}
               PROVE  Reached(rules', u, asked'[u])
    OBVIOUS
  <2>1. CASE u = s
    <3>1. asked' = [asked EXCEPT ![s] = v]
      BY <1>1, <2>1
    <3>2. asked'[s] = v
      BY <1>1, <3>1 DEF Inv, TypeOK
    <3> QED
      BY <1>1, <2>1, <3>2
  <2>2. CASE u # s
    <3>1. Reached(rules, u, asked[u]) /\ asked'[u] = asked[u]
      BY <1>3, <2>2 DEF Inv
    <3> QED
      BY <1>5, <2>2, <3>1
  <2> QED
    BY <2>1, <2>2
<1>13. \A r \in OneToOne : rules'[r] = Notifies
  BY <1>1, Footprints DEF Inv
<1> QED
  BY <1>4, <1>6, <1>9, <1>10, <1>11, <1>12, <1>13 DEF Inv

\* A request that fails changes no rule.
LEMMA RequestFailsInv ==
    ASSUME NotificationsAssumption, Inv, NEW t \in Task, RequestFails(t)
    PROVE  Inv'
<1> DEFINE s == what[t]
           o == todo[t]
<1>1. /\ ~Idle(t) /\ o # <<>> /\ UNCHANGED <<rules, level, what, calls>>
      /\ o \in Seq(Owned(s)) /\ s \in Setting /\ asked[s] \in {"unknown", "pending"}
  BY DEF RequestFails, Idle, Inv, TypeOK
<1>2. /\ rules' \in [RuleId -> Rule]
      /\ \A r \in RuleId \ Footprint(s) : rules'[r] = rules[r]
      /\ \A r \in ChatRule : rules'[r].exists
  BY <1>1 DEF Inv, TypeOK
<1>3. "unknown" \in Value
  BY DEF Value
<1>4. CASE Head(o).ignore
  <2> DEFINE q == Tail(o)
  <2>1. q \in Seq(Owned(s))
    BY <1>1, OccursTail
  <2>2. todo' = [todo EXCEPT ![t] = q] /\ asked' = asked
    BY <1>4 DEF RequestFails
  <2>3. ASSUME asked[s] = "pending" PROVE Underway(rules', s, level[t], q)
    <3>1. Underway(rules, s, level[t], o)
      BY <1>1, <2>3 DEF Inv
    <3>2. \A r, x, on : Put(r, x, on).ignore = FALSE
      BY DEF Put
    <3>3. s # "chat"
      <4> SUFFICES ASSUME s = "chat" PROVE FALSE
        OBVIOUS
      <4>1. o \in Seq(Plan(level[t]))
        BY <3>1 DEF Underway
      <4>2. Head(o) \in Plan(level[t])
        BY <1>1, <4>1, OccursTail
      <4> QED
        BY <1>4, <4>2, PlanTyped
    <3>4. s # "event"
      <4> SUFFICES ASSUME s = "event" PROVE FALSE
        OBVIOUS
      <4> DEFINE R == Put(Invite, "read", TRUE)
                 A == Put(Invite, "add", TRUE)
                 B == Put(Invite, "actions", level[t] = "on")
                 C == Put(Invite, "enabled", level[t] = "on")
      <4>1. o = <<R>> \/ o = <<A>> \/ o = <<B, C>> \/ o = <<C>>
        BY <3>1 DEF Underway
      <4>2. ~R.ignore /\ ~A.ignore /\ ~B.ignore /\ ~C.ignore
        BY DEF Put
      <4> HIDE DEF R, A, B, C
      <4>3. Head(o) = R \/ Head(o) = A \/ Head(o) = B \/ Head(o) = C
        BY <4>1
      <4> QED
        BY <1>4, <4>2, <4>3
    <3>5. CASE level[t] = "clear" /\ o = <<Put(s, "delete", TRUE)>>
      <4>1. Head(o) = Put(s, "delete", TRUE)
        BY <3>5
      <4> QED
        BY <1>4, <3>2, <4>1
    <3>6. CASE level[t] \in MessageLevel /\ o = <<Put(s, "add", level[t] = "allMessages")>>
      <4>1. Head(o) = Put(s, "add", level[t] = "allMessages")
        BY <3>6
      <4> QED
        BY <1>4, <3>2, <4>1
    <3>7. CASE /\ level[t] \in MessageLevel
               /\ o = <<[Put(s, "delete", TRUE) EXCEPT !.ignore = TRUE],
                        Put(s, "add", level[t] = "allMessages")>>
      <4>1. q = <<Put(s, "add", level[t] = "allMessages")>>
        BY <3>7
      <4> HIDE DEF q
      <4> QED
        BY <3>3, <3>4, <3>7, <4>1 DEF Underway
    <3> QED
      BY <3>1, <3>3, <3>4, <3>5, <3>6, <3>7 DEF Underway
  <2> HIDE DEF q
  <2> QED
    BY <1>1, <1>2, <1>3, <2>1, <2>2, <2>3, StepInv
<1>5. CASE ~Head(o).ignore
  <2> DEFINE q == <<>>
  <2>1. q \in Seq(Owned(s))
    OBVIOUS
  <2>2. todo' = [todo EXCEPT ![t] = q] /\ Settle(t, "unknown")
    BY <1>5 DEF RequestFails
  <2>3. \/ asked' = asked /\ asked[s] = "unknown"
        \/ asked' = [asked EXCEPT ![s] = "unknown"] /\ asked[s] = "pending"
    BY <1>1, <2>2 DEF Settle
  <2> QED
    BY <1>1, <1>2, <1>3, <2>1, <2>2, <2>3, StepInv
<1> QED
  BY <1>4, <1>5

\* What the rule for invitations has still to be told, once it is read.
LEMMA InvitePlan ==
    ASSUME NEW rule \in Rule, NEW on \in BOOLEAN
    PROVE  /\ setInviteForMeEnabled(rule, on) \in Seq(Owned("event"))
           /\ \/ /\ setInviteForMeEnabled(rule, on) = <<Put(Invite, "add", TRUE)>>
                 /\ ~rule.exists /\ on
              \/ setInviteForMeEnabled(rule, on) = <<>> /\ ~rule.exists /\ ~on
              \/ /\ setInviteForMeEnabled(rule, on) =
                      <<Put(Invite, "actions", on), Put(Invite, "enabled", on)>>
                 /\ rule.exists
              \/ /\ setInviteForMeEnabled(rule, on) = <<Put(Invite, "enabled", on)>>
                 /\ rule.exists /\ rule.notify = on
<1> DEFINE a == Put(Invite, "add", TRUE)
           b == Put(Invite, "actions", on)
           c == Put(Invite, "enabled", on)
           q == setInviteForMeEnabled(rule, on)
<1>1. a \in Owned("event") /\ b \in Owned("event") /\ c \in Owned("event")
  BY DEF Owned, Write, Put, Invite, Footprint, RuleId
<1>2. rule.exists \in BOOLEAN /\ rule.notify \in BOOLEAN
  BY DEF Rule
<1>3. /\ ~rule.exists /\ on => q = <<a>>
      /\ ~rule.exists /\ ~on => q = <<>>
      /\ rule.exists /\ rule.notify # on => q = <<b>> \o <<c>>
      /\ rule.exists /\ rule.notify = on => q = <<>> \o <<c>>
  BY DEF setInviteForMeEnabled, Invite
<1> HIDE DEF a, b, c, q
<1>4. <<b>> \o <<c>> = <<b, c>> /\ <<>> \o <<c>> = <<c>>
  <2> DEFINE S == {b, c}
  <2>1. <<b>> \in Seq(S) /\ <<c>> \in Seq(S) /\ <<>> \in Seq(S)
    OBVIOUS
  <2>2. <<b>> \o <<c>> = <<b, c>>
    <3> DEFINE x == <<b>> \o <<c>>
               y == <<b, c>>
    <3>1. Len(<<b>>) = 1 /\ Len(<<c>>) = 1 /\ <<b>>[1] = b /\ <<c>>[1] = c
      OBVIOUS
    <3>2. y \in Seq(S) /\ Len(y) = 2 /\ y[1] = b /\ y[2] = c
      OBVIOUS
    <3>3. x \in Seq(S) /\ Len(x) = 2 /\ x[1] = b /\ x[2] = c
      BY <2>1, <3>1, ConcatProperties
    <3> HIDE DEF x, y, S
    <3>4. \A i \in 1 .. Len(x) : x[i] = y[i]
      BY <3>2, <3>3
    <3>5. x = y
      BY <3>2, <3>3, <3>4, SeqEqual
    <3> QED
      BY <3>5 DEF x, y
  <2>3. <<>> \o <<c>> = <<c>>
    BY <2>1, ConcatEmptySeq
  <2> QED
    BY <2>2, <2>3
<1>5. /\ <<a>> \in Seq(Owned("event")) /\ <<c>> \in Seq(Owned("event"))
      /\ <<b, c>> \in Seq(Owned("event")) /\ <<>> \in Seq(Owned("event"))
  BY <1>1
<1>6. /\ q \in Seq(Owned("event"))
      /\ \/ q = <<a>> /\ ~rule.exists /\ on
         \/ q = <<>> /\ ~rule.exists /\ ~on
         \/ q = <<b, c>> /\ rule.exists
         \/ q = <<c>> /\ rule.exists /\ rule.notify = on
  BY <1>2, <1>3, <1>4, <1>5
<1> QED
  BY <1>6 DEF a, b, c, q

\* A call for the default level, alone, gets the answer to a request.
LEMMA ChatStep ==
    ASSUME NEW l, NEW o \in Seq(Plan(l)), o # <<>>, rules \in [RuleId -> Rule],
           Underway(rules, "chat", l, o)
    PROVE  /\ Underway(Effect(Head(o)), "chat", l, Tail(o))
           /\ Tail(o) = <<>> => Reached(Effect(Head(o)), "chat", l)
<1> DEFINE w == Head(o)
           f == Effect(w)
<1>1. /\ w \in Plan(l) /\ Tail(o) \in Seq(Plan(l))
      /\ \A v : Occurs(v, o) => v = w \/ Occurs(v, Tail(o))
  BY OccursTail
<1>2. w \in Write /\ w.rule \in RuleId /\ w.set \in {"actions", "enabled"}
  BY <1>1, PlanTyped DEF Write
<1>3. ASSUME NEW v \in Plan(l), Done(rules, v) \/ v = w PROVE Done(f, v)
  <2>1. v \in Write /\ v.rule \in RuleId /\ v.set \in {"actions", "enabled"}
    BY PlanTyped DEF Write
  <2>2. CASE v.rule # w.rule
    <3>1. f[v.rule] = rules[v.rule]
      BY <1>2, <2>1, <2>2, EffectOf
    <3> QED
      BY <1>3, <2>2, <3>1 DEF Done
  <2>3. CASE v.rule = w.rule /\ v.set = w.set
    <3>1. v.on = w.on
      BY <1>1, <2>3, PlanTyped
    <3> QED
      BY <1>2, <2>3, <3>1, EffectOf DEF Done
  <2>4. CASE v.rule = w.rule /\ v.set # w.set
    <3>1. Done(rules, v)
      BY <1>3, <2>4
    <3> QED
      BY <1>2, <2>1, <2>4, <3>1, EffectOf DEF Done
  <2> QED
    BY <2>2, <2>3, <2>4
<1>4. \A v \in Plan(l) : Done(f, v) \/ Occurs(v, Tail(o))
  BY <1>1, <1>3 DEF Underway
<1>5. ASSUME Tail(o) = <<>> PROVE \A v \in Plan(l) : Done(f, v)
  <2>1. \A v : ~Occurs(v, <<>>)
    BY DEF Occurs
  <2> QED
    BY <1>4, <1>5, <2>1
<1>6. l \in MessageLevel
  BY DEF Underway
<1> HIDE DEF f
<1>7. Underway(f, "chat", l, Tail(o))
  BY <1>1, <1>4, <1>6 DEF Underway
<1>8. Tail(o) = <<>> => Reached(f, "chat", l)
  BY <1>5, <1>6 DEF Reached
<1> QED
  BY <1>7, <1>8 DEF f

\* The same for a call about invitations, where the answer to reading the
\* rules decides what is left.
LEMMA EventStep ==
    ASSUME NEW l, NEW o, rules \in [RuleId -> Rule], Underway(rules, "event", l, o),
           NEW q, q = IF Head(o).set = "read"
                      THEN setInviteForMeEnabled(rules[Invite], l = "on") ELSE Tail(o)
    PROVE  /\ q # <<>> => Underway(Effect(Head(o)), "event", l, q)
           /\ q = <<>> => Reached(Effect(Head(o)), "event", l)
<1> DEFINE on == l = "on"
           R == Put(Invite, "read", TRUE)
           A == Put(Invite, "add", TRUE)
           B == Put(Invite, "actions", on)
           C == Put(Invite, "enabled", on)
           f == Effect(Head(o))
<1>1. l \in {"on", "off"} /\ on \in BOOLEAN
  BY DEF Underway
<1>2. /\ R \in Write /\ A \in Write /\ B \in Write /\ C \in Write
      /\ Invite \in RuleId
  BY <1>1 DEF Write, Put, Invite, RuleId
<1>3. /\ R.set = "read" /\ A.set = "add" /\ B.set = "actions" /\ C.set = "enabled"
      /\ A.rule = Invite /\ B.rule = Invite /\ C.rule = Invite /\ A.on /\ B.on = on /\ C.on = on
  BY DEF Put
<1>4. rules[Invite] \in Rule
  BY <1>2
<1>5. \/ o = <<R>>
      \/ o = <<A>> /\ on
      \/ o = <<B, C>> /\ rules[Invite].exists
      \/ o = <<C>> /\ rules[Invite].exists /\ rules[Invite].notify = on
  BY DEF Underway
<1>6. ASSUME NEW g, NEW p, \/ p = <<A>> /\ on
                           \/ p = <<B, C>> /\ g[Invite].exists
                           \/ p = <<C>> /\ g[Invite].exists /\ g[Invite].notify = on
      PROVE  Underway(g, "event", l, p)
  BY <1>1, <1>6 DEF Underway
<1>7. ASSUME NEW g, (g[Invite].exists /\ g[Invite].enabled /\ g[Invite].notify) <=> on
      PROVE  Reached(g, "event", l)
  BY <1>1, <1>7 DEF Reached
<1>8. q = IF Head(o).set = "read" THEN setInviteForMeEnabled(rules[Invite], on) ELSE Tail(o)
  OBVIOUS
<1>9. \/ setInviteForMeEnabled(rules[Invite], on) = <<A>> /\ ~rules[Invite].exists /\ on
      \/ setInviteForMeEnabled(rules[Invite], on) = <<>> /\ ~rules[Invite].exists /\ ~on
      \/ setInviteForMeEnabled(rules[Invite], on) = <<B, C>> /\ rules[Invite].exists
      \/ /\ setInviteForMeEnabled(rules[Invite], on) = <<C>>
         /\ rules[Invite].exists /\ rules[Invite].notify = on
  BY <1>1, <1>4, InvitePlan
<1>10. \A x, y : Head(<<x>>) = x /\ Tail(<<x>>) = <<>> /\ Head(<<x, y>>) = x
                 /\ Tail(<<x, y>>) = <<y>> /\ <<x>> # <<>> /\ <<x, y>> # <<>>
  OBVIOUS
<1> HIDE DEF on, R, A, B, C
<1>11. CASE o = <<R>>
  <2>1. Head(o) = R
    BY <1>10, <1>11
  <2>2. f = rules /\ q = setInviteForMeEnabled(rules[Invite], on)
    BY <1>2, <1>3, <1>8, <2>1, EffectOf
  <2> HIDE DEF f
  <2>3. CASE q = <<>> /\ ~rules[Invite].exists /\ ~on
    BY <1>7, <2>2, <2>3 DEF f
  <2>4. CASE \/ q = <<A>> /\ on
             \/ q = <<B, C>> /\ rules[Invite].exists
             \/ q = <<C>> /\ rules[Invite].exists /\ rules[Invite].notify = on
    <3>1. Underway(rules, "event", l, q)
      BY <1>6, <2>4
    <3>2. q # <<>>
      <4>1. <<A>> # <<>> /\ <<B, C>> # <<>> /\ <<C>> # <<>>
        OBVIOUS
      <4> QED
        BY <2>4, <4>1
    <3> QED
      BY <2>2, <3>1, <3>2 DEF f
  <2> QED
    BY <1>9, <2>2, <2>3, <2>4
<1>12. CASE o = <<A>> /\ on
  <2>1. Head(o) = A /\ Tail(o) = <<>>
    BY <1>10, <1>12
  <2>2. q = <<>>
    BY <1>3, <1>8, <2>1
  <2>3. f[Invite] = [exists |-> TRUE, notify |-> A.on, enabled |-> TRUE]
    BY <1>2, <1>3, <2>1, EffectOf
  <2> HIDE DEF f
  <2>4. f[Invite].exists /\ f[Invite].enabled /\ f[Invite].notify
    BY <1>3, <2>3
  <2>5. Reached(f, "event", l)
    BY <1>7, <1>12, <2>4
  <2> QED
    BY <2>2, <2>5 DEF f
<1>13. CASE o = <<B, C>> /\ rules[Invite].exists
  <2>1. Head(o) = B /\ Tail(o) = <<C>>
    BY <1>10, <1>13
  <2>2. q = <<C>> /\ q # <<>>
    BY <1>3, <1>8, <1>10, <2>1
  <2>3. f[Invite].exists /\ f[Invite].notify = on
    BY <1>2, <1>3, <1>13, <2>1, EffectOf
  <2> HIDE DEF f
  <2>4. Underway(f, "event", l, q)
    BY <1>6, <2>2, <2>3
  <2> QED
    BY <2>2, <2>4 DEF f
<1>14. CASE o = <<C>> /\ rules[Invite].exists /\ rules[Invite].notify = on
  <2>1. Head(o) = C /\ Tail(o) = <<>>
    BY <1>10, <1>14
  <2>2. q = <<>>
    BY <1>3, <1>8, <2>1
  <2>3. f[Invite].exists /\ f[Invite].notify = on /\ f[Invite].enabled = on
    BY <1>2, <1>3, <1>14, <2>1, EffectOf
  <2> HIDE DEF f
  <2>4. Reached(f, "event", l)
    BY <1>7, <2>3
  <2> QED
    BY <2>2, <2>4 DEF f
<1> QED
  BY <1>5, <1>11, <1>12, <1>13, <1>14

\* The same for a call about one chat.
LEMMA RecipientStep ==
    ASSUME NotificationsAssumption, NEW s \in Recipient, NEW l, NEW o,
           rules \in [RuleId -> Rule], Underway(rules, s, l, o)
    PROVE  /\ Tail(o) # <<>> => Underway(Effect(Head(o)), s, l, Tail(o))
           /\ Tail(o) = <<>> => Reached(Effect(Head(o)), s, l)
<1> DEFINE D == [Put(s, "delete", TRUE) EXCEPT !.ignore = TRUE]
           A == Put(s, "add", l = "allMessages")
           C == Put(s, "delete", TRUE)
           f == Effect(Head(o))
<1>1. s \notin {"chat", "event"} /\ s \in RuleId
  BY DEF NotificationsAssumption, RuleId
<1>2. A \in Write /\ C \in Write
  BY <1>1 DEF Write, Put
<1>3. /\ A.set = "add" /\ A.rule = s /\ A.on = (l = "allMessages")
      /\ C.set = "delete" /\ C.rule = s
  BY DEF Put
<1>4. CASE l \in MessageLevel /\ o = <<D, A>>
  <2> HIDE DEF D, A
  <2>1. Tail(o) = <<A>>
    BY <1>4
  <2>2. Tail(o) # <<>>
    BY <2>1
  <2> HIDE DEF f
  <2>3. Underway(f, s, l, Tail(o))
    BY <1>1, <1>4, <2>1 DEF Underway, A
  <2> QED
    BY <2>2, <2>3 DEF f
<1>5. CASE l \in MessageLevel /\ o = <<A>>
  <2> HIDE DEF A
  <2>1. Head(o) = A /\ Tail(o) = <<>>
    BY <1>5
  <2>2. f[s] = [exists |-> TRUE, notify |-> l = "allMessages", enabled |-> TRUE]
    BY <1>2, <1>3, <2>1, EffectOf
  <2> HIDE DEF f
  <2>3. Reached(f, s, l)
    BY <1>1, <1>5, <2>2 DEF Reached
  <2> QED
    BY <2>1, <2>3 DEF f
<1>6. CASE l = "clear" /\ o = <<C>>
  <2> HIDE DEF C
  <2>1. Head(o) = C /\ Tail(o) = <<>>
    BY <1>6
  <2>2. f[s] = NoRule
    BY <1>2, <1>3, <2>1, EffectOf
  <2> HIDE DEF f
  <2>3. Reached(f, s, l)
    BY <1>1, <1>6, <2>2 DEF Reached
  <2> QED
    BY <2>1, <2>3 DEF f
<1> QED
  BY <1>1, <1>4, <1>5, <1>6 DEF Underway

\* A request that is answered changes its own rule, and the call goes on.
LEMMA RequestInv ==
    ASSUME NotificationsAssumption, Inv, NEW t \in Task, Request(t)
    PROVE  Inv'
<1> DEFINE s == what[t]
           o == todo[t]
           w == Head(o)
           q == Rest(t)
           l == level[t]
<1>1. /\ ~Idle(t) /\ o # <<>> /\ UNCHANGED <<level, what, calls>>
      /\ o \in Seq(Owned(s)) /\ s \in Setting /\ asked[s] \in {"unknown", "pending"}
      /\ rules \in [RuleId -> Rule] /\ l \in Value
  BY DEF Request, Idle, Inv, TypeOK
<1>2. /\ rules' = Effect(w) /\ todo' = [todo EXCEPT ![t] = q]
      /\ IF q = <<>> THEN Settle(t, l) ELSE asked' = asked
  BY DEF Request
<1>3. w \in Owned(s) /\ Tail(o) \in Seq(Owned(s))
  BY <1>1, OccursTail
<1>4. /\ w \in Write /\ w.rule \in Footprint(s) /\ w.rule \in RuleId
      /\ s = "chat" => w.set \in {"actions", "enabled"}
      /\ w.set = "read" => s = "event"
  BY <1>3 DEF Owned, Write
<1>5. q = IF w.set = "read" THEN setInviteForMeEnabled(rules[Invite], l = "on") ELSE Tail(o)
  BY DEF Rest, Invite
<1> HIDE DEF q
<1>6. q \in Seq(Owned(s))
  <2>1. rules[Invite] \in Rule
    BY <1>1 DEF Invite, RuleId
  <2>2. setInviteForMeEnabled(rules[Invite], l = "on") \in Seq(Owned("event"))
    BY <2>1, InvitePlan
  <2> QED
    BY <1>3, <1>4, <1>5, <2>2
<1>7. /\ rules' \in [RuleId -> Rule]
      /\ \A r \in RuleId \ Footprint(s) : rules'[r] = rules[r]
  BY <1>1, <1>2, <1>4, EffectOf
<1>8. \A r \in ChatRule : rules'[r].exists
  <2> SUFFICES ASSUME NEW r \in ChatRule PROVE rules'[r].exists
    OBVIOUS
  <2>1. rules[r].exists /\ r \in RuleId
    BY DEF Inv, ChatRule, RuleId
  <2>2. CASE r # w.rule
    BY <1>1, <1>2, <1>4, <2>1, <2>2, EffectOf
  <2>3. CASE r = w.rule
    <3>1. s = "chat"
      BY <1>1, <1>4, <2>3, Footprints DEF Footprint
    <3> QED
      BY <1>1, <1>2, <1>4, <2>1, <2>3, <3>1, EffectOf
  <2> QED
    BY <2>2, <2>3
<1>9. ASSUME asked[s] = "pending"
      PROVE  /\ q # <<>> => Underway(rules', s, l, q)
             /\ q = <<>> => Reached(rules', s, l)
  <2>1. Underway(rules, s, l, o)
    BY <1>1, <1>9 DEF Inv
  <2>2. CASE s = "chat"
    <3>1. o \in Seq(Plan(l)) /\ q = Tail(o)
      BY <1>4, <1>5, <2>1, <2>2 DEF Underway
    <3> QED
      BY <1>1, <1>2, <2>1, <2>2, <3>1, ChatStep
  <2>3. CASE s = "event"
    <3>1. /\ q # <<>> => Underway(Effect(Head(o)), "event", l, q)
          /\ q = <<>> => Reached(Effect(Head(o)), "event", l)
      BY <1>1, <1>5, <2>1, <2>3, EventStep
    <3> QED
      BY <1>2, <2>3, <3>1
  <2>4. CASE s \notin {"chat", "event"}
    <3>1. s \in Recipient /\ q = Tail(o)
      BY <1>1, <1>4, <1>5, <2>4, Footprints
    <3>2. /\ Tail(o) # <<>> => Underway(Effect(Head(o)), s, l, Tail(o))
          /\ Tail(o) = <<>> => Reached(Effect(Head(o)), s, l)
      BY <1>1, <2>1, <3>1, RecipientStep
    <3> QED
      BY <1>2, <3>1, <3>2
  <2> QED
    BY <2>2, <2>3, <2>4
<1>10. \/ /\ asked' = asked
          /\ asked[s] = "pending" /\ q # <<>> => Underway(rules', s, l, q)
       \/ /\ asked' = [asked EXCEPT ![s] = l]
          /\ asked[s] = "pending" /\ q = <<>>
          /\ l \notin {"unknown", "pending"} => Reached(rules', s, l)
  <2>1. CASE q # <<>>
    BY <1>2, <1>9, <2>1
  <2>2. CASE q = <<>> /\ asked[s] = "unknown"
    BY <1>2, <2>2 DEF Settle
  <2>3. CASE q = <<>> /\ asked[s] = "pending"
    BY <1>2, <1>9, <2>3 DEF Settle
  <2> QED
    BY <1>1, <2>1, <2>2, <2>3
<1> QED
  BY <1>1, <1>2, <1>6, <1>7, <1>8, <1>10, StepInv

----------------------------------------------------------------------------
(* Theorems.                                                               *)

\* Nothing is under way at first, and no setting was asked for.
LEMMA InitInv == ASSUME NotificationsAssumption, Init PROVE Inv
<1>1. /\ rules \in [RuleId -> {NoRule, Notifies}]
      /\ \A r \in RuleId : r \notin Recipient \cup {"invite_for_me"} => rules[r].exists
      /\ todo = [t \in Task |-> <<>>] /\ level = [t \in Task |-> "unknown"]
      /\ what = [t \in Task |-> "chat"] /\ calls = 0
      /\ asked = [s \in Setting |-> "unknown"]
  BY DEF Init
<1>2. NoRule \in Rule /\ Notifies \in Rule
  BY DEF NoRule, Notifies, Rule
<1>3. TypeOK
  <2>1. rules \in [RuleId -> Rule]
    BY <1>1, <1>2
  <2>2. todo \in [Task -> Seq(Write)]
    BY <1>1
  <2> QED
    BY <1>1, <2>1, <2>2 DEF TypeOK, Value, Setting
<1>4. \A r \in ChatRule : r \in RuleId /\ r \notin Recipient \cup {"invite_for_me"}
  BY Footprints DEF ChatRule, RuleId
<1>5. \A t \in Task : Idle(t) /\ todo[t] = <<>>
  BY <1>1 DEF Idle
<1>6. \A r \in OneToOne : rules[r] = Notifies
  <2>1. \A r \in OneToOne : r \in RuleId /\ r \notin Recipient \cup {"invite_for_me"}
    BY DEF NotificationsAssumption, OneToOne, RuleId
  <2>2. ~NoRule.exists
    BY DEF NoRule
  <2> QED
    BY <1>1, <2>1, <2>2
<1> QED
  BY <1>1, <1>3, <1>4, <1>5, <1>6 DEF Inv

\* A step of the specification.
LEMMA NextInv ==
    ASSUME NotificationsAssumption, Inv, [Next]_vars PROVE Inv'
<1>1. CASE Next
  <2>1. PICK t \in Task : NotificationsModule(t) \/ Request(t) \/ RequestFails(t)
    BY <1>1 DEF Next
  <2> QED
    BY <2>1, ModuleInv, RequestInv, RequestFailsInv
<1>2. CASE UNCHANGED vars
  <2>1. /\ rules' = rules /\ todo' = todo /\ level' = level /\ what' = what
        /\ calls' = calls /\ asked' = asked
    BY <1>2 DEF vars
  <2> QED
    BY <2>1 DEF Inv, TypeOK, Idle
<1> QED
  BY <1>1, <1>2

(* The inductive invariant: while a call for a setting is alone, every     *)
(* push rule of that setting has its final value or a request for it is    *)
(* still to be made, whatever calls for other settings do in between, and  *)
(* requests that fail leave no setting that counts as written.             *)
THEOREM NotificationsInvariant == Spec => []Inv
<1>1. Init => Inv
  BY NotificationsAssumption, InitInv
<1>2. Inv /\ [Next]_vars => Inv'
  BY NotificationsAssumption, NextInv
<1> QED
  BY <1>1, <1>2, PTL DEF Spec

(* getSettings reports the level or the switch that the last call of       *)
(* NotificationsModule set, if that call succeeded and no other call for   *)
(* the same setting overlapped it.                                         *)
THEOREM SettingsReadBack == Spec => []SettingReadBack
<1>1. Inv => SettingReadBack
  <2> SUFFICES ASSUME Inv, NEW s \in Setting, asked[s] \notin {"unknown", "pending"}
               PROVE  getSettings(s) = IF s \in Recipient /\ asked[s] = "mentions"
                                       THEN "mute" ELSE asked[s]
    BY DEF SettingReadBack
  <2> DEFINE v == asked[s]
  <2>1. Reached(rules, s, v)
    BY DEF Inv
  <2>2. /\ ChatRule \cap (Recipient \cup {"invite_for_me"}) = {}
        /\ s \notin {"chat", "event"} => s \in Recipient
        /\ "chat" \notin Recipient /\ "event" \notin Recipient
    BY NotificationsAssumption, Footprints DEF NotificationsAssumption
  <2>3. CASE s = "chat"
    <3>1. v \in MessageLevel /\ \A w \in Plan(v) : Done(rules, w)
      BY <2>1, <2>3 DEF Reached
    <3>2. "message" \in ChatRule /\ "is_user_mention" \in ChatRule
      BY DEF ChatRule, Underride, Mention
    <3>3. /\ rules["message"].notify = WantsNotify("message", v)
          /\ rules["is_user_mention"].notify = WantsNotify("is_user_mention", v)
      BY <3>1, <3>2, PlanTyped DEF Done
    <3>4. /\ WantsNotify("message", v) <=> v = "allMessages"
          /\ WantsNotify("is_user_mention", v) <=> v \in {"allMessages", "mentions"}
      BY DEF WantsNotify, Mention
    <3> QED
      BY <2>2, <2>3, <3>1, <3>3, <3>4 DEF getSettings, DefaultLevel, MessageLevel
  <2>4. CASE s = "event"
    BY <2>1, <2>2, <2>4 DEF Reached, getSettings, isInviteForMeEnabled, Invite
  <2>5. CASE s \notin {"chat", "event"}
    <3>1. \/ v = "clear" /\ rules[s] = NoRule
          \/ /\ v \in MessageLevel
             /\ rules[s] = [exists |-> TRUE, notify |-> v = "allMessages", enabled |-> TRUE]
      BY <2>1, <2>5 DEF Reached
    <3>2. getSettings(s) = RecipientLevel(s)
      BY <2>5 DEF getSettings
    <3>3. CASE v = "clear" /\ rules[s] = NoRule
      BY <3>2, <3>3 DEF RecipientLevel, NoRule
    <3>4. CASE /\ v \in MessageLevel
               /\ rules[s] = [exists |-> TRUE, notify |-> v = "allMessages", enabled |-> TRUE]
      <4>1. rules[s].exists /\ rules[s].enabled
        BY <3>4
      <4>2. rules[s].notify = (v = "allMessages")
        BY <3>4
      <4> QED
        BY <2>2, <2>5, <3>2, <3>4, <4>1, <4>2 DEF RecipientLevel, MessageLevel
    <3> QED
      BY <3>1, <3>3, <3>4
  <2> QED
    BY <2>3, <2>4, <2>5
<1> QED
  BY <1>1, NotificationsInvariant, PTL

----------------------------------------------------------------------------
(* Which rule decides.                                                     *)

\* The order has eight rules: those written, and those of one-to-one rooms.
LEMMA OrderedRules ==
    /\ \A i \in 1 .. 8 : RuleOrder[i] \in ChatRule \cup OneToOne
    /\ \A r \in ChatRule \cup OneToOne : \E i \in 1 .. 8 : RuleOrder[i] = r
<1>1. /\ RuleOrder[1] = "is_user_mention" /\ RuleOrder[2] = "contains_display_name"
      /\ RuleOrder[3] = "is_room_mention" /\ RuleOrder[4] = "roomnotif"
      /\ RuleOrder[5] = "encrypted_room_one_to_one" /\ RuleOrder[6] = "room_one_to_one"
      /\ RuleOrder[7] = "message" /\ RuleOrder[8] = "encrypted"
  BY DEF RuleOrder
<1>2. ASSUME NEW i \in 1 .. 8
      PROVE  i = 1 \/ i = 2 \/ i = 3 \/ i = 4 \/ i = 5 \/ i = 6 \/ i = 7 \/ i = 8
  OBVIOUS
<1>3. 1 \in 1 .. 8 /\ 2 \in 1 .. 8 /\ 3 \in 1 .. 8 /\ 4 \in 1 .. 8
      /\ 5 \in 1 .. 8 /\ 6 \in 1 .. 8 /\ 7 \in 1 .. 8 /\ 8 \in 1 .. 8
  OBVIOUS
<1>4. ChatRule \cup OneToOne = {"is_user_mention", "contains_display_name", "is_room_mention",
          "roomnotif", "encrypted_room_one_to_one", "room_one_to_one", "message", "encrypted"}
  BY DEF ChatRule, OneToOne, Underride, Mention
<1>5. ASSUME NEW i \in 1 .. 8 PROVE RuleOrder[i] \in ChatRule \cup OneToOne
  BY <1>1, <1>2, <1>4
<1>6. ASSUME NEW r \in ChatRule \cup OneToOne PROVE \E i \in 1 .. 8 : RuleOrder[i] = r
  BY <1>1, <1>3, <1>4
<1> QED
  BY <1>5, <1>6

\* If one of eight applies, one applies first.
LEMMA OneAppliesFirst ==
    ASSUME NEW S, S \subseteq 1 .. 8, S # {}
    PROVE  \E i \in S : \A j \in 1 .. (i - 1) : j \notin S
<1>1. CASE 1 \in S
  BY <1>1
<1>2. CASE 1 \notin S /\ 2 \in S
  BY <1>2
<1>3. CASE 1 \notin S /\ 2 \notin S /\ 3 \in S
  <2>1. \A j \in 1 .. (3 - 1) : j = 1 \/ j = 2
    OBVIOUS
  <2> QED
    BY <1>3, <2>1
<1>4. CASE 1 \notin S /\ 2 \notin S /\ 3 \notin S /\ 4 \in S
  <2>1. \A j \in 1 .. (4 - 1) : j = 1 \/ j = 2 \/ j = 3
    OBVIOUS
  <2> QED
    BY <1>4, <2>1
<1>5. CASE 1 \notin S /\ 2 \notin S /\ 3 \notin S /\ 4 \notin S /\ 5 \in S
  <2>1. \A j \in 1 .. (5 - 1) : j = 1 \/ j = 2 \/ j = 3 \/ j = 4
    OBVIOUS
  <2> QED
    BY <1>5, <2>1
<1>6. CASE 1 \notin S /\ 2 \notin S /\ 3 \notin S /\ 4 \notin S /\ 5 \notin S /\ 6 \in S
  <2>1. \A j \in 1 .. (6 - 1) : j = 1 \/ j = 2 \/ j = 3 \/ j = 4 \/ j = 5
    OBVIOUS
  <2> QED
    BY <1>6, <2>1
<1>7. CASE 1 \notin S /\ 2 \notin S /\ 3 \notin S /\ 4 \notin S /\ 5 \notin S /\ 6 \notin S
           /\ 7 \in S
  <2>1. \A j \in 1 .. (7 - 1) : j = 1 \/ j = 2 \/ j = 3 \/ j = 4 \/ j = 5 \/ j = 6
    OBVIOUS
  <2> QED
    BY <1>7, <2>1
<1>8. CASE 1 \notin S /\ 2 \notin S /\ 3 \notin S /\ 4 \notin S /\ 5 \notin S /\ 6 \notin S
           /\ 7 \notin S
  <2>0. PICK k : k \in S
    OBVIOUS
  <2>1. k \in 1 .. 8 /\ k # 1 /\ k # 2 /\ k # 3 /\ k # 4 /\ k # 5 /\ k # 6 /\ k # 7
    BY <1>8, <2>0
  <2>2. k = 8
    BY <2>1
  <2>3. \A j \in 1 .. (8 - 1) : j = 1 \/ j = 2 \/ j = 3 \/ j = 4 \/ j = 5 \/ j = 6 \/ j = 7
    OBVIOUS
  <2> QED
    BY <1>8, <2>0, <2>2, <2>3
<1> QED
  BY <1>1, <1>2, <1>3, <1>4, <1>5, <1>6, <1>7, <1>8

\* A message pushes if a rule applies and all that apply notify, and only if
\* one applies that notifies; unless its room has a rule of its own.
LEMMA Deciding ==
    ASSUME NEW m, ~(m.room \in Recipient /\ InForce(m.room))
    PROVE  /\ (\E r \in ChatRule \cup OneToOne : Applies(m, r))
                /\ (\A r \in ChatRule \cup OneToOne : Applies(m, r) => rules[r].notify)
              => Pushes(m)
           /\ Pushes(m) => \E r \in ChatRule \cup OneToOne : Applies(m, r) /\ rules[r].notify
<1> DEFINE Out == \E i \in 1 .. 8 :
                     /\ Applies(m, RuleOrder[i]) /\ rules[RuleOrder[i]].notify
                     /\ \A j \in 1 .. (i - 1) : ~Applies(m, RuleOrder[j])
           S == {i \in 1 .. 8 : Applies(m, RuleOrder[i])}
<1>1. Pushes(m) <=> Out
  BY DEF Pushes
<1>2. ASSUME NEW r \in ChatRule \cup OneToOne, Applies(m, r),
             \A x \in ChatRule \cup OneToOne : Applies(m, x) => rules[x].notify
      PROVE  Out
  <2>1. PICK k \in 1 .. 8 : RuleOrder[k] = r
    BY OrderedRules
  <2>2. S # {} /\ S \subseteq 1 .. 8
    BY <1>2, <2>1
  <2>3. \E i \in S : \A j \in 1 .. (i - 1) : j \notin S
    <3> HIDE DEF S
    <3> QED
      BY <2>2, OneAppliesFirst
  <2>4. PICK i \in S : \A j \in 1 .. (i - 1) : j \notin S
    BY <2>3
  <2>5. i \in 1 .. 8 /\ Applies(m, RuleOrder[i]) /\ rules[RuleOrder[i]].notify
    BY <1>2, <2>4, OrderedRules
  <2>6. ASSUME NEW j \in 1 .. (i - 1) PROVE ~Applies(m, RuleOrder[j])
    <3>1. j \in 1 .. 8
      BY <2>5
    <3> QED
      BY <2>4, <3>1
  <2> QED
    BY <2>5, <2>6
<1>3. Out => \E r \in ChatRule \cup OneToOne : Applies(m, r) /\ rules[r].notify
  BY OrderedRules
<1> HIDE DEF Out
<1> QED
  BY <1>1, <1>2, <1>3

\* The rules of the server as setDefaultChatRules(l) leaves them.
LEMMA RulesAt ==
    ASSUME Inv, NEW l \in MessageLevel, asked["chat"] = l
    PROVE  /\ \A r \in Mention : /\ InForce(r) <=> l = "mentions"
                                 /\ l = "mentions" => rules[r].notify
           /\ \A r \in ChatRule \ Mention : /\ InForce(r) <=> l = "allMessages"
                                            /\ l = "allMessages" => rules[r].notify
           /\ \A r \in OneToOne : InForce(r) /\ rules[r].notify
<1>1. "chat" \in Setting /\ asked["chat"] \notin {"unknown", "pending"}
  BY DEF Setting, MessageLevel
<1>2. \A w \in Plan(l) : Done(rules, w)
  BY <1>1 DEF Inv, Reached
<1>3. ASSUME NEW r \in ChatRule
      PROVE  /\ rules[r].notify = WantsNotify(r, l) /\ rules[r].enabled = WantsEnabled(r, l)
             /\ rules[r].exists
  BY <1>2, PlanTyped DEF Done, Inv
<1>4. Mention \subseteq ChatRule
  BY DEF ChatRule
<1>5. \A r \in OneToOne : InForce(r) /\ rules[r].notify
  BY DEF Inv, InForce, Notifies
<1>6. ASSUME NEW r \in Mention
      PROVE  (InForce(r) <=> l = "mentions") /\ (l = "mentions" => rules[r].notify)
  BY <1>3, <1>4, <1>6 DEF InForce, WantsNotify, WantsEnabled
<1>7. ASSUME NEW r \in ChatRule \ Mention
      PROVE  (InForce(r) <=> l = "allMessages") /\ (l = "allMessages" => rules[r].notify)
  BY <1>3, <1>7 DEF InForce, WantsNotify, WantsEnabled
<1> QED
  BY <1>5, <1>6, <1>7

(* The settings decide what notifies: once setDefaultChatRules or          *)
(* setRecipientChatRules ended well and alone, the first rule that applies *)
(* to a message, encrypted or not, in a room of two or more, with any      *)
(* mentions in it, is one that says what the setting says.                 *)
THEOREM SettingsHonoured == Spec => []SettingHonoured
<1>1. ASSUME Inv, NEW m \in Message, m.room \in Recipient, asked[m.room] \in MessageLevel
      PROVE  Pushes(m) <=> asked[m.room] = "allMessages"
  <2> DEFINE s == m.room
             v == asked[s]
  <2>1. s \in Setting /\ s \notin {"chat", "event"} /\ v \notin {"unknown", "pending", "clear"}
    BY <1>1, NotificationsAssumption DEF Setting, MessageLevel, NotificationsAssumption
  <2>2. rules[s] = [exists |-> TRUE, notify |-> v = "allMessages", enabled |-> TRUE]
    BY <1>1, <2>1 DEF Inv, Reached
  <2>3. InForce(s) /\ rules[s].notify = (v = "allMessages")
    BY <2>2 DEF InForce
  <2> QED
    BY <1>1, <2>3 DEF Pushes
<1>2. ASSUME Inv, NEW m \in Message, m.room = "elsewhere" \/ asked[m.room] = "clear",
             NEW l \in MessageLevel, asked["chat"] = l
      PROVE  LET mention == ~m.encrypted /\ m.says \cap Mention # {}
             IN  /\ l = "allMessages" \/ (l = "mentions" /\ mention) => Pushes(m)
                 /\ Pushes(m) /\ ~m.oneToOne => l = "allMessages" \/ (l = "mentions" /\ mention)
  <2> DEFINE mention == ~m.encrypted /\ m.says \cap Mention # {}
  <2>1. ~(m.room \in Recipient /\ InForce(m.room))
    <3> SUFFICES ASSUME m.room \in Recipient, InForce(m.room) PROVE FALSE
      OBVIOUS
    <3>1. m.room \in Setting /\ m.room \notin {"chat", "event"} /\ asked[m.room] = "clear"
      BY <1>2, NotificationsAssumption DEF Setting, NotificationsAssumption
    <3>2. Reached(rules, m.room, "clear")
      BY <1>2, <3>1 DEF Inv
    <3>3. rules[m.room] = NoRule
      BY <3>1, <3>2 DEF Reached, MessageLevel
    <3> QED
      BY <3>3 DEF InForce, NoRule
  <2>2. /\ \A r \in Mention : /\ InForce(r) <=> l = "mentions"
                              /\ l = "mentions" => rules[r].notify
        /\ \A r \in ChatRule \ Mention : /\ InForce(r) <=> l = "allMessages"
                                         /\ l = "allMessages" => rules[r].notify
        /\ \A r \in OneToOne : InForce(r) /\ rules[r].notify
    BY <1>2, RulesAt
  <2>3. \A r \in ChatRule \cup OneToOne : InForce(r) => rules[r].notify
    BY <2>2 DEF ChatRule
  <2>4. /\ "message" \in ChatRule \ Mention /\ "encrypted" \in ChatRule \ Mention
        /\ Mention \subseteq ChatRule
    BY DEF ChatRule, Underride, Mention
  <2>5. /\ m.encrypted \in BOOLEAN /\ m.oneToOne \in BOOLEAN
        /\ m.says \subseteq Mention \cup {"contains_display_name"}
    BY DEF Message
  <2>6. ASSUME l = "allMessages" PROVE Pushes(m)
    <3>1. CASE m.encrypted
      <4>1. Applies(m, "encrypted")
        BY <2>2, <2>4, <2>6, <3>1 DEF Applies, Matching
      <4> QED
        BY <2>1, <2>3, <2>4, <4>1, Deciding DEF Applies
    <3>2. CASE ~m.encrypted
      <4>1. Applies(m, "message")
        BY <2>2, <2>4, <2>6, <3>2 DEF Applies, Matching
      <4> QED
        BY <2>1, <2>3, <2>4, <4>1, Deciding DEF Applies
    <3> QED
      BY <3>1, <3>2
  <2>7. ASSUME l = "mentions", mention PROVE Pushes(m)
    <3>1. PICK r \in Mention : r \in m.says
      BY <2>7
    <3>2. Applies(m, r)
      BY <2>2, <2>7, <3>1 DEF Applies, Matching
    <3> QED
      BY <2>1, <2>3, <2>4, <3>2, Deciding DEF Applies
  <2>8. ASSUME Pushes(m), ~m.oneToOne PROVE l = "allMessages" \/ (l = "mentions" /\ mention)
    <3>1. PICK r \in ChatRule \cup OneToOne : Applies(m, r)
      BY <2>1, <2>8, Deciding
    <3>2. r \in Matching(m) /\ InForce(r)
      BY <3>1 DEF Applies
    <3>3. r \notin OneToOne
      <4>1. {"encrypted", "message"} \cap OneToOne = {}
            /\ (Mention \cup {"contains_display_name"}) \cap OneToOne = {}
        BY DEF OneToOne, Mention
      <4> QED
        BY <2>5, <2>8, <3>2, <4>1 DEF Matching
    <3>4. CASE r \in Mention
      <4>1. l = "mentions"
        BY <2>2, <3>2, <3>4
      <4>2. ~m.encrypted /\ r \in m.says
        <5>1. "encrypted" \notin Mention /\ "message" \notin Mention
          BY <2>4
        <5> QED
          BY <2>8, <3>2, <3>4, <5>1 DEF Matching
      <4> QED
        BY <3>4, <4>1, <4>2
    <3>5. CASE r \notin Mention
      BY <2>2, <3>1, <3>2, <3>3, <3>5
    <3> QED
      BY <3>4, <3>5
  <2> QED
    BY <2>6, <2>7, <2>8
<1>3. Inv => SettingHonoured
  BY <1>1, <1>2 DEF SettingHonoured
<1> QED
  BY <1>3, NotificationsInvariant, PTL
=============================================================================
