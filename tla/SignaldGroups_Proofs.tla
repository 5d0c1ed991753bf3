------------------------ MODULE SignaldGroups_Proofs ------------------------
(***************************************************************************)
(* Theorems about SignaldGroups, for any groups, people and bounds, with   *)
(* answers in any order and any number of messages ahead of the plugin.    *)
(***************************************************************************)
EXTENDS SignaldGroups, FiniteSetTheorems, SequenceTheorems, TLAPS

\* While a list is in progress it has no rooms yet.
RoomsInv ==
  /\ roomlist => \A g \in Groups : rooms[g] = 0
  /\ RoomsOnce

\* An answer on its way tells what signald knows at present, or a later message
\* corrects it.
ListsInv ==
  /\ LeftGroupIsGone
  /\ \A i \in 1..Len(inbox) : inbox[i].type = "list" =>
       \A g \in inbox[i].about.in :
         \/ g \in member \union pending
         \/ \E j \in (i + 1)..Len(inbox) : inbox[j] = Msg("left", g)

IInv == TypeOK /\ RoomsInv /\ NamedOrAsked /\ ListsInv

-----------------------------------------------------------------------------
(* Messages and the inbox.                                                 *)

LEMMA MessageFields ==
  ASSUME NEW m \in Message
  PROVE  /\ m.type = "list" => m.about.in \subseteq Groups /\ m.about.pending \subseteq Groups
         /\ m.type = "profile" => m.about \in People /\ m = Msg("profile", m.about)
         /\ m.type \in {"left", "message"} => m.about \in Groups
         /\ m.type = "left" => m = Msg("left", m.about)
BY DEF Message, Msg

LEMMA MessageType ==
  /\ \A s, t : s \subseteq Groups /\ t \subseteq Groups => Msg("list", [in |-> s, pending |-> t]) \in Message
  /\ \A p \in People : Msg("profile", p) \in Message
  /\ \A g \in Groups : Msg("left", g) \in Message /\ Msg("message", g) \in Message
  /\ Msg("error", NoOne) \in Message
  /\ \A t, x : Msg(t, x).type = t /\ Msg(t, x).about = x
BY DEF Message, Msg

LEMMA Handled ==
  ASSUME inbox \in Seq(Message), NEW t, Handle(t)
  PROVE  /\ inbox[1] = Head(inbox) /\ Head(inbox) \in Message /\ Head(inbox).type = t
         /\ Len(inbox) \in Nat \ {0}
         /\ inbox' \in Seq(Message) /\ Len(inbox') = Len(inbox) - 1
         /\ \A i \in 1..Len(inbox') : inbox'[i] = inbox[i + 1]
         /\ \A i \in 2..Len(inbox) : inbox'[i - 1] = inbox[i]
<1>1. inbox \in Seq(Message) /\ inbox # <<>> /\ inbox' = Tail(inbox) /\ Head(inbox).type = t
  BY DEF Handle
<1>2. Len(inbox) \in Nat \ {0} /\ inbox[1] = Head(inbox) /\ Head(inbox) \in Message
  BY <1>1, EmptySeq
<1>3. inbox' \in Seq(Message) /\ Len(inbox') = Len(inbox) - 1
  BY <1>1
<1>4. \A i \in 1..Len(inbox') : inbox'[i] = inbox[i + 1]
  BY <1>1, <1>3
<1>5. \A i \in 2..Len(inbox) : i - 1 \in 1..Len(inbox') /\ (i - 1) + 1 = i
  BY <1>2, <1>3
<1> QED
  BY <1>1, <1>2, <1>3, <1>4, <1>5

LEMMA Written ==
  ASSUME inbox \in Seq(Message), NEW m \in Message, Write(m)
  PROVE  /\ Len(inbox) \in Nat
         /\ inbox' \in Seq(Message) /\ Len(inbox') = Len(inbox) + 1
         /\ \A i \in 1..Len(inbox) : inbox'[i] = inbox[i]
         /\ inbox'[Len(inbox) + 1] = m
BY DEF Write

\* Nothing that is on its way is lost.
Kept == \A i \in 1..Len(inbox) : \E j \in 1..Len(inbox') : inbox'[j] = inbox[i]

LEMMA WriteKeeps ==
  ASSUME inbox \in Seq(Message), NEW m \in Message, Write(m)
  PROVE  Kept /\ \E j \in 1..Len(inbox') : inbox'[j] = m
<1>1. /\ Len(inbox) \in Nat /\ Len(inbox') = Len(inbox) + 1
      /\ \A i \in 1..Len(inbox) : inbox'[i] = inbox[i] /\ i \in 1..Len(inbox')
      /\ inbox'[Len(inbox) + 1] = m /\ Len(inbox) + 1 \in 1..Len(inbox')
  BY Written
<1> QED
  BY <1>1 DEF Kept

\* How often signald is asked for somebody, in an answer with these groups.
LEMMA Requested ==
  ASSUME NEW S, S \subseteq Groups
  PROVE  Cardinality(S) \in Nat /\ (S # {} => Cardinality(S) > 0)
<1>1. IsFiniteSet(S)
  BY GroupsAssumption, FS_Subset
<1> QED
  BY <1>1, FS_CardinalityType, FS_EmptySet

-----------------------------------------------------------------------------
(* Types.                                                                  *)

LEMMA SetParticipantsType ==
  ASSUME TypeOK, NEW S, S \subseteq Groups, SetParticipants(S)
  PROVE  /\ users' \in [Groups -> SUBSET People] /\ named' \in [Groups -> SUBSET People]
         /\ \A g \in Groups : /\ conv[g] = "closed" => users'[g] = {}
                              /\ named'[g] \subseteq users'[g] \ (Buddies \union Nameless)
         /\ profiles' \in [People -> Nat]
         /\ eaten' \subseteq People
<1> DEFINE Asking(p) == {g \in {h \in S : conv[h] # "closed"} : p \in Strangers(g)}
<1>1. \A p \in People : Cardinality(Asking(p)) \in Nat
  BY Requested
<1>2. profiles' \in [People -> Nat]
  <2>1. profiles' = [p \in People |-> profiles[p] + Cardinality(Asking(p))]
    BY DEF SetParticipants
  <2> HIDE DEF Asking
  <2> QED
    BY <1>1, <2>1 DEF TypeOK
<1>3. users' \in [Groups -> SUBSET People] /\ named' \in [Groups -> SUBSET People]
  BY MembersAssumption DEF SetParticipants, TypeOK
<1>4. \A g \in Groups : /\ conv[g] = "closed" => users'[g] = {}
                        /\ named'[g] \subseteq users'[g] \ (Buddies \union Nameless)
  BY DEF SetParticipants, TypeOK
<1>5. eaten' \subseteq People
  <2>1. \E T : eaten' = eaten \ T
    BY DEF SetParticipants
  <2> QED
    BY <2>1 DEF TypeOK
<1> QED
  BY <1>2, <1>3, <1>4, <1>5

LEMMA OneMore ==
  \A n \in Nat, b \in BOOLEAN : n + (IF b THEN 1 ELSE 0) \in Nat
OBVIOUS

\* An entry is taken away.
LEMMA OneLess ==
  ASSUME chats \in [Groups -> Nat], NEW g \in Groups, chats[g] > 0
  PROVE  /\ [chats EXCEPT ![g] = @ - 1] \in [Groups -> Nat]
         /\ \A h \in Groups : [chats EXCEPT ![g] = @ - 1][h] <= chats[h]
<1>1. chats[g] - 1 \in Nat
  OBVIOUS
<1>2. \A h \in Groups \ {g} : [chats EXCEPT ![g] = @ - 1][h] = chats[h]
  OBVIOUS
<1>3. [chats EXCEPT ![g] = @ - 1][g] = chats[g] - 1
  OBVIOUS
<1>4. \A h \in Groups : [chats EXCEPT ![g] = @ - 1][h] <= chats[h]
  BY <1>2, <1>3
<1> QED
  BY <1>1, <1>4

LEMMA TypeInit == Init => TypeOK
<1> SUFFICES ASSUME Init PROVE TypeOK
  OBVIOUS
<1>1. chats \in [Groups -> Nat] /\ overlooked \in [Groups -> Nat] /\ conv \in [Groups -> {"closed", "left", "open"}]
  BY GroupsAssumption DEF Init
<1>2. <<>> \in Seq(Message)
  OBVIOUS
<1>3. inbox \in Seq(Message)
  BY <1>2 DEF Init
<1> QED
  BY <1>1, <1>3 DEF Init, TypeOK

LEMMA TypeHandle ==
  ASSUME TypeOK, HandleInput
  PROVE  TypeOK'
<1> inbox \in Seq(Message)
  BY DEF TypeOK
<1>1. CASE OnListGroups
  <2> DEFINE answer == Head(inbox).about
  <2>1. inbox' \in Seq(Message) /\ answer.in \subseteq Groups /\ answer.pending \subseteq Groups
    <3>1. Handle("list")
      BY <1>1 DEF OnListGroups
    <3> QED
      BY <3>1, Handled, MessageFields
  <2>2. /\ EnsureChats(answer.in) /\ Overlook(answer.in) /\ SetParticipants(answer.in) /\ FillRoomlist(answer.in)
        /\ accepts' = [g \in Groups |-> accepts[g] + IF AutoAccept /\ g \in answer.pending THEN 1 ELSE 0]
        /\ UNCHANGED <<conv, show_profile, lists, leaves, groupVars, boundVars, online, disconnect, phase>>
    BY <1>1 DEF OnListGroups
  <2>3. /\ users' \in [Groups -> SUBSET People] /\ named' \in [Groups -> SUBSET People]
        /\ \A g \in Groups : /\ conv'[g] = "closed" => users'[g] = {}
                             /\ named'[g] \subseteq users'[g] \ (Buddies \union Nameless)
        /\ profiles' \in [People -> Nat] /\ eaten' \subseteq People
    BY <2>1, <2>2, SetParticipantsType
  <2>4. roomlist' \in BOOLEAN /\ rooms' \in [Groups -> Nat] /\ accepts' \in [Groups -> Nat]
    <3>1. \A b \in BOOLEAN : (IF b THEN 1 ELSE 0) \in Nat
      OBVIOUS
    <3>2. rooms' = [g \in Groups |-> rooms[g] + IF roomlist /\ g \in answer.in THEN 1 ELSE 0]
      BY <2>2 DEF FillRoomlist
    <3>3. rooms' \in [Groups -> Nat]
      BY <3>1, <3>2 DEF TypeOK
    <3>4. accepts' \in [Groups -> Nat]
      BY <2>2, <3>1 DEF TypeOK
    <3> QED
      BY <2>2, <3>3, <3>4 DEF FillRoomlist
  <2>5. /\ chats' \in [Groups -> Nat] /\ overlooked' \in [Groups -> Nat]
        /\ conv' \in [Groups -> {"closed", "left", "open"}]
    BY <2>2, OneMore DEF TypeOK, EnsureChats, Overlook
  <2> QED
    BY <2>1, <2>2, <2>3, <2>4, <2>5 DEF TypeOK, groupVars, boundVars
<1>2. CASE OnProfile
  <2> DEFINE p == Head(inbox).about
  <2>1. inbox' \in Seq(Message) /\ p \in People
    <3>1. Handle("profile")
      BY <1>2 DEF OnProfile
    <3> QED
      BY <3>1, Handled, MessageFields
  <2>2. /\ Show(p) \/ UpdateName(p)
        /\ UNCHANGED <<chats, overlooked, conv, users, listVars, requestVars, groupVars, boundVars>>
        /\ UNCHANGED <<online, disconnect, phase>>
    BY <1>2 DEF OnProfile
  <2>3. show_profile' \in People \union {NoOne} /\ eaten' \subseteq People
    BY <2>1, <2>2 DEF Show, UpdateName, TypeOK
  <2>4. /\ named' \in [Groups -> SUBSET People]
        /\ \A g \in Groups : named'[g] \subseteq users[g] \ (Buddies \union Nameless)
    <3>1. CASE Show(p)
      BY <3>1 DEF Show, TypeOK
    <3>2. CASE UpdateName(p)
      BY <2>1, <3>2 DEF UpdateName, TypeOK
    <3> QED
      BY <2>2, <3>1, <3>2
  <2> QED
    BY <2>1, <2>2, <2>3, <2>4 DEF TypeOK, listVars, requestVars, groupVars, boundVars
<1>3. CASE OnLeaveGroup
  <2>1. Handle("left")
    BY <1>3 DEF OnLeaveGroup
  <2>2. inbox' \in Seq(Message)
    BY <2>1, Handled
  <2>3. chats' \in [Groups -> Nat]
    <3>1. Head(inbox).about \in Groups
      BY <2>1, Handled, MessageFields
    <3> QED
      BY <1>3, <3>1, OneLess DEF OnLeaveGroup, Found, TypeOK
  <2>4. overlooked' \in [Groups -> Nat]
    BY <1>3, OneMore DEF OnLeaveGroup, Overlook, TypeOK
  <2> QED
    BY <1>3, <2>2, <2>3, <2>4 DEF OnLeaveGroup, TypeOK, listVars, profileVars, requestVars, groupVars, boundVars
<1>4. CASE OnMessage
  <2>1. Handle("message")
    BY <1>4 DEF OnMessage
  <2>2. inbox' \in Seq(Message) /\ Head(inbox).about \in Groups
    BY <2>1, Handled, MessageFields
  <2>3. conv' = [conv EXCEPT ![Head(inbox).about] = "open"]
    BY <1>4 DEF OnMessage, Enter
  <2> QED
    BY <1>4, <2>2, <2>3 DEF OnMessage, TypeOK, listVars, profileVars, requestVars, groupVars, boundVars
<1>5. CASE OnError
  <2>1. Handle("error")
    BY <1>5 DEF OnError
  <2>2. inbox' \in Seq(Message)
    BY <2>1, Handled
  <2> QED
    BY <1>5, <2>2 DEF OnError, TypeOK, blistVars, listVars, profileVars, requestVars, groupVars, boundVars
<1> QED
  BY <1>1, <1>2, <1>3, <1>4, <1>5 DEF HandleInput

LEMMA TypeUser ==
  ASSUME TypeOK, User
  PROVE  TypeOK'
<1> USE BoundsAssumption
<1>1. ASSUME NEW p \in People, GetInfo(p) PROVE TypeOK'
  BY <1>1 DEF GetInfo, Act, TypeOK, blistVars, listVars, groupVars
<1>2. CASE GetRoomlist
  <2>1. roomlist' \in BOOLEAN /\ rooms' \in [Groups -> Nat] /\ lists' \in Nat
    <3>1. CASE roomlist
      BY <1>2, <3>1 DEF GetRoomlist, TypeOK, listVars
    <3>2. CASE ~roomlist
      BY <1>2, <3>2 DEF GetRoomlist, TypeOK
    <3> QED
      BY <3>1, <3>2
  <2> QED
    BY <1>2, <2>1 DEF GetRoomlist, Act, TypeOK, blistVars, listVars, profileVars, groupVars
<1>3. CASE UpdateGroups
  BY <1>3 DEF UpdateGroups, Act, TypeOK, blistVars, listVars, profileVars, groupVars
<1>4. ASSUME NEW g \in Groups, JoinChat(g) PROVE TypeOK'
  BY <1>4 DEF JoinChat, Enter, Act, TypeOK, listVars, profileVars, requestVars, groupVars
<1>5. ASSUME NEW g \in Groups, LeaveChat(g) PROVE TypeOK'
  BY <1>5 DEF LeaveChat, Leave, Act, TypeOK, blistVars, listVars, profileVars, groupVars
<1>6. ASSUME NEW g \in Groups, RemoveChat(g) PROVE TypeOK'
  <2>1. chats' \in [Groups -> Nat]
    <3>1. chats[g] > 0 /\ chats' = [chats EXCEPT ![g] = @ - 1]
      BY <1>6 DEF RemoveChat
    <3>2. chats \in [Groups -> Nat]
      BY DEF TypeOK
    <3> QED
      BY <3>1, <3>2, OneLess
  <2> QED
    BY <1>6, <2>1 DEF RemoveChat, Act, TypeOK, listVars, profileVars, requestVars, groupVars
<1>7. ASSUME NEW g \in Groups, CloseChat(g) PROVE TypeOK'
  <2>1. leaves' \in [Groups -> Nat]
    <3>1. IF conv[g] = "open" /\ chats[g] = 0 THEN Leave(g) ELSE leaves' = leaves
      BY <1>7 DEF CloseChat
    <3>2. Leave(g) => leaves' \in [Groups -> Nat]
      BY DEF Leave, TypeOK
    <3>3. leaves' = leaves => leaves' \in [Groups -> Nat]
      BY DEF TypeOK
    <3> QED
      BY <3>1, <3>2, <3>3
  <2>2. UNCHANGED <<chats, overlooked, listVars, profileVars, lists, profiles, accepts, groupVars,
                    events, orphans, online, disconnect, phase, inbox>>
    BY <1>7 DEF CloseChat
  <2>3. /\ conv' = [conv EXCEPT ![g] = "closed"] /\ actions' \in Nat
        /\ users' = [users EXCEPT ![g] = {}] /\ named' = [named EXCEPT ![g] = {}]
    BY <1>7 DEF CloseChat, Act, TypeOK
  <2>4. /\ conv' \in [Groups -> {"closed", "left", "open"}]
        /\ users' \in [Groups -> SUBSET People] /\ named' \in [Groups -> SUBSET People]
        /\ \A h \in Groups : /\ conv'[h] = "closed" => users'[h] = {}
                             /\ named'[h] \subseteq users'[h] \ (Buddies \union Nameless)
    BY <2>3 DEF TypeOK
  <2> QED
    BY <2>1, <2>2, <2>3, <2>4 DEF TypeOK, listVars, profileVars, groupVars
<1> QED
  BY <1>1, <1>2, <1>3, <1>4, <1>5, <1>6, <1>7 DEF User

\* One request less to be answered.
LEMMA OneAnswered ==
  ASSUME NEW S, NEW f \in [S -> Nat], NEW s \in S, f[s] > 0
  PROVE  [f EXCEPT ![s] = @ - 1] \in [S -> Nat]
<1>1. f[s] - 1 \in Nat
  OBVIOUS
<1> QED
  BY <1>1

LEMMA TypeSignald ==
  ASSUME TypeOK, Signald
  PROVE  TypeOK'
<1> inbox \in Seq(Message)
  BY DEF TypeOK
<1> USE BoundsAssumption
<1>1. CASE AnswerListGroups
  <2>1. Msg("list", [in |-> member \union pending, pending |-> pending]) \in Message
    BY MessageType DEF TypeOK
  <2>2. inbox' \in Seq(Message)
    BY <1>1, <2>1, Written DEF AnswerListGroups
  <2>3. lists' \in Nat
    BY <1>1 DEF AnswerListGroups, TypeOK
  <2>4. UNCHANGED <<blistVars, listVars, profileVars, profiles, leaves, accepts, groupVars,
                    boundVars, online, disconnect, phase>>
    BY <1>1 DEF AnswerListGroups
  <2> QED
    BY <2>2, <2>3, <2>4 DEF TypeOK, blistVars, listVars, profileVars, groupVars, boundVars
<1>2. ASSUME NEW p \in People, AnswerProfile(p) PROVE TypeOK'
  <2>1. inbox' \in Seq(Message)
    BY <1>2, MessageType, Written DEF AnswerProfile
  <2>2. actions' \in Nat /\ events' \in Nat /\ orphans' \subseteq Groups
    BY <1>2 DEF AnswerProfile, Event, TypeOK, boundVars
  <2>3. profiles[p] > 0 /\ profiles' = [profiles EXCEPT ![p] = @ - 1]
    BY <1>2 DEF AnswerProfile
  <2>4. profiles' \in [People -> Nat]
    BY <2>3, OneAnswered DEF TypeOK
  <2>5. UNCHANGED <<blistVars, listVars, profileVars, lists, leaves, accepts, groupVars,
                    online, disconnect, phase>>
    BY <1>2 DEF AnswerProfile
  <2> QED
    BY <2>1, <2>2, <2>4, <2>5 DEF TypeOK, blistVars, listVars, profileVars, groupVars
<1>3. ASSUME NEW g \in Groups, AnswerLeaveGroup(g) PROVE TypeOK'
  <2>1. inbox' \in Seq(Message)
    BY <1>3, MessageType, Written DEF AnswerLeaveGroup
  <2>2. leaves[g] > 0 /\ leaves' = [leaves EXCEPT ![g] = @ - 1]
    BY <1>3 DEF AnswerLeaveGroup
  <2>3. leaves' \in [Groups -> Nat]
    BY <2>2, OneAnswered DEF TypeOK
  <2>4. member' \subseteq Groups /\ pending' \subseteq Groups
    BY <1>3 DEF AnswerLeaveGroup, TypeOK
  <2>5. UNCHANGED <<blistVars, listVars, profileVars, lists, profiles, accepts, boundVars,
                    online, disconnect, phase>>
    BY <1>3 DEF AnswerLeaveGroup
  <2> QED
    BY <2>1, <2>3, <2>4, <2>5 DEF TypeOK, blistVars, listVars, profileVars, boundVars
<1>4. ASSUME NEW g \in Groups, AnswerAccept(g) PROVE TypeOK'
  <2>1. inbox' \in Seq(Message)
    BY <1>4, MessageType, Written DEF AnswerAccept
  <2>2. member' \subseteq Groups /\ pending' \subseteq Groups
    BY <1>4 DEF AnswerAccept, TypeOK, groupVars
  <2>3. accepts[g] > 0 /\ accepts' = [accepts EXCEPT ![g] = @ - 1]
    BY <1>4 DEF AnswerAccept
  <2>4. accepts' \in [Groups -> Nat]
    BY <2>3, OneAnswered DEF TypeOK
  <2>5. UNCHANGED <<blistVars, listVars, profileVars, lists, profiles, leaves, boundVars,
                    online, disconnect, phase>>
    BY <1>4 DEF AnswerAccept
  <2> QED
    BY <2>1, <2>2, <2>4, <2>5 DEF TypeOK, blistVars, listVars, profileVars, boundVars
<1>5. ASSUME NEW g \in Groups, Forward(g) PROVE TypeOK'
  <2>1. inbox' \in Seq(Message)
    BY <1>5, MessageType, Written DEF Forward
  <2> QED
    BY <1>5, <2>1 DEF Forward, Event, TypeOK, blistVars, listVars, profileVars, requestVars, groupVars
<1>6. ASSUME NEW g \in Groups, Invite(g) PROVE TypeOK'
  BY <1>6 DEF Invite, Event, TypeOK, blistVars, listVars, profileVars, requestVars
<1>7. CASE OnWebSocketState
  BY <1>7 DEF OnWebSocketState, Event, TypeOK, blistVars, listVars, profileVars, requestVars, groupVars
<1> QED
  BY <1>1, <1>2, <1>3, <1>4, <1>5, <1>6, <1>7 DEF Signald, Answer

LEMMA TypeStep == TypeOK /\ [Next]_vars => TypeOK'
<1> SUFFICES ASSUME TypeOK, [Next]_vars PROVE TypeOK'
  OBVIOUS
<1>1. CASE Close
  BY <1>1 DEF Close, TypeOK, blistVars, listVars, profileVars, requestVars, groupVars, boundVars
<1>2. CASE UNCHANGED vars
  BY <1>2 DEF vars, TypeOK, blistVars, listVars, profileVars, requestVars, groupVars, boundVars
<1> QED
  BY <1>1, <1>2, TypeHandle, TypeUser, TypeSignald DEF Next, Terminated

-----------------------------------------------------------------------------
(* The room list.                                                          *)

LEMMA RoomsStep ==
  ASSUME TypeOK, RoomsInv, [Next]_vars
  PROVE  RoomsInv'
<1>1. ASSUME NEW listed, FillRoomlist(listed) PROVE RoomsInv'
  <2>1. /\ rooms' = [g \in Groups |-> rooms[g] + IF roomlist /\ g \in listed THEN 1 ELSE 0]
        /\ roomlist' = FALSE
    BY <1>1 DEF FillRoomlist
  <2>2. CASE roomlist
    BY <2>1, <2>2 DEF RoomsInv, RoomsOnce
  <2>3. CASE ~roomlist
    BY <2>1, <2>3 DEF RoomsInv, RoomsOnce, TypeOK
  <2> QED
    BY <2>2, <2>3
<1>2. CASE GetRoomlist
  <2>1. UNCHANGED listVars \/ rooms' = [g \in Groups |-> 0]
    BY <1>2 DEF GetRoomlist, listVars
  <2> QED
    BY <2>1 DEF RoomsInv, RoomsOnce, listVars
<1>3. CASE UNCHANGED listVars
  BY <1>3 DEF RoomsInv, RoomsOnce, listVars
<1>4. HandleInput => UNCHANGED listVars \/ FillRoomlist(Head(inbox).about.in)
  BY DEF HandleInput, OnListGroups, OnProfile, OnLeaveGroup, OnMessage, OnError
<1>5. User => UNCHANGED listVars \/ GetRoomlist
  BY DEF User, GetInfo, UpdateGroups, JoinChat, LeaveChat, RemoveChat, CloseChat
<1>6. Signald => UNCHANGED listVars
  BY DEF Signald, Answer, AnswerListGroups, AnswerProfile, AnswerLeaveGroup, AnswerAccept, OnWebSocketState, Forward, Invite
<1>7. Close \/ Terminated \/ UNCHANGED vars => UNCHANGED listVars
  BY DEF Close, Terminated, vars
<1> QED
  BY <1>1, <1>2, <1>3, <1>4, <1>5, <1>6, <1>7 DEF Next

-----------------------------------------------------------------------------
(* Chats of groups that were left.                                         *)

\* Without a further entry, and with signald and the inbox as they are.
LEMMA ListsUnchanged ==
  ASSUME TypeOK, TypeOK', ListsInv, UNCHANGED <<groupVars, orphans, inbox, overlooked>>,
         \A g \in Groups : chats'[g] <= chats[g]
  PROVE  ListsInv'
<1>1. UNCHANGED <<member, pending, orphans, inbox>>
  BY DEF groupVars
<1>2. \A g \in Groups : Expected(g)' <=> Expected(g)
  BY <1>1 DEF Expected
<1>3. LeftGroupIsGone'
  <2> SUFFICES ASSUME NEW g \in Groups
               PROVE  chats'[g] <= overlooked'[g] + IF Expected(g)' THEN 1 ELSE 0
    BY DEF LeftGroupIsGone
  <2>1. chats[g] <= overlooked[g] + IF Expected(g) THEN 1 ELSE 0
    BY DEF ListsInv, LeftGroupIsGone
  <2>2. chats[g] \in Nat /\ chats'[g] \in Nat /\ overlooked[g] \in Nat /\ overlooked'[g] = overlooked[g]
    BY DEF TypeOK
  <2>3. chats'[g] <= chats[g]
    OBVIOUS
  <2>4. Expected(g)' <=> Expected(g)
    BY <1>2
  <2>5. CASE Expected(g)
    BY <2>1, <2>2, <2>3, <2>4, <2>5
  <2>6. CASE ~Expected(g)
    BY <2>1, <2>2, <2>3, <2>4, <2>6
  <2> QED
    BY <2>5, <2>6
<1> QED
  BY <1>1, <1>3 DEF ListsInv

\* A message is handled.  More entries than those counted as overlooked are there
\* only for the groups of a list.
LEMMA ListsHandled ==
  ASSUME TypeOK, TypeOK', ListsInv, NEW t, Handle(t), UNCHANGED <<groupVars, orphans>>,
         \A g \in Groups :
           \/ chats'[g] + overlooked[g] <= chats[g] + overlooked'[g]
           \/ t = "list" /\ g \in Head(inbox).about.in /\ chats'[g] <= overlooked'[g] + 1,
         t = "left" => chats'[Head(inbox).about] <= overlooked'[Head(inbox).about]
  PROVE  ListsInv'
<1> DEFINE n == Len(inbox)
<1>1. /\ inbox[1] = Head(inbox) /\ Head(inbox) \in Message /\ Head(inbox).type = t
      /\ n \in Nat \ {0} /\ Len(inbox') = n - 1
      /\ \A i \in 1..Len(inbox') : inbox'[i] = inbox[i + 1]
      /\ \A i \in 2..n : inbox'[i - 1] = inbox[i]
  BY Handled DEF TypeOK
<1>2. \A i \in 2..n : i - 1 \in 1..Len(inbox')
  BY <1>1
<1>3. UNCHANGED <<member, pending, orphans>>
  BY DEF groupVars
<1>4. LeftGroupIsGone'
  <2> SUFFICES ASSUME NEW g \in Groups
               PROVE  chats'[g] <= overlooked'[g] + IF Expected(g)' THEN 1 ELSE 0
    BY DEF LeftGroupIsGone
  <2>1. chats[g] \in Nat /\ chats'[g] \in Nat /\ overlooked[g] \in Nat /\ overlooked'[g] \in Nat
    BY DEF TypeOK
  <2>2. chats[g] <= overlooked[g] + IF Expected(g) THEN 1 ELSE 0
    BY DEF ListsInv, LeftGroupIsGone
  <2>3. chats[g] <= overlooked[g] + 1
    <3>1. CASE Expected(g)
      BY <2>2, <3>1
    <3>2. CASE ~Expected(g)
      BY <2>1, <2>2, <3>2
    <3> QED
      BY <3>1, <3>2
  <2>4. \/ chats'[g] + overlooked[g] <= chats[g] + overlooked'[g]
        \/ t = "list" /\ g \in Head(inbox).about.in /\ chats'[g] <= overlooked'[g] + 1
    OBVIOUS
  <2>5. CASE Expected(g)'
    <3>1. chats'[g] <= overlooked'[g] + 1
      BY <2>1, <2>3, <2>4
    <3> QED
      BY <2>5, <3>1
  <2>6. CASE ~Expected(g)' /\ Expected(g)
    <3>1. PICK i \in 1..n : inbox[i] = Msg("left", g)
      BY <1>3, <2>6 DEF Expected
    <3>2. i = 1
      <4> SUFFICES ASSUME i \in 2..n PROVE FALSE
        BY <1>1
      <4>1. inbox'[i - 1] = Msg("left", g) /\ i - 1 \in 1..Len(inbox')
        BY <1>1, <1>2, <3>1
      <4> QED
        BY <2>6, <4>1 DEF Expected
    <3>3. t = "left" /\ Head(inbox).about = g
      BY <1>1, <3>1, <3>2, MessageType
    <3>4. chats'[g] <= overlooked'[g]
      BY <3>3
    <3> QED
      BY <2>1, <2>6, <3>4
  <2>7. CASE ~Expected(g)' /\ ~Expected(g)
    <3>1. ~(t = "list" /\ g \in Head(inbox).about.in)
      <4> SUFFICES ASSUME t = "list", g \in Head(inbox).about.in PROVE FALSE
        OBVIOUS
      <4>1. 1 \in 1..n
        BY <1>1
      <4>2. g \in member \union pending \/ \E j \in (1 + 1)..n : inbox[j] = Msg("left", g)
        BY <1>1, <4>1 DEF ListsInv
      <4>3. \A j \in (1 + 1)..n : j \in 1..n
        BY <1>1
      <4> QED
        BY <2>7, <4>2, <4>3 DEF Expected
    <3>2. chats[g] <= overlooked[g]
      BY <2>1, <2>2, <2>7
    <3>3. chats'[g] <= overlooked'[g]
      BY <2>1, <2>4, <3>1, <3>2
    <3> QED
      BY <2>1, <2>7, <3>3
  <2> QED
    BY <2>5, <2>6, <2>7
<1>5. \A i \in 1..Len(inbox') : inbox'[i].type = "list" =>
        \A g \in inbox'[i].about.in :
          g \in member \union pending \/ \E j \in (i + 1)..Len(inbox') : inbox'[j] = Msg("left", g)
  <2> SUFFICES ASSUME NEW i \in 1..Len(inbox'), inbox'[i].type = "list",
                      NEW g \in inbox'[i].about.in, g \notin member \union pending
               PROVE  \E j \in (i + 1)..Len(inbox') : inbox'[j] = Msg("left", g)
    OBVIOUS
  <2>1. inbox'[i] = inbox[i + 1] /\ i + 1 \in 1..n /\ i \in Nat
    BY <1>1
  <2>2. PICK j \in ((i + 1) + 1)..n : inbox[j] = Msg("left", g)
    BY <2>1 DEF ListsInv
  <2>3. j - 1 \in (i + 1)..Len(inbox') /\ j \in 2..n
    BY <1>1, <2>1, <2>2
  <2> QED
    BY <1>1, <2>2, <2>3
<1> QED
  BY <1>3, <1>4, <1>5 DEF ListsInv

\* Entries stay as they are and are expected as before.
LEMMA MoreExpected ==
  ASSUME TypeOK, LeftGroupIsGone, UNCHANGED <<chats, overlooked>>,
         \A g \in Groups : Expected(g) => Expected(g)'
  PROVE  LeftGroupIsGone'
<1> SUFFICES ASSUME NEW g \in Groups
             PROVE  chats'[g] <= overlooked'[g] + IF Expected(g)' THEN 1 ELSE 0
  BY DEF LeftGroupIsGone
<1>1. chats[g] <= overlooked[g] + IF Expected(g) THEN 1 ELSE 0
  BY DEF LeftGroupIsGone
<1>2. chats'[g] = chats[g] /\ overlooked'[g] = overlooked[g] /\ chats[g] \in Nat /\ overlooked[g] \in Nat
  BY DEF TypeOK
<1>3. CASE Expected(g)
  <2>1. Expected(g)'
    BY <1>3
  <2> QED
    BY <1>1, <1>2, <1>3, <2>1
<1>4. CASE ~Expected(g)
  BY <1>1, <1>2, <1>4
<1> QED
  BY <1>3, <1>4

\* signald writes a message, which may be about a group that was just left.
LEMMA ListsWritten ==
  ASSUME TypeOK, ListsInv, NEW m \in Message, Write(m), UNCHANGED <<chats, overlooked, orphans>>,
         m.type = "list" => m.about.in \subseteq member \union pending,
         \A g \in member \union pending : g \in member' \union pending' \/ m = Msg("left", g)
  PROVE  ListsInv'
<1> DEFINE n == Len(inbox)
<1>1. /\ n \in Nat /\ Len(inbox') = n + 1
      /\ \A i \in 1..n : inbox'[i] = inbox[i]
      /\ inbox'[n + 1] = m
  BY Written DEF TypeOK
<1>2. \A g : m = Msg("left", g) => m.type # "list"
  BY MessageType
<1>3. LeftGroupIsGone'
  <2>1. \A i \in 1..n : i \in 1..Len(inbox')
    BY <1>1
  <2>2. n + 1 \in 1..Len(inbox')
    BY <1>1
  <2>3. \A g \in Groups : Expected(g) => Expected(g)'
    BY <1>1, <2>1, <2>2 DEF Expected
  <2> QED
    BY <2>3, MoreExpected DEF ListsInv
<1>4. \A i \in 1..Len(inbox') : inbox'[i].type = "list" =>
        \A g \in inbox'[i].about.in :
          \/ g \in member' \union pending'
          \/ \E j \in (i + 1)..Len(inbox') : inbox'[j] = Msg("left", g)
  <2> SUFFICES ASSUME NEW i \in 1..Len(inbox'), inbox'[i].type = "list",
                      NEW g \in inbox'[i].about.in, g \notin member' \union pending'
               PROVE  \E j \in (i + 1)..Len(inbox') : inbox'[j] = Msg("left", g)
    OBVIOUS
  <2>1. CASE i = n + 1
    BY <1>1, <1>2, <2>1
  <2>2. CASE i \in 1..n
    <3>1. CASE m = Msg("left", g)
      <4>1. n + 1 \in (i + 1)..Len(inbox')
        BY <1>1, <2>2
      <4> QED
        BY <1>1, <3>1, <4>1
    <3>2. CASE m # Msg("left", g)
      <4>1. PICK j \in (i + 1)..n : inbox[j] = Msg("left", g)
        BY <1>1, <2>2, <3>2 DEF ListsInv
      <4>2. j \in 1..n /\ j \in (i + 1)..Len(inbox')
        BY <1>1, <2>2, <4>1
      <4> QED
        BY <1>1, <4>1, <4>2
    <3> QED
      BY <3>1, <3>2
  <2> QED
    BY <1>1, <2>1, <2>2
<1> QED
  BY <1>3, <1>4 DEF ListsInv

\* The account gets into groups and nothing is written.
LEMMA ListsGrow ==
  ASSUME TypeOK, ListsInv, UNCHANGED <<chats, overlooked, orphans, inbox>>,
         member \union pending \subseteq member' \union pending'
  PROVE  ListsInv'
<1>1. \A g \in Groups : Expected(g) => Expected(g)'
  BY DEF Expected
<1>2. LeftGroupIsGone'
  BY <1>1, MoreExpected DEF ListsInv
<1> QED
  BY <1>2 DEF ListsInv

\* An answer to list_groups is handled: an entry that was there is found or counted.
LEMMA ListsListed ==
  ASSUME TypeOK, TypeOK', NEW S, EnsureChats(S), Overlook(S), NEW g \in Groups
  PROVE  \/ chats'[g] + overlooked[g] <= chats[g] + overlooked'[g]
         \/ g \in S /\ chats'[g] <= overlooked'[g] + 1
<1>1. chats[g] \in Nat /\ overlooked[g] \in Nat
  BY DEF TypeOK
<1>2. /\ chats'[g] = chats[g] + IF g \in S /\ ~Found(g) THEN 1 ELSE 0
      /\ overlooked'[g] = overlooked[g] + IF g \in S /\ chats[g] > 0 /\ ~online THEN 1 ELSE 0
  BY DEF EnsureChats, Overlook
<1>3. CASE g \in S /\ chats[g] > 0 /\ ~online
  <2>1. ~Found(g)
    BY <1>3 DEF Found
  <2>2. chats'[g] = chats[g] + 1 /\ overlooked'[g] = overlooked[g] + 1
    BY <1>2, <1>3, <2>1
  <2> QED
    BY <1>1, <2>2
<1>4. CASE g \in S /\ chats[g] > 0 /\ online
  <2>1. Found(g)
    BY <1>4 DEF Found
  <2>2. chats'[g] = chats[g] + 0 /\ overlooked'[g] = overlooked[g] + 0
    BY <1>2, <1>4, <2>1
  <2> QED
    BY <1>1, <2>2
<1>5. CASE g \in S /\ ~(chats[g] > 0)
  <2>1. chats[g] = 0
    BY <1>1, <1>5
  <2>2. ~Found(g)
    BY <1>5 DEF Found
  <2>3. chats'[g] = chats[g] + 1 /\ overlooked'[g] = overlooked[g] + 0
    BY <1>2, <1>5, <2>2
  <2> QED
    BY <1>1, <1>5, <2>1, <2>3
<1>6. CASE g \notin S
  <2>1. chats'[g] = chats[g] + 0 /\ overlooked'[g] = overlooked[g] + 0
    BY <1>2, <1>6
  <2> QED
    BY <1>1, <2>1
<1> QED
  BY <1>3, <1>4, <1>5, <1>6

\* The report that the account has left group h is handled.
LEMMA ListsLeft ==
  ASSUME TypeOK, ListsInv, NEW h \in Groups, Overlook({h}),
         chats' = IF Found(h) THEN [chats EXCEPT ![h] = @ - 1] ELSE chats
  PROVE  /\ \A g \in Groups : chats'[g] + overlooked[g] <= chats[g] + overlooked'[g]
         /\ chats'[h] <= overlooked'[h]
<1>1. \A g \in Groups : chats[g] \in Nat /\ overlooked[g] \in Nat
  BY DEF TypeOK
<1>2. \A g \in Groups \ {h} : chats'[g] = chats[g] /\ overlooked'[g] = overlooked[g] + 0
  BY <1>1 DEF Overlook, TypeOK
<1>3. overlooked'[h] = overlooked[h] + IF chats[h] > 0 /\ ~online THEN 1 ELSE 0
  BY DEF Overlook
<1>4. chats[h] <= overlooked[h] + 1
  <2>1. chats[h] <= overlooked[h] + IF Expected(h) THEN 1 ELSE 0
    BY DEF ListsInv, LeftGroupIsGone
  <2>2. CASE Expected(h)
    BY <2>1, <2>2
  <2>3. CASE ~Expected(h)
    BY <1>1, <2>1, <2>3
  <2> QED
    BY <2>2, <2>3
<1>5. chats'[h] + overlooked[h] <= chats[h] + overlooked'[h] /\ chats'[h] <= overlooked'[h]
  <2>1. CASE Found(h)
    <3>1. chats'[h] = chats[h] - 1 /\ overlooked'[h] = overlooked[h] + 0
      BY <1>3, <2>1 DEF Found, TypeOK
    <3> QED
      BY <1>1, <1>4, <3>1
  <2>2. CASE ~Found(h) /\ chats[h] > 0
    <3>1. chats'[h] = chats[h] /\ overlooked'[h] = overlooked[h] + 1
      BY <1>3, <2>2 DEF Found
    <3> QED
      BY <1>1, <1>4, <3>1
  <2>3. CASE ~Found(h) /\ ~(chats[h] > 0)
    <3>1. chats'[h] = chats[h] /\ overlooked'[h] = overlooked[h] + 0
      BY <1>3, <2>3
    <3>2. chats[h] = 0
      BY <1>1, <2>3
    <3> QED
      BY <1>1, <3>1, <3>2
  <2> QED
    BY <2>1, <2>2, <2>3
<1> QED
  BY <1>1, <1>2, <1>5

LEMMA ListsStep ==
  ASSUME TypeOK, TypeOK', ListsInv, [Next]_vars
  PROVE  ListsInv'
<1>1. CASE HandleInput
  <2>1. CASE OnListGroups
    <3> DEFINE listed == Head(inbox).about.in
    <3>1. Handle("list") /\ EnsureChats(listed) /\ Overlook(listed) /\ UNCHANGED <<groupVars, orphans>>
      BY <2>1 DEF OnListGroups, boundVars
    <3>2. \A g \in Groups : \/ chats'[g] + overlooked[g] <= chats[g] + overlooked'[g]
                            \/ g \in listed /\ chats'[g] <= overlooked'[g] + 1
      <4> HIDE DEF listed
      <4> QED
        BY <3>1, ListsListed
    <3> QED
      BY <3>1, <3>2, ListsHandled
  <2>2. CASE OnLeaveGroup
    <3> DEFINE h == Head(inbox).about
    <3>1. /\ Handle("left") /\ Overlook({h}) /\ UNCHANGED <<groupVars, orphans>>
          /\ chats' = IF Found(h) THEN [chats EXCEPT ![h] = @ - 1] ELSE chats
      BY <2>2 DEF OnLeaveGroup, boundVars
    <3>2. h \in Groups
      BY <3>1, Handled, MessageFields DEF TypeOK
    <3>3. /\ \A g \in Groups : chats'[g] + overlooked[g] <= chats[g] + overlooked'[g]
          /\ chats'[h] <= overlooked'[h]
      <4> HIDE DEF h
      <4> QED
        BY <3>1, <3>2, ListsLeft
    <3> QED
      BY <3>1, <3>3, ListsHandled
  <2>3. CASE OnProfile \/ OnMessage \/ OnError
    <3>1. /\ Handle("profile") \/ Handle("message") \/ Handle("error")
          /\ UNCHANGED <<groupVars, orphans, chats, overlooked>>
      BY <2>3 DEF OnProfile, OnMessage, OnError, blistVars, boundVars
    <3>2. \A g \in Groups : chats'[g] + overlooked[g] <= chats[g] + overlooked'[g]
      BY <3>1 DEF TypeOK
    <3> QED
      BY <3>1, <3>2, ListsHandled
  <2> QED
    BY <1>1, <2>1, <2>2, <2>3 DEF HandleInput
<1>2. CASE User
  <2>1. UNCHANGED <<groupVars, orphans, inbox, overlooked>>
    BY <1>2 DEF User, GetInfo, GetRoomlist, UpdateGroups, JoinChat, LeaveChat, RemoveChat, CloseChat, blistVars
  <2>2. chats' = chats \/ \E g \in Groups : chats[g] > 0 /\ chats' = [chats EXCEPT ![g] = @ - 1]
    BY <1>2 DEF User, GetInfo, GetRoomlist, UpdateGroups, JoinChat, LeaveChat, RemoveChat, CloseChat, blistVars
  <2>3. \A g \in Groups : chats'[g] <= chats[g]
    <3>1. chats \in [Groups -> Nat]
      BY DEF TypeOK
    <3>2. ASSUME NEW g \in Groups, chats[g] > 0, chats' = [chats EXCEPT ![g] = @ - 1]
          PROVE  \A h \in Groups : chats'[h] <= chats[h]
      BY <3>1, <3>2, OneLess
    <3>3. CASE chats' = chats
      BY <3>1, <3>3
    <3> QED
      BY <2>2, <3>2, <3>3
  <2> QED
    BY <2>1, <2>3, ListsUnchanged
<1>3. CASE AnswerListGroups
  <2> DEFINE m == Msg("list", [in |-> member \union pending, pending |-> pending])
  <2>1. m \in Message
    BY MessageType DEF TypeOK
  <2>2. m.about.in = member \union pending
    BY MessageType
  <2>3. Write(m) /\ UNCHANGED <<groupVars, orphans, chats, overlooked>>
    BY <1>3 DEF AnswerListGroups, blistVars, boundVars
  <2> HIDE DEF m
  <2> QED
    BY <2>1, <2>2, <2>3, ListsWritten DEF groupVars
<1>4. ASSUME NEW p \in People, AnswerProfile(p) PROVE ListsInv'
  <2>1. /\ Write(Msg("profile", p)) \/ Write(Msg("error", NoOne))
        /\ UNCHANGED <<groupVars, orphans, chats, overlooked>>
    BY <1>4 DEF AnswerProfile, Event, blistVars, boundVars
  <2>2. Msg("profile", p).type # "list" /\ Msg("error", NoOne).type # "list"
    BY MessageType
  <2> QED
    BY <2>1, <2>2, MessageType, ListsWritten DEF groupVars
<1>5. ASSUME NEW g \in Groups, AnswerLeaveGroup(g) PROVE ListsInv'
  <2>1. /\ member' = member \ {g} /\ pending' = pending \ {g} /\ UNCHANGED <<orphans, chats, overlooked>>
        /\ \/ g \in member \union pending /\ Write(Msg("left", g))
           \/ g \notin member \union pending /\ Write(Msg("error", NoOne))
    BY <1>5 DEF AnswerLeaveGroup, blistVars, boundVars
  <2>2. Msg("left", g).type # "list" /\ Msg("error", NoOne).type # "list"
    BY MessageType
  <2> QED
    BY <2>1, <2>2, MessageType, ListsWritten
<1>6. ASSUME NEW g \in Groups, AnswerAccept(g) PROVE ListsInv'
  <2>1. UNCHANGED <<orphans, chats, overlooked>> /\ member' \union pending' = member \union pending
    BY <1>6 DEF AnswerAccept, blistVars, boundVars, groupVars
  <2>2. inbox' = inbox \/ Write(Msg("error", NoOne))
    BY <1>6 DEF AnswerAccept
  <2>3. Msg("error", NoOne).type # "list"
    BY MessageType
  <2> QED
    BY <2>1, <2>2, <2>3, MessageType, ListsWritten, ListsGrow
<1>7. ASSUME NEW g \in Groups, Forward(g) PROVE ListsInv'
  <2>1. Write(Msg("message", g)) /\ UNCHANGED <<groupVars, orphans, chats, overlooked>>
    BY <1>7 DEF Forward, Event, blistVars
  <2>2. Msg("message", g).type # "list"
    BY MessageType
  <2> QED
    BY <2>1, <2>2, MessageType, ListsWritten DEF groupVars
<1>8. ASSUME NEW g \in Groups, Invite(g) PROVE ListsInv'
  <2>1. /\ UNCHANGED <<orphans, chats, overlooked, inbox>>
        /\ member \union pending \subseteq member' \union pending'
    BY <1>8 DEF Invite, Event, blistVars
  <2> QED
    BY <2>1, ListsGrow
<1>9. CASE Close \/ Terminated \/ UNCHANGED vars
  <2>1. UNCHANGED <<groupVars, orphans, chats, overlooked, inbox>>
    BY <1>9 DEF Close, Terminated, vars, blistVars, boundVars
  <2>2. \A g \in Groups : chats'[g] <= chats[g]
    BY <2>1 DEF TypeOK
  <2> QED
    BY <2>1, <2>2, ListsUnchanged
<1>10. CASE OnWebSocketState
  <2>1. UNCHANGED <<groupVars, orphans, chats, overlooked, inbox>>
    BY <1>10 DEF OnWebSocketState, Event, blistVars
  <2>2. \A g \in Groups : chats'[g] <= chats[g]
    BY <2>1 DEF TypeOK
  <2> QED
    BY <2>1, <2>2, ListsUnchanged
<1> QED
  BY <1>1, <1>2, <1>3, <1>4, <1>5, <1>6, <1>7, <1>8, <1>9, <1>10 DEF Next, Signald, Answer

-----------------------------------------------------------------------------
(* Participants and their names.                                           *)

\* One participant, of one window.
NameDue(g, p) == p \in named[g] \union eaten \/ OnItsWay(p) \/ Failing

\* No participants come, none loses a name, no request is forgotten.
LEMMA NamesKept ==
  ASSUME NamedOrAsked, UNCHANGED <<users, named, eaten>>,
         Kept, disconnect => disconnect',
         \A p \in People : profiles[p] > 0 => profiles'[p] > 0,
         TypeOK
  PROVE  NamedOrAsked'
<1> SUFFICES ASSUME NEW g \in Groups, NEW p \in users[g] \ Buddies PROVE NameDue(g, p)'
  BY DEF NamedOrAsked, NameDue
<1>1. NameDue(g, p) /\ p \in People
  BY DEF NamedOrAsked, NameDue, TypeOK
<1>2. OnItsWay(p) => OnItsWay(p)'
  BY <1>1 DEF OnItsWay, Kept
<1>3. Failing => Failing'
  BY DEF Failing, Kept
<1> QED
  BY <1>1, <1>2, <1>3 DEF NameDue

\* What is handled stays on its way, unless it is the message that is handled.
LEMMA HandledNames ==
  ASSUME TypeOK, NEW t, Handle(t), disconnect => disconnect', NEW p
  PROVE  /\ (OnItsWay(p) /\ profiles'[p] >= profiles[p] /\ profiles'[p] \in Nat /\ profiles[p] \in Nat)
              => (OnItsWay(p)' \/ Head(inbox) = Msg("profile", p))
         /\ Failing => Failing' \/ t = "error"
<1>1. /\ inbox[1] = Head(inbox) /\ Head(inbox).type = t
      /\ Len(inbox) \in Nat \ {0} /\ Len(inbox') = Len(inbox) - 1
      /\ \A i \in 2..Len(inbox) : inbox'[i - 1] = inbox[i]
  BY Handled DEF TypeOK
<1>2. \A i \in 1..Len(inbox) : i = 1 \/ \E j \in 1..Len(inbox') : inbox'[j] = inbox[i]
  <2> SUFFICES ASSUME NEW i \in 2..Len(inbox) PROVE \E j \in 1..Len(inbox') : inbox'[j] = inbox[i]
    BY <1>1
  <2>1. i - 1 \in 1..Len(inbox')
    BY <1>1
  <2> QED
    BY <1>1, <2>1
<1>3. ASSUME OnItsWay(p), profiles'[p] >= profiles[p], profiles'[p] \in Nat, profiles[p] \in Nat
      PROVE  OnItsWay(p)' \/ Head(inbox) = Msg("profile", p)
  <2>1. CASE profiles[p] > 0
    BY <1>3, <2>1 DEF OnItsWay
  <2>2. CASE \E i \in 1..Len(inbox) : inbox[i] = Msg("profile", p)
    BY <1>1, <1>2, <2>2 DEF OnItsWay
  <2> QED
    BY <1>3, <2>1, <2>2 DEF OnItsWay
<1>4. Failing => Failing' \/ t = "error"
  BY <1>1, <1>2 DEF Failing
<1> QED
  BY <1>3, <1>4

LEMMA NamesHandle ==
  ASSUME TypeOK, TypeOK', NamedOrAsked, HandleInput
  PROVE  NamedOrAsked'
<1> SUFFICES ASSUME NEW g \in Groups, NEW p \in users'[g] \ Buddies PROVE NameDue(g, p)'
  BY DEF NamedOrAsked, NameDue
<1>0. p \in People /\ profiles[p] \in Nat /\ profiles'[p] \in Nat
  BY DEF TypeOK
<1>1. CASE OnListGroups
  <2> DEFINE listed == Head(inbox).about.in
             active == {h \in listed : conv[h] # "closed"}
             Asking == {h \in active : p \in Strangers(h)}
  <2>1. Handle("list") /\ SetParticipants(listed) /\ disconnect' = disconnect
    BY <1>1 DEF OnListGroups
  <2>2. listed \subseteq Groups
    BY <2>1, Handled, MessageFields DEF TypeOK
  <2>3. profiles'[p] = profiles[p] + Cardinality(Asking)
    BY <1>0, <2>1 DEF SetParticipants
  <2>4. Cardinality(Asking) \in Nat /\ (Asking # {} => Cardinality(Asking) > 0)
    BY <2>2, Requested
  <2>5. CASE Asking # {}
    <3>1. profiles'[p] > 0
      <4> HIDE DEF Asking
      <4> QED
        BY <1>0, <2>3, <2>4, <2>5
    <3> QED
      BY <3>1 DEF NameDue, OnItsWay
  <2>6. CASE Asking = {}
    <3>1. g \notin active
      <4> SUFFICES ASSUME g \in active PROVE FALSE
        OBVIOUS
      <4>1. users'[g] = Members[g]
        BY <2>1 DEF SetParticipants
      <4>2. p \in Strangers(g)
        BY <4>1 DEF Strangers
      <4> QED
        BY <2>6, <4>2
    <3>2. users'[g] = users[g] /\ named'[g] = named[g]
      BY <2>1, <3>1 DEF SetParticipants
    <3>3. p \in eaten => p \in eaten'
      <4>1. p \notin UNION {Strangers(h) : h \in active}
        BY <2>6
      <4>2. eaten' = eaten \ UNION {Strangers(h) : h \in active}
        BY <2>1 DEF SetParticipants
      <4> QED
        BY <4>1, <4>2
    <3>4. NameDue(g, p)
      BY <3>2 DEF NamedOrAsked, NameDue
    <3>5. profiles'[p] >= profiles[p]
      <4> HIDE DEF Asking
      <4> QED
        BY <1>0, <2>3, <2>4
    <3>6. OnItsWay(p) => OnItsWay(p)' \/ Head(inbox) = Msg("profile", p)
      BY <1>0, <2>1, <3>5, HandledNames
    <3>7. Failing => Failing'
      BY <2>1, HandledNames
    <3>8. Head(inbox) # Msg("profile", p)
      <4>1. Head(inbox).type = "list"
        BY <2>1 DEF Handle
      <4> QED
        BY <4>1, MessageType
    <3> QED
      BY <3>2, <3>3, <3>4, <3>6, <3>7, <3>8 DEF NameDue
  <2> QED
    BY <2>5, <2>6
<1>2. CASE OnProfile
  <2> DEFINE q == Head(inbox).about
  <2>1. Handle("profile") /\ UNCHANGED <<users, profiles, disconnect>>
    BY <1>2 DEF OnProfile, requestVars
  <2>2. NameDue(g, p)
    BY <2>1 DEF NamedOrAsked, NameDue
  <2>3. named[g] \subseteq named'[g] /\ eaten \subseteq eaten'
    BY <1>2 DEF OnProfile, Show, UpdateName
  <2>4. q = p => p \in named'[g] \union eaten'
    BY <1>2, <2>1 DEF OnProfile, Show, UpdateName
  <2>5. Head(inbox) = Msg("profile", p) => q = p
    BY MessageType
  <2>6. OnItsWay(p) => OnItsWay(p)' \/ Head(inbox) = Msg("profile", p)
    BY <1>0, <2>1, HandledNames
  <2>7. Failing => Failing'
    BY <2>1, HandledNames
  <2> QED
    BY <2>2, <2>3, <2>4, <2>5, <2>6, <2>7 DEF NameDue
<1>3. CASE OnLeaveGroup \/ OnMessage
  <2>1. /\ Handle("left") \/ Handle("message")
        /\ UNCHANGED <<users, named, eaten, profiles, disconnect>>
    BY <1>3 DEF OnLeaveGroup, OnMessage, requestVars, profileVars
  <2>2. NameDue(g, p)
    BY <2>1 DEF NamedOrAsked, NameDue
  <2>3. Head(inbox) # Msg("profile", p)
    <3>1. Head(inbox).type # "profile"
      BY <2>1 DEF Handle
    <3> QED
      BY <3>1, MessageType
  <2>4. OnItsWay(p) => OnItsWay(p)'
    BY <1>0, <2>1, <2>3, HandledNames
  <2>5. Failing => Failing'
    BY <2>1, HandledNames
  <2> QED
    BY <2>1, <2>2, <2>4, <2>5 DEF NameDue
<1>4. CASE OnError
  BY <1>4 DEF OnError, NameDue, Failing
<1> QED
  BY <1>1, <1>2, <1>3, <1>4 DEF HandleInput

LEMMA NamesUser ==
  ASSUME TypeOK, NamedOrAsked, User
  PROVE  NamedOrAsked'
<1>1. inbox' = inbox /\ disconnect' = disconnect /\ Kept
  <2>1. inbox' = inbox /\ disconnect' = disconnect
    BY DEF User, GetInfo, GetRoomlist, UpdateGroups, JoinChat, LeaveChat, RemoveChat, CloseChat
  <2> QED
    BY <2>1 DEF Kept
<1>2. ASSUME NEW p \in People, GetInfo(p) PROVE NamedOrAsked'
  <2>1. UNCHANGED <<users, named, eaten>> /\ profiles' = [profiles EXCEPT ![p] = @ + 1]
    BY <1>2 DEF GetInfo, blistVars
  <2>2. \A q \in People : profiles[q] > 0 => profiles'[q] > 0
    BY <2>1 DEF TypeOK
  <2> QED
    BY <1>1, <2>1, <2>2, NamesKept
<1>3. ASSUME NEW g \in Groups, CloseChat(g) PROVE NamedOrAsked'
  <2>1. /\ users' = [users EXCEPT ![g] = {}] /\ named' = [named EXCEPT ![g] = {}]
        /\ UNCHANGED <<eaten, profiles>>
    BY <1>3 DEF CloseChat, profileVars
  <2> SUFFICES ASSUME NEW h \in Groups, NEW p \in users'[h] \ Buddies PROVE NameDue(h, p)'
    BY DEF NamedOrAsked, NameDue
  <2>2. h # g /\ users'[h] = users[h] /\ named'[h] = named[h]
    BY <2>1 DEF TypeOK
  <2>3. NameDue(h, p)
    BY <2>2 DEF NamedOrAsked, NameDue
  <2> QED
    BY <1>1, <2>1, <2>2, <2>3 DEF NameDue, OnItsWay, Failing
<1>4. ASSUME UNCHANGED <<users, named, eaten, profiles>> PROVE NamedOrAsked'
  BY <1>1, <1>4, NamesKept
<1>5. CASE GetRoomlist \/ UpdateGroups \/ \E g \in Groups : JoinChat(g) \/ LeaveChat(g) \/ RemoveChat(g)
  <2>1. UNCHANGED <<users, named, eaten, profiles>>
    BY <1>5 DEF GetRoomlist, UpdateGroups, JoinChat, LeaveChat, RemoveChat, blistVars, profileVars, requestVars
  <2> QED
    BY <2>1, <1>4
<1> QED
  BY <1>2, <1>3, <1>5 DEF User

LEMMA NamesSignald ==
  ASSUME TypeOK, NamedOrAsked, Signald
  PROVE  NamedOrAsked'
<1>1. UNCHANGED <<users, named, eaten, disconnect>>
  BY DEF Signald, Answer, AnswerListGroups, AnswerProfile, AnswerLeaveGroup, AnswerAccept, OnWebSocketState, Forward, Invite,
         blistVars, profileVars
<1>2. ASSUME NEW m \in Message, Write(m) PROVE Kept /\ \E j \in 1..Len(inbox') : inbox'[j] = m
  BY <1>2, WriteKeeps DEF TypeOK
<1>3. inbox' = inbox => Kept
  BY DEF Kept
<1>4. ASSUME NEW q \in People, AnswerProfile(q) PROVE NamedOrAsked'
  <2>1. /\ Write(Msg("profile", q)) \/ Write(Msg("error", NoOne))
        /\ profiles' = [profiles EXCEPT ![q] = @ - 1]
    BY <1>4 DEF AnswerProfile
  <2>2. Kept
    BY <1>2, <2>1, MessageType
  <2>3. OnItsWay(q)' \/ Failing'
    <3>1. CASE Write(Msg("profile", q))
      BY <1>2, <3>1, MessageType DEF OnItsWay
    <3>2. CASE Write(Msg("error", NoOne))
      <4>1. \E j \in 1..Len(inbox') : inbox'[j].type = "error"
        BY <1>2, <3>2, MessageType
      <4> QED
        BY <4>1 DEF Failing
    <3> QED
      BY <2>1, <3>1, <3>2
  <2> SUFFICES ASSUME NEW g \in Groups, NEW p \in users[g] \ Buddies, p # q PROVE NameDue(g, p)'
    BY <1>1, <2>3 DEF NamedOrAsked, NameDue
  <2>4. NameDue(g, p) /\ profiles'[p] = profiles[p]
    BY <2>1 DEF NamedOrAsked, NameDue, TypeOK
  <2>5. OnItsWay(p) => OnItsWay(p)'
    BY <2>2, <2>4 DEF OnItsWay, Kept
  <2>6. Failing => Failing'
    BY <1>1, <2>2 DEF Failing, Kept
  <2> QED
    BY <1>1, <2>4, <2>5, <2>6 DEF NameDue
<1>5. ASSUME Kept, profiles' = profiles PROVE NamedOrAsked'
  BY <1>1, <1>5, NamesKept
<1>6. CASE AnswerListGroups \/ \E g \in Groups : AnswerLeaveGroup(g) \/ AnswerAccept(g) \/ Forward(g) \/ Invite(g)
  <2>1. profiles' = profiles
    BY <1>6 DEF AnswerListGroups, AnswerLeaveGroup, AnswerAccept, Forward, Invite, requestVars
  <2>2. inbox' = inbox \/ \E m \in Message : Write(m)
    <3>1. AnswerListGroups => \E m \in Message : Write(m)
      BY MessageType DEF AnswerListGroups, TypeOK
    <3>2. \A g \in Groups : AnswerLeaveGroup(g) => \E m \in Message : Write(m)
      BY MessageType DEF AnswerLeaveGroup
    <3>3. \A g \in Groups : AnswerAccept(g) => inbox' = inbox \/ \E m \in Message : Write(m)
      BY MessageType DEF AnswerAccept
    <3>4. \A g \in Groups : Forward(g) => \E m \in Message : Write(m)
      BY MessageType DEF Forward
    <3>5. \A g \in Groups : Invite(g) => inbox' = inbox
      BY DEF Invite
    <3> QED
      BY <1>6, <3>1, <3>2, <3>3, <3>4, <3>5
  <2> QED
    BY <1>2, <1>3, <1>5, <2>1, <2>2
<1>7. CASE OnWebSocketState
  BY <1>3, <1>5, <1>7 DEF OnWebSocketState, requestVars
<1> QED
  BY <1>4, <1>6, <1>7 DEF Signald, Answer

LEMMA NamesStep ==
  ASSUME TypeOK, TypeOK', NamedOrAsked, [Next]_vars
  PROVE  NamedOrAsked'
<1>1. CASE Close \/ Terminated \/ UNCHANGED vars
  <2>1. UNCHANGED <<users, named, eaten, disconnect, inbox, profiles>>
    BY <1>1 DEF Close, Terminated, vars, blistVars, profileVars, requestVars
  <2> QED
    BY <2>1, NamesKept DEF Kept
<1> QED
  BY <1>1, NamesHandle, NamesUser, NamesSignald DEF Next

-----------------------------------------------------------------------------

THEOREM Invariant == Spec => []IInv
<1>1. Init => IInv
  <2> SUFFICES ASSUME Init PROVE IInv
    OBVIOUS
  <2>1. RoomsInv
    BY DEF Init, RoomsInv, RoomsOnce
  <2>2. NamedOrAsked
    BY DEF Init, NamedOrAsked
  <2>3. ListsInv
    <3>1. 1..Len(inbox) = {}
      BY DEF Init
    <3>2. ASSUME NEW g \in Groups
          PROVE  chats[g] <= overlooked[g] + IF Expected(g) THEN 1 ELSE 0
      <4>1. chats[g] \in 0..2 /\ overlooked[g] = IF chats[g] = 2 THEN 1 ELSE 0
        BY DEF Init
      <4>2. CASE chats[g] = 0
        BY <4>1, <4>2
      <4>3. CASE chats[g] > 0
        <5>1. Expected(g)
          BY <4>3 DEF Init, Expected
        <5> QED
          BY <4>1, <4>3, <5>1
      <4> QED
        BY <4>1, <4>2, <4>3
    <3> QED
      BY <3>1, <3>2 DEF ListsInv, LeftGroupIsGone
  <2> QED
    BY <2>1, <2>2, <2>3, TypeInit DEF IInv
<1>2. IInv /\ [Next]_vars => IInv'
  <2> SUFFICES ASSUME IInv, [Next]_vars PROVE IInv'
    OBVIOUS
  <2>1. TypeOK'
    BY TypeStep DEF IInv
  <2> QED
    BY <2>1, RoomsStep, NamesStep, ListsStep DEF IInv
<1> QED
  BY <1>1, <1>2, PTL DEF Spec

\* The types of what the plugin keeps of groups, requests and answers (groups.c).
THEOREM TypeCorrect == Spec => []TypeOK
<1>1. IInv => TypeOK
  BY DEF IInv
<1> QED
  BY <1>1, Invariant, PTL

\* signald_chat_set_participants and signald_update_participant_name (groups.c)
\* leave no stranger without a name whose profile is not asked for.
THEOREM StrangersAreAskedFor == Spec => []NamedOrAsked
<1>1. IInv => NamedOrAsked
  BY DEF IInv
<1> QED
  BY <1>1, Invariant, PTL

\* No order of requests and answers fills a room list twice (groups.c:188).
THEOREM RoomsListedOnce == Spec => []RoomsOnce
<1>1. IInv => RoomsOnce
  BY DEF IInv, RoomsInv
<1> QED
  BY <1>1, Invariant, PTL

\* Chats of groups that were left go, although lists of groups written before are
\* handled after signald has left the group (groups.c).
THEOREM LeftGroupsGo == Spec => []LeftGroupIsGone
<1>1. IInv => LeftGroupIsGone
  BY DEF IInv, ListsInv
<1> QED
  BY <1>1, Invariant, PTL
=============================================================================
