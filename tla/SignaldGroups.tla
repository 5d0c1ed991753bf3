---------------------------- MODULE SignaldGroups ----------------------------
(***************************************************************************)
(* Group chats and profiles: src/src/groups.c, the requests for profiles   *)
(* of src/src/contacts.c and the handlers of their answers in input.c.     *)
(* The chats of the buddy list, the windows of chats and their             *)
(* participants, the room list and the flag show_profile are state of the  *)
(* plugin or kept for it by libpurple; signald keeps the membership,       *)
(* answers requests in any order and may report errors.                    *)
(*                                                                         *)
(* The uuid of the account is known (SignaldSession); libpurple takes the  *)
(* account for connected or connecting, as signald's own connection is.    *)
(* The buddies among the participants stay the same.                       *)
(***************************************************************************)
EXTENDS Naturals, Sequences, FiniteSetsExt

CONSTANTS Groups, People,
          NoOne,        \* show_profile = NULL
          Members,      \* the members of each group, other than the account
          Buddies,      \* people in the buddy list
          Nameless,     \* people whose profile has no name
          Old,          \* groups that earlier connections may have left in the buddy list or
                        \* in a window
          AutoAccept,   \* the option "auto-accept-invitations"
          MaxActions,   \* bound: what the user does
          MaxEvents,    \* bound: messages, invitations and profiles not found
          MaxInbox      \* bound: messages signald writes ahead of the plugin

ASSUME PeopleAssumption == Buddies \subseteq People /\ Nameless \subseteq People /\ NoOne \notin People
ASSUME MembersAssumption == Members \in [Groups -> SUBSET People]
ASSUME GroupsAssumption ==
  IsFiniteSet(Groups) /\ Old \subseteq Groups /\ AutoAccept \in BOOLEAN
ASSUME BoundsAssumption == MaxActions \in Nat /\ MaxEvents \in Nat /\ MaxInbox \in Nat

VARIABLES
  chats,         \* the number of entries of each group in the buddy list
  overlooked,    \* how often an entry was there and not found (history)
  conv,          \* windows: "closed", "open", or "left" when an earlier connection ended
  users,         \* per window: the participants
  named,         \* per window: participants with a friendly name
  roomlist,      \* sa->roomlist # NULL: a list is in progress
  rooms,         \* the rooms of the last list the user asked for
  show_profile,  \* whose profile the user asked for, or NoOne
  online,        \* the state of the connection is PURPLE_CONNECTED
  disconnect,    \* purple_connection_error was called: a disconnect is scheduled
  phase,         \* "live" or "closed"
  member, pending,  \* signald: groups the account is in, groups it is invited to
  lists, profiles, leaves, accepts,  \* requests not answered yet, by subject
  inbox,         \* messages not read yet
  actions, events,  \* used up of MaxActions and MaxEvents
  orphans,       \* groups in the buddy list and not in signald from the start (history)
  eaten          \* people whose last answer gave them no name (history)

blistVars == <<chats, overlooked, conv, users, named>>
listVars == <<roomlist, rooms>>
profileVars == <<show_profile, eaten>>
requestVars == <<lists, profiles, leaves, accepts>>
groupVars == <<member, pending>>
boundVars == <<actions, events, orphans>>
vars == <<blistVars, listVars, profileVars, requestVars, groupVars, boundVars,
          online, disconnect, phase, inbox>>

Message ==
  [type : {"list"}, about : [in : SUBSET Groups, pending : SUBSET Groups]]
  \union [type : {"profile"}, about : People]
  \union [type : {"left", "message"}, about : Groups]
  \union [type : {"error"}, about : {NoOne}]
Msg(t, x) == [type |-> t, about |-> x]

\* A closed window has no participants, and only strangers are given names.
TypeOK ==
  /\ chats \in [Groups -> Nat] /\ overlooked \in [Groups -> Nat]
  /\ conv \in [Groups -> {"closed", "left", "open"}]
  /\ users \in [Groups -> SUBSET People] /\ named \in [Groups -> SUBSET People]
  /\ \A g \in Groups : /\ conv[g] = "closed" => users[g] = {}
                       /\ named[g] \subseteq users[g] \ (Buddies \union Nameless)
  /\ roomlist \in BOOLEAN /\ rooms \in [Groups -> Nat]
  /\ show_profile \in People \union {NoOne}
  /\ online \in BOOLEAN /\ disconnect \in BOOLEAN /\ phase \in {"live", "closed"}
  /\ member \subseteq Groups /\ pending \subseteq Groups
  /\ lists \in Nat /\ profiles \in [People -> Nat]
  /\ leaves \in [Groups -> Nat] /\ accepts \in [Groups -> Nat]
  /\ inbox \in Seq(Message)
  /\ actions \in Nat /\ events \in Nat /\ orphans \subseteq Groups
  /\ eaten \subseteq People

\* The groups have been requested (signald_handle_input on request_sync).  The
\* buddy list and windows may be left from earlier connections.
Init ==
  /\ chats \in {c \in [Groups -> 0..2] : \A g \in Groups \ Old : c[g] = 0}
  /\ overlooked = [g \in Groups |-> IF chats[g] = 2 THEN 1 ELSE 0]
  /\ conv \in {[g \in Groups |-> IF g \in old THEN "left" ELSE "closed"] :
                old \in SUBSET Old}
  /\ users = [g \in Groups |-> {}] /\ named = [g \in Groups |-> {}]
  /\ roomlist = FALSE /\ rooms = [g \in Groups |-> 0]
  /\ show_profile = NoOne /\ online \in BOOLEAN /\ disconnect = FALSE /\ phase = "live"
  /\ member \in SUBSET Groups /\ pending = {}
  /\ lists = 1 /\ profiles = [p \in People |-> 0]
  /\ leaves = [g \in Groups |-> 0] /\ accepts = [g \in Groups |-> 0]
  /\ inbox = <<>>
  /\ actions = 0 /\ events = 0 /\ orphans = {g \in Groups : chats[g] > 0} \ member
  /\ eaten = {}

-----------------------------------------------------------------------------
(* Answers handled.                                                        *)

Handle(t) ==
  /\ phase = "live" /\ inbox # <<>> /\ Head(inbox).type = t
  /\ inbox' = Tail(inbox)

\* The participants whose profiles signald_chat_set_participants requests.
Strangers(g) == Members[g] \ Buddies

\* A mutant of SetParticipants: closed windows get participants, too.
SetParticipantsAnywhere(listed) ==
  /\ users' = [g \in Groups |-> IF g \in listed THEN Members[g] ELSE users[g]]
  /\ named' = [g \in Groups |-> IF g \in listed THEN {} ELSE named[g]]
  /\ profiles' = [p \in People |-> profiles[p]
                    + Cardinality({g \in listed : p \in Strangers(g)})]
  /\ eaten' = eaten \ UNION {Strangers(g) : g \in listed}

\* A mutant of SetParticipants: whoever was named before is not asked for.
SetParticipantsOnce(listed) ==
  LET active == {g \in listed : conv[g] # "closed"}
      known == UNION {named[g] : g \in Groups}
  IN /\ users' = [g \in Groups |-> IF g \in active THEN Members[g] ELSE users[g]]
     /\ named' = [g \in Groups |-> IF g \in active THEN {} ELSE named[g]]
     /\ profiles' = [p \in People |-> profiles[p]
                       + Cardinality({g \in active : p \in Strangers(g) \ known})]
     /\ eaten' = eaten \ UNION {Strangers(g) : g \in active}

\* signald_chat_set_participants for each of the listed groups: the windows'
\* participants are replaced, with their names, and strangers asked for again.
SetParticipants(listed) ==
  LET active == {g \in listed : conv[g] # "closed"}
  IN /\ users' = [g \in Groups |-> IF g \in active THEN Members[g] ELSE users[g]]
     /\ named' = [g \in Groups |-> IF g \in active THEN {} ELSE named[g]]
     /\ profiles' = [p \in People |-> profiles[p]
                       + Cardinality({g \in active : p \in Strangers(g)})]
     /\ eaten' = eaten \ UNION {Strangers(g) : g \in active}

\* A mutant of FillRoomlist: the list is finished but kept.
FillRoomlistKeeps(listed) ==
  /\ rooms' = [g \in Groups |-> rooms[g] + IF roomlist /\ g \in listed THEN 1 ELSE 0]
  /\ UNCHANGED roomlist

\* A mutant of FillRoomlist: a list without rooms is not finished.
FillRoomlistUnlessEmpty(listed) ==
  /\ rooms' = [g \in Groups |-> rooms[g] + IF roomlist /\ g \in listed THEN 1 ELSE 0]
  /\ roomlist' = (roomlist /\ listed = {})

\* The rooms are added to a list in progress, which is then finished.
FillRoomlist(listed) ==
  /\ rooms' = [g \in Groups |-> rooms[g] + IF roomlist /\ g \in listed THEN 1 ELSE 0]
  /\ roomlist' = FALSE

\* purple_blist_find_chat: nothing is found unless the account is connected.
Found(g) == online /\ chats[g] > 0
Overlook(listed) ==
  overlooked' = [g \in Groups |->
    overlooked[g] + IF g \in listed /\ chats[g] > 0 /\ ~online THEN 1 ELSE 0]

\* A mutant of EnsureChats: an entry is added although there is one.
EnsureChatsAgain(listed) ==
  chats' = [g \in Groups |-> chats[g] + IF g \in listed THEN 1 ELSE 0]

\* signald_ensure_group_chat_in_blist for each of the listed groups.
EnsureChats(listed) ==
  chats' = [g \in Groups |-> chats[g] + IF g \in listed /\ ~Found(g) THEN 1 ELSE 0]

\* signald_parse_groupV2_list.
OnListGroups ==
  /\ Handle("list")
  /\ LET answer == Head(inbox).about
     IN /\ EnsureChats(answer.in) /\ Overlook(answer.in)
        /\ SetParticipants(answer.in)
        /\ FillRoomlist(answer.in)
        /\ accepts' = [g \in Groups |-> accepts[g]
                         + IF AutoAccept /\ g \in answer.pending THEN 1 ELSE 0]
  /\ UNCHANGED <<conv, show_profile, lists, leaves, groupVars, boundVars,
                 online, disconnect, phase>>

\* A mutant of Show: the flag stays set.
ShowKeepsFlag(p) ==
  /\ eaten' = eaten \union {p}
  /\ UNCHANGED <<show_profile, named>>

\* signald_show_profile: whoever it belongs to, the profile is taken for the
\* one the user asked for.
Show(p) ==
  /\ show_profile' = NoOne
  /\ eaten' = eaten \union {p}
  /\ UNCHANGED named

\* A mutant of UpdateName: only the first window is updated.
UpdateNameOnce(p) ==
  /\ \E g \in Groups :
       named' = [named EXCEPT ![g] = @ \union ((users[g] \cap {p}) \ (Buddies \union Nameless))]
  /\ eaten' = eaten \union ({p} \cap Nameless)
  /\ UNCHANGED show_profile

\* signald_update_participant_name.
UpdateName(p) ==
  /\ named' = [g \in Groups |->
                 named[g] \union ((users[g] \cap {p}) \ (Buddies \union Nameless))]
  /\ eaten' = eaten \union ({p} \cap Nameless)
  /\ UNCHANGED show_profile

\* signald_process_profile.
OnProfile ==
  /\ Handle("profile")
  /\ IF show_profile # NoOne THEN Show(Head(inbox).about) ELSE UpdateName(Head(inbox).about)
  /\ UNCHANGED <<chats, overlooked, conv, users, listVars, requestVars, groupVars, boundVars,
                 online, disconnect, phase>>

\* A mutant of OnLeaveGroup: the chat stays in the buddy list.
OnLeaveGroupKeeps ==
  /\ Handle("left")
  /\ UNCHANGED <<blistVars, listVars, profileVars, requestVars, groupVars, boundVars,
                 online, disconnect, phase>>

\* signald_process_leave_group: one entry is removed if one is found.  The window, if
\* there is one, stays.
OnLeaveGroup ==
  /\ Handle("left")
  /\ LET g == Head(inbox).about
     IN /\ chats' = IF Found(g) THEN [chats EXCEPT ![g] = @ - 1] ELSE chats
        /\ Overlook({g})
  /\ UNCHANGED <<conv, users, named, listVars, profileVars, requestVars, groupVars,
                 boundVars, online, disconnect, phase>>

\* signald_enter_group_chat: a window opens without participants, as the
\* request for them is never sent (signald_request_group_info).
Enter(g) == conv' = [conv EXCEPT ![g] = "open"]

\* A group message is displayed.
OnMessage ==
  /\ Handle("message")
  /\ Enter(Head(inbox).about)
  /\ UNCHANGED <<chats, overlooked, users, named, listVars, profileVars, requestVars, groupVars,
                 boundVars, online, disconnect, phase>>

OnError ==
  /\ Handle("error")
  /\ disconnect' = TRUE
  /\ UNCHANGED <<blistVars, listVars, profileVars, requestVars, groupVars, boundVars, online,
                 phase>>

HandleInput == OnListGroups \/ OnProfile \/ OnLeaveGroup \/ OnMessage \/ OnError

-----------------------------------------------------------------------------
(* The user.                                                               *)

Act == phase = "live" /\ actions < MaxActions /\ actions' = actions + 1

\* A mutant of GetInfo: the profile is not requested.
GetInfoSilent(p) ==
  /\ Act
  /\ show_profile' = p
  /\ UNCHANGED <<blistVars, listVars, eaten, requestVars, groupVars, events,
                 orphans, online, disconnect, phase, inbox>>

\* signald_get_info.
GetInfo(p) ==
  /\ Act
  /\ show_profile' = p
  /\ profiles' = [profiles EXCEPT ![p] = @ + 1]
  /\ UNCHANGED <<blistVars, listVars, eaten, lists, leaves, accepts, groupVars,
                 events, orphans, online, disconnect, phase, inbox>>

\* signald_roomlist_get_list.
GetRoomlist ==
  /\ Act
  /\ IF roomlist
     THEN UNCHANGED <<listVars, lists>>
     ELSE roomlist' = TRUE /\ rooms' = [g \in Groups |-> 0] /\ lists' = lists + 1
  /\ UNCHANGED <<blistVars, profileVars, profiles, leaves, accepts, groupVars, events,
                 orphans, online, disconnect, phase, inbox>>

\* signald_update_groups.
UpdateGroups ==
  /\ Act
  /\ lists' = lists + 1
  /\ UNCHANGED <<blistVars, listVars, profileVars, profiles, leaves, accepts, groupVars,
                 events, orphans, online, disconnect, phase, inbox>>

\* signald_join_chat, from the buddy list.
JoinChat(g) ==
  /\ Act /\ chats[g] > 0
  /\ Enter(g)
  /\ UNCHANGED <<chats, overlooked, users, named, listVars, profileVars, requestVars, groupVars,
                 events, orphans, online, disconnect, phase, inbox>>

Leave(g) == leaves' = [leaves EXCEPT ![g] = @ + 1]

\* "Leave Group" in the menu of a chat: signald_leave_chat.
LeaveChat(g) ==
  /\ Act /\ chats[g] > 0
  /\ Leave(g)
  /\ UNCHANGED <<blistVars, listVars, profileVars, lists, profiles, accepts, groupVars,
                 events, orphans, online, disconnect, phase, inbox>>

RemoveChat(g) ==
  /\ Act /\ chats[g] > 0
  /\ chats' = [chats EXCEPT ![g] = @ - 1]
  /\ UNCHANGED <<overlooked, conv, users, named, listVars, profileVars, requestVars, groupVars,
                 events, orphans, online, disconnect, phase, inbox>>

\* Closing a window; libpurple calls signald_chat_leave unless it was left.
CloseChat(g) ==
  /\ Act /\ conv[g] # "closed"
  /\ conv' = [conv EXCEPT ![g] = "closed"]
  /\ users' = [users EXCEPT ![g] = {}] /\ named' = [named EXCEPT ![g] = {}]
  /\ IF conv[g] = "open" /\ chats[g] = 0 THEN Leave(g) ELSE UNCHANGED leaves
  /\ UNCHANGED <<chats, overlooked, listVars, profileVars, lists, profiles, accepts, groupVars,
                 events, orphans, online, disconnect, phase, inbox>>

User ==
  \/ \E p \in People : GetInfo(p)
  \/ GetRoomlist \/ UpdateGroups
  \/ \E g \in Groups : JoinChat(g) \/ LeaveChat(g) \/ RemoveChat(g) \/ CloseChat(g)

\* The scheduled disconnect.
Close ==
  /\ phase = "live" /\ disconnect
  /\ phase' = "closed"
  /\ UNCHANGED <<blistVars, listVars, profileVars, requestVars, groupVars, boundVars,
                 online, disconnect, inbox>>

-----------------------------------------------------------------------------
(* signald.                                                                *)

Write(m) == phase = "live" /\ Len(inbox) < MaxInbox /\ inbox' = Append(inbox, m)

Event == events < MaxEvents /\ events' = events + 1 /\ UNCHANGED <<actions, orphans>>

AnswerListGroups ==
  /\ lists > 0 /\ lists' = lists - 1
  /\ Write(Msg("list", [in |-> member \union pending, pending |-> pending]))
  /\ UNCHANGED <<blistVars, listVars, profileVars, profiles, leaves, accepts, groupVars,
                 boundVars, online, disconnect, phase>>

AnswerProfile(p) ==
  /\ profiles[p] > 0 /\ profiles' = [profiles EXCEPT ![p] = @ - 1]
  /\ \/ Write(Msg("profile", p)) /\ UNCHANGED boundVars
     \/ Write(Msg("error", NoOne)) /\ Event
  /\ UNCHANGED <<blistVars, listVars, profileVars, lists, leaves, accepts, groupVars,
                 online, disconnect, phase>>

\* Leaving a group that was left already is an error.
AnswerLeaveGroup(g) ==
  /\ leaves[g] > 0 /\ leaves' = [leaves EXCEPT ![g] = @ - 1]
  /\ IF g \in member \union pending
     THEN Write(Msg("left", g)) ELSE Write(Msg("error", NoOne))
  /\ member' = member \ {g} /\ pending' = pending \ {g}
  /\ UNCHANGED <<blistVars, listVars, profileVars, lists, profiles, accepts, boundVars,
                 online, disconnect, phase>>

\* The answer to accept_invitation is not looked at, unless it is an error.
AnswerAccept(g) ==
  /\ accepts[g] > 0 /\ accepts' = [accepts EXCEPT ![g] = @ - 1]
  /\ IF g \in pending
     THEN member' = member \union {g} /\ pending' = pending \ {g} /\ UNCHANGED inbox
     ELSE UNCHANGED groupVars /\ (UNCHANGED inbox \/ Write(Msg("error", NoOne)))
  /\ phase = "live"
  /\ UNCHANGED <<blistVars, listVars, profileVars, lists, profiles, leaves, boundVars,
                 online, disconnect, phase>>

Answer ==
  \/ AnswerListGroups \/ \E p \in People : AnswerProfile(p)
  \/ \E g \in Groups : AnswerLeaveGroup(g) \/ AnswerAccept(g)

Forward(g) ==
  /\ Event /\ g \in member
  /\ Write(Msg("message", g))
  /\ UNCHANGED <<blistVars, listVars, profileVars, requestVars, groupVars, online, disconnect, phase>>

Invite(g) ==
  /\ phase = "live" /\ Event /\ g \notin member \union pending
  /\ pending' = pending \union {g}
  /\ UNCHANGED <<blistVars, listVars, profileVars, requestVars, member, online, disconnect, phase,
                 inbox>>

\* signald tells the state of its own connection (in full: SignaldSession), and the
\* account is connected, or connecting, from there on.
OnWebSocketState ==
  /\ phase = "live" /\ Event
  /\ online' = ~online
  /\ UNCHANGED <<blistVars, listVars, profileVars, requestVars, groupVars, disconnect,
                 phase, inbox>>

Signald == Answer \/ OnWebSocketState \/ \E g \in Groups : Forward(g) \/ Invite(g)

-----------------------------------------------------------------------------
\* The bounds are used up and nothing is left to answer or to handle.
Exhausted ==
  /\ actions = MaxActions /\ inbox = <<>> /\ lists = 0 /\ ~disconnect
  /\ \A p \in People : profiles[p] = 0
  /\ \A g \in Groups : leaves[g] = 0 /\ accepts[g] = 0

Terminated == (phase = "closed" \/ Exhausted) /\ UNCHANGED vars

Next == HandleInput \/ User \/ Close \/ Signald \/ Terminated

Spec == Init /\ [][Next]_vars

\* The main loop handles what can be read and runs the scheduled disconnect;
\* signald answers every request, in whatever order.
Fairness ==
  /\ WF_vars(HandleInput) /\ WF_vars(Close)
  /\ WF_vars(AnswerListGroups)
  /\ \A p \in People : WF_vars(AnswerProfile(p))

FairSpec == Spec /\ Fairness

-----------------------------------------------------------------------------
(* Properties.                                                             *)

Failing == disconnect \/ \E i \in 1..Len(inbox) : inbox[i].type = "error"
OnItsWay(p) == profiles[p] > 0 \/ \E i \in 1..Len(inbox) : inbox[i] = Msg("profile", p)

\* "this UUID is not known - request the profile for display of friendly name"
\* (groups.c:134): a stranger in a window has a friendly name or gets one as
\* soon as an answer arrives, although every list of groups takes the names
\* away, windows come and go, and answers name people in all windows.  The
\* exceptions are a profile without a name and one shown to the user instead.
NamedOrAsked ==
  \A g \in Groups : \A p \in users[g] \ Buddies :
     p \in named[g] \union eaten \/ OnItsWay(p) \/ Failing

\* However lists of groups asked for by the user, the menu and the plugin are
\* answered, a room list has each room once and does not grow later.
RoomsOnce == \A g \in Groups : rooms[g] <= 1

\* Who asks gets an answer, be there as many other requests as there may: a room
\* list does not stay in progress, and who asks for a profile is shown one.
AskedIsAnswered ==
  /\ roomlist ~> (~roomlist \/ disconnect)
  /\ (show_profile # NoOne) ~> (show_profile = NoOne \/ disconnect)

\* The account is in the group or invited, or the report that it left is still to be
\* handled; or it left before the account connected, which nobody reports.
Expected(g) ==
  \/ g \in member \union pending \union orphans
  \/ \E i \in 1..Len(inbox) : inbox[i] = Msg("left", g)

\* A group has one entry in the buddy list at most, and none once the account has left
\* it: no answer given earlier brings it back.  What libpurple does not find while
\* the account is not connected is the only exception, and each time it does not leaves
\* one entry too many at most ("Sometimes, group chats are added to the buddy list more
\* than once", README.md:55).
LeftGroupIsGone ==
  \A g \in Groups : chats[g] <= overlooked[g] + IF Expected(g) THEN 1 ELSE 0
=============================================================================
