--------------------------- MODULE SignaldContacts ---------------------------
(***************************************************************************)
(* The buddies of the buddy list: src/src/contacts.c, and the tooltip of   *)
(* src/src/interface.c.  A buddy is named by a uuid (of a person) or, if   *)
(* the user has added it that way, by a number; the contacts signald lists *)
(* turn the latter into the former.  The number of a buddy, its protocol   *)
(* data, is a pointer, which may be left pointing to freed memory.         *)
(*                                                                         *)
(* libpurple tells buddies of the same name apart by their group only:     *)
(* which of them purple_find_buddy finds is left open.                     *)
(***************************************************************************)
EXTENDS Naturals, FiniteSets

CONSTANTS People,      \* by their uuid
          Numbers,
          None,        \* no uuid, no number
          MaxBuddies,  \* bound: buddies at a time
          MaxEarlier,  \* bound: buddies of earlier sessions
          MaxActions   \* bound: what the user does, and changes of numbers

ASSUME NamesAssumption ==
  People \cap Numbers = {} /\ None \notin People \union Numbers \union (1..MaxBuddies)
ASSUME BoundsAssumption == MaxBuddies \in Nat /\ MaxEarlier \in Nat /\ MaxActions \in Nat

VARIABLES
  buddies,  \* the buddies there are
  name,     \* per buddy: a uuid or a number
  number,   \* per buddy: the number in its protocol data
  freed,    \* buddies whose protocol data was freed
  assumed,  \* buddies shown with the status of the option "fake-status"
  asked,    \* list_contacts was sent
  phone,    \* signald: the numbers of people
  actions,  \* used up of MaxActions
  reported, \* per person: the last number reported (history)
  told,     \* numbers of contacts that no buddy was added by since (history)
  kept,     \* people listed and not removed by the user since (history)
  merged    \* people who have had two buddies of their uuid (history)

signaldVars == <<phone, actions>>
historyVars == <<reported, told, kept, merged>>
vars == <<buddies, name, number, freed, assumed, asked, signaldVars, historyVars>>

Slots == 1..MaxBuddies
Names == People \union Numbers

TypeOK ==
  /\ buddies \subseteq Slots /\ freed \subseteq buddies /\ assumed \subseteq buddies
  /\ name \in [Slots -> Names \union {None}]
  /\ \A b \in Slots : name[b] = None <=> b \notin buddies
  /\ number \in [Slots -> Numbers \union {None}]
  /\ \A b \in Slots : name[b] \notin People => number[b] = None
  /\ asked \in BOOLEAN
  /\ phone \in [People -> Numbers \union {None}]
  /\ actions \in 0..MaxActions
  /\ reported \in [People -> Numbers \union {None}]
  /\ told \subseteq Numbers /\ kept \subseteq People /\ merged \subseteq People

\* No two people have the same number.
Phones == {f \in [People -> Numbers \union {None}] :
             \A p, q \in People : p # q /\ f[p] = f[q] => f[p] = None}

\* The names of the buddies that the buddy list has kept, in which users and
\* earlier sessions may have left more than one of the same uuid.
Earlier == {f \in [Slots -> Names \union {None}] :
              /\ \A b \in Slots : b > MaxEarlier => f[b] = None
              /\ \A b, c \in Slots : b # c /\ f[b] = f[c] => f[b] \notin Numbers}

\* Nothing has been listed or added yet.  The buddies of earlier sessions come without
\* protocol data, which is not saved, and without a status.
Init ==
  /\ name \in Earlier
  /\ buddies = {b \in Slots : name[b] # None} /\ freed = {} /\ assumed = {}
  /\ number = [b \in Slots |-> None]
  /\ asked = FALSE
  /\ phone \in Phones /\ actions = 0
  /\ reported = [p \in People |-> None] /\ told = {} /\ kept = {}
  /\ merged = {p \in People : \E b, c \in buddies : b # c /\ name[b] = p /\ name[c] = p}

Named(n) == {b \in buddies : name[b] = n}

\* purple_find_buddy: one of the buddies with that name, or none.
Found(n) == IF Named(n) = {} THEN {None} ELSE Named(n)

-----------------------------------------------------------------------------
(* signald_add_purple_buddy.                                               *)

\* A buddy's number is replaced if there is one.
SetNumber(b, n) ==
  /\ number' = IF n = None THEN number ELSE [number EXCEPT ![b] = n]
  /\ freed' = IF n = None THEN freed ELSE freed \ {b}

\* A mutant of CreateBuddy: its status is not assumed.
CreateBuddyUnassumed(p, n) ==
  \E b \in Slots \ buddies :
    /\ buddies' = buddies \union {b}
    /\ name' = [name EXCEPT ![b] = p]
    /\ SetNumber(b, n)
    /\ UNCHANGED <<assumed, merged>>

CreateBuddy(p, n) ==
  \E b \in Slots \ buddies :
    /\ buddies' = buddies \union {b}
    /\ name' = [name EXCEPT ![b] = p]
    /\ SetNumber(b, n)
    /\ assumed' = assumed \union {b}
    /\ UNCHANGED merged

\* A mutant of UpdateBuddy: the old number is freed, be there a new one or not.
UpdateBuddyFrees(b, n) ==
  /\ number' = IF n = None THEN number ELSE [number EXCEPT ![b] = n]
  /\ freed' = IF n # None THEN freed \ {b}
              ELSE IF number[b] = None THEN freed ELSE freed \union {b}
  /\ UNCHANGED <<buddies, name, assumed, merged>>

\* A mutant of UpdateBuddy: a number once set is not replaced.
UpdateBuddyOnce(b, n) ==
  /\ SetNumber(b, IF number[b] = None THEN n ELSE None)
  /\ UNCHANGED <<buddies, name, assumed, merged>>

UpdateBuddy(b, n) ==
  /\ SetNumber(b, n)
  /\ UNCHANGED <<buddies, name, assumed, merged>>

\* A mutant of MigrateBuddy: number and uuid are swapped.
MigrateBuddySwapped(p, n, b, c) ==
  /\ name' = [name EXCEPT ![c] = n]
  /\ number' = [number EXCEPT ![c] = p]
  /\ UNCHANGED <<buddies, assumed, freed, merged>>

\* A mutant of MigrateBuddy: the buddy that is found under the uuid goes.
MigrateBuddyDrops(p, n, b, c) ==
  /\ buddies' = buddies \ {b} /\ assumed' = assumed \ {b}
  /\ name' = [name EXCEPT ![b] = None]
  /\ number' = [number EXCEPT ![b] = None]
  /\ freed' = freed \ {b}
  /\ UNCHANGED merged

\* The buddy c with that number gets the uuid for its name and the number for
\* its data.  If there is a buddy b with that uuid already, its number is freed,
\* but the pointer is reset in c.
MigrateBuddy(p, n, b, c) ==
  /\ name' = [name EXCEPT ![c] = p]
  /\ number' = [number EXCEPT ![c] = n]
  /\ freed' = (IF b # None /\ number[b] # None THEN freed \union {b} ELSE freed) \ {c}
  /\ merged' = IF b # None THEN merged \union {p} ELSE merged
  /\ UNCHANGED <<buddies, assumed>>

\* A mutant of AddBuddy: no buddy is looked for by number.
AddBuddyByUuid(p, n) ==
  \E b \in Found(p) : IF b # None THEN UpdateBuddy(b, n) ELSE CreateBuddy(p, n)

\* A mutant of AddBuddy: no buddy is looked for by uuid.
AddBuddyByNumber(p, n) ==
  \E c \in Found(n) : IF c # None THEN MigrateBuddy(p, n, None, c) ELSE CreateBuddy(p, n)

AddBuddy(p, n) ==
  \E b \in Found(p), c \in Found(n) :
    IF n # None /\ c # None THEN MigrateBuddy(p, n, b, c)
    ELSE IF b # None THEN UpdateBuddy(b, n) ELSE CreateBuddy(p, n)

-----------------------------------------------------------------------------
(* Handlers, the user and signald.                                         *)

\* signald_process_contact, for one of the contacts in an answer to
\* list_contacts.  Without a uuid a contact is passed over.
ProcessContact(p) ==
  /\ asked
  /\ \E n \in {phone[p], None} :
       /\ AddBuddy(p, n)
       /\ reported' = IF n = None THEN reported ELSE [reported EXCEPT ![p] = n]
       /\ told' = IF n = None THEN told ELSE told \union {n}
  /\ kept' = kept \union {p}
  /\ UNCHANGED <<asked, signaldVars>>

\* A mutant of ListContacts: the buddies there are keep the status they have.
ListContactsOnly ==
  /\ asked' = TRUE
  /\ UNCHANGED <<buddies, name, number, freed, assumed, signaldVars, historyVars>>

\* signald_list_contacts, which assumes the state of all buddies.
ListContacts ==
  /\ asked' = TRUE
  /\ assumed' = buddies
  /\ UNCHANGED <<buddies, name, number, freed, signaldVars, historyVars>>

Act == actions < MaxActions /\ actions' = actions + 1

\* The user adds a buddy: signald_add_buddy.
AddPurpleBuddy(n) ==
  /\ Act /\ Named(n) = {}
  /\ \E b \in Slots \ buddies :
       /\ buddies' = buddies \union {b}
       /\ name' = [name EXCEPT ![b] = n]
       /\ assumed' = assumed \union {b}
  /\ told' = told \ {n}
  /\ UNCHANGED <<number, freed, asked, phone, reported, kept, merged>>

RemovePurpleBuddy(b) ==
  /\ Act /\ b \in buddies
  /\ buddies' = buddies \ {b} /\ assumed' = assumed \ {b} /\ freed' = freed \ {b}
  /\ name' = [name EXCEPT ![b] = None] /\ number' = [number EXCEPT ![b] = None]
  /\ kept' = kept \ {name[b]}
  /\ UNCHANGED <<asked, phone, reported, told, merged>>

\* Someone gets another number, which may have been somebody else's.
ChangeNumber ==
  /\ Act
  /\ phone' \in Phones
  /\ UNCHANGED <<buddies, name, number, freed, assumed, asked, historyVars>>

Next ==
  \/ ListContacts
  \/ \E p \in People : ProcessContact(p)
  \/ \E n \in Names : AddPurpleBuddy(n)
  \/ \E b \in Slots : RemovePurpleBuddy(b)
  \/ ChangeNumber

Spec == Init /\ [][Next]_vars

-----------------------------------------------------------------------------
(* Properties.                                                             *)

\* In whatever way uuids, numbers and buddies met before, a contact has one buddy:
\* whoever signald has listed can be found by uuid until the user removes the buddy;
\* none gets a second one, unless the buddy list had kept two, or the user had added it
\* by number beside the one named by uuid; and a number, once signald has told whose it
\* is, names no buddy unless one is added anew.
OneBuddyEach ==
  /\ \A p \in kept : Named(p) # {}
  /\ \A b, c \in buddies : b # c /\ name[b] = name[c] => name[b] \in merged
  /\ \A b \in buddies : name[b] \notin told

\* The number in the tooltip (interface.c:8) is the last one signald has told for
\* that person, never an earlier one or somebody else's, and has not been freed,
\* unless there were two buddies of the same name.
TooltipIsLatest ==
  \A b \in buddies : name[b] \in People \ merged =>
    number[b] \in {None, reported[name[b]]} /\ b \notin freed

\* Once the contacts were requested, nobody is shown offline (the option
\* "fake-status"): neither buddies of earlier sessions, whom only the request itself
\* reaches, nor those created, added or renamed since.  Before the request they may
\* appear offline, as README.md:60 says of the time after linking.
StatusAssumed == asked => assumed = buddies
=============================================================================
