----------------------- MODULE SignaldContacts_Proofs -----------------------
(***************************************************************************)
(* Theorems about SignaldContacts: any number of people who change their   *)
(* numbers, listed with or without them in any order, while the user adds  *)
(* and removes buddies.                                                    *)
(***************************************************************************)
EXTENDS SignaldContacts, TLAPS

\* The properties are inductive together: a second buddy of somebody would take a
\* number that only the first one is told of.
IInv == TypeOK /\ OneBuddyEach /\ TooltipIsLatest /\ StatusAssumed

LEMMA InitInvariant == Init => IInv
<1> SUFFICES ASSUME Init PROVE IInv
  OBVIOUS
<1>1. phone \in [People -> Numbers \union {None}]
  BY DEF Init, Phones
<1>2. 0 \in 0..MaxActions
  BY BoundsAssumption
<1>3. /\ name \in [Slots -> Names \union {None}] /\ buddies = {b \in Slots : name[b] # None}
      /\ \A b, c \in buddies : b # c /\ name[b] = name[c] => name[b] \notin Numbers
      /\ merged = {p \in People : \E b, c \in buddies : b # c /\ name[b] = p /\ name[c] = p}
  BY DEF Init, Earlier
<1>4. TypeOK
  BY <1>1, <1>2, <1>3 DEF Init, TypeOK
<1>5. OneBuddyEach
  <2>1. \A b, c \in buddies : b # c /\ name[b] = name[c] => name[b] \in merged
    BY <1>3 DEF Names
  <2> QED
    BY <2>1 DEF Init, OneBuddyEach
<1>6. TooltipIsLatest
  BY <1>3 DEF Init, TooltipIsLatest
<1>7. StatusAssumed
  BY DEF Init, StatusAssumed
<1> QED
  BY <1>4, <1>5, <1>6, <1>7 DEF IInv

\* A buddy with that number is renamed.
LEMMA MigrateInvariant ==
  ASSUME IInv, NEW p \in People, NEW n \in Numbers, NEW c \in Named(n), NEW b \in Found(p),
         MigrateBuddy(p, n, b, c),
         reported' = [reported EXCEPT ![p] = n], told' = told \union {n},
         kept' = kept \union {p}, UNCHANGED <<asked, signaldVars>>
  PROVE  IInv'
<1>1. /\ c \in buddies /\ c \in Slots /\ name[c] = n /\ p # n /\ n \notin People /\ p # None /\ n # None
      /\ buddies' = buddies /\ name' = [name EXCEPT ![c] = p]
      /\ \A d \in buddies \ {c} : name[d] # n
  <2>1. c \in buddies /\ c \in Slots /\ name[c] = n /\ p # n /\ n \notin People /\ p # None /\ n # None
    BY NamesAssumption DEF Named, IInv, TypeOK
  <2>2. buddies' = buddies /\ name' = [name EXCEPT ![c] = p]
    BY DEF MigrateBuddy
  <2>3. n \notin merged
    BY <2>1 DEF IInv, TypeOK
  <2>4. \A d \in buddies \ {c} : name[d] # n
    BY <2>1, <2>3 DEF IInv, OneBuddyEach
  <2> QED
    BY <2>1, <2>2, <2>4
<1>2. b = None => \A d \in buddies : name[d] # p
  <2>1. \A d \in buddies : d # None
    BY NamesAssumption DEF IInv, TypeOK, Slots
  <2> QED
    BY <2>1 DEF Found, Named
<1>3. b # None => p \in merged'
  BY DEF MigrateBuddy
<1>4. merged \subseteq merged' /\ merged' \subseteq merged \union {p}
  BY DEF MigrateBuddy
<1>5. b # None => b \in buddies /\ name[b] = p
  BY DEF Found, Named
<1>6. TypeOK'
  <2>1. /\ buddies' \subseteq Slots /\ freed' \subseteq buddies' /\ assumed' \subseteq buddies'
    BY <1>1, <1>5 DEF IInv, TypeOK, MigrateBuddy
  <2>2. /\ name' \in [Slots -> Names \union {None}]
        /\ \A d \in Slots : name'[d] = None <=> d \notin buddies'
    BY <1>1 DEF IInv, TypeOK, Names
  <2>3. number' \in [Slots -> Numbers \union {None}] /\ number' = [number EXCEPT ![c] = n]
    BY <1>1 DEF IInv, TypeOK, MigrateBuddy
  <2>4. \A d \in Slots : name'[d] \notin People => number'[d] = None
    BY <1>1, <2>3 DEF IInv, TypeOK
  <2>5. reported' \in [People -> Numbers \union {None}]
    BY DEF IInv, TypeOK
  <2> QED
    BY <1>4, <2>1, <2>2, <2>3, <2>4, <2>5 DEF IInv, TypeOK, signaldVars
<1>7. OneBuddyEach'
  <2>1. \A q \in kept' : Named(q)' # {}
    <3> SUFFICES ASSUME NEW q \in kept' PROVE Named(q)' # {}
      OBVIOUS
    <3>1. CASE q = p
      <4>1. name'[c] = p /\ c \in buddies'
        BY <1>1 DEF IInv, TypeOK
      <4> QED
        BY <3>1, <4>1 DEF Named
    <3>2. CASE q # p
      <4>1. q \in kept /\ q # n
        BY <1>1, <3>2 DEF IInv, TypeOK
      <4>2. PICK d \in buddies : name[d] = q
        BY <4>1 DEF IInv, OneBuddyEach, Named
      <4>3. name'[d] = q
        BY <1>1, <4>1, <4>2 DEF IInv, TypeOK
      <4> QED
        BY <1>1, <4>2, <4>3 DEF Named
    <3> QED
      BY <3>1, <3>2
  <2>2. \A d, e \in buddies' : d # e /\ name'[d] = name'[e] => name'[d] \in merged'
    <3> SUFFICES ASSUME NEW d \in buddies, NEW e \in buddies, d # e, name'[d] = name'[e]
                 PROVE  name'[d] \in merged'
      BY <1>1
    <3>1. \A x \in buddies : name'[x] = IF x = c THEN p ELSE name[x]
      BY <1>1 DEF IInv, TypeOK
    <3>2. CASE d = c \/ e = c
      BY <1>2, <1>3, <3>1, <3>2
    <3>3. CASE d # c /\ e # c
      BY <1>4, <3>1, <3>3 DEF IInv, OneBuddyEach
    <3> QED
      BY <3>2, <3>3
  <2>3. \A d \in buddies' : name'[d] \notin told'
    <3>1. p \notin told'
      BY <1>1, NamesAssumption DEF IInv, TypeOK
    <3>2. \A x \in buddies : name'[x] = IF x = c THEN p ELSE name[x]
      BY <1>1 DEF IInv, TypeOK
    <3> QED
      BY <1>1, <3>1, <3>2 DEF IInv, OneBuddyEach
  <2> QED
    BY <2>1, <2>2, <2>3 DEF OneBuddyEach
<1>8. TooltipIsLatest'
  <2> SUFFICES ASSUME NEW d \in buddies, name'[d] \in People \ merged'
               PROVE  number'[d] \in {None, reported'[name'[d]]} /\ d \notin freed'
    BY <1>1 DEF TooltipIsLatest
  <2>1. number' = [number EXCEPT ![c] = n] /\ d \in Slots
    BY DEF MigrateBuddy, IInv, TypeOK
  <2>2. CASE d = c
    <3>1. name'[d] = p /\ number'[d] = n /\ reported'[p] = n
      BY <1>1, <2>1, <2>2 DEF IInv, TypeOK
    <3> QED
      BY <2>2, <3>1 DEF MigrateBuddy
  <2>3. CASE d # c
    <3>1. name'[d] = name[d] /\ number'[d] = number[d]
      BY <1>1, <2>1, <2>3 DEF IInv, TypeOK
    <3>2. name[d] # p
      BY <1>2, <1>3, <3>1
    <3>3. reported'[name[d]] = reported[name[d]]
      BY <3>1, <3>2 DEF IInv, TypeOK
    <3>4. d # b
      BY <1>1, <1>5, <3>2, NamesAssumption DEF IInv, TypeOK, Slots
    <3>5. d \notin freed /\ number[d] \in {None, reported[name[d]]}
      BY <1>4, <3>1 DEF IInv, TooltipIsLatest
    <3>6. d \notin freed'
      BY <3>4, <3>5 DEF MigrateBuddy
    <3> QED
      BY <3>1, <3>3, <3>5, <3>6
  <2> QED
    BY <2>2, <2>3
<1>9. StatusAssumed'
  BY DEF IInv, StatusAssumed, MigrateBuddy
<1> QED
  BY <1>6, <1>7, <1>8, <1>9 DEF IInv

\* A buddy with that uuid may get a number.  No buddy has the number for a name.
LEMMA UpdateInvariant ==
  ASSUME IInv, NEW p \in People, NEW n \in Numbers \union {None}, NEW b \in Named(p),
         n # None => Named(n) = {},
         UpdateBuddy(b, n),
         reported' = IF n = None THEN reported ELSE [reported EXCEPT ![p] = n],
         told' = IF n = None THEN told ELSE told \union {n},
         kept' = kept \union {p}, UNCHANGED <<asked, signaldVars>>
  PROVE  IInv'
<1>1. /\ b \in buddies /\ b \in Slots /\ name[b] = p
      /\ buddies' = buddies /\ name' = name /\ assumed' = assumed /\ merged' = merged
      /\ number' = IF n = None THEN number ELSE [number EXCEPT ![b] = n]
      /\ freed' = IF n = None THEN freed ELSE freed \ {b}
  BY DEF UpdateBuddy, SetNumber, Named, IInv, TypeOK
<1>2. TypeOK'
  <2>1. number' \in [Slots -> Numbers \union {None}]
    BY <1>1 DEF IInv, TypeOK
  <2>2. \A d \in Slots : name'[d] \notin People => number'[d] = None
    BY <1>1 DEF IInv, TypeOK
  <2>3. reported' \in [People -> Numbers \union {None}] /\ told' \subseteq Numbers
    BY DEF IInv, TypeOK
  <2> QED
    BY <1>1, <2>1, <2>2, <2>3 DEF IInv, TypeOK, signaldVars
<1>3. OneBuddyEach'
  <2>1. \A d \in buddies : name[d] \notin told'
    BY DEF IInv, OneBuddyEach, Named
  <2>2. \A q \in kept' : Named(q)' # {}
    BY <1>1 DEF IInv, OneBuddyEach, Named
  <2> QED
    BY <1>1, <2>1, <2>2 DEF IInv, OneBuddyEach
<1>4. TooltipIsLatest'
  <2> SUFFICES ASSUME NEW d \in buddies, name[d] \in People \ merged
               PROVE  number'[d] \in {None, reported'[name[d]]} /\ d \notin freed'
    BY <1>1 DEF TooltipIsLatest
  <2>1. number[d] \in {None, reported[name[d]]} /\ d \notin freed /\ d \in Slots
    BY DEF IInv, TooltipIsLatest, TypeOK
  <2>2. CASE n = None
    BY <1>1, <2>1, <2>2
  <2>3. CASE n # None /\ d = b
    <3>1. number'[d] = n /\ reported'[p] = n
      BY <1>1, <2>1, <2>3 DEF IInv, TypeOK
    <3> QED
      BY <1>1, <2>3, <3>1
  <2>4. CASE n # None /\ d # b
    <3>1. name[d] # p
      BY <1>1, <2>4 DEF IInv, OneBuddyEach
    <3>2. number'[d] = number[d] /\ reported'[name[d]] = reported[name[d]]
      BY <1>1, <2>1, <2>4, <3>1 DEF IInv, TypeOK
    <3> QED
      BY <1>1, <2>1, <2>4, <3>2
  <2> QED
    BY <2>2, <2>3, <2>4
<1>5. StatusAssumed'
  BY <1>1 DEF IInv, StatusAssumed
<1> QED
  BY <1>2, <1>3, <1>4, <1>5 DEF IInv

\* There is neither a buddy with that uuid nor one with that number.
LEMMA CreateInvariant ==
  ASSUME IInv, NEW p \in People, NEW n \in Numbers \union {None},
         Named(p) = {}, n # None => Named(n) = {},
         CreateBuddy(p, n),
         reported' = IF n = None THEN reported ELSE [reported EXCEPT ![p] = n],
         told' = IF n = None THEN told ELSE told \union {n},
         kept' = kept \union {p}, UNCHANGED <<asked, signaldVars>>
  PROVE  IInv'
<1>1. PICK b \in Slots \ buddies :
        /\ buddies' = buddies \union {b}
        /\ name' = [name EXCEPT ![b] = p]
        /\ number' = IF n = None THEN number ELSE [number EXCEPT ![b] = n]
        /\ freed' = IF n = None THEN freed ELSE freed \ {b}
        /\ assumed' = assumed \union {b} /\ merged' = merged
  BY DEF CreateBuddy, SetNumber
<1>2. /\ \A d \in Slots : name'[d] = IF d = b THEN p ELSE name[d]
      /\ \A d \in buddies : d # b /\ name[d] # p /\ d \in Slots
      /\ p # None /\ p \notin Numbers
  BY <1>1, NamesAssumption DEF IInv, TypeOK, Named
<1>3. number[b] = None
  BY <1>1, NamesAssumption DEF IInv, TypeOK
<1>4. TypeOK'
  <2>1. /\ name' \in [Slots -> Names \union {None}]
        /\ \A d \in Slots : name'[d] = None <=> d \notin buddies'
    BY <1>1, <1>2 DEF IInv, TypeOK, Names
  <2>2. number' \in [Slots -> Numbers \union {None}]
    BY <1>1 DEF IInv, TypeOK
  <2>3. \A d \in Slots : name'[d] \notin People => number'[d] = None
    BY <1>1, <1>2 DEF IInv, TypeOK
  <2>4. reported' \in [People -> Numbers \union {None}] /\ told' \subseteq Numbers
    BY DEF IInv, TypeOK
  <2> QED
    BY <1>1, <2>1, <2>2, <2>3, <2>4 DEF IInv, TypeOK, signaldVars
<1>5. OneBuddyEach'
  <2>1. \A q \in kept' : Named(q)' # {}
    <3> SUFFICES ASSUME NEW q \in kept' PROVE \E d \in buddies' : name'[d] = q
      BY DEF Named
    <3>1. CASE q = p
      BY <1>1, <1>2, <3>1
    <3>2. CASE q \in kept
      <4>1. PICK d \in buddies : name[d] = q
        BY <3>2 DEF IInv, OneBuddyEach, Named
      <4> QED
        BY <1>1, <1>2, <4>1
    <3> QED
      BY <3>1, <3>2
  <2>2. \A d, e \in buddies' : d # e /\ name'[d] = name'[e] => name'[d] \in merged'
    BY <1>1, <1>2 DEF IInv, OneBuddyEach
  <2>3. \A d \in buddies' : name'[d] \notin told'
    <3>1. p \notin told'
      BY <1>2 DEF IInv, TypeOK
    <3>2. \A d \in buddies : name[d] \notin told'
      BY DEF IInv, OneBuddyEach, Named
    <3> QED
      BY <1>1, <1>2, <3>1, <3>2
  <2> QED
    BY <2>1, <2>2, <2>3 DEF OneBuddyEach
<1>6. TooltipIsLatest'
  <2> SUFFICES ASSUME NEW d \in buddies', name'[d] \in People \ merged
               PROVE  number'[d] \in {None, reported'[name'[d]]} /\ d \notin freed'
    BY <1>1 DEF TooltipIsLatest
  <2>1. CASE d = b
    <3>1. b \notin freed'
      BY <1>1 DEF IInv, TypeOK
    <3>2. number'[b] = IF n = None THEN None ELSE n
      BY <1>1, <1>3 DEF IInv, TypeOK
    <3>3. n # None => reported'[p] = n
      BY DEF IInv, TypeOK
    <3> QED
      BY <1>1, <1>2, <2>1, <3>1, <3>2, <3>3
  <2>2. CASE d \in buddies
    <3>1. name'[d] = name[d] /\ name[d] # p /\ number'[d] = number[d]
      BY <1>1, <1>2, <2>2 DEF IInv, TypeOK
    <3>2. reported'[name[d]] = reported[name[d]]
      BY <3>1 DEF IInv, TypeOK
    <3> QED
      BY <1>1, <2>2, <3>1, <3>2 DEF IInv, TooltipIsLatest
  <2> QED
    BY <1>1, <2>1, <2>2
<1>7. StatusAssumed'
  BY <1>1 DEF IInv, StatusAssumed
<1> QED
  BY <1>4, <1>5, <1>6, <1>7 DEF IInv

LEMMA ContactInvariant ==
  ASSUME IInv, NEW p \in People, ProcessContact(p)
  PROVE  IInv'
<1>1. PICK n \in {phone[p], None} :
        /\ AddBuddy(p, n)
        /\ reported' = IF n = None THEN reported ELSE [reported EXCEPT ![p] = n]
        /\ told' = IF n = None THEN told ELSE told \union {n}
  BY DEF ProcessContact
<1>2. n \in Numbers \union {None} /\ kept' = kept \union {p} /\ UNCHANGED <<asked, signaldVars>>
  BY <1>1 DEF ProcessContact, IInv, TypeOK
<1>3. \A q : Found(q) \subseteq Named(q) \union {None} /\ (None \in Found(q) => Named(q) = {})
  BY NamesAssumption DEF Found, Named, IInv, TypeOK, Slots
<1>4. PICK b \in Found(p), c \in Found(n) :
        IF n # None /\ c # None THEN MigrateBuddy(p, n, b, c)
        ELSE IF b # None THEN UpdateBuddy(b, n) ELSE CreateBuddy(p, n)
  BY <1>1 DEF AddBuddy
<1>5. CASE n # None /\ c # None
  BY <1>1, <1>2, <1>3, <1>4, <1>5, MigrateInvariant
<1>6. CASE ~(n # None /\ c # None) /\ b # None
  BY <1>1, <1>2, <1>3, <1>4, <1>6, UpdateInvariant
<1>7. CASE ~(n # None /\ c # None) /\ b = None
  BY <1>1, <1>2, <1>3, <1>4, <1>7, CreateInvariant
<1> QED
  BY <1>5, <1>6, <1>7

LEMMA AddedInvariant ==
  ASSUME IInv, NEW n \in Names, AddPurpleBuddy(n)
  PROVE  IInv'
<1>1. PICK b \in Slots \ buddies :
        /\ buddies' = buddies \union {b}
        /\ name' = [name EXCEPT ![b] = n]
        /\ assumed' = assumed \union {b}
  BY DEF AddPurpleBuddy
<1>2. /\ \A d \in Slots : name'[d] = IF d = b THEN n ELSE name[d]
      /\ \A d \in buddies : d # b /\ name[d] # n /\ d \in Slots
      /\ n # None /\ number[b] = None
  BY <1>1, NamesAssumption DEF AddPurpleBuddy, IInv, TypeOK, Named, Names
<1>3. /\ told' = told \ {n} /\ number' = number /\ freed' = freed /\ asked' = asked /\ phone' = phone
      /\ reported' = reported /\ kept' = kept /\ merged' = merged /\ actions' \in 0..MaxActions
  BY BoundsAssumption DEF AddPurpleBuddy, Act, IInv, TypeOK
<1>4. TypeOK'
  <2>1. /\ name' \in [Slots -> Names \union {None}]
        /\ \A d \in Slots : name'[d] = None <=> d \notin buddies'
    BY <1>1, <1>2 DEF IInv, TypeOK
  <2> QED
    BY <1>1, <1>2, <1>3, <2>1 DEF IInv, TypeOK
<1>5. OneBuddyEach'
  <2>1. \A q \in kept : \E d \in buddies' : name'[d] = q
    BY <1>1, <1>2 DEF IInv, OneBuddyEach, Named
  <2>2. \A d, e \in buddies' : d # e /\ name'[d] = name'[e] => name'[d] \in merged
    BY <1>1, <1>2 DEF IInv, OneBuddyEach
  <2>3. \A d \in buddies' : name'[d] \notin told'
    BY <1>1, <1>2, <1>3 DEF IInv, OneBuddyEach
  <2> QED
    BY <1>3, <2>1, <2>2, <2>3 DEF OneBuddyEach, Named
<1>6. TooltipIsLatest'
  <2>1. b \notin freed
    BY <1>1 DEF IInv, TypeOK
  <2> QED
    BY <1>1, <1>2, <1>3, <2>1 DEF IInv, TooltipIsLatest
<1>7. StatusAssumed'
  BY <1>1, <1>3 DEF IInv, StatusAssumed
<1> QED
  BY <1>4, <1>5, <1>6, <1>7 DEF IInv

LEMMA RemovedInvariant ==
  ASSUME IInv, NEW b \in Slots, RemovePurpleBuddy(b)
  PROVE  IInv'
<1>1. /\ b \in buddies /\ buddies' = buddies \ {b} /\ assumed' = assumed \ {b} /\ freed' = freed \ {b}
      /\ name' = [name EXCEPT ![b] = None] /\ number' = [number EXCEPT ![b] = None]
      /\ kept' = kept \ {name[b]} /\ asked' = asked /\ phone' = phone
      /\ reported' = reported /\ told' = told /\ merged' = merged /\ actions' \in 0..MaxActions
  BY BoundsAssumption DEF RemovePurpleBuddy, Act, IInv, TypeOK
<1>2. \A d \in buddies' : d \in buddies /\ name'[d] = name[d] /\ number'[d] = number[d]
  BY <1>1 DEF IInv, TypeOK
<1>3. TypeOK'
  BY <1>1, NamesAssumption DEF IInv, TypeOK
<1>4. OneBuddyEach'
  <2>1. \A q \in kept' : \E d \in buddies' : name'[d] = q
    BY <1>1, <1>2 DEF IInv, OneBuddyEach, Named
  <2> QED
    BY <1>1, <1>2, <2>1 DEF IInv, OneBuddyEach, Named
<1>5. TooltipIsLatest'
  BY <1>1, <1>2 DEF IInv, TooltipIsLatest
<1>6. StatusAssumed'
  BY <1>1 DEF IInv, StatusAssumed
<1> QED
  BY <1>3, <1>4, <1>5, <1>6 DEF IInv

LEMMA StepInvariant == IInv /\ [Next]_vars => IInv'
<1> SUFFICES ASSUME IInv, [Next]_vars PROVE IInv'
  OBVIOUS
<1>1. CASE ListContacts
  BY <1>1 DEF ListContacts, IInv, TypeOK, OneBuddyEach, TooltipIsLatest, StatusAssumed, Named,
              signaldVars, historyVars
<1>2. CASE \E p \in People : ProcessContact(p)
  BY <1>2, ContactInvariant
<1>3. CASE \E n \in Names : AddPurpleBuddy(n)
  BY <1>3, AddedInvariant
<1>4. CASE \E b \in Slots : RemovePurpleBuddy(b)
  BY <1>4, RemovedInvariant
<1>5. CASE ChangeNumber
  BY <1>5, BoundsAssumption DEF ChangeNumber, Act, Phones, IInv, TypeOK, OneBuddyEach, TooltipIsLatest,
              StatusAssumed, Named, historyVars
<1>6. CASE UNCHANGED vars
  BY <1>6 DEF vars, IInv, TypeOK, OneBuddyEach, TooltipIsLatest, StatusAssumed, Named,
              signaldVars, historyVars
<1> QED
  BY <1>1, <1>2, <1>3, <1>4, <1>5, <1>6 DEF Next

THEOREM Invariant == Spec => []IInv
<1>1. Init => IInv
  BY InitInvariant
<1>2. IInv /\ [Next]_vars => IInv'
  BY StepInvariant
<1> QED
  BY <1>1, <1>2, PTL DEF Spec

\* The types of the buddies' fields (contacts.c).
THEOREM TypeCorrect == Spec => []TypeOK
<1>1. IInv => TypeOK
  BY DEF IInv
<1> QED
  BY <1>1, Invariant, PTL

\* signald_add_purple_buddy (contacts.c:31) neither loses nor doubles a contact,
\* for any number of contacts, and leaves none under a number signald has told.
THEOREM ContactsHaveOneBuddy == Spec => []OneBuddyEach
<1>1. IInv => OneBuddyEach
  BY DEF IInv
<1> QED
  BY <1>1, Invariant, PTL

\* A tooltip (interface.c:8) shows the last number told for that very person.
THEOREM TooltipsAreLatest == Spec => []TooltipIsLatest
<1>1. IInv => TooltipIsLatest
  BY DEF IInv
<1> QED
  BY <1>1, Invariant, PTL

\* The option "fake-status" reaches every buddy, whenever it came.
THEOREM EverybodyAssumed == Spec => []StatusAssumed
<1>1. IInv => StatusAssumed
  BY DEF IInv
<1> QED
  BY <1>1, Invariant, PTL
=============================================================================
