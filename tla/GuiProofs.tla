------------------------------ MODULE GuiProofs ------------------------------
(***************************************************************************)
(* Theorems about the two parts of the main window: the settings panel,    *)
(* for every set of accounts and labels and however long the list of pairs *)
(* grows; and the engines its controllers run, for every set of            *)
(* environments, every configuration the panel may save and every number   *)
(* of starts. The two have no variable in common.                          *)
(***************************************************************************)
EXTENDS ReplicationSettings, Engines, SequenceTheorems, FiniteSetTheorems,
        WellFoundedInduction, TLAPS

-----------------------------------------------------------------------------
(* Lists of pairs.                                                         *)

(* The pairs of a list that was extended were there or were added. *)
LEMMA ListedConcat ==
    ASSUME NEW s \in Seq(Pair), NEW t \in Seq(Pair)
    PROVE  /\ s \o t \in Seq(Pair)
           /\ Len(s \o t) = Len(s) + Len(t)
           /\ ListedPairs(s \o t) \subseteq ListedPairs(s) \union ListedPairs(t)
BY ConcatProperties DEF ListedPairs

(* Removing an entry of a list adds no pair. *)
LEMMA ListedRemoveAt ==
    ASSUME NEW s \in Seq(Pair), NEW i \in DOMAIN s
    PROVE  /\ RemoveAt(s, i) \in Seq(Pair)
           /\ Len(RemoveAt(s, i)) <= Len(s)
           /\ ListedPairs(RemoveAt(s, i)) \subseteq ListedPairs(s)
<1> DEFINE a == SubSeq(s, 1, i - 1)
           b == SubSeq(s, i + 1, Len(s))
<1>1. Len(s) \in Nat /\ DOMAIN s = 1 .. Len(s) /\ i \in 1 .. Len(s)
  OBVIOUS
<1>2. a \in Seq(Pair) /\ Len(a) = i - 1 /\ ListedPairs(a) \subseteq ListedPairs(s)
  BY <1>1 DEF ListedPairs
<1>3. b \in Seq(Pair) /\ Len(b) = Len(s) - i /\ ListedPairs(b) \subseteq ListedPairs(s)
  BY <1>1 DEF ListedPairs
<1>4. RemoveAt(s, i) = a \o b
  BY DEF RemoveAt
<1> HIDE DEF a, b
<1>5. QED
  BY <1>1, <1>2, <1>3, <1>4, ListedConcat

(* Replacing an entry adds no pair but the new one. *)
LEMMA ListedExcept ==
    ASSUME NEW s \in Seq(Pair), NEW i \in DOMAIN s, NEW p \in Pair
    PROVE  LET t == [s EXCEPT ![i] = p]
           IN  /\ t \in Seq(Pair)
               /\ Len(t) = Len(s)
               /\ ListedPairs(t) \subseteq ListedPairs(s) \union {p}
BY ExceptSeq DEF ListedPairs

-----------------------------------------------------------------------------
(* The form that edits a pair.                                             *)

(* EditHitsItsPair is inductive: only the removal of a pair above the one  *)
(* that is edited parts the index from it, and that is recorded.           *)
THEOREM EditKeepsItsPair == Spec => []EditHitsItsPair
<1>1. Init => EditHitsItsPair
  BY DEF Init, EditHitsItsPair
<1>2. EditHitsItsPair /\ [Next]_vars => EditHitsItsPair'
  <2> SUFFICES ASSUME EditHitsItsPair, [Next]_vars PROVE EditHitsItsPair'
    OBVIOUS
  <2> USE DEF EditHitsItsPair
  <2>1. CASE Restart
    BY <2>1 DEF Restart
  <2>2. CASE EditPair
    BY <2>2 DEF EditPair
  <2>3. CASE UpdatePair
    BY <2>3 DEF UpdatePair
  <2>4. CASE CancelEdit
    BY <2>4 DEF CancelEdit
  <2>5. CASE RemovePair
    BY <2>5 DEF RemovePair, FormAfterRemoval
  <2>6. CASE UNCHANGED <<editing, opened, shifted>>
    BY <2>6
  <2>7. QED
    BY <2>1, <2>2, <2>3, <2>4, <2>5, <2>6
       DEF Next, AddAccount, EditAccount, UpdateAccount, CancelAccountEdit,
           RemoveAccount, AddFollowers, TogglePair, vars
<1>3. QED
  BY <1>1, <1>2, PTL DEF Spec

-----------------------------------------------------------------------------
(* Types.                                                                  *)

SettingsTypeOK == TypeOK /\ Len(pairs) <= MaxPairs /\ Len(disk) <= MaxPairs

(* A new pair of two accounts of the book is a pair. *)
LEMMA DraftType ==
    ASSUME TypeOK, NEW src \in book, NEW flw \in book
    PROVE  Draft(src, flw) \in Pair
BY DEF TypeOK, Account, Draft, Pair

(* Whatever list is shown, saving it leaves a valid file. *)
LEMMA PersistType ==
    ASSUME SettingsTypeOK, NEW list \in Seq(Pair), Len(list) <= MaxPairs,
           Persist(list)
    PROVE  /\ pairs' \in Seq(Pair) /\ disk' \in Seq(Pair)
           /\ Len(pairs)' <= MaxPairs /\ Len(disk)' <= MaxPairs
           /\ Sound(disk)'
           /\ Sound(pairs)' => disk' = pairs'
BY DEF SettingsTypeOK, TypeOK, Persist, Sound

(* The loaded book is a book. *)
LEMMA LoadedType ==
    ASSUME NEW accounts \in SUBSET Account, UniqueLabels(accounts)
    PROVE  /\ AccountsLoaded(accounts) \subseteq Account
           /\ UniqueLabels(AccountsLoaded(accounts))
           /\ \A a \in AccountsLoaded(accounts) : ~a.blank
BY DEF AccountsLoaded, UniqueLabels, Account

LEMMA TypeInit == Init => SettingsTypeOK
<1> SUFFICES ASSUME NEW s \in Stored,
                    pairs = s.pairs, disk = s.pairs,
                    book = AccountsLoaded(s.book),
                    editing = None, acctForm = None
             PROVE  SettingsTypeOK
  BY DEF Init
<1>1. /\ s.pairs \in Seq(Pair) /\ Len(s.pairs) <= MaxPairs /\ Sound(s.pairs)
      /\ s.book \in SUBSET Account /\ UniqueLabels(s.book)
  BY SettingsAssumption
<1>2. QED
  BY <1>1, LoadedType DEF SettingsTypeOK, TypeOK

(* What the account forms do to the book. *)
LEMMA BookType ==
    ASSUME SettingsTypeOK,
           Restart \/ AddAccount \/ UpdateAccount \/ RemoveAccount
    PROVE  (book \subseteq Account /\ UniqueLabels(book))'
<1> USE DEF SettingsTypeOK, TypeOK
<1>1. CASE Restart
  BY <1>1, LoadedType DEF Restart
<1>2. CASE AddAccount
  BY <1>2, SettingsAssumption DEF AddAccount, Free, Account, UniqueLabels
<1>3. CASE UpdateAccount
  BY <1>3 DEF UpdateAccount, Free, Account, UniqueLabels
<1>4. CASE RemoveAccount
  BY <1>4 DEF RemoveAccount, UniqueLabels
<1>5. QED
  BY <1>1, <1>2, <1>3, <1>4

LEMMA FormType ==
    ASSUME SettingsTypeOK, EditAccount
    PROVE  acctForm' \in [account : Account, locked : BOOLEAN]
BY DEF SettingsTypeOK, TypeOK, EditAccount

(* What each change of the list saves. *)
LEMMA SavedLists ==
    ASSUME SettingsTypeOK,
           AddFollowers \/ UpdatePair \/ TogglePair \/ RemovePair
    PROVE  \E list \in Seq(Pair) :
               Len(list) <= MaxPairs /\ Persist(list)
<1> USE DEF SettingsTypeOK, TypeOK
<1>1. CASE AddFollowers
  <2>1. PICK src \in book, n \in 0 .. MaxPairs - Len(pairs) :
            \E added \in [1 .. n -> book] :
                Persist(pairs \o [ i \in 1 .. n |-> Draft(src, added[i]) ])
    BY <1>1 DEF AddFollowers
  <2>2. PICK added \in [1 .. n -> book] :
            Persist(pairs \o [ i \in 1 .. n |-> Draft(src, added[i]) ])
    BY <2>1
  <2> DEFINE t == [ i \in 1 .. n |-> Draft(src, added[i]) ]
  <2>3. n \in Nat /\ Len(pairs) \in Nat /\ Len(pairs) + n <= MaxPairs
    BY SettingsAssumption
  <2>4. t \in Seq(Pair) /\ Len(t) = n
    BY <2>3, DraftType, IsASeq
  <2> HIDE DEF t
  <2>5. pairs \o t \in Seq(Pair) /\ Len(pairs \o t) <= MaxPairs
    BY <2>3, <2>4, ListedConcat
  <2>6. QED
    BY <2>2, <2>5 DEF t
<1>2. CASE UpdatePair
  <2>1. PICK src \in book, flw \in book :
            Persist([pairs EXCEPT ![editing] = Draft(src, flw)])
    BY <1>2 DEF UpdatePair
  <2>2. editing \in DOMAIN pairs
    BY <1>2 DEF UpdatePair
  <2>3. QED
    BY <2>1, <2>2, DraftType, ListedExcept
<1>3. CASE TogglePair
  <2>1. PICK i \in DOMAIN pairs : Persist([pairs EXCEPT ![i].on = ~@])
    BY <1>3 DEF TogglePair
  <2> DEFINE p == [pairs[i] EXCEPT !.on = ~@]
  <2>2. pairs[i] \in Pair
    OBVIOUS
  <2>3. p \in Pair
    BY <2>2 DEF Pair
  <2>4. [pairs EXCEPT ![i].on = ~@] = [pairs EXCEPT ![i] = p]
    OBVIOUS
  <2> HIDE DEF p
  <2>5. QED
    BY <2>1, <2>3, <2>4, ListedExcept
<1>4. CASE RemovePair
  <2>1. PICK i \in DOMAIN pairs : Persist(RemoveAt(pairs, i))
    BY <1>4 DEF RemovePair
  <2>2. QED
    BY <2>1, ListedRemoveAt, SettingsAssumption
<1>5. QED
  BY <1>1, <1>2, <1>3, <1>4

LEMMA TypeStep == SettingsTypeOK /\ [Next]_vars => SettingsTypeOK'
<1> SUFFICES ASSUME SettingsTypeOK, [Next]_vars PROVE SettingsTypeOK'
  OBVIOUS
<1> USE DEF SettingsTypeOK, TypeOK
<1>1. CASE Restart
  <2>1. (book \subseteq Account /\ UniqueLabels(book))'
    BY <1>1, BookType
  <2>2. QED
    BY <1>1, <2>1 DEF Restart
<1>2. CASE AddAccount
  BY <1>2, BookType DEF AddAccount
<1>3. CASE EditAccount
  <2>1. acctForm' \in [account : Account, locked : BOOLEAN]
    BY <1>3, FormType
  <2>2. QED
    BY <1>3, <2>1 DEF EditAccount
<1>4. CASE UpdateAccount
  <2>1. (book \subseteq Account /\ UniqueLabels(book))'
    BY <1>4, BookType
  <2>2. QED
    BY <1>4, <2>1 DEF UpdateAccount
<1>5. CASE CancelAccountEdit
  BY <1>5 DEF CancelAccountEdit
<1>6. CASE RemoveAccount
  <2>1. (book \subseteq Account /\ UniqueLabels(book))'
    BY <1>6, BookType
  <2>2. acctForm' \in {acctForm, None}
    BY <1>6 DEF RemoveAccount
  <2>3. QED
    BY <1>6, <2>1, <2>2 DEF RemoveAccount
<1>7. CASE AddFollowers \/ UpdatePair \/ TogglePair \/ RemovePair
  <2>1. /\ pairs' \in Seq(Pair) /\ disk' \in Seq(Pair)
        /\ Len(pairs)' <= MaxPairs /\ Len(disk)' <= MaxPairs
        /\ Sound(disk)'
        /\ Sound(pairs)' => disk' = pairs'
    BY <1>7, SavedLists, PersistType
  <2>2. UNCHANGED <<book, acctForm>> /\ editing' \in {editing, None}
    BY <1>7 DEF AddFollowers, UpdatePair, TogglePair, RemovePair, FormAfterRemoval
  <2>3. QED
    BY <2>1, <2>2
<1>8. CASE EditPair
  <2>1. /\ UNCHANGED <<book, pairs, disk, acctForm>>
        /\ editing' \in DOMAIN pairs
    BY <1>8 DEF EditPair
  <2>2. editing' \in 1 .. MaxPairs
    BY <2>1, SettingsAssumption
  <2>3. QED
    BY <2>1, <2>2
<1>9. CASE CancelEdit
  BY <1>9 DEF CancelEdit
<1>10. CASE UNCHANGED vars
  BY <1>10 DEF vars
<1>11. QED
  BY <1>1, <1>2, <1>3, <1>4, <1>5, <1>6, <1>7, <1>8, <1>9, <1>10 DEF Next

(* The types, and with them what the engines rely on: whatever the user    *)
(* does, replication.json passes the validation it is loaded with, and is  *)
(* the list on the screen whenever that passes it.                         *)
THEOREM SettingsTypeCorrect == Spec => []TypeOK
<1>1. SettingsTypeOK => TypeOK
  BY DEF SettingsTypeOK
<1>2. QED
  BY <1>1, TypeInit, TypeStep, PTL DEF Spec

-----------------------------------------------------------------------------
(* Accounts in use.                                                        *)

(* PairsBacked alone is not inductive: an account typed with blanks backs  *)
(* its pairs without being protected by them. Unless its number was so     *)
(* typed, each end of a pair is an account that the guard recognises.      *)
Recognised == { a.id : a \in { b \in book : ~b.blank } }
BackedInv ==
    \A p \in ListedPairs(pairs) : lost \/ Ends(p) \subseteq Recognised \union typed

LEMMA BackedInit == Init => BackedInv
<1> SUFFICES ASSUME NEW s \in Stored,
                    pairs = s.pairs, book = AccountsLoaded(s.book), typed = {},
                    NEW p \in ListedPairs(pairs)
             PROVE  Ends(p) \subseteq Recognised
  BY DEF Init, BackedInv
<1>1. /\ s.book \in SUBSET Account /\ UniqueLabels(s.book)
      /\ Ends(p) \subseteq { a.id : a \in s.book }
  BY SettingsAssumption
<1>2. ASSUME NEW a \in s.book
      PROVE  a.id \in Recognised
  <2>1. /\ [a EXCEPT !.blank = FALSE] \in book
        /\ [a EXCEPT !.blank = FALSE].id = a.id
        /\ ~[a EXCEPT !.blank = FALSE].blank
    BY <1>1 DEF AccountsLoaded, Account
  <2>2. QED
    BY <2>1 DEF Recognised
<1>3. QED
  BY <1>1, <1>2

(* A pair made from accounts of the book has ends that are recognised or   *)
(* noted as typed with blanks.                                             *)
LEMMA DraftBacked ==
    ASSUME TypeOK, NEW src \in book, NEW flw \in book,
           NEW chosen \in SUBSET book, src \in chosen, flw \in chosen,
           TypedIn(chosen), UNCHANGED book
    PROVE  Ends(Draft(src, flw)) \subseteq Recognised' \union typed'
BY DEF Ends, Draft, TypedIn, Recognised, TypeOK, Account

LEMMA TypedGrows ==
    ASSUME NEW chosen, TypedIn(chosen)
    PROVE  typed \subseteq typed'
BY DEF TypedIn

(* The list may only change to pairs that are backed. *)
LEMMA BackedByList ==
    ASSUME BackedInv, UNCHANGED <<book, lost>>, typed \subseteq typed',
           \A p \in ListedPairs(pairs') :
               p \in ListedPairs(pairs) \/ Ends(p) \subseteq Recognised' \union typed'
    PROVE  BackedInv'
BY DEF BackedInv, Recognised

(* No edit of the book takes the id away from an account in use. *)
LEMMA BackedByBook ==
    ASSUME SettingsTypeOK, BackedInv, AddAccount \/ UpdateAccount \/ RemoveAccount,
           NEW p \in ListedPairs(pairs), NEW x \in Ends(p), x \in Recognised
    PROVE  x \in Recognised'
<1>1. PICK a \in book : ~a.blank /\ a.id = x
  BY DEF Recognised
<1>2. PairsUsing(a) # {}
  BY <1>1 DEF PairsUsing, Matches, Ends
<1>3. CASE AddAccount
  BY <1>1, <1>3 DEF AddAccount, Recognised
<1>4. CASE RemoveAccount
  BY <1>1, <1>2, <1>4 DEF RemoveAccount, Recognised
<1>5. CASE UpdateAccount
  <2>1. PICK old \in book, new \in [label : Label, id : Id, blank : BOOLEAN] :
            /\ PairsUsing(old) # {} => new.id = old.id /\ new.blank = old.blank
            /\ book' = (book \ {old}) \union {new}
    BY <1>5 DEF UpdateAccount
  <2>2. CASE a = old
    <3>1. new \in book' /\ new.id = x /\ ~new.blank
      BY <1>1, <1>2, <2>1, <2>2
    <3>2. QED
      BY <3>1 DEF Recognised
  <2>3. CASE a # old
    BY <1>1, <2>1, <2>3 DEF Recognised
  <2>4. QED
    BY <2>2, <2>3
<1>6. QED
  BY <1>3, <1>4, <1>5

(* Nor does a change of the list bring in a pair that nothing backs. *)
LEMMA BackedAdd == SettingsTypeOK /\ BackedInv /\ AddFollowers => BackedInv'
<1> SUFFICES ASSUME SettingsTypeOK, BackedInv, AddFollowers PROVE BackedInv'
  OBVIOUS
<1> USE DEF SettingsTypeOK, TypeOK
<1>1. PICK src \in book, n \in 0 .. MaxPairs - Len(pairs) :
          \E added \in [1 .. n -> book] :
              /\ Persist(pairs \o [ i \in 1 .. n |-> Draft(src, added[i]) ])
              /\ IF n = 0 THEN UNCHANGED typed
                 ELSE TypedIn({src} \union { added[i] : i \in 1 .. n })
  BY DEF AddFollowers
<1>2. PICK added \in [1 .. n -> book] :
          /\ Persist(pairs \o [ i \in 1 .. n |-> Draft(src, added[i]) ])
          /\ IF n = 0 THEN UNCHANGED typed
             ELSE TypedIn({src} \union { added[i] : i \in 1 .. n })
  BY <1>1
<1> DEFINE t == [ i \in 1 .. n |-> Draft(src, added[i]) ]
           chosen == {src} \union { added[i] : i \in 1 .. n }
<1>3. n \in Nat
  BY SettingsAssumption
<1>4. t \in Seq(Pair) /\ Len(t) = n
  BY <1>3, DraftType, IsASeq
<1>5. UNCHANGED <<book, lost>>
  BY DEF AddFollowers
<1>6. typed \subseteq typed'
  BY <1>2, TypedGrows
<1>7. ASSUME NEW p \in ListedPairs(t)
      PROVE  Ends(p) \subseteq Recognised' \union typed'
  <2>1. PICK i \in 1 .. n : p = Draft(src, added[i])
    BY <1>3, <1>4, <1>7 DEF ListedPairs
  <2>2. TypedIn(chosen)
    BY <1>2, <2>1
  <2>3. chosen \in SUBSET book /\ src \in chosen /\ added[i] \in chosen
    BY <2>1
  <2> HIDE DEF chosen, t
  <2>4. QED
    BY <1>5, <2>1, <2>2, <2>3, DraftBacked
<1>8. ListedPairs(pairs') \subseteq ListedPairs(pairs) \union ListedPairs(t)
  <2> HIDE DEF t
  <2>1. pairs' = pairs \o t
    BY <1>2 DEF t, Persist
  <2>2. QED
    BY <1>4, <2>1, ListedConcat
<1>9. QED
  <2> HIDE DEF t
  <2>1. QED
    BY <1>5, <1>6, <1>7, <1>8, BackedByList

LEMMA BackedUpdate == SettingsTypeOK /\ BackedInv /\ UpdatePair => BackedInv'
<1> SUFFICES ASSUME SettingsTypeOK, BackedInv, UpdatePair PROVE BackedInv'
  OBVIOUS
<1> USE DEF SettingsTypeOK, TypeOK
<1>1. PICK src \in book, flw \in book :
          /\ Persist([pairs EXCEPT ![editing] = Draft(src, flw)])
          /\ TypedIn({src, flw})
  BY DEF UpdatePair
<1>2. editing \in DOMAIN pairs /\ UNCHANGED <<book, lost>>
  BY DEF UpdatePair
<1>3. ListedPairs(pairs') \subseteq ListedPairs(pairs) \union {Draft(src, flw)}
  BY <1>1, <1>2, DraftType, ListedExcept DEF Persist
<1>4. typed \subseteq typed'
  BY <1>1, TypedGrows
<1>5. Ends(Draft(src, flw)) \subseteq Recognised' \union typed'
  BY <1>1, <1>2, DraftBacked
<1>6. QED
  BY <1>2, <1>3, <1>4, <1>5, BackedByList

LEMMA BackedToggle == SettingsTypeOK /\ BackedInv /\ TogglePair => BackedInv'
<1> SUFFICES ASSUME SettingsTypeOK, BackedInv, TogglePair PROVE BackedInv'
  OBVIOUS
<1> USE DEF SettingsTypeOK, TypeOK
<1>1. PICK i \in DOMAIN pairs : pairs' = [pairs EXCEPT ![i].on = ~@]
  BY DEF TogglePair, Persist
<1>2. UNCHANGED <<book, lost, typed>>
  BY DEF TogglePair
<1>3. ASSUME NEW p \in ListedPairs(pairs')
      PROVE  \E q \in ListedPairs(pairs) : Ends(p) = Ends(q)
  <2>1. PICK j \in DOMAIN pairs : p = pairs'[j]
    BY <1>1, <1>3 DEF ListedPairs
  <2>2. pairs[j] \in Pair /\ pairs[j] \in ListedPairs(pairs)
    BY DEF ListedPairs
  <2>3. p.src = pairs[j].src /\ p.flw = pairs[j].flw
    BY <1>1, <2>1, <2>2 DEF Pair
  <2>4. QED
    BY <2>2, <2>3 DEF Ends
<1>4. QED
  BY <1>2, <1>3 DEF BackedInv, Recognised

LEMMA BackedRemove == SettingsTypeOK /\ BackedInv /\ RemovePair => BackedInv'
<1> SUFFICES ASSUME SettingsTypeOK, BackedInv, RemovePair PROVE BackedInv'
  OBVIOUS
<1> USE DEF SettingsTypeOK, TypeOK
<1>1. PICK i \in DOMAIN pairs : pairs' = RemoveAt(pairs, i)
  BY DEF RemovePair, Persist
<1>2. UNCHANGED <<book, lost, typed>>
  BY DEF RemovePair
<1>3. QED
  BY <1>1, <1>2, ListedRemoveAt, BackedByList

LEMMA BackedRestart == SettingsTypeOK /\ BackedInv /\ Restart => BackedInv'
<1> SUFFICES ASSUME SettingsTypeOK, BackedInv, Restart, ~lost' PROVE BackedInv'
  BY DEF BackedInv
<1>1. pairs' = pairs /\ typed' = typed /\ ~lost
  BY DEF Restart
<1>2. Recognised \subseteq Recognised'
  BY DEF SettingsTypeOK, TypeOK, Restart, AccountsLoaded, Recognised, Account
<1>3. QED
  BY <1>1, <1>2 DEF BackedInv

LEMMA BackedStep == SettingsTypeOK /\ BackedInv /\ [Next]_vars => BackedInv'
<1> SUFFICES ASSUME SettingsTypeOK, BackedInv, [Next]_vars PROVE BackedInv'
  OBVIOUS
<1>1. CASE AddAccount \/ UpdateAccount \/ RemoveAccount
  <2>1. UNCHANGED <<pairs, typed, lost>>
    BY <1>1 DEF AddAccount, UpdateAccount, RemoveAccount
  <2>2. QED
    BY <1>1, <2>1, BackedByBook DEF BackedInv
<1>2. CASE UNCHANGED <<book, pairs, typed, lost>>
  BY <1>2 DEF BackedInv, Recognised
<1>3. QED
  BY <1>1, <1>2, BackedRestart, BackedAdd, BackedUpdate, BackedToggle, BackedRemove
     DEF Next, EditAccount, CancelAccountEdit, EditPair, CancelEdit, vars

(* A pair's accounts stay in the book: an account in use is neither        *)
(* removed nor renumbered, unless its number was typed with blanks or the  *)
(* list that used it was not saved.                                        *)
THEOREM AccountsInUseStay == Spec => []PairsBacked
<1>1. BackedInv => PairsBacked
  BY DEF BackedInv, PairsBacked, Recognised
<1>2. QED
  BY <1>1, TypeInit, TypeStep, BackedInit, BackedStep, PTL DEF Spec

-----------------------------------------------------------------------------
(* Engines: types. The sets of places and pairs are those the constants    *)
(* mention.                                                                *)

Place ==
    {Nil} \union Traded \union { OwnAccounts[e][1] : e \in Env }
    \union { Pinned[e] : e \in Env } \union (UNION { ToSet(OwnAccounts[e]) : e \in Env })
    \union { p.source.account : p \in Pairs } \union { p.follower.account : p \in Pairs }
FeedType == [from : Place, to : Place, paired : BOOLEAN, named : BOOLEAN]
TodoType == UNION { [at -> Pairs] : at \in SUBSET UNION { DOMAIN c : c \in Config } }
EngineType ==
    [env : Env, ws : BOOLEAN, stage : {"boot", "built", "wiring", "announced", "up", "dead"},
     orphan : BOOLEAN, watched : BOOLEAN, listened : BOOLEAN, failed : BOOLEAN,
     todo : TodoType, feeds : SUBSET FeedType, read : SUBSET Config]
ReaderType ==
    [at : {"begin", "reading", "marker", "marked", "ours", "told", "done"},
     of : Nat \union {Nil}]

HeldType == held \in [DOMAIN Manages -> {Nil} \union Nat \X {"addon", "wiring"}]
EnginesTyped ==
    /\ config \in Config
    /\ gui \in {"idle", "stopping", "closing", "gone"} /\ ending \subseteq Engine
    /\ process \in [Env -> Nat \union {Nil}]
    /\ state \in [Env -> {"stopped", "starting", "running", "error"}]
    /\ engine \in Seq(EngineType)
    /\ reader \in Seq(ReaderType) /\ Len(reader) = Len(engine)
    /\ HeldType

\* The controller's processes and those the readers follow are of their own
\* environment.
OfItsEnv ==
    /\ \A e \in Env : process[e] # Nil => process[e] \in Engine /\ engine[process[e]].env = e
    /\ \A r \in Engine :
           reader[r].at \notin {"begin", "done"}
           => reader[r].of \in Engine /\ engine[reader[r].of].env = engine[r].env

-----------------------------------------------------------------------------
(* Engines that are stopped.                                               *)

\* stop() has let go of what it waits for; a window that is closed has left
\* every engine and has no readers.
StopOK ==
    /\ gui \in {"idle", "gone"} => ending = {}
    /\ \A k \in ending : process[engine[k].env] = Nil
    /\ gui = "gone" => \A k \in Engine : ~Parented(k) /\ reader[k].at = "done"

\* A reader that has found its engine ended, while the process was still its
\* own, finds no other engine of the environment, unless one overtook it.
EndIsLast ==
    \A r, k \in Engine :
        AtTheEnd(reader[r]) /\ engine[r].env \notin overtaken /\ engine[k].env = engine[r].env
        => ~(Alive(k) /\ Parented(k))

-----------------------------------------------------------------------------
(* Feeds.                                                                  *)

\* The pair a feed is of, and what keeps engines of other environments from
\* having the same feed: the source's login, the account of the engine's own
\* settings, or the Gateway's only client.
FedBy(k, e, h, p, f) ==
    /\ f.from = Means(p.source.account) /\ f.to = Means(p.follower.account)
    /\ IF p.source.broker = "tradovate" THEN f.from \in ToSet(OwnAccounts[e.env])
       ELSE IF p.follower.broker = "tradovate" THEN f.to = Pinned[e.env]
       ELSE h[Default] = <<k, "addon">>

\* What engine k, in state e and with the clients h at the Gateways, feeds or
\* is about to feed is of a pair it read.
TodoOf(e) ==
    /\ e.stage = "boot" => DOMAIN e.todo = {}
    /\ \A i \in DOMAIN e.todo :
           /\ e.todo[i].source.broker = "tradovate"
           /\ \E c \in e.read : e.todo[i] \in ToSet(c)
FeedsOf(k, e, h) ==
    \A f \in e.feeds :
        f.paired /\ ~f.named /\ f.from # Nil
        => \E c \in e.read : \E p \in ToSet(c) : FedBy(k, e, h, p, f)
FeedsOK ==
    \A k \in Engine :
        IsFiniteSet(engine[k].read) /\ TodoOf(engine[k]) /\ FeedsOf(k, engine[k], held)

EnginesInv ==
    EnginesTyped /\ OfItsEnv /\ FeedsOK /\ StopOK /\ EndIsLast /\ StoppedIsDead

-----------------------------------------------------------------------------
(* The steps of an engine.                                                 *)

(* A pair of the configuration is a pair, and its accounts are places. *)
LEMMA PairPlaces ==
    ASSUME NEW c \in Config, NEW i \in DOMAIN c
    PROVE  /\ c[i] \in Pairs /\ c[i] \in ToSet(c)
           /\ c[i].source.account \in Place /\ c[i].follower.account \in Place
BY DEF Pairs, ToSet, Place

(* A client resolves an account to a place, and a number to the account it *)
(* means.                                                                  *)
LEMMA ResolveType ==
    ASSUME NEW e \in Env, NEW a
    PROVE  /\ Resolve(e, a) \in Place
           /\ a \notin Named /\ Resolve(e, a) # Nil
              => Resolve(e, a) = Means(a) /\ Means(a) \in ToSet(OwnAccounts[e])
<1> DEFINE own == ToSet(OwnAccounts[e])
           shown == { x \in own : ShownAs[x] = a }
           all == { x \in DOMAIN ShownAs : ShownAs[x] = a }
           one == CHOOSE x \in shown : TRUE
<1>1. own \subseteq DOMAIN ShownAs /\ own \subseteq Place
      /\ OwnAccounts[e][1] \in Place /\ Nil \in Place
  BY AccountAssumption DEF Place
<1>2. Resolve(e, a) = IF a \in Named THEN OwnAccounts[e][1]
                      ELSE IF a \in own THEN a
                      ELSE IF shown # {} THEN one ELSE Nil
  BY DEF Resolve
<1>3. shown # {} => one \in shown
  OBVIOUS
<1>4. Means(a) = IF all # {} THEN CHOOSE x \in all : TRUE ELSE a
  BY DEF Means
<1>5. all # {} => Means(a) \in all
  BY <1>4
<1>6. a \in own => Means(a) = a
  BY <1>1, <1>4, <1>5, AccountAssumption
<1>7. \A x \in shown : Means(a) = x
  BY <1>1, <1>5, AccountAssumption
<1> HIDE DEF one
<1>8. QED
  BY <1>1, <1>2, <1>3, <1>6, <1>7

(* An account that is not Tradovate's is what is written for it. *)
LEMMA IbkrMeansItself ==
    ASSUME NEW p \in Pairs, NEW x \in {p.source, p.follower}, x.broker # "tradovate"
    PROVE  Means(x.account) = x.account
<1>1. x.account \notin Range(ShownAs)
  BY AccountAssumption
<1>2. { y \in DOMAIN ShownAs : ShownAs[y] = x.account } = {}
  BY <1>1 DEF Range
<1>3. QED
  BY <1>2 DEF Means

(* A set of numbers has a least one. *)
LEMMA MinIsMember ==
    ASSUME NEW S, S \subseteq Nat, S # {}
    PROVE  Min(S) \in S
<1>1. PICK x \in S : \A y \in S : ~ (<<y, x>> \in OpToRel(<, Nat))
  BY WFMin, NatLessThanWellFounded
<1>2. \A y \in S : x <= y
  <2> TAKE y \in S
  <2>1. x \in Nat /\ y \in Nat
    OBVIOUS
  <2>2. ~ (y < x)
    BY <1>1, <2>1 DEF OpToRel
  <2>3. QED
    BY <2>1, <2>2
<1>3. QED
  BY <1>2 DEF Min

(* The pair that rules the addon is one of the configuration. *)
LEMMA AddonPairType ==
    ASSUME config \in Config
    PROVE  AddonPair = Nil \/ (AddonPair \in ToSet(config) /\ AddonPair.source.broker = "ibkr")
<1> DEFINE at == { i \in DOMAIN config : config[i].source.broker = "ibkr" }
<1>1. CASE at = {}
  BY <1>1 DEF AddonPair
<1>2. CASE at # {}
  <2>1. DOMAIN config \subseteq Nat
    BY EngineAssumption
  <2>3. Min(at) \in at
    BY <1>2, <2>1, MinIsMember
  <2>4. QED
    BY <1>2, <2>3 DEF AddonPair, ToSet
<1>3. QED
  BY <1>1, <1>2

\* A step of a living engine makes it e, and takes no other's client away.
Becomes(k, e) ==
    /\ engine' = [engine EXCEPT ![k] = e]
    /\ e \in EngineType /\ e.env = engine[k].env /\ e.orphan = engine[k].orphan
    /\ Alive(k)
    /\ HeldType'
    /\ \A j \in Engine \ {k} : held[Default] = <<j, "addon">> => held'[Default] = <<j, "addon">>
    /\ IsFiniteSet(e.read) /\ TodoOf(e) /\ FeedsOf(k, e, held')

LEMMA EngineFields ==
    ASSUME EnginesTyped, NEW k \in Engine
    PROVE  /\ engine[k] \in EngineType /\ k \in Nat /\ engine[k].env \in Env
           /\ k \in DOMAIN reader /\ reader[k] \in ReaderType
           /\ reader[k].of \in Nat \union {Nil}
<1>1. engine[k] \in EngineType /\ k \in Nat
  BY DEF EnginesTyped, Engine
<1>2. k \in DOMAIN reader
  BY DEF EnginesTyped, Engine
<1>3. reader[k] \in ReaderType
  BY <1>2 DEF EnginesTyped
<1>4. QED
  BY <1>1, <1>2, <1>3 DEF EngineType, ReaderType

(* An engine that ends gives up its clients and feeds nobody. *)
LEMMA DiesBecomes ==
    ASSUME EnginesTyped, NEW k \in Engine, NEW failed \in BOOLEAN, Alive(k), Dies(k, failed)
    PROVE  \E e \in EngineType : Becomes(k, e)
<1> DEFINE e == [engine[k] EXCEPT !.stage = "dead", !.failed = failed, !.feeds = {},
                                  !.todo = <<>>, !.read = {}, !.ws = FALSE, !.watched = FALSE]
<1>1. engine[k] \in EngineType
  BY EngineFields
<1>2. <<>> \in TodoType /\ DOMAIN <<>> = {}
  <2>1. <<>> \in [{} -> Pairs]
    OBVIOUS
  <2>2. QED
    BY <2>1 DEF TodoType
<1>3. e \in EngineType /\ e.env = engine[k].env /\ e.orphan = engine[k].orphan
      /\ e.feeds = {} /\ e.read = {} /\ e.todo = <<>> /\ e.stage = "dead"
  BY <1>1, <1>2 DEF EngineType
<1>4. engine' = [engine EXCEPT ![k] = e]
  BY <1>1 DEF Dies, EngineType, EnginesTyped, Engine
<1>5. /\ held \in [DOMAIN Manages -> {Nil} \union Nat \X {"addon", "wiring"}]
      /\ held' = [g \in DOMAIN held |->
                     IF held[g] # Nil /\ held[g][1] = k THEN Nil ELSE held[g]]
  BY DEF Dies, EnginesTyped, HeldType
<1>6. HeldType'
  BY <1>5 DEF HeldType
<1>9. \A j \in Engine \ {k} : held[Default] = <<j, "addon">> => held'[Default] = <<j, "addon">>
  <2> SUFFICES ASSUME NEW j \in Engine \ {k}, held[Default] = <<j, "addon">>
               PROVE  held'[Default] = <<j, "addon">>
    OBVIOUS
  <2>1. held[Default][1] # k /\ Default \in DOMAIN held
    BY <1>5, EngineAssumption
  <2>2. QED
    BY <1>5, <2>1
<1> HIDE DEF e
<1>7. IsFiniteSet(e.read) /\ TodoOf(e) /\ FeedsOf(k, e, held')
  BY <1>2, <1>3, FS_EmptySet DEF TodoOf, FeedsOf
<1>8. QED
  BY <1>3, <1>4, <1>6, <1>7, <1>9 DEF Becomes

(* The addon's feeds are those of its pair, or not what a pair says. *)
LEMMA BuildAddonBecomes ==
    ASSUME EnginesTyped, FeedsOK, NEW k \in Engine, BuildAddon(k)
    PROVE  \E e \in EngineType : Becomes(k, e)
<1> DEFINE p == AddonPair
           built(to) == [engine[k] EXCEPT !.stage = "built", !.read = {config},
                                          !.feeds = AddonFeeds(p, to)]
           own == <<k, "addon">>
<1>1. engine[k] \in EngineType /\ config \in Config /\ engine[k].stage = "boot"
  BY EngineFields DEF EnginesTyped, BuildAddon
<1>2. p = Nil \/ (p \in ToSet(config) /\ p.source.broker = "ibkr")
  BY <1>1, AddonPairType
<1>3. PICK to :
         /\ engine' = [engine EXCEPT ![k] = built(to)]
         /\ to \subseteq Place
         /\ \/ UNCHANGED held /\ to = {}
            \/ UNCHANGED held /\ (p = Nil \/ p.follower.broker = "tradovate")
               /\ to = {Pinned[engine[k].env]}
            \/ /\ held[Default] = own \/ held[Default] = Nil
               /\ held' = [held EXCEPT ![Default] = own]
               /\ to \subseteq {p.follower.account}
               /\ p # Nil /\ p.follower.broker # "tradovate"
  <2> DEFINE made(to) == engine' = [engine EXCEPT ![k].stage = "built", ![k].read = {config},
                                      ![k].feeds = AddonFeeds(p, to)]
  <2>1. ASSUME NEW to, made(to)
        PROVE  engine' = [engine EXCEPT ![k] = built(to)]
    BY <1>1, <2>1 DEF EnginesTyped, Engine, EngineType
  <2>2. CASE p = Nil \/ p.follower.broker = "tradovate"
    <3>1. made({Pinned[engine[k].env]}) /\ UNCHANGED held
      BY <2>2 DEF BuildAddon
    <3>2. {Pinned[engine[k].env]} \subseteq Place
      BY <1>1 DEF Place, EngineType
    <3>3. QED
      BY <2>1, <2>2, <3>1, <3>2
  <2>3. CASE ~(p = Nil \/ p.follower.broker = "tradovate")
    <3>1. PICK there \in BOOLEAN :
             IF Connects(own, Default, there)
             THEN /\ held' = [held EXCEPT ![Default] = own]
                  /\ made({p.follower.account} \intersect Manages[Default])
             ELSE made({}) /\ UNCHANGED held
      BY <2>3 DEF BuildAddon
    <3>2. {p.follower.account} \subseteq Place
      BY <1>2, <2>3, <1>1 DEF Place, Pairs
    <3>3. CASE Connects(own, Default, there)
      <4> DEFINE here == {p.follower.account} \intersect Manages[Default]
      <4>1. here \subseteq Place /\ here \subseteq {p.follower.account}
        BY <3>2
      <4>2. held' = [held EXCEPT ![Default] = own] /\ made(here)
        BY <3>1, <3>3
      <4>3. engine' = [engine EXCEPT ![k] = built(here)]
        BY <2>1, <4>2
      <4>4. held[Default] = own \/ held[Default] = Nil
        BY <3>3 DEF Connects
      <4> HIDE DEF here, own, made, built
      <4>5. QED
        BY <2>3, <4>1, <4>2, <4>3, <4>4
    <3>4. CASE ~Connects(own, Default, there)
      <4>1. made({}) /\ UNCHANGED held
        BY <3>1, <3>4
      <4>2. engine' = [engine EXCEPT ![k] = built({})]
        BY <2>1, <4>1
      <4> HIDE DEF own, made, built
      <4>3. QED
        BY <4>1, <4>2
    <3>5. QED
      BY <3>3, <3>4
  <2>4. QED
    BY <2>2, <2>3
<1> DEFINE e == built(to)
<1>4. AddonFeeds(p, to) \subseteq FeedType
  <2>1. ASSUME NEW a \in Traded, NEW t \in to PROVE Feed(p, a, t) \in FeedType
    BY <1>3 DEF Feed, FeedType, Place
  <2>2. QED
    BY <2>1 DEF AddonFeeds
<1>5. /\ e \in EngineType /\ e.env = engine[k].env /\ e.orphan = engine[k].orphan
      /\ e.read = {config} /\ e.todo = engine[k].todo /\ e.stage # "boot"
      /\ e.feeds = AddonFeeds(p, to)
  BY <1>1, <1>4 DEF EngineType
<1>6. engine' = [engine EXCEPT ![k] = e] /\ Alive(k)
  BY <1>1, <1>3 DEF Alive
<1> HIDE DEF e, built
<1>7. HeldType'
  <2>1. k \in Nat /\ HeldType
    BY EngineFields DEF EnginesTyped
  <2>2. QED
    BY <1>3, <2>1 DEF HeldType
<1>8. \A j \in Engine \ {k} : held[Default] = <<j, "addon">> => held'[Default] = <<j, "addon">>
  <2> SUFFICES ASSUME NEW j \in Engine \ {k}, held[Default] = <<j, "addon">>
               PROVE  held'[Default] = <<j, "addon">>
    OBVIOUS
  <2>1. held[Default] # own /\ held[Default] # Nil
    BY EngineFields, EngineAssumption
  <2>2. QED
    BY <1>3, <2>1
<1>9. IsFiniteSet(e.read) /\ TodoOf(e)
  BY <1>1, <1>5, FS_Singleton DEF FeedsOK, TodoOf
<1>10. FeedsOf(k, e, held')
  <2> SUFFICES ASSUME NEW a \in Traded, NEW t \in to,
                      Feed(p, a, t).paired, ~Feed(p, a, t).named
               PROVE  FedBy(k, e, held', p, Feed(p, a, t)) /\ p \in ToSet(config)
    BY <1>5 DEF FeedsOf, AddonFeeds
  <2>1. p # Nil /\ a = Means(p.source.account) /\ t = Means(p.follower.account)
    BY DEF Feed
  <2>2. p \in ToSet(config) /\ p.source.broker # "tradovate"
    BY <1>2, <2>1
  <2>3. Feed(p, a, t).from = a /\ Feed(p, a, t).to = t
    BY DEF Feed
  <2>4. p.follower.broker = "tradovate" => t = Pinned[e.env]
    BY <1>3, <1>5, <2>1
  <2>5. p.follower.broker # "tradovate" => held'[Default] = own
    BY <1>3, <2>1, EngineAssumption DEF EnginesTyped, HeldType
  <2>6. QED
    BY <2>1, <2>2, <2>3, <2>4, <2>5 DEF FedBy
<1>11. QED
  BY <1>5, <1>6, <1>7, <1>8, <1>9, <1>10 DEF Becomes

(* What main() reads again it has read, and the pipelines are of that. *)
LEMMA StartWatcherBecomes ==
    ASSUME EnginesTyped, FeedsOK, NEW k \in Engine, StartWatcher(k)
    PROVE  \E e \in EngineType : Becomes(k, e)
<1> DEFINE read == IF engine[k].ws THEN engine[k].read \union {config} ELSE engine[k].read
           e == [engine[k] EXCEPT !.stage = "wiring", !.watched = Parented(k),
                                  !.read = read, !.todo = Pipelines(k)]
<1>1. engine[k] \in EngineType /\ config \in Config /\ engine[k].stage = "built"
  BY EngineFields DEF EnginesTyped, StartWatcher
<1>2. /\ Pipelines(k) \in TodoType
      /\ \A i \in DOMAIN Pipelines(k) :
             /\ Pipelines(k)[i].source.broker = "tradovate"
             /\ engine[k].ws /\ Pipelines(k)[i] \in ToSet(config)
  <2> DEFINE at == { i \in DOMAIN config : engine[k].ws /\ config[i].source.broker = "tradovate" }
  <2>1. Pipelines(k) = [i \in at |-> config[i]] /\ at \subseteq DOMAIN config
    BY DEF Pipelines
  <2>2. at \in SUBSET UNION { DOMAIN c : c \in Config }
    BY <1>1
  <2>3. \A i \in at : config[i] \in Pairs /\ config[i] \in ToSet(config)
    BY <1>1, PairPlaces
  <2>4. Pipelines(k) \in [at -> Pairs]
    BY <2>1, <2>3
  <2>5. Pipelines(k) \in TodoType
    BY <2>2, <2>4 DEF TodoType
  <2>6. QED
    BY <2>1, <2>3, <2>5
<1>3. read \in SUBSET Config /\ Parented(k) \in BOOLEAN
  BY <1>1 DEF EngineType, Parented
<1>4. /\ e \in EngineType /\ e.env = engine[k].env /\ e.orphan = engine[k].orphan
      /\ e.read = read /\ e.todo = Pipelines(k) /\ e.feeds = engine[k].feeds
      /\ e.stage = "wiring"
  BY <1>1, <1>2, <1>3 DEF EngineType
<1>5. engine' = [engine EXCEPT ![k] = e] /\ UNCHANGED held
  BY <1>1 DEF StartWatcher, EnginesTyped, Engine, EngineType
<1>6. Alive(k) /\ HeldType'
  BY <1>1, <1>5 DEF Alive, EnginesTyped, HeldType
<1> HIDE DEF e
<1>7. IsFiniteSet(e.read)
  <2>1. IsFiniteSet(engine[k].read)
    BY DEF FeedsOK
  <2>2. IsFiniteSet(engine[k].read \union {config})
    BY <2>1, FS_AddElement
  <2>3. QED
    BY <1>4, <2>1, <2>2
<1>8. TodoOf(e)
  BY <1>2, <1>4 DEF TodoOf
<1>9. FeedsOf(k, e, held')
  BY <1>4, <1>5 DEF FeedsOf, FeedsOK, FedBy
<1>10. QED
  BY <1>4, <1>5, <1>6, <1>7, <1>8, <1>9 DEF Becomes

(* A pipeline that resolves its follower's number feeds that account, and  *)
(* sees its source's orders only if that resolves too.                     *)
LEMMA PipeIsOfItsPair ==
    ASSUME NEW k \in Engine, engine[k].env \in Env, NEW p, NEW to, NEW h,
           p.source.broker = "tradovate",
           p.follower.account \notin Named => to = Means(p.follower.account)
    PROVE  LET f == Pipe(p, engine[k].env, to)
           IN  /\ p \in Pairs /\ to \in Place => f \in FeedType
               /\ f.paired /\ ~f.named /\ f.from # Nil => FedBy(k, engine[k], h, p, f)
BY ResolveType DEF Pipe, Feed, FedBy, FeedType

LEMMA StartPipelineBecomes ==
    ASSUME EnginesTyped, FeedsOK, NEW k \in Engine, StartPipeline(k)
    PROVE  \E e \in EngineType : Becomes(k, e)
<1> DEFINE old == engine[k]
           env == old.env
           own == <<k, "wiring">>
           rest(i) == Restrict(old.todo, DOMAIN old.todo \ {i})
           fed(i, fs) == [old EXCEPT !.todo = rest(i), !.feeds = @ \union fs]
           client(g) == /\ held[g] = own \/ held[g] = Nil
                        /\ held' = [held EXCEPT ![g] = own]
<1>1. old \in EngineType /\ old.stage = "wiring" /\ Alive(k) /\ env \in Env
  BY EngineFields DEF EnginesTyped, EngineType, StartPipeline, Alive
<1>2. PICK i \in DOMAIN old.todo :
        LET p == old.todo[i]
            g == GatewayOf(p)
            started(to) == engine' = [engine EXCEPT ![k].todo = rest(i),
                                      ![k].feeds = @ \union {Pipe(p, env, to)}]
            skipped == engine' = [engine EXCEPT ![k].todo = rest(i)]
        IN  IF p.follower.broker = "tradovate"
            THEN /\ UNCHANGED held
                 /\ IF Resolve(env, p.follower.account) # Nil
                    THEN started(Resolve(env, p.follower.account)) ELSE skipped
            ELSE \E there \in BOOLEAN :
                     IF Connects(own, g, there)
                     THEN /\ held' = [held EXCEPT ![g] = own]
                          /\ IF p.follower.account \in Manages[g]
                             THEN started(p.follower.account) ELSE skipped
                     ELSE UNCHANGED held /\ skipped
  BY DEF StartPipeline
<1> DEFINE p == old.todo[i]
           started(to) == engine' = [engine EXCEPT ![k].todo = rest(i),
                                     ![k].feeds = @ \union {Pipe(p, env, to)}]
           skipped == engine' = [engine EXCEPT ![k].todo = rest(i)]
<1>3. /\ old.todo \in [DOMAIN old.todo -> Pairs]
      /\ DOMAIN old.todo \in SUBSET UNION { DOMAIN c : c \in Config }
      /\ p.source.broker = "tradovate" /\ p \in Pairs
  BY <1>1 DEF EngineType, TodoType, FeedsOK, TodoOf
<1>4. /\ rest(i) \in TodoType /\ DOMAIN rest(i) \subseteq DOMAIN old.todo
      /\ \A j \in DOMAIN rest(i) : rest(i)[j] = old.todo[j]
  <2>1. rest(i) = [j \in DOMAIN old.todo \ {i} |-> old.todo[j]]
    BY DEF Restrict
  <2>2. rest(i) \in [DOMAIN old.todo \ {i} -> Pairs]
    BY <1>3, <2>1
  <2>3. DOMAIN old.todo \ {i} \in SUBSET UNION { DOMAIN c : c \in Config }
    BY <1>3
  <2>4. QED
    BY <2>1, <2>2, <2>3 DEF TodoType
<1>5. PICK fs :
        /\ engine' = [engine EXCEPT ![k] = fed(i, fs)]
        /\ fs = {} \/ \E to \in Place :
               /\ fs = {Pipe(p, env, to)}
               /\ p.follower.account \notin Named => to = Means(p.follower.account)
  <2>1. ASSUME NEW to, started(to)
        PROVE  engine' = [engine EXCEPT ![k] = fed(i, {Pipe(p, env, to)})]
    BY <1>1, <2>1 DEF EnginesTyped, Engine, EngineType
  <2>2. ASSUME skipped PROVE engine' = [engine EXCEPT ![k] = fed(i, {})]
    BY <1>1, <2>2 DEF EnginesTyped, Engine, EngineType
  <2>3. p.follower.account \in Place
    BY <1>3 DEF Place
  <2>4. \/ skipped
        \/ started(Resolve(env, p.follower.account)) /\ Resolve(env, p.follower.account) # Nil
        \/ started(p.follower.account) /\ p.follower.broker # "tradovate"
    BY <1>2
  <2> HIDE DEF started, skipped, fed
  <2>5. CASE skipped
    BY <2>2, <2>5
  <2>6. CASE started(p.follower.account) /\ p.follower.broker # "tradovate"
    <3>1. Means(p.follower.account) = p.follower.account
      BY <1>3, <2>6, IbkrMeansItself
    <3>2. QED
      BY <2>1, <2>3, <2>6, <3>1
  <2>7. CASE started(Resolve(env, p.follower.account)) /\ Resolve(env, p.follower.account) # Nil
    <3>1. Resolve(env, p.follower.account) \in Place
          /\ (p.follower.account \notin Named
              => Resolve(env, p.follower.account) = Means(p.follower.account))
      BY <1>1, <2>7, ResolveType
    <3>2. QED
      BY <2>1, <2>7, <3>1
  <2>8. QED
    BY <2>4, <2>5, <2>6, <2>7
<1>6. UNCHANGED held \/ client(GatewayOf(p))
  BY <1>2 DEF Connects
<1>7. HeldType'
  <2>1. k \in Nat /\ HeldType
    BY EngineFields DEF EnginesTyped
  <2>2. QED
    BY <1>6, <2>1 DEF HeldType
<1>8. \A j \in Engine : held[Default] = <<j, "addon">> => held'[Default] = <<j, "addon">>
  <2> SUFFICES ASSUME NEW j \in Engine, held[Default] = <<j, "addon">>
               PROVE  held'[Default] = <<j, "addon">>
    OBVIOUS
  <2>1. held[Default] # own /\ held[Default] # Nil
    BY EngineFields, EngineAssumption
  <2>2. Default \in DOMAIN held
    BY EngineAssumption DEF EnginesTyped, HeldType
  <2>3. QED
    BY <1>6, <2>1, <2>2
<1> DEFINE e == fed(i, fs)
<1>9. fs \subseteq FeedType
  <2>1. ASSUME NEW to \in Place, p.follower.account \notin Named => to = Means(p.follower.account)
        PROVE  Pipe(p, env, to) \in FeedType
    BY <1>1, <1>3, <2>1, PipeIsOfItsPair
  <2>2. QED
    BY <1>5, <2>1
<1>10. /\ e \in EngineType /\ e.env = old.env /\ e.orphan = old.orphan /\ e.stage = "wiring"
       /\ e.read = old.read /\ e.todo = rest(i) /\ e.feeds = old.feeds \union fs
  BY <1>1, <1>4, <1>9 DEF EngineType
<1>11. engine' = [engine EXCEPT ![k] = e]
  BY <1>5
<1> HIDE DEF e, fed, rest
<1>12. IsFiniteSet(e.read) /\ TodoOf(e)
  BY <1>4, <1>10 DEF FeedsOK, TodoOf
<1>13. FeedsOf(k, e, held')
  <2>1. FeedsOf(k, old, held') /\ \E c \in old.read : p \in ToSet(c)
    BY <1>8 DEF FeedsOK, FeedsOf, TodoOf, FedBy
  <2>2. \A f \in fs : f.paired /\ ~f.named /\ f.from # Nil => FedBy(k, old, held', p, f)
    <3>1. CASE fs = {}
      BY <3>1
    <3>2. ASSUME NEW to \in Place, fs = {Pipe(p, env, to)},
                 p.follower.account \notin Named => to = Means(p.follower.account)
          PROVE  \A f \in fs : f.paired /\ ~f.named /\ f.from # Nil => FedBy(k, old, held', p, f)
      BY <1>1, <1>3, <3>2, PipeIsOfItsPair
    <3>3. QED
      BY <1>5, <3>1, <3>2
  <2>3. QED
    BY <1>10, <2>1, <2>2 DEF FeedsOf, FedBy
<1>14. QED
  BY <1>1, <1>7, <1>8, <1>10, <1>11, <1>12, <1>13 DEF Becomes

LEMMA AnnounceBecomes ==
    ASSUME EnginesTyped, FeedsOK, NEW k \in Engine, Announce(k)
    PROVE  \E e \in EngineType : Becomes(k, e)
<1> DEFINE e == [engine[k] EXCEPT !.stage = "announced", !.listened = TRUE]
<1>1. engine[k] \in EngineType /\ engine[k].stage = "wiring" /\ Alive(k)
  BY EngineFields DEF EnginesTyped, Announce, Alive
<1>2. /\ e \in EngineType /\ e.env = engine[k].env /\ e.orphan = engine[k].orphan
      /\ e.read = engine[k].read /\ e.todo = engine[k].todo /\ e.feeds = engine[k].feeds
      /\ e.stage = "announced"
  BY <1>1 DEF EngineType
<1>3. engine' = [engine EXCEPT ![k] = e] /\ UNCHANGED held
  BY <1>1 DEF Announce, EnginesTyped, Engine, EngineType
<1>4. HeldType'
  BY <1>3 DEF EnginesTyped, HeldType
<1> HIDE DEF e
<1>5. IsFiniteSet(e.read) /\ TodoOf(e) /\ FeedsOf(k, e, held')
  BY <1>2, <1>3 DEF TodoOf, FeedsOf, FeedsOK, FedBy
<1>6. QED
  BY <1>1, <1>2, <1>3, <1>4, <1>5 DEF Becomes

LEMMA ListenBecomes ==
    ASSUME EnginesTyped, FeedsOK, NEW k \in Engine, Listen(k)
    PROVE  \E e \in EngineType : Becomes(k, e)
<1> DEFINE e == [engine[k] EXCEPT !.stage = "up"]
<1>1. engine[k] \in EngineType /\ engine[k].stage = "announced" /\ Alive(k)
  BY EngineFields DEF EnginesTyped, Listen, Alive
<1>2. CASE Dies(k, TRUE)
  BY <1>1, <1>2, DiesBecomes
<1>3. CASE engine' = [engine EXCEPT ![k].stage = "up"] /\ UNCHANGED held
  <2>1. /\ e \in EngineType /\ e.env = engine[k].env /\ e.orphan = engine[k].orphan
        /\ e.read = engine[k].read /\ e.todo = engine[k].todo /\ e.feeds = engine[k].feeds
        /\ e.stage = "up"
    BY <1>1 DEF EngineType
  <2>2. engine' = [engine EXCEPT ![k] = e]
    BY <1>1, <1>3 DEF EnginesTyped, Engine, EngineType
  <2>3. HeldType'
    BY <1>3 DEF EnginesTyped, HeldType
  <2> HIDE DEF e
  <2>4. IsFiniteSet(e.read) /\ TodoOf(e) /\ FeedsOf(k, e, held')
    BY <1>3, <2>1 DEF TodoOf, FeedsOf, FeedsOK, FedBy
  <2>5. QED
    BY <1>1, <1>3, <2>1, <2>2, <2>3, <2>4 DEF Becomes
<1>4. QED
  BY <1>2, <1>3 DEF Listen

(* Whatever an engine does, the GUI sees only whether it still runs. *)
LEMMA EngineStepBecomes ==
    ASSUME EnginesInv, NEW k \in Engine, EngineSteps(k)
    PROVE  UNCHANGED EngineUnchanged /\ \E e \in EngineType : Becomes(k, e)
<1> USE DEF EnginesInv
<1>1. CASE BuildAddon(k)
  BY <1>1, BuildAddonBecomes DEF BuildAddon
<1>2. CASE StartWatcher(k)
  BY <1>2, StartWatcherBecomes DEF StartWatcher
<1>3. CASE StartPipeline(k)
  BY <1>3, StartPipelineBecomes DEF StartPipeline
<1>4. CASE Listen(k)
  BY <1>4, ListenBecomes DEF Listen, Dies
<1>7. CASE Announce(k)
  BY <1>7, AnnounceBecomes DEF Announce
<1>5. ASSUME NEW failed \in BOOLEAN, Alive(k), Dies(k, failed)
      PROVE  UNCHANGED EngineUnchanged /\ \E e \in EngineType : Becomes(k, e)
  BY <1>5, DiesBecomes DEF Dies
<1>6. QED
  BY <1>1, <1>2, <1>3, <1>4, <1>5, <1>7 DEF EngineSteps, StopSignal, Fails, WatcherExits

LEMMA EngineStepKeeps ==
    ASSUME EnginesInv, NEW k \in Engine, EngineSteps(k)
    PROVE  EnginesInv'
<1>1. PICK e \in EngineType : UNCHANGED EngineUnchanged /\ Becomes(k, e)
  BY EngineStepBecomes
<1>2. /\ UNCHANGED <<config, gui, ending, process, state, reader, saves, quits, overtaken>>
      /\ EnginesTyped
  BY <1>1 DEF EngineUnchanged, EnginesInv
<1>3. /\ engine' \in Seq(EngineType) /\ Len(engine') = Len(engine) /\ Engine' = Engine
      /\ engine'[k] = e
      /\ \A j \in Engine : j # k => engine'[j] = engine[j]
      /\ \A j \in Engine : engine'[j].env = engine[j].env /\ engine'[j].orphan = engine[j].orphan
  BY <1>1, <1>2, ExceptSeq DEF Becomes, EnginesTyped, Engine
<1>4. \A j \in Engine : Alive(j)' => Alive(j)
  BY <1>1, <1>3 DEF Becomes, Alive
<1>5. EnginesTyped'
  BY <1>1, <1>2, <1>3 DEF EnginesTyped, Becomes
<1>6. OfItsEnv'
  BY <1>2, <1>3 DEF OfItsEnv, EnginesInv, EnginesTyped
<1>7. FeedsOK'
  <2> SUFFICES ASSUME NEW j \in Engine
               PROVE  IsFiniteSet(engine'[j].read) /\ TodoOf(engine'[j])
                      /\ FeedsOf(j, engine'[j], held')
    BY <1>3 DEF FeedsOK
  <2>1. CASE j = k
    BY <1>1, <1>3, <2>1 DEF Becomes
  <2>2. CASE j # k
    BY <1>1, <1>3, <2>2 DEF Becomes, FeedsOK, FeedsOf, FedBy, EnginesInv
  <2>3. QED
    BY <2>1, <2>2
<1>8. StopOK'
  BY <1>2, <1>3 DEF StopOK, EnginesInv, EnginesTyped, Parented
<1>9. EndIsLast'
  BY <1>2, <1>3, <1>4 DEF EndIsLast, EnginesInv, AtTheEnd, Parented
<1>10. StoppedIsDead'
  BY <1>2, <1>3, <1>4 DEF StoppedIsDead, EnginesInv, Parented, IsActive
<1>11. QED
  BY <1>5, <1>6, <1>7, <1>8, <1>9, <1>10 DEF EnginesInv

-----------------------------------------------------------------------------
(* The steps of a reader.                                                  *)

\* A step of reader k makes it rd and leaves the engines alone.
Reads(k, rd) ==
    /\ reader' = [reader EXCEPT ![k] = rd]
    /\ UNCHANGED ReaderUnchanged

LEMMA ReaderStepTypes ==
    ASSUME EnginesInv, NEW k \in Engine, NEW rd \in ReaderType, Reads(k, rd),
           process' \in [Env -> Nat \union {Nil}],
           \A e \in Env : process'[e] = process[e] \/ process'[e] = Nil,
           state' \in [Env -> {"stopped", "starting", "running", "error"}],
           rd.at \notin {"begin", "done"}
           => rd.of \in Engine /\ engine[rd.of].env = engine[k].env
    PROVE  /\ (EnginesTyped /\ OfItsEnv /\ FeedsOK)'
           /\ UNCHANGED <<config, gui, ending, engine, held, overtaken>>
           /\ reader'[k] = rd
           /\ \A j \in Engine : j # k => reader'[j] = reader[j]
<1>1. UNCHANGED <<config, gui, ending, engine, held, overtaken>>
  BY DEF Reads, ReaderUnchanged
<1>2. /\ reader' \in Seq(ReaderType) /\ Len(reader') = Len(reader)
      /\ reader'[k] = rd /\ \A j \in Engine : j # k => reader'[j] = reader[j]
  BY ExceptSeq DEF EnginesInv, EnginesTyped, Engine, Reads
<1>3. EnginesTyped'
  BY <1>1, <1>2 DEF EnginesInv, EnginesTyped, HeldType, Engine
<1>4. OfItsEnv'
  BY <1>1, <1>2 DEF EnginesInv, OfItsEnv, Engine
<1>5. FeedsOK'
  BY <1>1 DEF EnginesInv, FeedsOK, Engine
<1>6. QED
  BY <1>1, <1>2, <1>3, <1>4, <1>5

LEMMA ReaderStepKeeps ==
    ASSUME EnginesInv, NEW k \in Engine, ReaderSteps(k)
    PROVE  EnginesInv'
<1> DEFINE e == engine[k].env
           states == {"stopped", "starting", "running", "error"}
<1>1. /\ reader[k] \in ReaderType /\ reader[k].of \in Nat \union {Nil}
      /\ e \in Env /\ reader \in Seq(ReaderType) /\ k \in DOMAIN reader
      /\ process \in [Env -> Nat \union {Nil}] /\ state \in [Env -> states]
  BY EngineFields DEF EnginesInv, EnginesTyped
<1>2. reader[k].at \notin {"begin", "done"}
      => reader[k].of \in Engine /\ engine[reader[k].of].env = e
  BY DEF EnginesInv, OfItsEnv
<1>3. gui # "gone"
  <2>1. reader[k].at # "done"
    BY DEF ReaderSteps, ReaderBegins, ReadsMarker, SetsRunning, ReadsEnd, TellsEnd, ForgetsProcess
  <2>2. QED
    BY <2>1 DEF EnginesInv, StopOK
<1>4. ASSUME NEW at \in {"reading", "marker", "marked", "ours", "told", "done"}, Advance(k, at),
             UNCHANGED ReaderUnchanged
      PROVE  /\ [reader[k] EXCEPT !.at = at] \in ReaderType
             /\ Reads(k, [reader[k] EXCEPT !.at = at])
             /\ [reader[k] EXCEPT !.at = at].at = at
             /\ [reader[k] EXCEPT !.at = at].of = reader[k].of
  BY <1>1, <1>4 DEF Advance, Reads, ReaderType
<1>5. ASSUME NEW rd \in ReaderType, Reads(k, rd), UNCHANGED <<process, state>>,
             rd.at \notin {"begin", "done"} => rd.of \in Engine /\ engine[rd.of].env = e,
             AtTheEnd(rd) => /\ reader[k].at \notin {"begin", "done"} /\ ~Alive(reader[k].of)
                             /\ process[e] = reader[k].of
      PROVE  EnginesInv'
  <2>1. /\ (EnginesTyped /\ OfItsEnv /\ FeedsOK)'
        /\ UNCHANGED <<config, gui, ending, engine, held, overtaken>>
        /\ reader'[k] = rd
        /\ \A j \in Engine : j # k => reader'[j] = reader[j]
    BY <1>1, <1>5, ReaderStepTypes
  <2>2. StopOK'
    BY <1>3, <1>5, <2>1 DEF EnginesInv, StopOK
  <2>3. EndIsLast'
    <3> SUFFICES ASSUME NEW i \in Engine, AtTheEnd(rd), e \notin overtaken,
                        engine[i].env = e, Alive(i), Parented(i)
                 PROVE  FALSE
      BY <2>1 DEF EndIsLast, EnginesInv, Engine, Alive, Parented
    <3>1. process[e] = reader[k].of /\ reader[k].of \in Engine /\ i # reader[k].of
      BY <1>2, <1>5
    <3>2. process[e] # Nil
      BY <3>1, EngineFields, EngineAssumption DEF EnginesInv
    <3>3. process[e] = i \/ i \in ending
      BY DEF EnginesInv, StoppedIsDead
    <3>4. QED
      BY <3>1, <3>2, <3>3 DEF EnginesInv, StopOK
  <2>4. StoppedIsDead'
    BY <1>5, <2>1 DEF EnginesInv, StoppedIsDead, Engine, Alive, Parented, IsActive
  <2>5. QED
    BY <2>1, <2>2, <2>3, <2>4 DEF EnginesInv
<1>6. ASSUME NEW at \in {"marked", "told", "done"}, Advance(k, at), UNCHANGED ReaderUnchanged,
             state' \in [Env -> states], process' \in [Env -> Nat \union {Nil}],
             \A d \in Env : d # e => state'[d] = state[d] /\ process'[d] = process[d],
             process'[e] = process[e] \/ process'[e] = Nil,
             AtTheEnd(reader[k]) \/ (at = "marked" /\ state'[e] = "running" /\ UNCHANGED process),
             reader[k].at # "begin" /\ reader[k].at # "done"
      PROVE  EnginesInv'
  <2> DEFINE rd == [reader[k] EXCEPT !.at = at]
  <2>1. rd \in ReaderType /\ Reads(k, rd) /\ rd.at = at /\ rd.of = reader[k].of
    BY <1>4, <1>6
  <2> HIDE DEF rd
  <2>2. /\ (EnginesTyped /\ OfItsEnv /\ FeedsOK)'
        /\ UNCHANGED <<config, gui, ending, engine, held, overtaken>>
        /\ reader'[k] = rd
        /\ \A j \in Engine : j # k => reader'[j] = reader[j]
    BY <1>2, <1>6, <2>1, ReaderStepTypes
  <2>3. \A d \in Env : process[d] = Nil => process'[d] = Nil
    BY <1>6
  <2>4. StopOK'
    <3>1. \A j \in ending : j \in Engine /\ engine[j].env \in Env
      BY EngineFields DEF EnginesInv, EnginesTyped
    <3>2. QED
      BY <1>3, <2>2, <2>3, <3>1 DEF EnginesInv, StopOK
  <2>5. AtTheEnd(rd) => AtTheEnd(reader[k])
    BY <1>6, <2>1 DEF AtTheEnd
  <2>6. EndIsLast'
    BY <2>2, <2>5 DEF EnginesInv, EndIsLast, Engine, Alive, Parented
  <2>7. StoppedIsDead'
    <3> SUFFICES ASSUME NEW i \in Engine, Alive(i), Parented(i), engine[i].env \notin overtaken,
                        i \notin ending
                 PROVE  process'[engine[i].env] = i
                        /\ state'[engine[i].env] \in {"starting", "running"}
      BY <2>2 DEF StoppedIsDead, Engine, Alive, Parented, IsActive
    <3>1. process[engine[i].env] = i /\ state[engine[i].env] \in {"starting", "running"}
      BY DEF EnginesInv, StoppedIsDead, IsActive
    <3>2. engine[i].env \in Env
      BY EngineFields DEF EnginesInv, EngineType
    <3>3. CASE engine[i].env # e
      BY <1>6, <3>1, <3>2, <3>3
    <3>4. CASE engine[i].env = e
      <4>1. ~AtTheEnd(reader[k])
        BY <3>4 DEF EnginesInv, EndIsLast
      <4>2. state'[e] = "running" /\ process' = process
        BY <1>6, <4>1
      <4>3. QED
        BY <3>1, <3>4, <4>2
    <3>5. QED
      BY <3>3, <3>4
  <2>8. QED
    BY <2>2, <2>4, <2>6, <2>7 DEF EnginesInv
<1>7. CASE ReaderBegins(k)
  <2> DEFINE p == process[e]
             rd == [at |-> IF p = Nil THEN "done" ELSE "reading", of |-> p]
  <2>1. rd \in ReaderType /\ Reads(k, rd) /\ ~AtTheEnd(rd)
    BY <1>1, <1>7 DEF ReaderBegins, Reads, ReaderType, AtTheEnd
  <2>2. rd.at \notin {"begin", "done"} => rd.of \in Engine /\ engine[rd.of].env = e
    BY <1>1 DEF EnginesInv, OfItsEnv
  <2>3. UNCHANGED <<process, state>>
    BY <1>7 DEF ReaderBegins
  <2> HIDE DEF rd
  <2>4. QED
    BY <1>5, <2>1, <2>2, <2>3
<1>8. CASE ReadsMarker(k)
  <2>1. PICK at \in {"marker", "marked"} : Advance(k, at)
    BY <1>8 DEF ReadsMarker
  <2> DEFINE rd == [reader[k] EXCEPT !.at = at]
  <2>2. UNCHANGED ReaderUnchanged /\ UNCHANGED <<process, state>> /\ reader[k].at = "reading"
    BY <1>8 DEF ReadsMarker
  <2>3. rd \in ReaderType /\ Reads(k, rd) /\ rd.of = reader[k].of /\ rd.at = at
    BY <1>4, <2>1, <2>2
  <2> HIDE DEF rd
  <2>4. QED
    BY <1>2, <1>5, <2>1, <2>2, <2>3 DEF AtTheEnd
<1>9. CASE SetsRunning(k)
  <2>1. /\ Advance(k, "marked") /\ UNCHANGED ReaderUnchanged /\ UNCHANGED process
        /\ reader[k].at = "marker" /\ state' = [state EXCEPT ![e] = "running"]
    BY <1>9 DEF SetsRunning
  <2>2. QED
    BY <1>1, <1>6, <2>1
<1>10. CASE ReadsEnd(k)
  <2>1. PICK at \in {"ours", "done"} :
          Advance(k, at) /\ (at = "ours" => process[e] = reader[k].of)
    BY <1>10 DEF ReadsEnd, StillOurs
  <2> DEFINE rd == [reader[k] EXCEPT !.at = at]
  <2>2. /\ UNCHANGED ReaderUnchanged /\ UNCHANGED <<process, state>>
        /\ reader[k].at \in {"marked", "reading"} /\ ~Alive(reader[k].of)
    BY <1>10 DEF ReadsEnd
  <2>3. rd \in ReaderType /\ Reads(k, rd) /\ rd.of = reader[k].of /\ rd.at = at
    BY <1>4, <2>1, <2>2
  <2> HIDE DEF rd
  <2>4. QED
    BY <1>2, <1>5, <2>1, <2>2, <2>3 DEF AtTheEnd
<1>11. CASE TellsEnd(k)
  <2>1. /\ Advance(k, "told") /\ UNCHANGED ReaderUnchanged /\ UNCHANGED process
        /\ reader[k].at = "ours" /\ AtTheEnd(reader[k])
        /\ \E s \in states : state' = [state EXCEPT ![e] = s]
    BY <1>11 DEF TellsEnd, AtTheEnd
  <2>2. QED
    BY <1>1, <1>6, <2>1
<1>12. CASE ForgetsProcess(k)
  <2>1. /\ Advance(k, "done") /\ UNCHANGED ReaderUnchanged /\ UNCHANGED state
        /\ reader[k].at = "told" /\ AtTheEnd(reader[k])
        /\ process' = [process EXCEPT ![e] = Nil]
    BY <1>12 DEF ForgetsProcess, AtTheEnd
  <2>2. QED
    BY <1>1, <1>6, <2>1
<1>13. QED
  BY <1>7, <1>8, <1>9, <1>10, <1>11, <1>12 DEF ReaderSteps

-----------------------------------------------------------------------------
(* The steps of the GUI.                                                   *)

(* A first engine, or another, of an environment that shows none active:   *)
(* none of those before runs, unless a reader is about to say so.          *)
LEMMA StartKeeps ==
    ASSUME EnginesInv, NEW e \in Env, StartEngine(e)
    PROVE  EnginesInv'
<1> DEFINE n == Len(engine) + 1
           new == [env |-> e, ws |-> SourcedIn(e), stage |-> "boot",
                   orphan |-> FALSE, watched |-> FALSE, listened |-> FALSE,
                   failed |-> FALSE, todo |-> <<>>, feeds |-> {}, read |-> {}]
           rd == [at |-> "begin", of |-> Nil]
<1>1. /\ gui = "idle" /\ ~IsActive(e) /\ ending = {}
      /\ process[e] # Nil => ~Alive(process[e])
      /\ engine' = Append(engine, new) /\ reader' = Append(reader, rd)
      /\ process' = [process EXCEPT ![e] = n]
      /\ state' = [state EXCEPT ![e] = "starting"]
      /\ UNCHANGED <<config, gui, ending, held>>
  BY DEF StartEngine, EnginesInv, StopOK
<1>2. /\ overtaken \subseteq overtaken'
      /\ e \notin overtaken' => \A k \in Engine : engine[k].env = e => ~AtTheEnd(reader[k])
      /\ overtaken' \subseteq overtaken \union {e}
  BY DEF StartEngine
<1>3. new \in EngineType /\ new.env = e /\ rd \in ReaderType /\ rd.at = "begin"
      /\ new.read = {} /\ new.feeds = {} /\ DOMAIN new.todo = {}
  <2>1. <<>> \in [{} -> Pairs] /\ SourcedIn(e) \in BOOLEAN
    BY DEF SourcedIn
  <2>2. <<>> \in TodoType
    BY <2>1 DEF TodoType
  <2>3. QED
    BY <2>1, <2>2 DEF EngineType, ReaderType
<1> HIDE DEF new, rd
<1>4. /\ engine' \in Seq(EngineType) /\ reader' \in Seq(ReaderType)
      /\ Len(engine') = n /\ Len(reader') = n /\ n \in Nat /\ n \notin Engine
      /\ Engine' = Engine \union {n} /\ engine'[n] = new /\ reader'[n] = rd
      /\ \A k \in Engine : engine'[k] = engine[k] /\ reader'[k] = reader[k]
  BY <1>1, <1>3, AppendProperties DEF EnginesInv, EnginesTyped, Engine
<1>5. EnginesTyped'
  BY <1>1, <1>4 DEF EnginesInv, EnginesTyped, HeldType
<1>6. OfItsEnv'
  <2>1. process \in [Env -> Nat \union {Nil}] /\ OfItsEnv
    BY DEF EnginesInv, EnginesTyped
  <2>2. ASSUME NEW d \in Env, process'[d] # Nil
        PROVE  process'[d] \in Engine' /\ engine'[process'[d]].env = d
    BY <1>1, <1>3, <1>4, <2>1, <2>2 DEF OfItsEnv
  <2>3. ASSUME NEW r \in Engine', reader'[r].at \notin {"begin", "done"}
        PROVE  reader'[r].of \in Engine' /\ engine'[reader'[r].of].env = engine'[r].env
    BY <1>3, <1>4, <2>1, <2>3 DEF OfItsEnv
  <2>4. QED
    BY <2>2, <2>3 DEF OfItsEnv
<1>7. FeedsOK'
  <2>1. ASSUME NEW k \in Engine
        PROVE  IsFiniteSet(engine'[k].read) /\ TodoOf(engine'[k]) /\ FeedsOf(k, engine'[k], held')
    BY <1>1, <1>4 DEF EnginesInv, FeedsOK
  <2>2. IsFiniteSet(new.read) /\ TodoOf(new) /\ FeedsOf(n, new, held')
    BY <1>3, FS_EmptySet DEF TodoOf, FeedsOf
  <2>3. QED
    BY <1>4, <2>1, <2>2 DEF FeedsOK
<1>8. StopOK'
  BY <1>1 DEF StopOK
<1>9. \A k \in Engine :
         Alive(k) /\ Parented(k) /\ engine[k].env \notin overtaken
         => engine[k].env # e /\ process[engine[k].env] = k /\ IsActive(engine[k].env)
  BY <1>1 DEF EnginesInv, StoppedIsDead
<1>10. EndIsLast'
  <2> SUFFICES ASSUME NEW r \in Engine', NEW k \in Engine',
                      AtTheEnd(reader'[r]), engine'[r].env \notin overtaken',
                      engine'[k].env = engine'[r].env
               PROVE  ~(Alive(k)' /\ Parented(k)')
    BY DEF EndIsLast
  <2>1. r \in Engine /\ engine[r].env # e /\ engine[r].env \notin overtaken
    BY <1>2, <1>3, <1>4 DEF AtTheEnd
  <2>2. k \in Engine
    BY <1>3, <1>4, <2>1
  <2>3. QED
    BY <1>4, <2>1, <2>2 DEF EnginesInv, EndIsLast, Alive, Parented
<1>11. StoppedIsDead'
  <2> SUFFICES ASSUME NEW k \in Engine', Alive(k)', Parented(k)',
                      engine'[k].env \notin overtaken'
               PROVE  process'[engine'[k].env] = k
                      /\ state'[engine'[k].env] \in {"starting", "running"}
    BY DEF StoppedIsDead, IsActive
  <2>1. CASE k = n
    BY <1>1, <1>3, <1>4, <2>1 DEF EnginesInv, EnginesTyped, IsActive
  <2>2. CASE k \in Engine
    <3>1. engine[k].env # e /\ process[engine[k].env] = k /\ IsActive(engine[k].env)
      BY <1>2, <1>4, <1>9, <2>2 DEF Alive, Parented
    <3>2. engine[k].env \in Env
      BY <2>2, EngineFields DEF EnginesInv
    <3>3. QED
      BY <1>1, <1>4, <2>2, <3>1, <3>2 DEF EnginesInv, EnginesTyped, IsActive
  <2>3. QED
    BY <1>4, <2>1, <2>2
<1>12. QED
  BY <1>5, <1>6, <1>7, <1>8, <1>10, <1>11 DEF EnginesInv

(* stop() and the closing window wait for the processes they let go of. *)
LEMMA StopKeeps ==
    ASSUME EnginesInv, NEW closed \in SUBSET Env,
           gui = "idle", gui' \in {"idle", "stopping", "closing"},
           process' = [d \in Env |-> IF d \in closed THEN Nil ELSE process[d]],
           gui' = "idle" => ending' = {},
           ending' \subseteq { process[d] : d \in closed } \ {Nil},
           \A d \in closed : process[d] # Nil /\ Alive(process[d]) => process[d] \in ending',
           state' \in [Env -> {"stopped", "starting", "running", "error"}],
           \A d \in Env \ closed : state'[d] = state[d],
           UNCHANGED <<config, engine, reader, held, overtaken>>
    PROVE  EnginesInv'
<1>1. ending = {} /\ process \in [Env -> Nat \union {Nil}]
  BY DEF EnginesInv, StopOK, EnginesTyped
<1>2. \A k \in ending' :
         k \in Engine /\ engine[k].env \in closed /\ process'[engine[k].env] = Nil
  BY DEF EnginesInv, OfItsEnv
<1>3. EnginesTyped'
  BY <1>1, <1>2 DEF EnginesInv, EnginesTyped, HeldType, Engine
<1>4. OfItsEnv' /\ FeedsOK' /\ EndIsLast'
  BY DEF EnginesInv, OfItsEnv, FeedsOK, EndIsLast, Engine, Alive, Parented
<1>5. StopOK'
  BY <1>2 DEF StopOK
<1>6. StoppedIsDead'
  <2> SUFFICES ASSUME NEW k \in Engine, Alive(k), Parented(k), engine[k].env \notin overtaken,
                      k \notin ending'
               PROVE  process'[engine[k].env] = k /\ IsActive(engine[k].env)'
    BY DEF StoppedIsDead, Engine, Alive, Parented
  <2>1. process[engine[k].env] = k /\ IsActive(engine[k].env) /\ engine[k].env \in Env /\ k # Nil
    BY <1>1, EngineFields, EngineAssumption DEF EnginesInv, StoppedIsDead
  <2>2. engine[k].env \notin closed
    BY <2>1
  <2>3. QED
    BY <2>1, <2>2 DEF IsActive
<1>7. QED
  BY <1>3, <1>4, <1>5, <1>6 DEF EnginesInv

LEMMA StopEngineKeeps ==
    ASSUME EnginesInv, NEW e \in Env, StopEngine(e)
    PROVE  EnginesInv'
<1> DEFINE closed == {e}
<1>1. /\ process \in [Env -> Nat \union {Nil}] /\ ending = {} /\ gui = "idle"
      /\ state \in [Env -> {"stopped", "starting", "running", "error"}]
  BY DEF StopEngine, EnginesInv, EnginesTyped, StopOK
<1>2. /\ process' = [d \in Env |-> IF d \in closed THEN Nil ELSE process[d]]
      /\ UNCHANGED <<config, engine, reader, held, overtaken>>
  BY <1>1 DEF StopEngine
<1>3. /\ gui' \in {"idle", "stopping"} /\ (gui' = "idle" => ending' = {})
      /\ ending' \subseteq {process[e]} \ {Nil}
      /\ process[e] # Nil /\ Alive(process[e]) => process[e] \in ending'
      /\ state' \in [Env -> {"stopped", "starting", "running", "error"}]
      /\ \A d \in Env \ closed : state'[d] = state[d]
  <2>1. CASE process[e] # Nil /\ Alive(process[e])
    BY <1>1, <2>1 DEF StopEngine
  <2>2. CASE ~(process[e] # Nil /\ Alive(process[e]))
    BY <1>1, <2>2 DEF StopEngine
  <2>3. QED
    BY <2>1, <2>2
<1>4. closed \in SUBSET Env /\ { process[d] : d \in closed } = {process[e]}
      /\ (\A d \in closed : process[d] # Nil /\ Alive(process[d]) => process[d] \in ending')
  BY <1>3
<1> HIDE DEF closed
<1>5. QED
  BY <1>1, <1>2, <1>3, <1>4, StopKeeps

\* Engines that run under the GUI are active, so that a window with any
\* closes exactly those.
LEMMA CloseWindowKeeps ==
    ASSUME EnginesInv, CloseWindow
    PROVE  EnginesInv'
<1> DEFINE active == { d \in Env : IsActive(d) }
           closed == IF active = {} THEN Env ELSE active
<1>1. /\ gui = "idle" /\ gui' = "closing" /\ ending' = { process[d] : d \in closed } \ {Nil}
      /\ process' = [d \in Env |-> IF d \in closed THEN Nil ELSE process[d]]
      /\ UNCHANGED <<config, state, engine, reader, held, overtaken>>
  BY DEF CloseWindow
<1>2. closed \in SUBSET Env
  OBVIOUS
<1>3. state \in [Env -> {"stopped", "starting", "running", "error"}]
  BY DEF EnginesInv, EnginesTyped
<1> HIDE DEF closed
<1>4. QED
  BY <1>1, <1>2, <1>3, StopKeeps

(* A GUI that is gone takes its readers with it and leaves the engines.    *)
LEMMA LeavesKeeps ==
    ASSUME EnginesInv, LeavesEngines, ending' = {},
           state' \in [Env -> {"stopped", "starting", "running", "error"}],
           UNCHANGED <<config, process, held, overtaken>>
    PROVE  EnginesInv'
<1> DEFINE left(k) == [engine[k] EXCEPT !.orphan = TRUE]
           rd == [at |-> "done", of |-> Nil]
<1>1. /\ gui' = "gone" /\ engine' = [k \in Engine |-> left(k)] /\ reader' = [k \in Engine |-> rd]
  BY DEF LeavesEngines
<1>2. /\ Engine = 1 .. Len(engine) /\ Len(engine) \in Nat /\ rd \in ReaderType
      /\ \A k \in Engine : engine[k] \in EngineType
  BY EngineFields DEF EnginesInv, EnginesTyped, Engine, ReaderType
<1>3. \A k \in Engine :
         /\ left(k) \in EngineType /\ left(k).env = engine[k].env /\ left(k).orphan
         /\ left(k).stage = engine[k].stage /\ left(k).read = engine[k].read
         /\ left(k).todo = engine[k].todo /\ left(k).feeds = engine[k].feeds
  BY <1>2 DEF EngineType
<1> HIDE DEF left, rd
<1>4. /\ engine' \in Seq(EngineType) /\ reader' \in Seq(ReaderType)
      /\ Len(engine') = Len(engine) /\ Len(reader') = Len(engine) /\ Engine' = Engine
      /\ \A k \in Engine : engine'[k] = left(k) /\ reader'[k] = rd
  BY <1>1, <1>2, <1>3 DEF Engine
<1>5. rd.at = "done"
  BY DEF rd
<1>6. EnginesTyped'
  BY <1>1, <1>4 DEF EnginesInv, EnginesTyped, HeldType
<1>7. OfItsEnv'
  BY <1>3, <1>4, <1>5 DEF EnginesInv, OfItsEnv
<1>8. FeedsOK'
  BY <1>3, <1>4 DEF EnginesInv, FeedsOK, TodoOf, FeedsOf, FedBy
<1>9. StopOK' /\ EndIsLast' /\ StoppedIsDead'
  BY <1>3, <1>4, <1>5 DEF StopOK, EndIsLast, StoppedIsDead, AtTheEnd, Parented
<1>10. QED
  BY <1>6, <1>7, <1>8, <1>9 DEF EnginesInv

LEMMA StopReturnsKeeps ==
    ASSUME EnginesInv, StopReturns
    PROVE  EnginesInv'
<1>1. /\ \A k \in ending : ~Alive(k)
      /\ ending' = {}
      /\ state' = [e \in Env |-> IF \E k \in ending : engine[k].env = e THEN "stopped" ELSE state[e]]
      /\ UNCHANGED <<config, process, held, overtaken>>
      /\ state \in [Env -> {"stopped", "starting", "running", "error"}]
  BY DEF StopReturns, EnginesInv, EnginesTyped
<1>2. state' \in [Env -> {"stopped", "starting", "running", "error"}]
  BY <1>1
<1>3. CASE LeavesEngines
  BY <1>1, <1>2, <1>3, LeavesKeeps
<1>4. CASE gui' = "idle" /\ UNCHANGED <<engine, reader>>
  <2>1. EnginesTyped'
    BY <1>1, <1>2, <1>4 DEF EnginesInv, EnginesTyped, HeldType, Engine
  <2>2. (OfItsEnv /\ FeedsOK /\ StopOK /\ EndIsLast)'
    BY <1>1, <1>4 DEF EnginesInv, OfItsEnv, FeedsOK, StopOK, EndIsLast, Engine, Alive, Parented
  <2>3. StoppedIsDead'
    <3> SUFFICES ASSUME NEW k \in Engine, Alive(k), Parented(k), engine[k].env \notin overtaken
                 PROVE  process[engine[k].env] = k
                        /\ state'[engine[k].env] \in {"starting", "running"}
      BY <1>1, <1>4 DEF StoppedIsDead, Engine, Alive, Parented, IsActive
    <3>1. process[engine[k].env] = k /\ state[engine[k].env] \in {"starting", "running"}
      BY <1>1 DEF EnginesInv, StoppedIsDead, IsActive
    <3>2. engine[k].env \in Env /\ k # Nil
      BY EngineFields, EngineAssumption DEF EnginesInv
    <3>3. \A j \in ending : engine[j].env # engine[k].env
      BY <3>1, <3>2 DEF EnginesInv, StopOK
    <3>4. QED
      BY <1>1, <3>1, <3>2, <3>3
  <2>4. QED
    BY <2>1, <2>2, <2>3 DEF EnginesInv
<1>5. QED
  BY <1>3, <1>4 DEF StopReturns

LEMMA ReopenKeeps ==
    ASSUME EnginesInv, Reopen
    PROVE  EnginesInv'
<1>1. /\ gui = "gone" /\ gui' = "idle" /\ ending = {}
      /\ process' = [e \in Env |-> Nil] /\ state' = [e \in Env |-> "stopped"]
      /\ UNCHANGED <<config, ending, engine, reader, held>>
      /\ \A k \in Engine : ~Parented(k) /\ reader[k].at = "done"
  BY DEF Reopen, EnginesInv, StopOK
<1>2. EnginesTyped'
  BY <1>1 DEF EnginesInv, EnginesTyped, HeldType, Engine
<1>3. (OfItsEnv /\ FeedsOK /\ StopOK)'
  BY <1>1 DEF EnginesInv, OfItsEnv, FeedsOK, StopOK, Engine
<1>4. (EndIsLast /\ StoppedIsDead)'
  BY <1>1 DEF EndIsLast, StoppedIsDead, Engine, Parented
<1>5. QED
  BY <1>2, <1>3, <1>4 DEF EnginesInv

-----------------------------------------------------------------------------
(* What the GUI and the engines keep together.                             *)

LEMMA EnginesStart == EnginesInit => EnginesInv
<1> SUFFICES ASSUME EnginesInit PROVE EnginesInv
  OBVIOUS
<1>1. engine = <<>> /\ Engine = {} /\ ending = {}
  BY DEF EnginesInit, Engine
<1>2. EnginesTyped
  BY <1>1 DEF EnginesInit, EnginesTyped, HeldType
<1>3. OfItsEnv /\ FeedsOK /\ StopOK /\ EndIsLast /\ StoppedIsDead
  BY <1>1 DEF EnginesInit, OfItsEnv, FeedsOK, StopOK, EndIsLast, StoppedIsDead
<1>4. QED
  BY <1>2, <1>3 DEF EnginesInv

LEMMA EnginesStep == EnginesInv /\ [EnginesNext]_engineVars => EnginesInv'
<1> SUFFICES ASSUME EnginesInv, [EnginesNext]_engineVars PROVE EnginesInv'
  OBVIOUS
<1>1. CASE SaveConfig
  <2>1. config' \in Config /\ UNCHANGED <<gui, ending, process, state, engine, reader, held, overtaken>>
    BY <1>1 DEF SaveConfig
  <2>2. QED
    BY <2>1 DEF EnginesInv, EnginesTyped, HeldType, OfItsEnv, FeedsOK, StopOK, EndIsLast,
                StoppedIsDead, Engine, Alive, Parented, IsActive
<1>2. CASE CloseWindow
  BY <1>2, CloseWindowKeeps
<1>3. CASE StopReturns
  BY <1>3, StopReturnsKeeps
<1>4. CASE ForceQuit
  <2>1. state \in [Env -> {"stopped", "starting", "running", "error"}]
    BY DEF EnginesInv, EnginesTyped
  <2>2. QED
    BY <1>4, <2>1, LeavesKeeps DEF ForceQuit
<1>5. CASE Reopen
  BY <1>5, ReopenKeeps
<1>6. ASSUME NEW e \in Env, StartEngine(e) \/ StopEngine(e) PROVE EnginesInv'
  BY <1>6, StartKeeps, StopEngineKeeps
<1>7. ASSUME NEW k \in Engine, EngineSteps(k) \/ ReaderSteps(k) PROVE EnginesInv'
  BY <1>7, EngineStepKeeps, ReaderStepKeeps
<1>8. CASE UNCHANGED engineVars
  BY <1>8 DEF engineVars, EnginesInv, EnginesTyped, HeldType, OfItsEnv, FeedsOK, StopOK,
              EndIsLast, StoppedIsDead, Engine, Alive, Parented, IsActive
<1>9. QED
  BY <1>1, <1>2, <1>3, <1>4, <1>5, <1>6, <1>7, <1>8 DEF EnginesNext

LEMMA EnginesInvariant == EnginesSpec => []EnginesInv
BY EnginesStart, EnginesStep, PTL DEF EnginesSpec

(* No living engine is forgotten, however many environments, starts, saves *)
(* and exits of the GUI there are.                                         *)
THEOREM StoppedEnginesAreDead == EnginesSpec => []StoppedIsDead
<1>1. EnginesInv => StoppedIsDead
  BY DEF EnginesInv
<1>2. QED
  BY <1>1, EnginesInvariant, PTL

-----------------------------------------------------------------------------
(* Accounts that are fed once.                                             *)

(* Engines that have read the same configuration have read one.            *)
LEMMA OneConfig ==
    ASSUME NEW A, NEW B, IsFiniteSet(A), IsFiniteSet(B), ~(Cardinality(A \union B) > 1),
           NEW c \in A, NEW d \in B
    PROVE  c = d
<1> SUFFICES ASSUME c # d PROVE FALSE
  OBVIOUS
<1>1. IsFiniteSet(A \union B) /\ Cardinality(A \union B) \in Nat
  BY FS_Union, FS_CardinalityType
<1>2. {c, d} \subseteq A \union B
  OBVIOUS
<1>3. Cardinality({c, d}) = 2
  <2>1. IsFiniteSet({c}) /\ Cardinality({c}) = 1
    BY FS_Singleton
  <2>2. Cardinality({c} \union {d}) = 2
    <3>1. d \notin {c}
      OBVIOUS
    <3>2. Cardinality({c} \union {d}) = Cardinality({c}) + 1
      BY <2>1, <3>1, FS_AddElement
    <3>3. QED
      BY <2>1, <3>2
  <2>3. {c} \union {d} = {c, d}
    OBVIOUS
  <2>4. QED
    BY <2>2, <2>3
<1>4. Cardinality({c, d}) <= Cardinality(A \union B)
  BY <1>1, <1>2, FS_Subset
<1>5. QED
  BY <1>1, <1>3, <1>4

(* A feed as configured is of a pair the engine has read. *)
LEMMA FeedIsOfPair ==
    ASSUME EnginesInv, NEW m \in Feeds, AsConfigured(m)
    PROVE  /\ m.by \in Engine /\ m = [by |-> m.by, feed |-> m.feed]
           /\ IsFiniteSet(engine[m.by].read) /\ engine[m.by].read \subseteq WrittenOneWay
           /\ m.feed \in FeedType /\ m.feed.paired = TRUE /\ m.feed.named = FALSE
           /\ \E c \in engine[m.by].read : \E p \in ToSet(c) :
                  FedBy(m.by, engine[m.by], held, p, m.feed)
<1>0. PICK k \in Engine : \E f \in engine[k].feeds : m = [by |-> k, feed |-> f] /\ f.from # Nil
  BY DEF Feeds
<1>1. PICK f \in engine[k].feeds : m = [by |-> k, feed |-> f] /\ f.from # Nil
  BY <1>0
<1>2. engine[k] \in EngineType
  BY EngineFields DEF EnginesInv
<1>3. f \in FeedType /\ engine[k].read \subseteq WrittenOneWay
  BY <1>1, <1>2 DEF EngineType, AsConfigured
<1>4. f.paired = TRUE /\ f.named = FALSE
  BY <1>1, <1>3 DEF AsConfigured, FeedType
<1>5. IsFiniteSet(engine[k].read)
      /\ \E c \in engine[k].read : \E p \in ToSet(c) : FedBy(k, engine[k], held, p, f)
  BY <1>1, <1>4 DEF EnginesInv, FeedsOK, FeedsOf
<1>6. QED
  BY <1>1, <1>3, <1>4, <1>5

(* Pairs of one configuration that feed one account are one pair, when the *)
(* configuration writes every account in one way.                          *)
LEMMA FollowsOnce ==
    ASSUME NEW c \in WrittenOneWay, NEW p \in ToSet(c), NEW q \in ToSet(c)
    PROVE  /\ Means(p.source.account) # Means(p.follower.account)
           /\ Means(p.follower.account) = Means(q.follower.account) => p = q
<1>1. PICK i \in DOMAIN c : p = c[i]
  BY DEF ToSet
<1>2. PICK j \in DOMAIN c : q = c[j]
  BY DEF ToSet
<1>3. c \in Config /\ p \in Pairs /\ q \in Pairs
  BY DEF Pairs, WrittenOneWay
<1>4. p.source # p.follower /\ (i # j => p.follower # q.follower)
  BY <1>1, <1>2, <1>3, EngineAssumption
<1>5. /\ Means(p.source.account) = Means(p.follower.account)
             => p.source.account = p.follower.account
      /\ Means(p.follower.account) = Means(q.follower.account)
             => p.follower.account = q.follower.account
  BY DEF WrittenOneWay
<1>6. /\ p.source.account = p.follower.account => p.source = p.follower
      /\ p.follower.account = q.follower.account => p.follower = q.follower
  BY <1>3, AccountAssumption
<1>7. QED
  BY <1>1, <1>2, <1>4, <1>5, <1>6

(* Engines of two environments do not feed the same pair: they know other  *)
(* accounts, or only one of them has the Gateway's client.                 *)
LEMMA OtherEnvOtherFeed ==
    ASSUME EnginesInv, NEW j \in Engine, NEW k \in Engine, engine[j].env # engine[k].env,
           NEW p, NEW f, NEW g,
           FedBy(j, engine[j], held, p, f), FedBy(k, engine[k], held, p, g)
    PROVE  FALSE
<1>1. engine[j].env \in Env /\ engine[k].env \in Env /\ j # k
  BY EngineFields DEF EnginesInv
<1>2. ToSet(OwnAccounts[engine[j].env]) \intersect ToSet(OwnAccounts[engine[k].env]) = {}
  BY <1>1, AccountAssumption
<1>3. CASE p.source.broker = "tradovate"
  BY <1>2, <1>3 DEF FedBy
<1>4. CASE p.source.broker # "tradovate" /\ p.follower.broker = "tradovate"
  <2>1. Pinned[engine[j].env] = Pinned[engine[k].env]
    BY <1>4 DEF FedBy
  <2>2. QED
    BY <1>1, <1>2, <2>1, AccountAssumption
<1>5. CASE p.source.broker # "tradovate" /\ p.follower.broker # "tradovate"
  BY <1>1, <1>5 DEF FedBy
<1>6. QED
  BY <1>3, <1>4, <1>5

(* No account is mirrored onto itself or fed twice, whatever the panel     *)
(* saves between the starts of the engines.                                *)
THEOREM AccountsAreFedOnce == EnginesSpec => []MirroredOnce
<1>1. EnginesInv => MirroredOnce
  <2> SUFFICES ASSUME EnginesInv PROVE MirroredOnce
    OBVIOUS
  <2>1. ASSUME NEW m \in Feeds, AsConfigured(m) PROVE m.feed.from # m.feed.to
    <3>1. PICK c \in engine[m.by].read : \E p \in ToSet(c) :
            FedBy(m.by, engine[m.by], held, p, m.feed)
      BY <2>1, FeedIsOfPair
    <3>2. PICK p \in ToSet(c) : FedBy(m.by, engine[m.by], held, p, m.feed)
      BY <3>1
    <3>3. c \in WrittenOneWay
      BY <2>1, FeedIsOfPair
    <3>4. QED
      BY <3>2, <3>3, FollowsOnce DEF FedBy
  <2>2. ASSUME NEW m \in Feeds, NEW n \in Feeds, AsConfigured(m), AsConfigured(n),
               ~(Cardinality(engine[m.by].read \union engine[n.by].read) > 1),
               ~(m.by # n.by /\ engine[m.by].env = engine[n.by].env),
               m.feed.to = n.feed.to
        PROVE  m = n
    <3>1. ASSUME NEW x \in {m, n}
          PROVE  /\ x.by \in Engine /\ x = [by |-> x.by, feed |-> x.feed]
                 /\ IsFiniteSet(engine[x.by].read) /\ engine[x.by].read \subseteq WrittenOneWay
                 /\ x.feed \in FeedType /\ x.feed.paired = TRUE /\ x.feed.named = FALSE
                 /\ \E c \in engine[x.by].read : \E p \in ToSet(c) :
                        FedBy(x.by, engine[x.by], held, p, x.feed)
      BY <2>2, <3>1, FeedIsOfPair
    <3>2. PICK c \in engine[m.by].read : \E p \in ToSet(c) :
            FedBy(m.by, engine[m.by], held, p, m.feed)
      BY <3>1
    <3>3. PICK d \in engine[n.by].read : \E q \in ToSet(d) :
            FedBy(n.by, engine[n.by], held, q, n.feed)
      BY <3>1
    <3>4. c = d /\ c \in WrittenOneWay
      <4>1. IsFiniteSet(engine[m.by].read) /\ IsFiniteSet(engine[n.by].read)
            /\ engine[m.by].read \subseteq WrittenOneWay
        BY <3>1
      <4>2. QED
        BY <2>2, <4>1, OneConfig
    <3>5. PICK p \in ToSet(c) : FedBy(m.by, engine[m.by], held, p, m.feed)
      BY <3>2
    <3>6. PICK q \in ToSet(c) : FedBy(n.by, engine[n.by], held, q, n.feed)
      BY <3>3, <3>4
    <3>7. p = q
      <4>1. Means(p.follower.account) = Means(q.follower.account)
        BY <2>2, <3>5, <3>6 DEF FedBy
      <4>2. QED
        BY <3>4, <4>1, FollowsOnce
    <3>8. m.by = n.by
      <4>1. m.by \in Engine /\ n.by \in Engine
        BY <3>1
      <4>2. engine[m.by].env = engine[n.by].env
        BY <3>5, <3>6, <3>7, <4>1, OtherEnvOtherFeed
      <4>3. QED
        BY <2>2, <4>2
    <3>9. m.feed.from = n.feed.from
      BY <3>5, <3>6, <3>7 DEF FedBy
    <3>10. m.feed = n.feed
      <4>1. /\ m.feed \in FeedType /\ m.feed.paired = TRUE /\ m.feed.named = FALSE
            /\ n.feed \in FeedType /\ n.feed.paired = TRUE /\ n.feed.named = FALSE
        BY <3>1
      <4>2. QED
        BY <2>2, <3>9, <4>1 DEF FeedType
    <3>11. m = [by |-> m.by, feed |-> m.feed] /\ n = [by |-> n.by, feed |-> n.feed]
      BY <3>1
    <3>12. QED
      BY <3>8, <3>10, <3>11
  <2>3. QED
    BY <2>1, <2>2 DEF MirroredOnce
<1>2. QED
  BY <1>1, EnginesInvariant, PTL

==============================================================================
