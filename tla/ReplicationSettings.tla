------------------------ MODULE ReplicationSettings ------------------------
(***************************************************************************)
(* ui/replication_settings.py over replication_config.py and               *)
(* account_book.py: the panel's account book and list of pairs, their two  *)
(* forms, and the files behind them. Every change is saved at once, but    *)
(* the list is changed before it is validated, so a save may be refused.   *)
(* An account's broker, environment and number are one id; the number is   *)
(* kept as typed, with or without blanks around it.                        *)
(***************************************************************************)
EXTENDS Integers, SequencesExt

CONSTANTS
    Id,       \* accounts: broker, environment and number
    Label,    \* account labels, distinct when trimmed and in lower case
    Blank,    \* which numbers typed into the account form have blanks
    Stored,   \* what the files may hold when the panel first opens
    None,     \* no value
    MaxPairs, \* bound on the list of pairs
    MaxActs   \* bound on what the user does

Account == [label : Label, id : Id, blank : BOOLEAN]
Pair == [src : Id, flw : Id, on : BOOLEAN]

VARIABLES
    book,     \* the account book, on the screen and in accounts.json
    pairs,    \* the list of pairs on the screen
    disk,     \* replication.json
    editing,  \* edit_index, or None
    acctForm, \* acct_edit_label and what the form shows, or None
    acts,
    opened,   \* history: where the pair the form was opened on is now
    shifted,  \* history: whether a pair above it was removed since
    typed,    \* history: ids of pairs chosen by an account with blanks
    lost      \* history: whether a restart dropped what was not saved

vars == <<book, pairs, disk, editing, acctForm, acts, opened, shifted, typed, lost>>

ListedPairs(list) == { list[i] : i \in DOMAIN list }
Ends(p) == {p.src, p.flw}

\* ReplicationPair.validate, ReplicationConfig.validate: a pair joins two
\* accounts, and no account follows in two enabled pairs.
ValidPair(p) == p.src # p.flw
Sound(list) ==
    /\ \A p \in ListedPairs(list) : ValidPair(p)
    /\ \A i, j \in DOMAIN list :
           i # j /\ list[i].on /\ list[j].on => list[i].flw # list[j].flw

AccountsLoaded(accounts) == { [a EXCEPT !.blank = FALSE] : a \in accounts }

UniqueLabels(accounts) == \A a, b \in accounts : a.label = b.label => a = b

ASSUME SettingsAssumption ==
    /\ Blank \subseteq BOOLEAN /\ Blank # {}
    /\ MaxPairs \in Nat \ {0} /\ MaxActs \in Nat
    /\ None \notin Nat
    /\ \A s \in Stored :
           /\ s.pairs \in Seq(Pair) /\ Len(s.pairs) <= MaxPairs /\ Sound(s.pairs)
           /\ s.book \subseteq Account /\ UniqueLabels(s.book)
           /\ \A p \in ListedPairs(s.pairs) : Ends(p) \subseteq { a.id : a \in s.book }

----------------------------------------------------------------------------
\* controller.load, at the end of build_panel
Init ==
    /\ \E s \in Stored :
           /\ pairs = s.pairs /\ disk = s.pairs
           /\ book = AccountsLoaded(s.book)
    /\ editing = None /\ acctForm = None
    /\ acts = 0
    /\ opened = None /\ shifted = FALSE /\ typed = {} /\ lost = FALSE

\* The application is closed, or dies, and is opened again.
Restart ==
    /\ acts < MaxActs /\ acts' = acts + 1
    /\ pairs' = disk
    /\ book' = AccountsLoaded(book)
    /\ editing' = None /\ acctForm' = None
    /\ opened' = None /\ shifted' = FALSE
    /\ lost' = (lost \/ disk # pairs)
    /\ UNCHANGED <<disk, typed>>

----------------------------------------------------------------------------
(* The account book. save_accounts validates no more than the change did,  *)
(* so it never refuses: the book stands for its file too.                  *)

\* Account.identity against EndpointRef.identity, which was trimmed
Matches(a, id) == a.id = id /\ ~a.blank

\* Faulty: looks at the sources of the pairs only.
SourcesOnly(a) == { p \in ListedPairs(pairs) : Matches(a, p.src) }

PairsUsing(a) == { p \in ListedPairs(pairs) : Matches(a, p.src) \/ Matches(a, p.flw) }

Free(label, accounts) == \A a \in accounts : a.label # label

AddAccount ==
    /\ acts < MaxActs /\ acts' = acts + 1
    /\ acctForm = None
    /\ \E new \in [label : Label, id : Id, blank : Blank] :
           /\ Free(new.label, book)
           /\ book' = book \union {new}
    /\ UNCHANGED <<pairs, disk, editing, acctForm, opened, shifted, typed, lost>>

\* on_edit_account: the identity can be changed unless a pair uses the account
EditAccount ==
    /\ acts < MaxActs /\ acts' = acts + 1
    /\ \E a \in book : acctForm' = [account |-> a, locked |-> PairsUsing(a) # {}]
    /\ UNCHANGED <<book, pairs, disk, editing, opened, shifted, typed, lost>>

\* update_account, which checks again: the account may be in use by now
UpdateAccount ==
    /\ acts < MaxActs /\ acts' = acts + 1
    /\ acctForm # None
    /\ \E old \in book, new \in [label : Label, id : Id, blank : BOOLEAN] :
           /\ old.label = acctForm.account.label
           /\ IF acctForm.locked
              THEN new.id = acctForm.account.id /\ new.blank = acctForm.account.blank
              ELSE new.blank \in Blank \union {acctForm.account.blank}
           /\ Free(new.label, book \ {old})
           /\ PairsUsing(old) # {} => new.id = old.id /\ new.blank = old.blank
           /\ book' = (book \ {old}) \union {new}
    /\ acctForm' = None
    /\ UNCHANGED <<pairs, disk, editing, opened, shifted, typed, lost>>

CancelAccountEdit ==
    /\ acts < MaxActs /\ acts' = acts + 1
    /\ acctForm # None
    /\ acctForm' = None
    /\ UNCHANGED <<book, pairs, disk, editing, opened, shifted, typed, lost>>

RemoveAccount ==
    /\ acts < MaxActs /\ acts' = acts + 1
    /\ \E a \in book :
           /\ PairsUsing(a) = {}
           /\ book' = book \ {a}
           /\ acctForm' = IF acctForm # None /\ acctForm.account.label = a.label
                          THEN None ELSE acctForm
    /\ UNCHANGED <<pairs, disk, editing, opened, shifted, typed, lost>>

----------------------------------------------------------------------------
(* The list of pairs.                                                      *)

\* Faulty: writes what is on the screen without validating it.
PersistAsIs(list) == pairs' = list /\ disk' = list

\* _persist_and_refresh: a refused save leaves the list as it is.
Persist(list) ==
    /\ pairs' = list
    /\ disk' = IF Sound(list) THEN list ELSE disk

\* draft_from_labels and to_pair: the accounts' ids are copied, trimmed
Draft(src, flw) == [src |-> src.id, flw |-> flw.id, on |-> TRUE]
TypedIn(accounts) == typed' = typed \union { a.id : a \in { b \in accounts : b.blank } }

\* Whether the list already has the pair: the raw ids are compared.
Linked(src, flw, list) ==
    \E p \in ListedPairs(list) : Matches(src, p.src) /\ Matches(flw, p.flw)

SameNumber(a, b) == a.id = b.id /\ a.blank = b.blank

\* add_followers_to_source: one pair for each chosen follower but those that
\* are linked already or chosen before, which are skipped; when all are, the
\* list is saved as it was
AddFollowers ==
    /\ acts < MaxActs /\ acts' = acts + 1
    /\ editing = None
    /\ \E src \in book, n \in 0 .. MaxPairs - Len(pairs) :
       \E added \in [1 .. n -> book] :
           /\ \A i \in 1 .. n :
                  /\ ~Linked(src, added[i], pairs)
                  /\ \A j \in 1 .. i - 1 : ~SameNumber(added[i], added[j])
                  /\ ValidPair(Draft(src, added[i]))
           /\ n = 0 => \E flw \in book : Linked(src, flw, pairs)
           /\ Persist(pairs \o [ i \in 1 .. n |-> Draft(src, added[i]) ])
           /\ IF n = 0 THEN UNCHANGED typed
              ELSE TypedIn({src} \union { added[i] : i \in 1 .. n })
    /\ UNCHANGED <<book, editing, acctForm, opened, shifted, lost>>

EditPair ==
    /\ acts < MaxActs /\ acts' = acts + 1
    /\ \E i \in DOMAIN pairs :
           /\ editing' = i
           /\ opened' = i
    /\ shifted' = FALSE
    /\ UNCHANGED <<book, pairs, disk, acctForm, typed, lost>>

\* update_pair at the remembered index, which is refused past the end
UpdatePair ==
    /\ acts < MaxActs /\ acts' = acts + 1
    /\ editing \in DOMAIN pairs
    /\ \E src, flw \in book :
           /\ ValidPair(Draft(src, flw))
           /\ Persist([pairs EXCEPT ![editing] = Draft(src, flw)])
           /\ TypedIn({src, flw})
    /\ editing' = None
    /\ opened' = None
    /\ UNCHANGED <<book, acctForm, shifted, lost>>

CancelEdit ==
    /\ acts < MaxActs /\ acts' = acts + 1
    /\ editing # None
    /\ editing' = None
    /\ opened' = None
    /\ UNCHANGED <<book, pairs, disk, acctForm, shifted, typed, lost>>

TogglePair ==
    /\ acts < MaxActs /\ acts' = acts + 1
    /\ \E i \in DOMAIN pairs : Persist([pairs EXCEPT ![i].on = ~@])
    /\ UNCHANGED <<book, editing, acctForm, opened, shifted, typed, lost>>

\* Faulty: leaves the form open on a pair that is gone.
StaysInForm(i) == editing

\* on_remove: the form is left when its own pair goes, and not moved when
\* one above it does
FormAfterRemoval(i) == IF editing = i THEN None ELSE editing

RemovePair ==
    /\ acts < MaxActs /\ acts' = acts + 1
    /\ \E i \in DOMAIN pairs :
           /\ Persist(RemoveAt(pairs, i))
           /\ editing' = FormAfterRemoval(i)
           /\ opened' = IF opened = None \/ opened = i THEN None
                        ELSE IF i < opened THEN opened - 1 ELSE opened
           /\ shifted' = (shifted \/ (opened # None /\ i < opened))
    /\ UNCHANGED <<book, acctForm, typed, lost>>

Next ==
    \/ Restart
    \/ AddAccount \/ EditAccount \/ UpdateAccount \/ CancelAccountEdit \/ RemoveAccount
    \/ AddFollowers \/ EditPair \/ UpdatePair \/ CancelEdit \/ TogglePair \/ RemovePair

Spec == Init /\ [][Next]_vars

----------------------------------------------------------------------------
(* The types, and what the engines read: replication.json always passes    *)
(* the validation it is loaded with, and is the list on the screen         *)
(* whenever that passes too.                                               *)
TypeOK ==
    /\ book \subseteq Account /\ UniqueLabels(book)
    /\ pairs \in Seq(Pair) /\ disk \in Seq(Pair)
    /\ editing \in {None} \union 1 .. MaxPairs
    /\ acctForm = None \/ acctForm \in [account : Account, locked : BOOLEAN]
    /\ Sound(disk)
    /\ Sound(pairs) => disk = pairs

(* A pair's two accounts stay in the book, whatever is edited or removed   *)
(* while a form is open: an account in use is neither removed nor given    *)
(* another id. Two ways around that guard are excused: an account whose    *)
(* number was typed with blanks does not match the pairs made from it, and *)
(* a restart brings back a list that was overwritten only on the screen.   *)
PairsBacked ==
    \A p \in ListedPairs(pairs) :
        lost \/ Ends(p) \subseteq { a.id : a \in book } \union typed

(* The form that edits a pair changes that pair and no other, whatever     *)
(* happens to the list meanwhile. The code remembers a position: the       *)
(* removal of a pair above it, which it overlooks, is excused.             *)
EditHitsItsPair == editing # None /\ ~shifted => editing = opened

=============================================================================
