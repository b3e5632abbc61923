---------------------------- MODULE QueryLibrary ----------------------------
(* The saved and the recent hunts of web/src/app.ts. The browser keeps one   *)
(* copy of both lists, local storage, for all tabs; a tab reads it when its  *)
(* interface is loaded and from then on writes its own lists as a whole.     *)
(* A removal can be undone as long as its message is shown: there is one     *)
(* message at a time, and any other one takes its place.                     *)
(*                                                                           *)
(* A hunt is a name of its id; a recent hunt is its query.                   *)
EXTENDS Naturals, SequencesExt

CONSTANTS
  Tab,
  Hunt,       \* the ids of crypto.randomUUID
  Query,      \* the queries that are run
  MaxRecent,  \* the recent hunts that are kept, 10
  MaxRefused  \* bounds how often the browser refuses to store

ASSUME LibraryAssumption == MaxRecent \in Nat \ {0} /\ MaxRefused \in Nat

VARIABLES
  stored,   \* local storage: [saved, history]
  saved,    \* [Tab -> savedQueries]
  history,  \* [Tab -> queryHistory]
  toast,    \* [Tab -> the Undo that the message offers, or no Undo]
  refused,  \* how often a write has failed
  (* Kept for the properties.                                              *)
  known,    \* [Tab -> the hunts its page has read or saved]
  removed,  \* [Tab -> those removed there, and not brought back]
  latest,   \* [Tab -> the query run last, if the list was not cleared since]
  used,     \* the ids given out
  announced,\* the hunts a tab has said are saved in this browser
  forgone   \* those a tab has written over, unread or removed there

lists == <<stored, saved, history, toast, refused>>
records == <<known, removed, latest, used, announced, forgone>>
libraryVars == <<lists, records>>

NoUndo == [undo |-> "none", previous |-> <<>>]
NoQuery == "no query"

LibraryInit ==
  /\ stored = [saved |-> <<>>, history |-> <<>>]
  /\ saved = [t \in Tab |-> <<>>] /\ history = [t \in Tab |-> <<>>]
  /\ toast = [t \in Tab |-> NoUndo]
  /\ refused = 0
  /\ known = [t \in Tab |-> {}] /\ removed = [t \in Tab |-> {}]
  /\ latest = [t \in Tab |-> NoQuery]
  /\ used = {} /\ announced = {} /\ forgone = {}

-----------------------------------------------------------------------------
(* Messages and storage                                                      *)

(* The message on show after one without an action, or after none. *)
ShowToast(t, undo) == toast' = [toast EXCEPT ![t] = undo]

(* writeStored: it may fail, and then says so in a message of its own. *)
CanRefuse(ok) == ok \/ refused < MaxRefused
WriteStored(key, list, ok) ==
  /\ CanRefuse(ok)
  /\ stored' = IF ok THEN [stored EXCEPT ![key] = list] ELSE stored
  /\ refused' = IF ok THEN refused ELSE refused + 1

(* The saved hunts of a tab become this list, which is then written.         *)
SetSaved(t, list, ok) ==
  /\ saved' = [saved EXCEPT ![t] = list]
  /\ WriteStored("saved", list, ok)
  /\ known' = [known EXCEPT ![t] = @ \cup ToSet(list)]
  /\ LET dropped == ToSet(stored.saved) \ ToSet(list)
     IN  forgone' = IF ok
           THEN (forgone \cup {h \in dropped : h \notin known[t]
                                                \/ h \in removed'[t]})
                  \ ToSet(list)
           ELSE forgone

SetHistory(t, list, ok) ==
  /\ history' = [history EXCEPT
                   ![t] = SubSeq(list, 1, Min({Len(list), MaxRecent}))]
  /\ WriteStored("history", history'[t], ok)

(* filter: what is left of a list, in its order, without some elements.      *)
Excluding(list, gone) ==
  LET left[n \in 0..Len(list)] ==
        IF n = 0 THEN <<>>
        ELSE IF list[n] \in gone THEN left[n - 1]
        ELSE Append(left[n - 1], list[n])
  IN  left[Len(list)]

Without(list, h) == Excluding(list, {h})

-----------------------------------------------------------------------------
(* The user                                                                  *)

(* Mutant: the message of an earlier removal is left, with its Undo.         *)
SaveBesideToast(t, ok) ==
  LET h == CHOOSE id \in Hunt \ used : TRUE IN
  /\ Hunt \ used # {}
  /\ used' = used \cup {h}
  /\ UNCHANGED <<removed, toast, history, latest>>
  /\ SetSaved(t, <<h>> \o saved[t], ok)
  /\ announced' = IF ok THEN announced \cup {h} ELSE announced

(* saveNamedQuery: a hunt with an id that was never used; which one makes no *)
(* difference.                                                               *)
SaveNamedQuery(t, ok) ==
  LET h == CHOOSE id \in Hunt \ used : TRUE IN
  /\ Hunt \ used # {}
  /\ used' = used \cup {h}
  /\ UNCHANGED removed
  /\ SetSaved(t, <<h>> \o saved[t], ok)
  /\ ShowToast(t, NoUndo)
  /\ announced' = IF ok THEN announced \cup {h} ELSE announced
  /\ UNCHANGED <<history, latest>>

(* The handler of Remove in createQueryListItem. Undo will put the list back *)
(* as it is now.                                                             *)
RemoveHunt(t, h, ok) ==
  /\ h \in ToSet(saved[t])
  /\ removed' = [removed EXCEPT ![t] = @ \cup {h}]
  /\ SetSaved(t, Without(saved[t], h), ok)
  /\ ShowToast(t, IF ok THEN [undo |-> "saved", previous |-> saved[t]]
                        ELSE NoUndo)
  /\ UNCHANGED <<history, latest, used, announced>>

(* The message is hidden before its handler runs.                            *)
UndoRemoval(t, ok) ==
  /\ toast[t].undo = "saved"
  /\ LET previous == toast[t].previous
     IN  /\ removed' = [removed EXCEPT ![t] = @ \ ToSet(previous)]
         /\ SetSaved(t, previous, ok)
  /\ ShowToast(t, NoUndo)
  /\ UNCHANGED <<history, latest, used, announced>>

(* recordQuery, when a query is run. It shows a message only if the list     *)
(* cannot be stored.                                                         *)
RecordQuery(t, q, ok) ==
  /\ SetHistory(t, <<q>> \o Without(history[t], q), ok)
  /\ IF ok THEN UNCHANGED toast ELSE ShowToast(t, NoUndo)
  /\ latest' = [latest EXCEPT ![t] = q]
  /\ UNCHANGED <<saved, known, removed, used, announced, forgone>>

(* The confirmed clearing of the recent hunts.                               *)
ClearHistory(t, ok) ==
  /\ history[t] # <<>>
  /\ SetHistory(t, <<>>, ok)
  /\ ShowToast(t, IF ok THEN [undo |-> "history", previous |-> history[t]]
                        ELSE NoUndo)
  /\ latest' = [latest EXCEPT ![t] = NoQuery]
  /\ UNCHANGED <<saved, known, removed, used, announced, forgone>>

(* Undo of it: what was run since stays in front.                            *)
Restored(recent, previous) ==
  recent \o Excluding(previous, ToSet(recent))
UndoClear(t, ok) ==
  /\ toast[t].undo = "history"
  /\ SetHistory(t, Restored(history[t], toast[t].previous), ok)
  /\ ShowToast(t, NoUndo)
  /\ UNCHANGED <<saved, known, removed, latest, used, announced, forgone>>

(* The message expires, or another one takes its place.                      *)
HideToast(t) ==
  /\ toast[t] # NoUndo
  /\ ShowToast(t, NoUndo)
  /\ UNCHANGED <<stored, saved, history, refused, records>>

Use(t) ==
  \/ HideToast(t)
  \/ \E ok \in BOOLEAN :
       \/ SaveNamedQuery(t, ok)
       \/ \E h \in Hunt : RemoveHunt(t, h, ok)
       \/ \E q \in Query : RecordQuery(t, q, ok)
       \/ UndoRemoval(t, ok) \/ ClearHistory(t, ok) \/ UndoClear(t, ok)

(* app.ts is loaded: readSavedQueries and readQueryHistory.                  *)
ReadStored(t) ==
  /\ saved' = [saved EXCEPT ![t] = stored.saved]
  /\ history' = [history EXCEPT ![t] = stored.history]
  /\ known' = [known EXCEPT ![t] = ToSet(stored.saved)]
  /\ UNCHANGED <<stored, toast, refused, removed, latest, used, announced,
                 forgone>>

(* The page is left, and with it everything that was not written.            *)
LeavePage(t) ==
  /\ saved' = [saved EXCEPT ![t] = <<>>]
  /\ history' = [history EXCEPT ![t] = <<>>]
  /\ toast' = [toast EXCEPT ![t] = NoUndo]
  /\ known' = [known EXCEPT ![t] = {}] /\ removed' = [removed EXCEPT ![t] = {}]
  /\ latest' = [latest EXCEPT ![t] = NoQuery]
  /\ UNCHANGED <<stored, refused, used, announced, forgone>>

-----------------------------------------------------------------------------
(* Properties                                                                *)

(* Nothing a tab was shown or saved is gone from it unless it was removed    *)
(* there: an Undo never takes a later change back.                           *)
TabForgetsNothing ==
  \A t \in Tab : ToSet(saved[t]) = known[t] \ removed[t]

(* A hunt said to be saved is in the browser, unless a tab where it was      *)
(* removed, or one that had not read it, has written its own list since.     *)
HuntsStored == announced \ forgone \subseteq ToSet(stored.saved)

(* The recent hunts are distinct, and begin with the query run last, after   *)
(* an Undo as well.                                                          *)
RecentFirst ==
  \A t \in Tab :
    /\ IsInjective(history[t])
    /\ latest[t] # NoQuery => history[t] # <<>> /\ history[t][1] = latest[t]

(* What README.md:290 promises of the hunts, as far as several tabs allow:   *)
(* saveNamedQuery, the removal and the clearing with their Undo, recordQuery *)
(* and the reading of the lists in app.ts.                                   *)
LibraryKept == TabForgetsNothing /\ HuntsStored /\ RecentFirst
=============================================================================
