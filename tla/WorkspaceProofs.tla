-------------------------- MODULE WorkspaceProofs --------------------------
(***************************************************************************)
(* For any number of tabs, hunts and queries, and however often the browser*)
(* refuses to store, a page is reloaded or an Undo is taken: the saved and *)
(* the recent hunts of each tab are kept, and a page opens only after the  *)
(* server said that the deployment is loaded.                              *)
(***************************************************************************)
EXTENDS Workspace, SequenceTheorems, WellFoundedInduction, TLAPS

Toast ==
  {NoUndo} \cup [undo : {"saved"}, previous : Seq(Hunt)]
           \cup [undo : {"history"}, previous : Seq(Query)]

LibraryTypeOK ==
  /\ stored \in [saved : Seq(Hunt), history : Seq(Query)]
  /\ saved \in [Tab -> Seq(Hunt)] /\ history \in [Tab -> Seq(Query)]
  /\ toast \in [Tab -> Toast]
  /\ known \in [Tab -> SUBSET Hunt] /\ removed \in [Tab -> SUBSET Hunt]
  /\ latest \in [Tab -> Query \cup {NoQuery}]
  /\ used \subseteq Hunt
  /\ page \in [Tab -> Page]

(* What the server answers is one of the three that waitUntilReady knows.   *)
AnswerTypeOK ==
  server \in Status /\ answer \in [Tab -> Status \cup {"none"}]

(* An id is given out before it is anywhere: a new hunt is new to all tabs. *)
OnlyUsed ==
  /\ ToSet(stored.saved) \subseteq used
  /\ \A t \in Tab :
       /\ ToSet(saved[t]) \subseteq used /\ removed[t] \subseteq used
       /\ toast[t].undo = "saved" => ToSet(toast[t].previous) \subseteq used

(* The list that an Undo puts back has all that the tab has now.            *)
UndoLosesNothing ==
  \A t \in Tab : toast[t].undo = "saved" =>
    ToSet(saved[t]) \subseteq ToSet(toast[t].previous)

(* A query is only once in any list of recent hunts, whoever keeps it.      *)
DistinctRecent ==
  /\ IsInjective(stored.history)
  /\ \A t \in Tab :
       toast[t].undo = "history" => IsInjective(toast[t].previous)

(* A page that does not show its interface has nothing to undo or to lose.  *)
NothingBeforeOpen ==
  \A t \in Tab : page[t] # "open" =>
    toast[t] = NoUndo /\ removed[t] = {} /\ latest[t] = NoQuery

IInv ==
  /\ LibraryTypeOK /\ OnlyUsed /\ UndoLosesNothing /\ DistinctRecent
  /\ NothingBeforeOpen /\ TabForgetsNothing /\ HuntsStored /\ RecentFirst

-----------------------------------------------------------------------------
(* Lemmas on lists                                                          *)

LEMMA LeastNatural ==
  ASSUME NEW S, S \subseteq Nat, S # {}
  PROVE  \E k \in S : \A j \in S : k <= j
<1>1. PICK k \in S : \A j \in S : ~(<<j, k>> \in OpToRel(<, Nat))
  BY NatLessThanWellFounded, WFMin
<1>2. \A j \in S : ~(j < k)
  BY <1>1 DEF OpToRel
<1> QED BY <1>2

(* One step of the filter, and the filter up to some place.                 *)
FilterStep(list, gone, before, n) ==
  IF n = 0 THEN <<>>
  ELSE IF list[n] \in gone THEN before[n - 1]
  ELSE Append(before[n - 1], list[n])

IsFilter(left, list, gone, k) ==
  left = [n \in 0..k |-> FilterStep(list, gone, left, n)]

LEMMA FilterExists ==
  ASSUME NEW list, NEW gone, NEW last \in Nat
  PROVE  \E left : IsFilter(left, list, gone, last)
<1> DEFINE Bad == {k \in Nat : ~\E left : IsFilter(left, list, gone, k)}
<1>1. SUFFICES ASSUME Bad # {} PROVE FALSE
  OBVIOUS
<1>2. PICK k \in Bad : \A j \in Bad : k <= j
  BY <1>1, LeastNatural
<1>3. CASE k = 0
  <2> DEFINE left == [n \in 0..0 |-> <<>>]
  <2>1. \A n \in 0..0 : FilterStep(list, gone, left, n) = <<>>
    BY DEF FilterStep
  <2>2. IsFilter(left, list, gone, 0)
    BY <2>1 DEF IsFilter
  <2> QED BY <1>3, <2>2
<1>4. CASE k > 0
  <2>1. k - 1 \in Nat /\ k - 1 \notin Bad
    BY <1>2, <1>4
  <2>2. PICK left : IsFilter(left, list, gone, k - 1)
    BY <2>1
  <2> DEFINE more == [n \in 0..k |-> FilterStep(list, gone, left, n)]
  <2>3. \A n \in 0..(k - 1) : left[n] = more[n]
    BY <2>2, <1>4 DEF IsFilter
  <2>4. more = [n \in 0..k |-> FilterStep(list, gone, left, n)]
    OBVIOUS
  <2> HIDE DEF more
  <2>5. \A n \in 0..k :
          n = 0 \/ (n - 1 \in 0..(k - 1) /\ left[n - 1] = more[n - 1])
    BY <1>2, <2>3
  <2>6. \A n \in 0..k :
          FilterStep(list, gone, left, n) = FilterStep(list, gone, more, n)
    BY <2>5 DEF FilterStep
  <2>7. IsFilter(more, list, gone, k)
    BY <2>4, <2>6 DEF IsFilter
  <2> QED BY <2>7, <1>2
<1> QED BY <1>2, <1>3, <1>4

LEMMA SingleFacts ==
  ASSUME NEW S, NEW x \in S
  PROVE  /\ <<x>> \in Seq(S) /\ ToSet(<<x>>) = {x} /\ IsInjective(<<x>>)
         /\ <<x>> # <<>> /\ <<x>>[1] = x
<1>1. <<x>> \in Seq(S) /\ Len(<<x>>) = 1 /\ <<x>>[1] = x
  OBVIOUS
<1>2. DOMAIN <<x>> = {1}
  BY <1>1, LenProperties
<1> QED BY <1>1, <1>2, EmptySeq DEF ToSet, IsInjective

LEMMA AppendFacts ==
  ASSUME NEW S, NEW s \in Seq(S), NEW x \in S
  PROVE  /\ Append(s, x) \in Seq(S)
         /\ ToSet(Append(s, x)) = ToSet(s) \cup {x}
         /\ IsInjective(s) /\ x \notin ToSet(s) => IsInjective(Append(s, x))
<1>1. /\ Len(s) \in Nat /\ DOMAIN s = 1..Len(s)
      /\ Append(s, x) \in Seq(S) /\ Len(Append(s, x)) = Len(s) + 1
      /\ DOMAIN Append(s, x) = 1..(Len(s) + 1)
      /\ \A i \in 1..Len(s) : Append(s, x)[i] = s[i]
      /\ Append(s, x)[Len(s) + 1] = x
  BY AppendProperties, LenProperties
<1> DEFINE a == Append(s, x)
<1> HIDE DEF a
<1>2. /\ DOMAIN a = 1..(Len(s) + 1) /\ a[Len(s) + 1] = x
      /\ \A i \in 1..Len(s) : a[i] = s[i]
  BY <1>1 DEF a
<1>3. \A i \in 1..(Len(s) + 1) : i \in 1..Len(s) \/ i = Len(s) + 1
  BY <1>1
<1>4. ToSet(a) = ToSet(s) \cup {x}
  BY <1>1, <1>2, <1>3 DEF ToSet
<1>5. ASSUME IsInjective(s), x \notin ToSet(s)
      PROVE  IsInjective(a)
  BY <1>1, <1>2, <1>3, <1>5 DEF ToSet, IsInjective
<1> QED BY <1>1, <1>4, <1>5 DEF a

LEMMA ConcatFacts ==
  ASSUME NEW S, NEW s \in Seq(S), NEW r \in Seq(S)
  PROVE  /\ s \o r \in Seq(S)
         /\ ToSet(s \o r) = ToSet(s) \cup ToSet(r)
         /\ IsInjective(s) /\ IsInjective(r) /\ ToSet(s) \cap ToSet(r) = {}
              => IsInjective(s \o r)
<1> DEFINE c == s \o r
<1>1. /\ Len(s) \in Nat /\ DOMAIN s = 1..Len(s)
      /\ Len(r) \in Nat /\ DOMAIN r = 1..Len(r)
      /\ c \in Seq(S) /\ DOMAIN c = 1..(Len(s) + Len(r))
      /\ \A i \in 1..(Len(s) + Len(r)) :
           c[i] = IF i <= Len(s) THEN s[i] ELSE r[i - Len(s)]
  BY ConcatProperties, LenProperties
<1> HIDE DEF c
<1>2. \A i \in DOMAIN c :
        \/ i \in DOMAIN s /\ c[i] = s[i]
        \/ i - Len(s) \in DOMAIN r /\ c[i] = r[i - Len(s)]
  BY <1>1
<1>3. /\ \A i \in DOMAIN s : i \in DOMAIN c /\ c[i] = s[i]
      /\ \A i \in DOMAIN r : i + Len(s) \in DOMAIN c /\ c[i + Len(s)] = r[i]
  BY <1>1
<1>4. ToSet(c) = ToSet(s) \cup ToSet(r)
  BY <1>2, <1>3 DEF ToSet
<1>5. ASSUME IsInjective(s), IsInjective(r), ToSet(s) \cap ToSet(r) = {}
      PROVE  IsInjective(c)
  <2> SUFFICES ASSUME NEW i \in DOMAIN c, NEW j \in DOMAIN c, c[i] = c[j]
               PROVE  i = j
    BY DEF IsInjective
  <2>1. /\ \A k \in DOMAIN s : s[k] \in ToSet(s)
        /\ \A k \in DOMAIN r : r[k] \in ToSet(r)
    BY DEF ToSet
  <2>2. \/ i \in DOMAIN s /\ j \in DOMAIN s /\ s[i] = s[j]
        \/ /\ i - Len(s) \in DOMAIN r /\ j - Len(s) \in DOMAIN r
           /\ r[i - Len(s)] = r[j - Len(s)]
    BY <1>2, <1>5, <2>1
  <2>3. i \in Int /\ j \in Int
    BY <1>1
  <2>4. i = j \/ i - Len(s) = j - Len(s)
    BY <2>2, <1>5 DEF IsInjective
  <2> QED BY <2>3, <2>4, <1>1
<1> QED BY <1>1, <1>4, <1>5 DEF c

(* What stands in front of a concatenation.                                 *)
LEMMA FrontFacts ==
  ASSUME NEW S, NEW s \in Seq(S), NEW r \in Seq(S), s # <<>>
  PROVE  s \o r # <<>> /\ (s \o r)[1] = s[1]
<1>1. Len(s) \in Nat \ {0} /\ Len(r) \in Nat
  BY EmptySeq, LenProperties
<1>2. /\ Len(s \o r) = Len(s) + Len(r)
      /\ \A i \in 1..(Len(s) + Len(r)) :
           (s \o r)[i] = IF i <= Len(s) THEN s[i] ELSE r[i - Len(s)]
  BY ConcatProperties
<1> QED BY <1>1, <1>2, EmptySeq

(* The first elements of a list of distinct ones are distinct.              *)
LEMMA PrefixFacts ==
  ASSUME NEW S, NEW s \in Seq(S), NEW k \in Nat, k <= Len(s)
  PROVE  /\ SubSeq(s, 1, k) \in Seq(S)
         /\ IsInjective(s) => IsInjective(SubSeq(s, 1, k))
         /\ k > 0 => SubSeq(s, 1, k) # <<>> /\ SubSeq(s, 1, k)[1] = s[1]
<1> DEFINE p == SubSeq(s, 1, k)
<1>1. /\ Len(s) \in Nat /\ DOMAIN s = 1..Len(s)
      /\ p \in Seq(S) /\ Len(p) = k /\ DOMAIN p = 1..k
      /\ \A i \in 1..k : p[i] = s[i]
  <2>1. Len(s) \in Nat /\ DOMAIN s = 1..Len(s) /\ \A i \in 1..k : s[i] \in S
    BY LenProperties, ElementOfSeq
  <2>2. p = [i \in 1..k |-> s[i]]
    BY <2>1, SubSeqProperties
  <2> HIDE DEF p
  <2>3. p \in Seq(S) /\ Len(p) = k /\ DOMAIN p = 1..k /\ \A i \in 1..k : p[i] = s[i]
    BY <2>1, <2>2, IsASeq, LenProperties
  <2> QED BY <2>1, <2>3
<1> HIDE DEF p
<1>2. IsInjective(s) => IsInjective(p)
  BY <1>1 DEF IsInjective
<1>3. k > 0 => p # <<>> /\ p[1] = s[1]
  BY <1>1, EmptySeq
<1> QED BY <1>1, <1>2, <1>3 DEF p

(* What the filter has kept of the first n elements.                        *)
Kept(left, list, gone, n) ==
  /\ left[n] \in Seq(ToSet(list))
  /\ ToSet(left[n]) = {list[j] : j \in 1..n} \ gone
  /\ IsInjective(list) => IsInjective(left[n])

LEMMA FilterFacts ==
  ASSUME NEW S, NEW list \in Seq(S), NEW gone, NEW left,
         IsFilter(left, list, gone, Len(list))
  PROVE  Kept(left, list, gone, Len(list))
<1>1. /\ Len(list) \in Nat /\ DOMAIN list = 1..Len(list)
      /\ \A j \in 1..Len(list) : list[j] \in ToSet(list)
  BY LenProperties DEF ToSet
<1> DEFINE Bad == {k \in 0..Len(list) : ~Kept(left, list, gone, k)}
<1>2. SUFFICES ASSUME Bad # {} PROVE FALSE
  BY <1>1
<1>3. PICK k \in Bad : \A j \in Bad : k <= j
  <2>1. Bad \subseteq Nat
    BY <1>1
  <2> QED BY <1>2, <2>1, LeastNatural
<1>4. k \in 0..Len(list) /\ ~Kept(left, list, gone, k)
  BY <1>3
<1>5. left[k] = FilterStep(list, gone, left, k)
  BY <1>4 DEF IsFilter
<1>6. CASE k = 0
  <2>1. left[0] = <<>>
    BY <1>5, <1>6 DEF FilterStep
  <2>2. ToSet(<<>>) = {} /\ IsInjective(<<>>) /\ <<>> \in Seq(ToSet(list))
    BY EmptySeq, LenProperties DEF ToSet, IsInjective
  <2>3. {list[j] : j \in 1..0} = {}
    OBVIOUS
  <2> QED BY <1>4, <1>6, <2>1, <2>2, <2>3 DEF Kept
<1>7. CASE k > 0
  <2>1. k - 1 \in 0..Len(list) /\ k \in 1..Len(list)
    BY <1>1, <1>4, <1>7
  <2>2. Kept(left, list, gone, k - 1)
    <3>1. k - 1 \notin Bad
      BY <1>3, <1>4, <2>1
    <3> QED BY <2>1, <3>1
  <2>3. {list[j] : j \in 1..k} = {list[j] : j \in 1..(k - 1)} \cup {list[k]}
    <3>1. \A j \in 1..k : j \in 1..(k - 1) \/ j = k
      BY <2>1
    <3>2. \A j \in 1..(k - 1) : j \in 1..k
      BY <2>1
    <3>3. k \in 1..k
      BY <2>1
    <3> QED BY <3>1, <3>2, <3>3
  <2>4. CASE list[k] \in gone
    <3>1. left[k] = left[k - 1]
      BY <1>5, <1>7, <2>4 DEF FilterStep
    <3> QED BY <1>4, <2>2, <2>3, <2>4, <3>1 DEF Kept
  <2>5. CASE list[k] \notin gone
    <3>1. left[k] = Append(left[k - 1], list[k])
      BY <1>5, <1>7, <2>5, <2>1 DEF FilterStep
    <3>2. list[k] \in ToSet(list)
      BY <1>1, <2>1
    <3>3. IsInjective(list) => list[k] \notin {list[j] : j \in 1..(k - 1)}
      <4>1. \A j \in 1..(k - 1) : j \in DOMAIN list /\ j # k
        BY <1>1, <2>1
      <4>2. k \in DOMAIN list
        BY <1>1, <2>1
      <4> QED BY <4>1, <4>2 DEF IsInjective
    <3>4. PICK before : before = left[k - 1]
      OBVIOUS
    <3>5. PICK S1 : S1 = ToSet(list)
      OBVIOUS
    <3>6. before \in Seq(S1) /\ list[k] \in S1
      BY <2>2, <3>2, <3>4, <3>5 DEF Kept
    <3>7. /\ Append(before, list[k]) \in Seq(S1)
          /\ ToSet(Append(before, list[k])) = ToSet(before) \cup {list[k]}
          /\ IsInjective(before) /\ list[k] \notin ToSet(before)
               => IsInjective(Append(before, list[k]))
      BY <3>6, AppendFacts
    <3>8. /\ ToSet(before) = {list[j] : j \in 1..(k - 1)} \ gone
          /\ IsInjective(list) => IsInjective(before)
      BY <2>2, <3>4 DEF Kept
    <3>9. ToSet(left[k]) = {list[j] : j \in 1..k} \ gone
      BY <3>1, <3>4, <3>7, <3>8, <2>3, <2>5
    <3>10. IsInjective(list) => IsInjective(left[k])
      BY <3>1, <3>3, <3>4, <3>7, <3>8
    <3> QED BY <1>4, <3>1, <3>4, <3>5, <3>7, <3>9, <3>10 DEF Kept
  <2> QED BY <2>4, <2>5
<1> QED BY <1>1, <1>4, <1>6, <1>7

(* A filtered list has the elements that are left, each as often as before. *)
LEMMA ExcludingFacts ==
  ASSUME NEW S, NEW list \in Seq(S), NEW gone
  PROVE  /\ Excluding(list, gone) \in Seq(S)
         /\ ToSet(Excluding(list, gone)) = ToSet(list) \ gone
         /\ IsInjective(list) => IsInjective(Excluding(list, gone))
<1> DEFINE Left ==
      CHOOSE left : left = [n \in 0..Len(list) |->
        IF n = 0 THEN <<>>
        ELSE IF list[n] \in gone THEN left[n - 1]
        ELSE Append(left[n - 1], list[n])]
<1>1. Excluding(list, gone) = Left[Len(list)]
  BY DEF Excluding
<1>2. Left = CHOOSE left : IsFilter(left, list, gone, Len(list))
  BY DEF IsFilter, FilterStep
<1>3. /\ Len(list) \in Nat /\ DOMAIN list = 1..Len(list)
      /\ ToSet(list) \subseteq S
  BY LenProperties, ElementOfSeq DEF ToSet
<1> HIDE DEF Left
<1>4. IsFilter(Left, list, gone, Len(list))
  BY <1>2, <1>3, FilterExists
<1>5. Kept(Left, list, gone, Len(list))
  BY <1>4, FilterFacts
<1>6. Left[Len(list)] \in Seq(S)
  BY <1>3, <1>5, SeqMonotonic DEF Kept
<1>7. {list[j] : j \in 1..Len(list)} = ToSet(list)
  BY <1>3 DEF ToSet
<1> QED BY <1>1, <1>5, <1>6, <1>7 DEF Kept

(* What SetHistory keeps of a list.                                         *)
LEMMA RecentFacts ==
  ASSUME NEW list \in Seq(Query),
         NEW recent, recent = SubSeq(list, 1, Min({Len(list), MaxRecent}))
  PROVE  /\ recent \in Seq(Query)
         /\ IsInjective(list) => IsInjective(recent)
         /\ list # <<>> => recent # <<>> /\ recent[1] = list[1]
<1>1. Len(list) \in Nat /\ (list # <<>> => Len(list) > 0)
  BY EmptySeq, LenProperties
<1> DEFINE k == Min({Len(list), MaxRecent})
<1>2. k \in Nat /\ k <= Len(list) /\ (Len(list) > 0 => k > 0)
  <2>1. \A x, y \in Nat : x <= y \/ y <= x
    OBVIOUS
  <2>2. \E x \in {Len(list), MaxRecent} :
          \A y \in {Len(list), MaxRecent} : x <= y
    BY <1>1, <2>1, LibraryAssumption
  <2>3. k \in {Len(list), MaxRecent} /\ k <= Len(list)
    BY <2>2 DEF Min
  <2> QED BY <1>1, <2>3, LibraryAssumption
<1> HIDE DEF k
<1>3. recent = SubSeq(list, 1, k)
  BY DEF k
<1>4. /\ SubSeq(list, 1, k) \in Seq(Query)
      /\ IsInjective(list) => IsInjective(SubSeq(list, 1, k))
      /\ k > 0 => /\ SubSeq(list, 1, k) # <<>>
                  /\ SubSeq(list, 1, k)[1] = list[1]
  BY <1>2, PrefixFacts
<1> QED BY <1>1, <1>2, <1>3, <1>4

-----------------------------------------------------------------------------
(* Lemmas on the saved hunts                                                *)

(* What every action that writes the saved hunts of a tab keeps, as long as *)
(* the new list has all that its tab knows and did not remove.              *)
LEMMA SetSavedFacts ==
  ASSUME IInv, NEW t \in Tab, NEW list \in Seq(Hunt), NEW ok \in BOOLEAN,
         SetSaved(t, list, ok),
         used \subseteq used', ToSet(list) \subseteq used',
         removed' \in [Tab -> SUBSET Hunt],
         \A s \in Tab : s # t => removed'[s] = removed[s],
         ToSet(list) = (known[t] \cup ToSet(list)) \ removed'[t],
         announced' \subseteq announced \cup (IF ok THEN ToSet(list) ELSE {})
  PROVE  /\ TabForgetsNothing' /\ HuntsStored'
         /\ stored' \in [saved : Seq(Hunt), history : Seq(Query)]
         /\ saved' \in [Tab -> Seq(Hunt)]
         /\ known' \in [Tab -> SUBSET Hunt]
         /\ stored'.history = stored.history
         /\ ToSet(stored'.saved) \subseteq used'
         /\ saved'[t] = list
         /\ \A s \in Tab : s # t => saved'[s] = saved[s]
<1> USE DEF IInv, LibraryTypeOK
<1>1. ToSet(list) \subseteq Hunt
  BY ElementOfSeq, LenProperties DEF ToSet
<1>2. /\ saved' = [saved EXCEPT ![t] = list]
      /\ known' = [known EXCEPT ![t] = @ \cup ToSet(list)]
      /\ stored' = IF ok THEN [stored EXCEPT !.saved = list] ELSE stored
  BY DEF SetSaved, WriteStored
<1>3. /\ saved' \in [Tab -> Seq(Hunt)] /\ saved'[t] = list
      /\ \A s \in Tab : s # t => saved'[s] = saved[s]
      /\ known' \in [Tab -> SUBSET Hunt]
      /\ known'[t] = known[t] \cup ToSet(list)
      /\ \A s \in Tab : s # t => known'[s] = known[s]
  BY <1>1, <1>2
<1>4. /\ stored' \in [saved : Seq(Hunt), history : Seq(Query)]
      /\ stored'.history = stored.history
      /\ stored'.saved = IF ok THEN list ELSE stored.saved
  BY <1>2
<1>5. ToSet(stored'.saved) \subseteq used'
  BY <1>4 DEF OnlyUsed
<1>6. TabForgetsNothing'
  BY <1>3 DEF TabForgetsNothing
<1>7. HuntsStored'
  <2>1. CASE ok
    <3> DEFINE dropped == ToSet(stored.saved) \ ToSet(list)
    <3>1. forgone' = (forgone \cup {h \in dropped : h \notin known[t]
                                                     \/ h \in removed'[t]})
                       \ ToSet(list)
      BY <2>1 DEF SetSaved
    <3>2. ASSUME NEW h \in announced' \ forgone', h \notin ToSet(list)
          PROVE  FALSE
      <4>1. h \in announced /\ h \notin forgone
        BY <2>1, <3>1, <3>2
      <4>2. h \in dropped
        BY <3>2, <4>1 DEF HuntsStored
      <4>3. h \in known[t] /\ h \notin removed'[t]
        BY <3>1, <3>2, <4>2
      <4> QED BY <3>2, <4>3
    <3>3. stored'.saved = list
      BY <1>4, <2>1
    <3> QED BY <3>2, <3>3 DEF HuntsStored
  <2>2. CASE ~ok
    BY <2>2, <1>4 DEF SetSaved, HuntsStored
  <2> QED BY <2>1, <2>2
<1> QED BY <1>3, <1>4, <1>5, <1>6, <1>7

(* A new hunt was never removed from any list.                              *)
LEMMA SaveStep ==
  ASSUME IInv, NEW t \in Tab, page[t] = "open", UNCHANGED page,
         NEW ok \in BOOLEAN, SaveNamedQuery(t, ok)
  PROVE  IInv'
<1> USE DEF IInv, LibraryTypeOK
<1> PICK h : h = CHOOSE id \in Hunt \ used : TRUE
  OBVIOUS
<1>0. PICK list : list = <<h>> \o saved[t]
  OBVIOUS
<1>1. /\ h \in Hunt /\ h \notin used
      /\ used' = used \cup {h}
      /\ removed' = removed /\ history' = history /\ latest' = latest
      /\ toast' = [toast EXCEPT ![t] = NoUndo]
      /\ SetSaved(t, list, ok)
      /\ announced' = IF ok THEN announced \cup {h} ELSE announced
  BY <1>0 DEF SaveNamedQuery, ShowToast
<1>2. list \in Seq(Hunt) /\ ToSet(list) = {h} \cup ToSet(saved[t])
  <2>1. <<h>> \in Seq(Hunt) /\ ToSet(<<h>>) = {h}
    BY <1>1, SingleFacts
  <2>2. PICK old : old = saved[t]
    OBVIOUS
  <2>3. PICK new : new = <<h>>
    OBVIOUS
  <2>4. old \in Seq(Hunt) /\ new \in Seq(Hunt)
    BY <2>1, <2>2, <2>3
  <2>5. /\ new \o old \in Seq(Hunt)
        /\ ToSet(new \o old) = ToSet(new) \cup ToSet(old)
    BY <2>4, ConcatFacts
  <2> QED BY <1>0, <2>1, <2>2, <2>3, <2>5
<1>3. /\ used \subseteq used' /\ ToSet(list) \subseteq used'
      /\ announced' \subseteq announced \cup (IF ok THEN ToSet(list) ELSE {})
      /\ removed' \in [Tab -> SUBSET Hunt]
      /\ \A s \in Tab : s # t => removed'[s] = removed[s]
  BY <1>1, <1>2 DEF OnlyUsed
<1>4. ToSet(list) = (known[t] \cup ToSet(list)) \ removed'[t]
  BY <1>1, <1>2 DEF OnlyUsed, TabForgetsNothing
<1>5. /\ TabForgetsNothing' /\ HuntsStored'
      /\ stored' \in [saved : Seq(Hunt), history : Seq(Query)]
      /\ saved' \in [Tab -> Seq(Hunt)]
      /\ known' \in [Tab -> SUBSET Hunt]
      /\ stored'.history = stored.history
      /\ ToSet(stored'.saved) \subseteq used'
      /\ saved'[t] = list
      /\ \A s \in Tab : s # t => saved'[s] = saved[s]
  <2>1. IInv /\ SetSaved(t, list, ok) /\ list \in Seq(Hunt)
    BY <1>1, <1>2
  <2> HIDE DEF IInv, LibraryTypeOK
  <2> QED BY <2>1, <1>3, <1>4, SetSavedFacts
<1>6. LibraryTypeOK'
  BY <1>1, <1>5 DEF Toast
<1>7. OnlyUsed'
  BY <1>1, <1>3, <1>5 DEF OnlyUsed, NoUndo
<1>8. UndoLosesNothing' /\ DistinctRecent' /\ NothingBeforeOpen'
  BY <1>1, <1>5 DEF UndoLosesNothing, DistinctRecent, NothingBeforeOpen, NoUndo
<1>9. RecentFirst'
  BY <1>1 DEF RecentFirst
<1> QED BY <1>5, <1>6, <1>7, <1>8, <1>9

LEMMA RemoveStep ==
  ASSUME IInv, NEW t \in Tab, page[t] = "open", UNCHANGED page,
         NEW h \in Hunt, NEW ok \in BOOLEAN, RemoveHunt(t, h, ok)
  PROVE  IInv'
<1> USE DEF IInv, LibraryTypeOK
<1> PICK list : list = Without(saved[t], h)
  OBVIOUS
<1>1. /\ h \in ToSet(saved[t])
      /\ removed' = [removed EXCEPT ![t] = @ \cup {h}]
      /\ used' = used /\ history' = history /\ latest' = latest
      /\ announced' = announced
      /\ toast' = [toast EXCEPT
                     ![t] = IF ok THEN [undo |-> "saved", previous |-> saved[t]]
                                  ELSE NoUndo]
      /\ SetSaved(t, list, ok)
  BY DEF RemoveHunt, ShowToast
<1>2. list \in Seq(Hunt) /\ ToSet(list) = ToSet(saved[t]) \ {h}
  BY ExcludingFacts DEF Without
<1>3. /\ used \subseteq used' /\ ToSet(list) \subseteq used'
      /\ announced' \subseteq announced \cup (IF ok THEN ToSet(list) ELSE {})
      /\ removed' \in [Tab -> SUBSET Hunt]
      /\ \A s \in Tab : s # t => removed'[s] = removed[s]
  BY <1>1, <1>2 DEF OnlyUsed
<1>4. ToSet(list) = (known[t] \cup ToSet(list)) \ removed'[t]
  BY <1>1, <1>2 DEF TabForgetsNothing
<1>5. /\ TabForgetsNothing' /\ HuntsStored'
      /\ stored' \in [saved : Seq(Hunt), history : Seq(Query)]
      /\ saved' \in [Tab -> Seq(Hunt)]
      /\ known' \in [Tab -> SUBSET Hunt]
      /\ stored'.history = stored.history
      /\ ToSet(stored'.saved) \subseteq used'
      /\ saved'[t] = list
      /\ \A s \in Tab : s # t => saved'[s] = saved[s]
  <2>1. IInv /\ SetSaved(t, list, ok) /\ list \in Seq(Hunt)
    BY <1>1, <1>2
  <2> HIDE DEF IInv, LibraryTypeOK
  <2> QED BY <2>1, <1>3, <1>4, SetSavedFacts
<1>6. LibraryTypeOK'
  BY <1>1, <1>3, <1>5 DEF Toast
<1>7. OnlyUsed'
  BY <1>1, <1>3, <1>5 DEF OnlyUsed, NoUndo
<1>8. UndoLosesNothing' /\ DistinctRecent' /\ NothingBeforeOpen'
  BY <1>1, <1>2, <1>3, <1>5
     DEF UndoLosesNothing, DistinctRecent, NothingBeforeOpen, NoUndo
<1>9. RecentFirst'
  BY <1>1 DEF RecentFirst
<1> QED BY <1>5, <1>6, <1>7, <1>8, <1>9

(* The list put back has all the tab has now, or nothing would be undone.   *)
LEMMA UndoRemovalStep ==
  ASSUME IInv, NEW t \in Tab, page[t] = "open", UNCHANGED page,
         NEW ok \in BOOLEAN, UndoRemoval(t, ok)
  PROVE  IInv'
<1> USE DEF IInv, LibraryTypeOK
<1> PICK list : list = toast[t].previous
  OBVIOUS
<1>1. /\ toast[t].undo = "saved"
      /\ removed' = [removed EXCEPT ![t] = @ \ ToSet(list)]
      /\ used' = used /\ history' = history /\ latest' = latest
      /\ announced' = announced
      /\ toast' = [toast EXCEPT ![t] = NoUndo]
      /\ SetSaved(t, list, ok)
  BY DEF UndoRemoval, ShowToast
<1>2. list \in Seq(Hunt) /\ ToSet(saved[t]) \subseteq ToSet(list)
  <2>1. toast[t] \in [undo : {"saved"}, previous : Seq(Hunt)]
    BY <1>1 DEF Toast, NoUndo
  <2> QED BY <1>1, <2>1 DEF UndoLosesNothing
<1>3. /\ used \subseteq used' /\ ToSet(list) \subseteq used'
      /\ announced' \subseteq announced \cup (IF ok THEN ToSet(list) ELSE {})
      /\ removed' \in [Tab -> SUBSET Hunt]
      /\ removed'[t] = removed[t] \ ToSet(list)
      /\ \A s \in Tab : s # t => removed'[s] = removed[s]
  BY <1>1, <1>2 DEF OnlyUsed
<1>4. ToSet(list) = (known[t] \cup ToSet(list)) \ removed'[t]
  BY <1>2, <1>3 DEF TabForgetsNothing
<1>5. /\ TabForgetsNothing' /\ HuntsStored'
      /\ stored' \in [saved : Seq(Hunt), history : Seq(Query)]
      /\ saved' \in [Tab -> Seq(Hunt)]
      /\ known' \in [Tab -> SUBSET Hunt]
      /\ stored'.history = stored.history
      /\ ToSet(stored'.saved) \subseteq used'
      /\ saved'[t] = list
      /\ \A s \in Tab : s # t => saved'[s] = saved[s]
  <2>1. IInv /\ SetSaved(t, list, ok) /\ list \in Seq(Hunt)
    BY <1>1, <1>2
  <2> HIDE DEF IInv, LibraryTypeOK
  <2> QED BY <2>1, <1>3, <1>4, SetSavedFacts
<1>6. LibraryTypeOK'
  BY <1>1, <1>3, <1>5 DEF Toast
<1>7. OnlyUsed'
  BY <1>1, <1>3, <1>5 DEF OnlyUsed, NoUndo
<1>8. UndoLosesNothing' /\ DistinctRecent' /\ NothingBeforeOpen'
  BY <1>1, <1>3, <1>5
     DEF UndoLosesNothing, DistinctRecent, NothingBeforeOpen, NoUndo
<1>9. RecentFirst'
  BY <1>1 DEF RecentFirst
<1> QED BY <1>5, <1>6, <1>7, <1>8, <1>9

-----------------------------------------------------------------------------
(* Lemmas on the recent hunts                                               *)

(* What every action that writes the recent hunts of a tab keeps, as long   *)
(* as the new list has each query once, the one run last in front.          *)
LEMMA SetHistoryFacts ==
  ASSUME IInv, NEW t \in Tab, NEW list \in Seq(Query), NEW ok \in BOOLEAN,
         SetHistory(t, list, ok), IsInjective(list),
         latest'[t] # NoQuery => list # <<>> /\ list[1] = latest'[t],
         \A s \in Tab : s # t => latest'[s] = latest[s]
  PROVE  /\ stored' \in [saved : Seq(Hunt), history : Seq(Query)]
         /\ stored'.saved = stored.saved
         /\ IsInjective(stored'.history)
         /\ history' \in [Tab -> Seq(Query)]
         /\ RecentFirst'
<1>1. PICK recent : recent = SubSeq(list, 1, Min({Len(list), MaxRecent}))
  OBVIOUS
<1>2. /\ recent \in Seq(Query) /\ IsInjective(recent)
      /\ list # <<>> => recent # <<>> /\ recent[1] = list[1]
  BY <1>1, RecentFacts
<1>3. history' = [history EXCEPT ![t] = recent]
  BY <1>1 DEF SetHistory
<1>4. /\ history' \in [Tab -> Seq(Query)] /\ history'[t] = recent
      /\ \A s \in Tab : s # t => history'[s] = history[s]
  BY <1>2, <1>3 DEF IInv, LibraryTypeOK
<1>5. stored' = IF ok THEN [stored EXCEPT !.history = recent] ELSE stored
  BY <1>4 DEF SetHistory, WriteStored
<1>6. /\ stored' \in [saved : Seq(Hunt), history : Seq(Query)]
      /\ stored'.saved = stored.saved
      /\ stored'.history = IF ok THEN recent ELSE stored.history
  BY <1>2, <1>5 DEF IInv, LibraryTypeOK
<1>7. IsInjective(stored'.history)
  BY <1>2, <1>6 DEF IInv, DistinctRecent
<1>8. RecentFirst'
  BY <1>2, <1>4 DEF IInv, RecentFirst
<1> QED BY <1>4, <1>6, <1>7, <1>8

(* The saved hunts are left alone.                                          *)
LEMMA SavedUnchanged ==
  ASSUME IInv, stored'.saved = stored.saved,
         UNCHANGED <<saved, known, removed, used, announced, forgone>>
  PROVE  TabForgetsNothing' /\ HuntsStored'
BY DEF IInv, TabForgetsNothing, HuntsStored

LEMMA RecordStep ==
  ASSUME IInv, NEW t \in Tab, page[t] = "open", UNCHANGED page,
         NEW q \in Query, NEW ok \in BOOLEAN, RecordQuery(t, q, ok)
  PROVE  IInv'
<1>1. PICK rest : rest = Without(history[t], q)
  OBVIOUS
<1>2. /\ rest \in Seq(Query) /\ IsInjective(rest)
      /\ ToSet(rest) = ToSet(history[t]) \ {q}
  <2>1. history[t] \in Seq(Query) /\ IsInjective(history[t])
    BY DEF IInv, LibraryTypeOK, RecentFirst
  <2> QED BY <1>1, <2>1, ExcludingFacts DEF Without
<1>3. PICK front : front = <<q>>
  OBVIOUS
<1>4. /\ front \in Seq(Query) /\ ToSet(front) = {q} /\ IsInjective(front)
      /\ front # <<>> /\ front[1] = q /\ Len(front) = 1
  BY <1>3, SingleFacts
<1>5. PICK list : list = front \o rest
  OBVIOUS
<1>6. list \in Seq(Query) /\ IsInjective(list)
  BY <1>2, <1>4, <1>5, ConcatFacts
<1>7. list # <<>> /\ list[1] = q
  BY <1>2, <1>4, <1>5, FrontFacts
<1>8. /\ SetHistory(t, list, ok)
      /\ toast' = IF ok THEN toast ELSE [toast EXCEPT ![t] = NoUndo]
      /\ latest' = [latest EXCEPT ![t] = q]
      /\ UNCHANGED <<saved, known, removed, used, announced, forgone>>
  BY <1>1, <1>3, <1>5 DEF RecordQuery, ShowToast
<1>9. /\ latest' \in [Tab -> Query \cup {NoQuery}] /\ latest'[t] = q
      /\ \A s \in Tab : s # t => latest'[s] = latest[s]
  BY <1>8 DEF IInv, LibraryTypeOK
<1>10. /\ stored' \in [saved : Seq(Hunt), history : Seq(Query)]
       /\ stored'.saved = stored.saved
       /\ IsInjective(stored'.history)
       /\ history' \in [Tab -> Seq(Query)]
       /\ RecentFirst'
  BY <1>6, <1>7, <1>8, <1>9, SetHistoryFacts
<1>11. TabForgetsNothing' /\ HuntsStored'
  BY <1>8, <1>10, SavedUnchanged
<1>12. LibraryTypeOK' /\ OnlyUsed'
  BY <1>8, <1>9, <1>10 DEF IInv, LibraryTypeOK, OnlyUsed, Toast, NoUndo
<1>13. UndoLosesNothing' /\ DistinctRecent' /\ NothingBeforeOpen'
  BY <1>8, <1>9, <1>10
     DEF IInv, LibraryTypeOK, UndoLosesNothing, DistinctRecent,
         NothingBeforeOpen, NoUndo
<1> QED BY <1>10, <1>11, <1>12, <1>13 DEF IInv

LEMMA ClearStep ==
  ASSUME IInv, NEW t \in Tab, page[t] = "open", UNCHANGED page,
         NEW ok \in BOOLEAN, ClearHistory(t, ok)
  PROVE  IInv'
<1>1. /\ SetHistory(t, <<>>, ok)
      /\ toast' = [toast EXCEPT
                     ![t] = IF ok
                       THEN [undo |-> "history", previous |-> history[t]]
                       ELSE NoUndo]
      /\ latest' = [latest EXCEPT ![t] = NoQuery]
      /\ UNCHANGED <<saved, known, removed, used, announced, forgone>>
  BY DEF ClearHistory, ShowToast
<1>2. /\ latest' \in [Tab -> Query \cup {NoQuery}] /\ latest'[t] = NoQuery
      /\ \A s \in Tab : s # t => latest'[s] = latest[s]
  BY <1>1 DEF IInv, LibraryTypeOK
<1>3. <<>> \in Seq(Query) /\ IsInjective(<<>>)
  BY EmptySeq, LenProperties DEF IsInjective
<1>4. /\ stored' \in [saved : Seq(Hunt), history : Seq(Query)]
      /\ stored'.saved = stored.saved
      /\ IsInjective(stored'.history)
      /\ history' \in [Tab -> Seq(Query)]
      /\ RecentFirst'
  BY <1>1, <1>2, <1>3, SetHistoryFacts
<1>5. TabForgetsNothing' /\ HuntsStored'
  BY <1>1, <1>4, SavedUnchanged
<1>6. history[t] \in Seq(Query) /\ IsInjective(history[t])
  BY DEF IInv, LibraryTypeOK, RecentFirst
<1>7. LibraryTypeOK' /\ OnlyUsed'
  BY <1>1, <1>2, <1>4, <1>6 DEF IInv, LibraryTypeOK, OnlyUsed, Toast, NoUndo
<1>8. UndoLosesNothing' /\ DistinctRecent' /\ NothingBeforeOpen'
  BY <1>1, <1>2, <1>4, <1>6
     DEF IInv, LibraryTypeOK, UndoLosesNothing, DistinctRecent,
         NothingBeforeOpen, NoUndo
<1> QED BY <1>4, <1>5, <1>7, <1>8 DEF IInv

(* What was run since the clearing stays in front of what is put back.      *)
LEMMA UndoClearStep ==
  ASSUME IInv, NEW t \in Tab, page[t] = "open", UNCHANGED page,
         NEW ok \in BOOLEAN, UndoClear(t, ok)
  PROVE  IInv'
<1>1. PICK recent : recent = history[t]
  OBVIOUS
<1>2. PICK previous : previous = toast[t].previous
  OBVIOUS
<1>3. PICK rest : rest = Excluding(previous, ToSet(recent))
  OBVIOUS
<1>4. PICK list : list = recent \o rest
  OBVIOUS
<1>5. /\ toast[t].undo = "history"
      /\ SetHistory(t, list, ok)
      /\ toast' = [toast EXCEPT ![t] = NoUndo]
      /\ UNCHANGED <<saved, known, removed, latest, used, announced, forgone>>
  BY <1>1, <1>2, <1>3, <1>4 DEF UndoClear, ShowToast, Restored
<1>6. /\ recent \in Seq(Query) /\ IsInjective(recent)
      /\ latest[t] # NoQuery => recent # <<>> /\ recent[1] = latest[t]
  BY <1>1 DEF IInv, LibraryTypeOK, RecentFirst
<1>7. previous \in Seq(Query) /\ IsInjective(previous)
  <2>1. toast[t] \in [undo : {"history"}, previous : Seq(Query)]
    BY <1>5 DEF IInv, LibraryTypeOK, Toast, NoUndo
  <2> QED BY <1>2, <1>5, <2>1 DEF IInv, DistinctRecent
<1>8. /\ rest \in Seq(Query) /\ IsInjective(rest)
      /\ ToSet(rest) = ToSet(previous) \ ToSet(recent)
  BY <1>3, <1>7, ExcludingFacts
<1>9. list \in Seq(Query) /\ IsInjective(list)
  BY <1>4, <1>6, <1>8, ConcatFacts
<1>10. recent # <<>> => list # <<>> /\ list[1] = recent[1]
  BY <1>4, <1>6, <1>8, FrontFacts
<1>11. latest'[t] # NoQuery => list # <<>> /\ list[1] = latest'[t]
  BY <1>5, <1>6, <1>10
<1>12. /\ stored' \in [saved : Seq(Hunt), history : Seq(Query)]
       /\ stored'.saved = stored.saved
       /\ IsInjective(stored'.history)
       /\ history' \in [Tab -> Seq(Query)]
       /\ RecentFirst'
  BY <1>5, <1>9, <1>11, SetHistoryFacts
<1>13. TabForgetsNothing' /\ HuntsStored'
  BY <1>5, <1>12, SavedUnchanged
<1>14. LibraryTypeOK' /\ OnlyUsed'
  BY <1>5, <1>12 DEF IInv, LibraryTypeOK, OnlyUsed, Toast, NoUndo
<1>15. UndoLosesNothing' /\ DistinctRecent' /\ NothingBeforeOpen'
  BY <1>5, <1>12
     DEF IInv, LibraryTypeOK, UndoLosesNothing, DistinctRecent,
         NothingBeforeOpen, NoUndo
<1> QED BY <1>12, <1>13, <1>14, <1>15 DEF IInv

LEMMA HideStep ==
  ASSUME IInv, NEW t \in Tab, UNCHANGED page, HideToast(t)
  PROVE  IInv'
<1>1. /\ toast' = [toast EXCEPT ![t] = NoUndo]
      /\ UNCHANGED <<stored, saved, history, known, removed, latest, used,
                     announced, forgone>>
  BY DEF HideToast, ShowToast, records
<1>2. TabForgetsNothing' /\ HuntsStored'
  BY <1>1, SavedUnchanged
<1>3. LibraryTypeOK' /\ OnlyUsed' /\ RecentFirst'
  BY <1>1 DEF IInv, LibraryTypeOK, OnlyUsed, RecentFirst, Toast, NoUndo
<1>4. UndoLosesNothing' /\ DistinctRecent' /\ NothingBeforeOpen'
  BY <1>1 DEF IInv, LibraryTypeOK, UndoLosesNothing, DistinctRecent,
              NothingBeforeOpen, NoUndo
<1> QED BY <1>2, <1>3, <1>4 DEF IInv

-----------------------------------------------------------------------------
(* Lemmas on pages                                                          *)

LEMMA InitInvariant == Init => IInv
<1> SUFFICES ASSUME Init PROVE IInv
  OBVIOUS
<1>1. /\ \A S : <<>> \in Seq(S)
      /\ ToSet(<<>>) = {} /\ IsInjective(<<>>)
  BY EmptySeq, LenProperties DEF ToSet, IsInjective
<1>2. LibraryTypeOK
  BY <1>1 DEF Init, LibraryInit, LibraryTypeOK, Toast, Page
<1>3. OnlyUsed /\ UndoLosesNothing /\ DistinctRecent /\ NothingBeforeOpen
  BY <1>1 DEF Init, LibraryInit, OnlyUsed, UndoLosesNothing, DistinctRecent,
              NothingBeforeOpen, NoUndo
<1>4. TabForgetsNothing /\ HuntsStored /\ RecentFirst
  BY <1>1 DEF Init, LibraryInit, TabForgetsNothing, HuntsStored, RecentFirst
<1> QED BY <1>2, <1>3, <1>4 DEF IInv

(* The interface is loaded in a page that has neither lists nor an Undo.    *)
LEMMA ImportStep ==
  ASSUME IInv, NEW t \in Tab, Import(t)
  PROVE  IInv'
<1>1. /\ page[t] # "open" /\ page' = [page EXCEPT ![t] = "open"]
      /\ saved' = [saved EXCEPT ![t] = stored.saved]
      /\ history' = [history EXCEPT ![t] = stored.history]
      /\ known' = [known EXCEPT ![t] = ToSet(stored.saved)]
      /\ UNCHANGED <<stored, toast, removed, latest, used, announced, forgone>>
  BY DEF Import, ReadStored
<1>2. toast[t] = NoUndo /\ removed[t] = {} /\ latest[t] = NoQuery
  BY <1>1 DEF IInv, NothingBeforeOpen
<1>3. ToSet(stored.saved) \subseteq Hunt
  BY DEF IInv, LibraryTypeOK, OnlyUsed
<1>4. LibraryTypeOK'
  BY <1>1, <1>3 DEF IInv, LibraryTypeOK, Page
<1>5. OnlyUsed' /\ UndoLosesNothing' /\ DistinctRecent' /\ NothingBeforeOpen'
  BY <1>1, <1>2 DEF IInv, LibraryTypeOK, OnlyUsed, UndoLosesNothing,
                    DistinctRecent, NothingBeforeOpen, NoUndo
<1>6. TabForgetsNothing' /\ HuntsStored' /\ RecentFirst'
  BY <1>1, <1>2 DEF IInv, LibraryTypeOK, DistinctRecent, TabForgetsNothing,
                    HuntsStored, RecentFirst
<1> QED BY <1>4, <1>5, <1>6 DEF IInv

LEMMA ReloadStep ==
  ASSUME IInv, NEW t \in Tab, Reload(t)
  PROVE  IInv'
<1>1. /\ page' = [page EXCEPT ![t] = "asking"]
      /\ saved' = [saved EXCEPT ![t] = <<>>]
      /\ history' = [history EXCEPT ![t] = <<>>]
      /\ toast' = [toast EXCEPT ![t] = NoUndo]
      /\ known' = [known EXCEPT ![t] = {}]
      /\ removed' = [removed EXCEPT ![t] = {}]
      /\ latest' = [latest EXCEPT ![t] = NoQuery]
      /\ UNCHANGED <<stored, used, announced, forgone>>
  BY DEF Reload, LeavePage
<1>2. /\ \A S : <<>> \in Seq(S)
      /\ ToSet(<<>>) = {} /\ IsInjective(<<>>)
  BY EmptySeq, LenProperties DEF ToSet, IsInjective
<1>3. LibraryTypeOK'
  BY <1>1, <1>2 DEF IInv, LibraryTypeOK, Toast, Page
<1>4. OnlyUsed' /\ UndoLosesNothing' /\ DistinctRecent' /\ NothingBeforeOpen'
  BY <1>1, <1>2 DEF IInv, LibraryTypeOK, OnlyUsed, UndoLosesNothing,
                    DistinctRecent, NothingBeforeOpen, NoUndo
<1>5. TabForgetsNothing' /\ HuntsStored' /\ RecentFirst'
  BY <1>1, <1>2 DEF IInv, LibraryTypeOK, TabForgetsNothing, HuntsStored,
                    RecentFirst
<1> QED BY <1>3, <1>4, <1>5 DEF IInv

(* A page that is not open moves to another place, and none but Import      *)
(* opens it.                                                                *)
LEMMA PageStep ==
  ASSUME IInv, AnswerTypeOK, NEW t \in Tab,
         Readiness(t) \/ Ready(t) \/ NotReady(t) \/ AskAgain(t) \/ ImportFails(t)
  PROVE  IInv'
<1>1. UNCHANGED libraryVars
  BY DEF Readiness, Ready, NotReady, AskAgain, ImportFails
<1>2. /\ page' \in [Tab -> Page]
      /\ \A s \in Tab : page'[s] # "open" => page[s] # "open"
  <2>1. CASE Ready(t)
    <3>1. NextPage(answer[t]) \in {"importing", "failed", "pausing"}
      BY <2>1 DEF Ready, NextPage, AnswerTypeOK, Status
    <3> QED BY <2>1, <3>1 DEF Ready, IInv, LibraryTypeOK, Page
  <2>2. CASE Readiness(t) \/ NotReady(t) \/ AskAgain(t) \/ ImportFails(t)
    BY <2>2 DEF IInv, LibraryTypeOK, Page, Readiness, NotReady, AskAgain,
                ImportFails
  <2> QED BY <2>1, <2>2
<1> QED
  BY <1>1, <1>2
     DEF libraryVars, lists, records, IInv, LibraryTypeOK, OnlyUsed,
         UndoLosesNothing, DistinctRecent, NothingBeforeOpen,
         TabForgetsNothing, HuntsStored, RecentFirst

LEMMA LibraryUntouched ==
  ASSUME IInv, UNCHANGED <<libraryVars, page>>
  PROVE  IInv'
BY DEF libraryVars, lists, records, IInv, LibraryTypeOK, OnlyUsed,
       UndoLosesNothing, DistinctRecent, NothingBeforeOpen,
       TabForgetsNothing, HuntsStored, RecentFirst

LEMMA UseStep ==
  ASSUME IInv, NEW t \in Tab, UseLibrary(t)
  PROVE  IInv'
<1>1. page[t] = "open" /\ UNCHANGED page /\ Use(t)
  BY DEF UseLibrary, pageVars
<1>2. CASE HideToast(t)
  BY <1>1, <1>2, HideStep
<1>3. ASSUME NEW ok \in BOOLEAN,
             \/ SaveNamedQuery(t, ok)
             \/ \E h \in Hunt : RemoveHunt(t, h, ok)
             \/ \E q \in Query : RecordQuery(t, q, ok)
             \/ UndoRemoval(t, ok) \/ ClearHistory(t, ok) \/ UndoClear(t, ok)
      PROVE  IInv'
  BY <1>1, <1>3, SaveStep, RemoveStep, UndoRemovalStep, RecordStep, ClearStep,
     UndoClearStep
<1> QED BY <1>1, <1>2, <1>3 DEF Use

LEMMA AnswersTyped == Spec => []AnswerTypeOK
<1>1. Init => AnswerTypeOK
  BY DEF Init, AnswerTypeOK, Status
<1>2. ASSUME AnswerTypeOK, Next
      PROVE  AnswerTypeOK'
  <2>1. CASE Provisioned \/ Restart
    BY <1>2, <2>1 DEF Provisioned, Restart, pageVars, AnswerTypeOK, Status
  <2>2. ASSUME NEW t \in Tab,
               \/ Readiness(t) \/ Ready(t) \/ NotReady(t) \/ AskAgain(t)
               \/ Import(t) \/ ImportFails(t) \/ Reload(t)
               \/ UseLibrary(t)
        PROVE  AnswerTypeOK'
    BY <1>2, <2>2
       DEF Readiness, Ready, NotReady, AskAgain, Import, ImportFails, Reload,
           UseLibrary, serverVars, pageVars, AnswerTypeOK
  <2> QED BY <1>2, <2>1, <2>2 DEF Next
<1>3. AnswerTypeOK /\ UNCHANGED vars => AnswerTypeOK'
  BY DEF vars, serverVars, pageVars, AnswerTypeOK
<1> QED BY <1>1, <1>2, <1>3, PTL DEF Spec

LEMMA Inductive == Spec => []IInv
<1>1. ASSUME IInv, AnswerTypeOK, Next
      PROVE  IInv'
  <2>1. CASE Provisioned \/ Restart
    BY <1>1, <2>1, LibraryUntouched DEF Provisioned, Restart, pageVars
  <2>2. ASSUME NEW t \in Tab,
               \/ Readiness(t) \/ Ready(t) \/ NotReady(t) \/ AskAgain(t)
               \/ Import(t) \/ ImportFails(t) \/ Reload(t)
               \/ UseLibrary(t)
        PROVE  IInv'
    BY <1>1, <2>2, PageStep, ImportStep, ReloadStep, UseStep
  <2> QED BY <1>1, <2>1, <2>2 DEF Next
<1>2. IInv /\ UNCHANGED vars => IInv'
  BY LibraryUntouched DEF vars, pageVars
<1> QED BY InitInvariant, AnswersTyped, <1>1, <1>2, PTL DEF Spec

-----------------------------------------------------------------------------
(* Theorems                                                                 *)

(* Whatever is saved, removed, undone, run or cleared in any tab, whatever  *)
(* the browser refuses to store and whenever a page is reloaded: a tab      *)
(* forgets no hunt it was shown or saved, a hunt said to be saved is in the *)
(* browser until a tab that had not read it, or where it was removed, has   *)
(* written its list, and the recent hunts are distinct with the query run   *)
(* last in front (the lists of app.ts with their Undo).                     *)
THEOREM LibraryIsKept == Spec => []LibraryKept
<1>1. IInv => LibraryKept
  BY DEF IInv, LibraryKept
<1> QED BY <1>1, Inductive, PTL

(* An interface in front of a deployment that was not imported: none, as    *)
(* long as the server is not restarted under the page. The answer that a    *)
(* page goes by may be old, but a server that is ready remains so.          *)
OpenWhenReady ==
  \A t \in Tab : page[t] \in {"importing", "open"} =>
    server = "ok" \/ restarts > 0

(* An answer that is still under way was true, and is.                      *)
AnswersHold ==
  /\ restarts \in Nat
  /\ \A t \in Tab : answer[t] = "ok" => server = "ok" \/ restarts > 0

(* The interface is not loaded before the deployment is (waitUntilReady and *)
(* start of bootstrap.ts with readiness of the server).                     *)
THEOREM OpensWhenReady == Spec => []OpenWhenReady
<1> DEFINE I == IInv /\ AnswerTypeOK /\ AnswersHold /\ OpenWhenReady
<1>1. Init => AnswersHold /\ OpenWhenReady
  BY DEF Init, AnswersHold, OpenWhenReady
<1>2. ASSUME I, Next
      PROVE  AnswersHold' /\ OpenWhenReady'
  <2> USE DEF IInv, LibraryTypeOK, AnswerTypeOK, AnswersHold, OpenWhenReady
  <2>1. CASE Provisioned
    BY <1>2, <2>1 DEF Provisioned, pageVars
  <2>2. CASE Restart
    BY <1>2, <2>2 DEF Restart, pageVars
  <2>3. ASSUME NEW t \in Tab, Readiness(t)
        PROVE  AnswersHold' /\ OpenWhenReady'
    BY <1>2, <2>3 DEF Readiness, serverVars
  <2>4. ASSUME NEW t \in Tab, Ready(t)
        PROVE  AnswersHold' /\ OpenWhenReady'
    <3>1. NextPage(answer[t]) = "importing" => answer[t] = "ok"
      BY <1>2, <2>4 DEF NextPage, Status, Ready
    <3>2. NextPage(answer[t]) # "open"
      BY <1>2, <2>4 DEF NextPage, Status, Ready
    <3> QED
      BY <1>2, <2>4, <3>1, <3>2 DEF Ready, serverVars
  <2>5. ASSUME NEW t \in Tab,
               NotReady(t) \/ AskAgain(t) \/ ImportFails(t) \/ Reload(t)
        PROVE  AnswersHold' /\ OpenWhenReady'
    BY <1>2, <2>5 DEF NotReady, AskAgain, ImportFails, Reload, serverVars
  <2>6. ASSUME NEW t \in Tab, Import(t) \/ UseLibrary(t)
        PROVE  AnswersHold' /\ OpenWhenReady'
    BY <1>2, <2>6 DEF Import, UseLibrary, serverVars, pageVars
  <2> QED
    BY <1>2, <2>1, <2>2, <2>3, <2>4, <2>5, <2>6 DEF Next
<1>3. AnswersHold /\ OpenWhenReady /\ UNCHANGED vars
        => AnswersHold' /\ OpenWhenReady'
  BY DEF vars, serverVars, pageVars, AnswersHold, OpenWhenReady
<1> QED
  BY Inductive, AnswersTyped, <1>1, <1>2, <1>3, PTL DEF Spec
=============================================================================
