--------------------------- MODULE ResultLogProofs ----------------------------
(***************************************************************************)
(* Lemmas about the operators both stores are built from: the newest       *)
(* elements of a set of numbers, its latest element and the changes of the *)
(* outcome along it.                                                       *)
(***************************************************************************)
EXTENDS ResultLog, FiniteSetTheorems, WellFoundedInduction, TLAPS

Numbers == 0..MaxInserts

Later(S, x) == {y \in S : y > x}

(* T has all elements of S above some point, and no others.                *)
IsSuffix(T, S) == T \subseteq S /\ \A x \in T, y \in S : y > x => y \in T

(* Changes with the outcomes as a parameter.                               *)
Changed(o, S) ==
  {r \in S : LET before == {q \in S : q < r}
             IN before = {} \/ o[Latest(before)] # o[r]}

-----------------------------------------------------------------------------
(* The least-number principle for sets.                                    *)
LEMMA SmallestElement ==
  ASSUME NEW S \in SUBSET Nat, S # {}
  PROVE  \E x \in S : \A y \in S : x <= y
<1>1. PICK x \in S : \A y \in S : ~(<<y, x>> \in OpToRel(<, Nat))
  BY NatLessThanWellFounded, WFMin
<1>2. ASSUME NEW y \in S PROVE x <= y
  <2>1. ~(<<y, x>> \in {ss \in Nat \X Nat : ss[1] < ss[2]})
    BY <1>1 DEF OpToRel
  <2> QED
    BY <2>1
<1> QED
  BY <1>2

(* Sets of numbers are finite.                                             *)
LEMMA NumberSets ==
  ASSUME NEW S \in SUBSET Numbers
  PROVE  /\ IsFiniteSet(S) /\ Cardinality(S) \in Nat
         /\ \A x \in S : x \in Nat
<1>1. IsFiniteSet(Numbers)
  BY MaximumAssumption, FS_Interval DEF Numbers
<1>2. IsFiniteSet(S)
  BY <1>1, FS_Subset
<1> QED
  BY <1>2, FS_CardinalityType, MaximumAssumption DEF Numbers

(* Fewer elements are later in a smaller set.                              *)
LEMMA FewerLater ==
  ASSUME NEW T \in SUBSET Numbers, NEW S \in SUBSET T, NEW x
  PROVE  /\ Cardinality(Later(S, x)) \in Nat /\ Cardinality(Later(T, x)) \in Nat
         /\ Cardinality(Later(S, x)) <= Cardinality(Later(T, x))
<1>1. Later(S, x) \in SUBSET Later(T, x) /\ Later(T, x) \in SUBSET Numbers
  BY DEF Later
<1>2. IsFiniteSet(Later(T, x))
  BY <1>1, NumberSets
<1> QED
  BY <1>1, <1>2, FS_Subset, FS_CardinalityType

(* What is among the newest of a set is so in every subset it belongs to.  *)
LEMMA NewestInSubset ==
  ASSUME NEW T \in SUBSET Numbers, NEW S \in SUBSET T, NEW n \in Nat
  PROVE  S \cap Newest(n, T) \subseteq Newest(n, S)
<1>1. ASSUME NEW x \in S, Cardinality(Later(T, x)) < n
      PROVE  Cardinality(Later(S, x)) < n
  BY <1>1, FewerLater
<1> QED
  BY <1>1 DEF Newest, Later

(* Nothing is later than the last element.                                 *)
LEMMA LastIsNewest ==
  ASSUME NEW S \in SUBSET Numbers, NEW x \in S, \A y \in S : y <= x, NEW n \in Nat \ {0}
  PROVE  x \in Newest(n, S)
<1>1. {y \in S : y > x} = {}
  BY NumberSets
<1> QED
  BY <1>1, FS_EmptySet DEF Newest

(* Whatever is later than one of the newest is one of them.                *)
LEMMA NewestIsSuffix ==
  ASSUME NEW S \in SUBSET Numbers, NEW n \in Nat
  PROVE  IsSuffix(Newest(n, S), S)
<1>1. ASSUME NEW x \in Newest(n, S), NEW y \in S, y > x
      PROVE  y \in Newest(n, S)
  <2>1. x \in S /\ x \in Nat /\ y \in Nat /\ \A z \in S : z \in Nat
    BY NumberSets DEF Newest
  <2>2. Later(S, y) \in SUBSET Later(S, x) /\ Later(S, x) \in SUBSET Numbers
    <3>1. \A z \in S : z > y => z > x
      BY <1>1, <2>1
    <3> QED
      BY <3>1 DEF Later
  <2>3. IsFiniteSet(Later(S, x)) /\ Cardinality(Later(S, x)) < n
    BY <2>2, NumberSets DEF Newest, Later
  <2>4. Cardinality(Later(S, y)) < n
    BY <2>2, <2>3, FS_Subset, FS_CardinalityType
  <2> QED
    BY <2>4 DEF Newest, Later
<1> QED
  BY <1>1 DEF IsSuffix, Newest

(* A suffix is as many of the newest elements as it has.                   *)
LEMMA SuffixIsNewest ==
  ASSUME NEW S \in SUBSET Numbers, NEW T, IsSuffix(T, S)
  PROVE  T = Newest(Cardinality(T), S)
<1>1. T \in SUBSET S /\ T \in SUBSET Numbers /\ IsFiniteSet(T) /\ Cardinality(T) \in Nat
  BY NumberSets DEF IsSuffix
<1>2. \A z \in S : z \in Nat
  BY NumberSets
<1>3. ASSUME NEW x \in T
      PROVE  Cardinality(Later(S, x)) < Cardinality(T)
  <2>1. Later(S, x) \in SUBSET (T \ {x})
    BY <1>1, <1>2 DEF Later, IsSuffix
  <2>2. IsFiniteSet(T \ {x}) /\ Cardinality(T \ {x}) = Cardinality(T) - 1
    BY <1>1, FS_RemoveElement
  <2>3. Cardinality(Later(S, x)) <= Cardinality(T \ {x}) /\ Cardinality(Later(S, x)) \in Nat
    BY <2>1, <2>2, FS_Subset, FS_CardinalityType
  <2> QED
    BY <1>1, <2>2, <2>3
<1>4. ASSUME NEW x \in S \ T
      PROVE  ~(Cardinality(Later(S, x)) < Cardinality(T))
  <2>1. T \in SUBSET Later(S, x)
    BY <1>1, <1>2 DEF Later, IsSuffix
  <2>2. IsFiniteSet(Later(S, x)) /\ Cardinality(Later(S, x)) \in Nat
    BY NumberSets DEF Later
  <2>3. Cardinality(T) <= Cardinality(Later(S, x))
    BY <2>1, <2>2, FS_Subset
  <2> QED
    BY <1>1, <2>2, <2>3
<1> QED
  BY <1>1, <1>3, <1>4 DEF Newest, Later

(* Of n newest elements, there are at most n.                              *)
LEMMA NewestBound ==
  ASSUME NEW S \in SUBSET Numbers, NEW n \in Nat
  PROVE  Cardinality(Newest(n, S)) <= n
<1> DEFINE T == Newest(n, S)
<1>1. T \in SUBSET S /\ T \in SUBSET Numbers
  BY DEF Newest
<1>2. IsFiniteSet(T) /\ Cardinality(T) \in Nat /\ \A x \in T : x \in Nat
  BY <1>1, NumberSets
<1>3. CASE T = {}
  BY <1>3, FS_EmptySet
<1>4. CASE T # {}
  <2>1. PICK x \in T : \A y \in T : x <= y
    BY <1>2, <1>4, SmallestElement
  <2>2. T \ {x} \in SUBSET Later(S, x)
    BY <1>1, <1>2, <2>1 DEF Later
  <2>3. IsFiniteSet(Later(S, x)) /\ Cardinality(Later(S, x)) \in Nat
    BY NumberSets DEF Later
  <2>4. Cardinality(Later(S, x)) < n
    BY <2>1 DEF Newest, Later
  <2>5. Cardinality(T \ {x}) = Cardinality(T) - 1
    BY <1>2, FS_RemoveElement
  <2>6. Cardinality(T \ {x}) <= Cardinality(Later(S, x))
    BY <2>2, <2>3, FS_Subset
  <2> HIDE DEF T
  <2>7. Cardinality(T) <= n
    BY <1>2, <2>3, <2>4, <2>5, <2>6
  <2> QED
    BY <2>7 DEF T
<1> QED
  BY <1>3, <1>4

(* A non-empty set of numbers has a last element, which is Latest.         *)
LEMMA LatestIsLast ==
  ASSUME NEW S \in SUBSET Numbers, S # {}
  PROVE  Latest(S) \in S /\ \A y \in S : y <= Latest(S)
<1> DEFINE Back == {MaxInserts - x : x \in S}
<1>1. \A x \in S : x \in Nat /\ MaxInserts - x \in Nat
  BY MaximumAssumption DEF Numbers
<1>2. Back \in SUBSET Nat /\ Back # {}
  BY <1>1
<1>3. PICK b \in Back : \A c \in Back : b <= c
  BY <1>2, SmallestElement
<1>4. PICK x \in S : b = MaxInserts - x
  BY <1>3
<1>5. \A y \in S : y <= x
  <2> TAKE y \in S
  <2>1. MaxInserts - x <= MaxInserts - y
    BY <1>3, <1>4
  <2> QED
    BY <1>1, <2>1, MaximumAssumption
<1> QED
  BY <1>5 DEF Latest

(* There is only one.                                                      *)
LEMMA LatestUnique ==
  ASSUME NEW S \in SUBSET Numbers, NEW x \in S, \A y \in S : y <= x
  PROVE  Latest(S) = x
<1>1. Latest(S) \in S /\ x <= Latest(S) /\ Latest(S) <= x
  BY LatestIsLast
<1> QED
  BY <1>1, NumberSets

-----------------------------------------------------------------------------
(* The changes of the model are those of the recorded outcomes.            *)
LEMMA ChangesAreChanged == ASSUME NEW S PROVE Changes(S) = Changed(outcome, S)
BY DEF Changes, Changed

(* What is inserted last is a change if it is the first result or if its   *)
(* outcome differs from that of the latest one.                            *)
LEMMA ChangedByLast ==
  ASSUME NEW o, NEW S \in SUBSET Numbers, NEW r \in Numbers, \A x \in S : x < r
  PROVE  Changed(o, S \cup {r}) =
           Changed(o, S) \cup (IF S = {} \/ o[Latest(S)] # o[r] THEN {r} ELSE {})
<1>1. \A x \in S : x \in Nat
  BY NumberSets
<1>2. r \in Nat /\ r \notin S
  BY <1>1, MaximumAssumption DEF Numbers
<1>3. {q \in S \cup {r} : q < r} = S
  <2>1. ~(r < r)
    BY <1>2
  <2> QED
    BY <2>1
<1>4. ASSUME NEW x \in S
      PROVE  {q \in S \cup {r} : q < x} = {q \in S : q < x}
  <2>1. ~(r < x)
    BY <1>1, <1>2
  <2> QED
    BY <2>1
<1>5. ASSUME NEW x \in S
      PROVE  x \in Changed(o, S \cup {r}) <=> x \in Changed(o, S)
  BY <1>4 DEF Changed
<1>6. r \in Changed(o, S \cup {r}) <=> S = {} \/ o[Latest(S)] # o[r]
  BY <1>3 DEF Changed
<1>7. Changed(o, S \cup {r}) \subseteq S \cup {r} /\ Changed(o, S) \subseteq S
  BY DEF Changed
<1> QED
  BY <1>2, <1>5, <1>6, <1>7

(* Outcomes that are recorded later change nothing about earlier results.  *)
LEMMA ChangedStays ==
  ASSUME NEW o, NEW u, NEW S \in SUBSET Numbers, \A x \in S : o[x] = u[x]
  PROVE  Changed(o, S) = Changed(u, S)
<1>1. ASSUME NEW r \in S, {q \in S : q < r} # {}
      PROVE  Latest({q \in S : q < r}) \in S
  <2>1. {q \in S : q < r} \in SUBSET Numbers
    OBVIOUS
  <2> QED
    BY <1>1, <2>1, LatestIsLast
<1> QED
  BY <1>1 DEF Changed

(* An event is one of the results, and the first result is one.            *)
LEMMA ChangedSubset == ASSUME NEW o, NEW S PROVE Changed(o, S) \subseteq S
BY DEF Changed

-----------------------------------------------------------------------------
(* What both stores do with a new result: s is what is kept of the results *)
(* h, and gone is what the insertion of r deletes.                         *)

(* What is not among the newest never is again.                            *)
LEMMA OldStaysOld ==
  ASSUME NEW U \in SUBSET Numbers, NEW T \in SUBSET U, NEW gone \in SUBSET T, NEW n \in Nat,
         gone \cap Newest(n, T) = {}
  PROVE  gone \cap Newest(n, U) = {}
BY NewestInSubset

(* One more result makes no other one of the newest again: the newest      *)
(* results are kept if nothing but old ones is deleted.                    *)
LEMMA NewestGrows ==
  ASSUME NEW h \in SUBSET Numbers, NEW r \in Numbers, NEW n \in Nat
  PROVE  Newest(n, h \cup {r}) \subseteq Newest(n, h) \cup {r}
<1>1. h \in SUBSET (h \cup {r}) /\ h \cup {r} \in SUBSET Numbers
  OBVIOUS
<1>2. h \cap Newest(n, h \cup {r}) \subseteq Newest(n, h)
  BY <1>1, NewestInSubset
<1>3. Newest(n, h \cup {r}) \subseteq h \cup {r}
  BY DEF Newest
<1> QED
  BY <1>2, <1>3

(* As long as the newest results are kept, the latest one is.              *)
LEMMA LatestIsKept ==
  ASSUME NEW h \in SUBSET Numbers, h # {}, NEW s \in SUBSET h, NEW n \in Nat \ {0},
         Newest(n, h) \subseteq s
  PROVE  s # {} /\ Latest(s) = Latest(h)
<1>1. Latest(h) \in h /\ \A y \in h : y <= Latest(h)
  BY LatestIsLast
<1>2. Latest(h) \in s
  BY <1>1, LastIsNewest
<1>3. s \in SUBSET Numbers /\ \A y \in s : y <= Latest(h)
  BY <1>1
<1> QED
  BY <1>2, <1>3, LatestUnique

(* Events ev, a suffix of all events, of which the newest m at least are   *)
(* there, stay so when later ones are added and others are deleted, which  *)
(* are not among the newest m of the remaining ones.                       *)
LEMMA SuffixGrows ==
  ASSUME NEW all \in SUBSET Numbers, NEW ev, IsSuffix(ev, all),
         NEW m \in Nat, Newest(m, all) \subseteq ev,
         NEW added \in SUBSET Numbers, \A x \in all, y \in added : x < y,
         NEW old, old = {} \/ old = ev \ Newest(m, ev \cup added)
  PROVE  /\ IsSuffix((ev \ old) \cup added, all \cup added)
         /\ Newest(m, all \cup added) \subseteq (ev \ old) \cup added
<1>1. /\ all \cup added \in SUBSET Numbers /\ all \in SUBSET (all \cup added)
      /\ ev \subseteq all /\ ev \cup added \in SUBSET (all \cup added)
      /\ ev \cup added \in SUBSET Numbers
  BY DEF IsSuffix
<1>2. \A x \in all \cup added : x \in Nat
  BY <1>1, NumberSets
<1>3. \A x \in added, y \in all : ~(y > x)
  BY <1>2
<1>4. IsSuffix(Newest(m, ev \cup added), ev \cup added)
  BY <1>1, NewestIsSuffix
<1>5. ASSUME NEW x \in (ev \ old) \cup added, NEW y \in all \cup added, y > x
      PROVE  y \in (ev \ old) \cup added
  <2>1. CASE y \in added
    BY <2>1
  <2>2. CASE y \notin added
    <3>1. y \in all /\ x \in ev \ old
      BY <1>3, <1>5, <2>2
    <3>2. y \in ev
      BY <1>5, <3>1 DEF IsSuffix
    <3>3. y \notin old
      BY <1>4, <1>5, <3>1, <3>2 DEF IsSuffix
    <3> QED
      BY <3>2, <3>3
  <2> QED
    BY <2>1, <2>2
<1>6. IsSuffix((ev \ old) \cup added, all \cup added)
  BY <1>1, <1>5 DEF IsSuffix
<1>7. ASSUME NEW x \in Newest(m, all \cup added), x \notin added
      PROVE  x \in ev \ old
  <2>1. x \in all
    BY <1>7 DEF Newest
  <2>2. x \in ev
    BY <1>1, <2>1, NewestInSubset
  <2>3. x \in Newest(m, ev \cup added)
    BY <1>1, <2>2, NewestInSubset
  <2> QED
    BY <2>2, <2>3
<1> QED
  BY <1>6, <1>7

-----------------------------------------------------------------------------
(* All events of an endpoint whose results were h.                         *)
EventsAfter(o, h) == IF h = {} THEN {} ELSE {EventStart} \cup Changed(o, h)

AddedEvents(o, h, r) ==
  IF h = {} THEN {EventStart, r} ELSE IF o[Latest(h)] # o[r] THEN {r} ELSE {}

(* One more result adds the events that AddEvent and NewEvents compute.    *)
LEMMA EventsAfterResult ==
  ASSUME NEW o, NEW h \in SUBSET Results, NEW r \in Results, \A x \in h : x < r
  PROVE  /\ EventsAfter(o, h) \in SUBSET Numbers
         /\ AddedEvents(o, h, r) \in SUBSET Numbers
         /\ \A x \in EventsAfter(o, h), y \in AddedEvents(o, h, r) : x < y
         /\ EventsAfter(o, h \cup {r}) = EventsAfter(o, h) \cup AddedEvents(o, h, r)
<1>1. h \in SUBSET Numbers /\ r \in Numbers /\ EventStart \in Numbers /\ EventStart < r
  BY MaximumAssumption DEF Results, Numbers, EventStart
<1>2. Changed(o, h) \subseteq h
  BY ChangedSubset
<1>3. Changed(o, h \cup {r}) =
        Changed(o, h) \cup (IF h = {} \/ o[Latest(h)] # o[r] THEN {r} ELSE {})
  BY <1>1, ChangedByLast
<1>4. \A x \in EventsAfter(o, h) : x < r
  BY <1>1, <1>2 DEF EventsAfter
<1>5. h = {} => Changed(o, h) = {}
  BY <1>2
<1> QED
  BY <1>1, <1>2, <1>3, <1>4, <1>5 DEF EventsAfter, AddedEvents

(* The events that are kept remain the latest changes.                     *)
LEMMA EventsStayLatest ==
  ASSUME NEW o, NEW h \in SUBSET Results, NEW r \in Results, \A x \in h : x < r,
         NEW ev, IsSuffix(ev, EventsAfter(o, h)),
         NEW m \in Nat, Newest(m, EventsAfter(o, h)) \subseteq ev,
         NEW old, old = {} \/ old = ev \ Newest(m, ev \cup AddedEvents(o, h, r))
  PROVE  /\ IsSuffix((ev \ old) \cup AddedEvents(o, h, r), EventsAfter(o, h \cup {r}))
         /\ Newest(m, EventsAfter(o, h \cup {r})) \subseteq (ev \ old) \cup AddedEvents(o, h, r)
<1> DEFINE all == EventsAfter(o, h)
           added == AddedEvents(o, h, r)
<1>1. /\ all \in SUBSET Numbers /\ added \in SUBSET Numbers
      /\ \A x \in all, y \in added : x < y
      /\ EventsAfter(o, h \cup {r}) = all \cup added
  BY EventsAfterResult
<1>2. /\ IsSuffix(ev, all) /\ Newest(m, all) \subseteq ev
      /\ old = {} \/ old = ev \ Newest(m, ev \cup added)
  OBVIOUS
<1> HIDE DEF all, added
<1>3. /\ IsSuffix((ev \ old) \cup added, all \cup added)
      /\ Newest(m, all \cup added) \subseteq (ev \ old) \cup added
  BY <1>1, <1>2, SuffixGrows
<1> QED
  BY <1>1, <1>3 DEF added

(* There are no events exactly as long as there was no result.             *)
LEMMA FirstEvent ==
  ASSUME NEW o, NEW h \in SUBSET Results,
         NEW ev, IsSuffix(ev, EventsAfter(o, h)),
         NEW m \in Nat \ {0}, Newest(m, EventsAfter(o, h)) \subseteq ev
  PROVE  ev = {} <=> h = {}
<1>1. h \in SUBSET Numbers
  BY DEF Results, Numbers
<1>2. CASE h = {}
  BY <1>2 DEF IsSuffix, EventsAfter
<1>3. CASE h # {}
  <2>1. EventsAfter(o, h) # {} /\ EventsAfter(o, h) \in SUBSET Numbers
    <3>1. Changed(o, h) \subseteq h
      BY ChangedSubset
    <3>2. EventStart \in Numbers
      BY MaximumAssumption DEF EventStart, Numbers
    <3> QED
      BY <1>1, <1>3, <3>1, <3>2 DEF EventsAfter
  <2>2. Latest(EventsAfter(o, h)) \in Newest(m, EventsAfter(o, h))
    BY <2>1, LatestIsLast, LastIsNewest
  <2> QED
    BY <1>3, <2>2
<1> QED
  BY <1>2, <1>3

(* Outcomes that are recorded later change no event.                       *)
LEMMA EventsStay ==
  ASSUME NEW o, NEW u, NEW h \in SUBSET Results, \A x \in h : o[x] = u[x]
  PROVE  EventsAfter(o, h) = EventsAfter(u, h)
<1>1. h \in SUBSET Numbers
  BY DEF Results, Numbers
<1> QED
  BY <1>1, ChangedStays DEF EventsAfter
=============================================================================
