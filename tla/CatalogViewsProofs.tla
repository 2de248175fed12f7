------------------------- MODULE CatalogViewsProofs -------------------------
(***************************************************************************)
(* Proofs about CatalogViews for any set of views and the tables and views *)
(* their bodies name, any orders of creation, any bodies that break and    *)
(* any number of registrations.                                            *)
(***************************************************************************)
EXTENDS CatalogViews, SequenceTheorems, FiniteSetTheorems, TLAPS

(* A list names nothing twice. *)
NoRepeats(s) == \A i, j \in DOMAIN s : s[i] = s[j] => i = j

(* A list to work through in which no view waits for itself or a later one. *)
NoneLater(s) == \A i, j \in DOMAIN s : i <= j => s[j] \notin InnerOf[s[i]]

TypeInv ==
  /\ phase \in {"new", "installing", "creating", "replanning", "ready", "failed"}
  /\ provider \in [Tables -> Nat] /\ generation \in Nat /\ swaps \in SUBSET Tables
  /\ views \in SUBSET Views /\ reads \in [Views -> SUBSET (Tables \X Nat)]
  /\ statements \in Seq(Views) /\ order \in Orders
  /\ todo \in Seq(Views) /\ failing \in Seq(Views) /\ created \in BOOLEAN /\ passes \in Nat

(* The record of statements: each view once, after the views it names. *)
RecordInv ==
  /\ RangeOf(statements) = views /\ NoRepeats(statements)
  /\ Len(statements) = Cardinality(views) /\ DependenciesFirst(statements)

(* The views not created yet are the ones tried in this pass and the ones  *)
(* still to try.                                                           *)
PassInv ==
  /\ NoRepeats(todo) /\ NoRepeats(failing)
  /\ RangeOf(todo) \cap RangeOf(failing) = {}
  /\ RangeOf(todo) \cup RangeOf(failing) = Views \ views

(* A pass that has created nothing has something to create, and what it    *)
(* could not plan cannot be planned now.                                   *)
StuckInv == ~created => views # Views /\ \A v \in RangeOf(failing) : ~Plannable(v)

(* Each finished pass created a view. *)
CountInv == passes <= Cardinality(views) + (IF created THEN 0 ELSE 1)

(* With the precomputed order what fails in the first pass fails for a     *)
(* body that is broken, directly or through the views it names, so a       *)
(* second pass creates nothing.                                            *)
OnePassInv ==
  DependenciesFirst(order) =>
    \/ /\ passes = 1 /\ NoneLater(todo)
       /\ \A v \in RangeOf(failing) : v \in broken \/ InnerOf[v] \cap RangeOf(failing) # {}
    \/ /\ passes = 2 /\ ~created
       /\ \A v \in Views \ views : ~Plannable(v)

CreatingInv ==
  /\ RecordInv /\ PassInv /\ StuckInv /\ CountInv /\ OnePassInv
  /\ \A v \in views : Fresh(v)

Complete ==
  /\ views = Views /\ RecordInv
  /\ passes <= IF DependenciesFirst(order) THEN 1 ELSE Cardinality(Views)

(* The views re-planned so far are fresh, and the next one needs only them. *)
ReplanInv ==
  /\ NoneLater(todo)
  /\ failing = <<>> => \A v \in Views \ RangeOf(todo) : Fresh(v)

IInv ==
  /\ TypeInv
  /\ phase \notin {"creating", "replanning"} => schema = "chosen"
  /\ phase = "new" => views = {} /\ statements = <<>>
  /\ phase = "installing" => (views = {} /\ statements = <<>>) \/ Complete
  /\ phase = "creating" => CreatingInv
  /\ phase = "replanning" => Complete /\ ReplanInv
  /\ phase = "ready" => Complete
  /\ OkMeansFresh
  /\ FailureIsNotTheOrder

-----------------------------------------------------------------------------
(* Lists: the head goes, the rest keeps its order. *)
LEMMA ListHead ==
  ASSUME NEW q \in Seq(Views), q # <<>>
  PROVE  /\ Head(q) \in Views /\ Tail(q) \in Seq(Views)
         /\ RangeOf(q) = {Head(q)} \cup RangeOf(Tail(q))
         /\ NoRepeats(q) => NoRepeats(Tail(q)) /\ Head(q) \notin RangeOf(Tail(q))
         /\ NoneLater(q) => NoneLater(Tail(q)) /\ InnerOf[Head(q)] \cap RangeOf(q) = {}
<1> DEFINE h == Head(q)
           r == Tail(q)
           n == Len(q)
<1>1. /\ h \in Views /\ r \in Seq(Views) /\ n \in Nat /\ n >= 1
      /\ h = q[1] /\ DOMAIN q = 1 .. n /\ DOMAIN r = 1 .. n - 1
      /\ \A i \in 1 .. n - 1 : r[i] = q[i + 1]
  BY HeadTailProperties, EmptySeq
<1> HIDE DEF h, r, n
<1>2. \A i \in 1 .. n : i # 1 => i - 1 \in 1 .. n - 1 /\ q[i] = r[i - 1]
  <2> SUFFICES ASSUME NEW i \in 1 .. n, i # 1
               PROVE  i - 1 \in 1 .. n - 1 /\ q[i] = r[i - 1]
    OBVIOUS
  <2>1. i - 1 \in 1 .. n - 1 /\ (i - 1) + 1 = i
    BY <1>1
  <2> QED BY <1>1, <2>1
<1>3. \A i \in 1 .. n - 1 : i + 1 \in 1 .. n /\ i + 1 # 1 /\ r[i] = q[i + 1]
  BY <1>1
<1>4. RangeOf(q) = {h} \cup RangeOf(r)
  <2>1. ASSUME NEW i \in 1 .. n PROVE q[i] \in {h} \cup RangeOf(r)
    BY <1>1, <1>2 DEF RangeOf
  <2>2. ASSUME NEW i \in 1 .. n - 1 PROVE r[i] \in RangeOf(q)
    BY <1>1, <1>3 DEF RangeOf
  <2>3. h \in RangeOf(q)
    BY <1>1 DEF RangeOf
  <2>4. RangeOf(q) \subseteq {h} \cup RangeOf(r)
    BY <1>1, <2>1 DEF RangeOf
  <2>5. RangeOf(r) \subseteq RangeOf(q)
    BY <1>1, <2>2 DEF RangeOf
  <2> QED BY <2>3, <2>4, <2>5
<1>5. ASSUME NoRepeats(q) PROVE NoRepeats(r) /\ h \notin RangeOf(r)
  <2>1. ASSUME NEW i \in 1 .. n - 1, NEW j \in 1 .. n - 1, r[i] = r[j] PROVE i = j
    <3>1. i + 1 = j + 1
      BY <1>1, <1>3, <1>5, <2>1 DEF NoRepeats
    <3> QED BY <1>1, <3>1
  <2>2. ASSUME NEW i \in 1 .. n - 1 PROVE r[i] # h
    <3>1. 1 \in 1 .. n /\ i + 1 \in 1 .. n /\ i + 1 # 1
      BY <1>1, <1>3
    <3> QED BY <1>1, <1>3, <1>5, <3>1 DEF NoRepeats
  <2> QED BY <1>1, <2>1, <2>2 DEF NoRepeats, RangeOf
<1>6. ASSUME NoneLater(q) PROVE NoneLater(r) /\ InnerOf[h] \cap RangeOf(q) = {}
  <2>1. ASSUME NEW i \in 1 .. n - 1, NEW j \in 1 .. n - 1, i <= j PROVE r[j] \notin InnerOf[r[i]]
    <3>1. i + 1 <= j + 1
      BY <1>1, <2>1
    <3> QED BY <1>1, <1>3, <1>6, <3>1 DEF NoneLater
  <2>2. ASSUME NEW j \in 1 .. n PROVE q[j] \notin InnerOf[h]
    <3>1. 1 \in 1 .. n /\ 1 <= j
      BY <1>1
    <3> QED BY <1>1, <1>6, <3>1 DEF NoneLater
  <2> QED BY <1>1, <2>1, <2>2 DEF NoneLater, RangeOf
<1> QED BY <1>1, <1>4, <1>5, <1>6 DEF h, r

(* Lists: a new last element. *)
LEMMA ListAppend ==
  ASSUME NEW q \in Seq(Views), NEW v \in Views
  PROVE  /\ Append(q, v) \in Seq(Views) /\ Len(q) \in Nat
         /\ Len(Append(q, v)) = Len(q) + 1
         /\ RangeOf(Append(q, v)) = RangeOf(q) \cup {v}
         /\ NoRepeats(q) /\ v \notin RangeOf(q) => NoRepeats(Append(q, v))
         /\ DependenciesFirst(q) /\ InnerOf[v] \subseteq RangeOf(q) =>
              DependenciesFirst(Append(q, v))
<1> DEFINE r == Append(q, v)
           n == Len(q)
<1>1. /\ r \in Seq(Views) /\ n \in Nat /\ Len(r) = n + 1
      /\ DOMAIN q = 1 .. n /\ DOMAIN r = 1 .. n + 1
      /\ \A i \in 1 .. n : r[i] = q[i]
      /\ r[n + 1] = v
  BY AppendProperties
<1> HIDE DEF r, n
<1>2. \A i \in 1 .. n + 1 : i \in 1 .. n \/ i = n + 1
  BY <1>1
<1>3. \A i \in 1 .. n : i \in 1 .. n + 1 /\ i # n + 1
  BY <1>1
<1>4. RangeOf(r) = RangeOf(q) \cup {v}
  <2>1. RangeOf(r) \subseteq RangeOf(q) \cup {v}
    BY <1>1, <1>2 DEF RangeOf
  <2>2. RangeOf(q) \subseteq RangeOf(r)
    BY <1>1, <1>3 DEF RangeOf
  <2>3. n + 1 \in 1 .. n + 1
    BY <1>1
  <2>4. v \in RangeOf(r)
    BY <1>1, <2>3 DEF RangeOf
  <2> QED BY <2>1, <2>2, <2>4
<1>5. ASSUME NoRepeats(q), v \notin RangeOf(q) PROVE NoRepeats(r)
  <2>1. \A i \in 1 .. n : q[i] # v
    BY <1>1, <1>5 DEF RangeOf
  <2> QED BY <1>1, <1>2, <1>5, <2>1 DEF NoRepeats
<1>6. ASSUME DependenciesFirst(q), InnerOf[v] \subseteq RangeOf(q) PROVE DependenciesFirst(r)
  <2> SUFFICES ASSUME NEW i \in 1 .. n + 1, NEW u \in InnerOf[r[i]]
               PROVE  \E j \in 1 .. i - 1 : u = r[j]
    BY <1>1 DEF DependenciesFirst
  <2>1. CASE i \in 1 .. n
    <3>1. PICK j \in 1 .. i - 1 : u = q[j]
      BY <1>1, <1>6, <2>1 DEF DependenciesFirst
    <3>2. j \in 1 .. n
      BY <1>1, <2>1
    <3> QED BY <1>1, <3>1, <3>2
  <2>2. CASE i = n + 1
    <3>1. PICK j \in 1 .. n : u = q[j]
      BY <1>1, <1>6, <2>2 DEF RangeOf
    <3>2. j \in 1 .. i - 1
      BY <1>1, <2>2
    <3> QED BY <1>1, <3>1, <3>2
  <2> QED BY <1>2, <2>1, <2>2
<1> QED BY <1>1, <1>4, <1>5, <1>6 DEF r, n

(* A record in which every view follows the views it names can be replayed. *)
LEMMA RecordCanBeReplayed ==
  ASSUME NEW s \in Seq(Views), NoRepeats(s), DependenciesFirst(s)
  PROVE  NoneLater(s)
<1> SUFFICES ASSUME NEW i \in DOMAIN s, NEW j \in DOMAIN s, i <= j, s[j] \in InnerOf[s[i]]
             PROVE  FALSE
  BY DEF NoneLater
<1>1. DOMAIN s = 1 .. Len(s) /\ Len(s) \in Nat
  OBVIOUS
<1>2. PICK k \in 1 .. i - 1 : s[k] = s[j]
  BY DEF DependenciesFirst
<1>3. k \in DOMAIN s /\ k # j
  BY <1>1
<1> QED BY <1>2, <1>3 DEF NoRepeats

(* An order tries every view once. *)
LEMMA OrderIsPermutation ==
  ASSUME NEW o \in Orders
  PROVE  o \in Seq(Views) /\ RangeOf(o) = Views /\ NoRepeats(o)
<1> DEFINE n == Cardinality(Views)
<1>1. n \in Nat
  BY ViewsAreLayered, FS_CardinalityType
<1> HIDE DEF n
<1>2. o \in [1 .. n -> Views] /\ {o[i] : i \in DOMAIN o} = Views
  BY ViewConstants DEF n
<1>3. o \in Seq(Views) /\ RangeOf(o) = Views
  BY <1>1, <1>2 DEF RangeOf
<1>4. o \in Surjection(1 .. n, Views)
  BY <1>2 DEF Surjection
<1>5. IsFiniteSet(1 .. n) /\ Cardinality(1 .. n) = n
  BY <1>1, FS_Interval
<1>6. o \in Injection(1 .. n, Views)
  BY <1>4, <1>5, FS_SurjSameCardinalityImpliesInj DEF n
<1>7. NoRepeats(o)
  BY <1>2, <1>6 DEF Injection, IsInjective, NoRepeats
<1> QED BY <1>3, <1>7

(* The empty list. *)
LEMMA EmptyList ==
  /\ <<>> \in Seq(Views) /\ Len(<<>>) = 0 /\ RangeOf(<<>>) = {}
  /\ NoRepeats(<<>>) /\ DependenciesFirst(<<>>)
BY EmptySeq DEF RangeOf, NoRepeats, DependenciesFirst

(* What planning a body yields: pairs of a table and a provider, those of  *)
(* now if the views it names read those of now.                            *)
LEMMA PlanType ==
  ASSUME TypeInv, NEW v \in Views
  PROVE  PlannedReads(v) \in SUBSET (Tables \X Nat)
<1>1. \A t \in BaseOf[v] : <<t, provider[t]>> \in Tables \X Nat
  BY ViewConstants DEF TypeInv
<1>2. \A u \in InnerOf[v] : reads[u] \in SUBSET (Tables \X Nat)
  BY ViewConstants DEF TypeInv
<1> QED BY <1>1, <1>2 DEF PlannedReads

(* A plan over the current providers and views that read them is current. *)
LEMMA PlanIsFresh ==
  ASSUME TypeInv, NEW v \in Views, \A u \in InnerOf[v] : Fresh(u)
  PROVE  \A r \in PlannedReads(v) : r[2] = provider[r[1]]
<1>1. \A t \in BaseOf[v] : <<t, provider[t]>>[2] = provider[<<t, provider[t]>>[1]]
  OBVIOUS
<1>2. \A u \in InnerOf[v] : \A r \in reads[u] : r[2] = provider[r[1]]
  BY DEF Fresh
<1> QED BY <1>1, <1>2 DEF PlannedReads

(* The invariant holds before the context is built. *)
LEMMA InitIInv == Init => IInv
<1> SUFFICES ASSUME Init PROVE IInv
  OBVIOUS
<1>1. TypeInv
  BY EmptyList DEF Init, TypeInv
<1> QED BY <1>1 DEF Init, IInv, OkMeansFresh, FailureIsNotTheOrder

(* create_registered_views starts. *)
LEMMA CreateKeepsIInv ==
  ASSUME IInv, views = {}, CreateViews,
         UNCHANGED <<providerVars, views, reads, order, broken, result>>
  PROVE  IInv'
<1>1. /\ phase' = "creating" /\ statements' = <<>> /\ todo' = order /\ failing' = <<>>
      /\ created' = FALSE /\ passes' = 1 /\ views' = {} /\ order' = order
  BY DEF CreateViews
<1>2. order \in Seq(Views) /\ RangeOf(order) = Views /\ NoRepeats(order)
  BY OrderIsPermutation DEF IInv, TypeInv
<1>3. TypeInv'
  BY <1>1, <1>2, EmptyList DEF IInv, TypeInv, providerVars
<1>4. RecordInv'
  BY <1>1, EmptyList, FS_EmptySet DEF RecordInv
<1>5. PassInv'
  BY <1>1, <1>2, EmptyList DEF PassInv
<1>6. StuckInv'
  BY <1>1, EmptyList, ViewConstants DEF StuckInv
<1>7. CountInv'
  BY <1>1, FS_EmptySet DEF CountInv
<1>8. OnePassInv'
  BY <1>1, <1>2, EmptyList, RecordCanBeReplayed DEF OnePassInv
<1>9. CreatingInv'
  BY <1>1, <1>4, <1>5, <1>6, <1>7, <1>8 DEF CreatingInv
<1> QED BY <1>1, <1>3, <1>9 DEF IInv, OkMeansFresh, FailureIsNotTheOrder

(* A view is created: it leaves the list and joins the record. *)
LEMMA CreatedKeepsIInv ==
  ASSUME IInv, TryCreateView, Plannable(Head(todo))
  PROVE  IInv'
<1> DEFINE v == Head(todo)
<1>1. /\ phase = "creating" /\ todo # <<>> /\ phase' = "creating"
      /\ UNCHANGED <<provider, generation, swaps, order, passes, broken, failing>>
      /\ views' = views \cup {v} /\ reads' = [reads EXCEPT ![v] = PlannedReads(v)]
      /\ statements' = Append(statements, v) /\ created' = TRUE /\ todo' = Tail(todo)
  BY DEF TryCreateView, providerVars, viewVars
<1>2. TypeInv /\ CreatingInv
  BY <1>1 DEF IInv
<1>3. /\ v \in Views /\ Tail(todo) \in Seq(Views)
      /\ RangeOf(todo) = {v} \cup RangeOf(Tail(todo))
      /\ NoRepeats(Tail(todo)) /\ v \notin RangeOf(Tail(todo))
      /\ NoneLater(todo) => NoneLater(Tail(todo)) /\ InnerOf[v] \cap RangeOf(todo) = {}
  BY <1>1, <1>2, ListHead DEF TypeInv, CreatingInv, PassInv
<1>4. v \notin broken /\ InnerOf[v] \subseteq views
  BY DEF Plannable
<1> HIDE DEF v
<1>5. v \notin views /\ v \notin RangeOf(failing)
  BY <1>2, <1>3 DEF CreatingInv, PassInv
<1>6. PlannedReads(v) \in SUBSET (Tables \X Nat) /\ \A r \in PlannedReads(v) : r[2] = provider[r[1]]
  BY <1>2, <1>3, <1>4, PlanType, PlanIsFresh DEF CreatingInv
<1>7. IsFiniteSet(views) /\ Cardinality(views) \in Nat /\ Cardinality(views') = Cardinality(views) + 1
  <2>1. IsFiniteSet(views)
    BY <1>2, ViewsAreLayered, FS_Subset DEF TypeInv
  <2> QED BY <1>1, <1>5, <2>1, FS_AddElement, FS_CardinalityType
<1>8. /\ statements' \in Seq(Views) /\ Len(statements') = Len(statements) + 1
      /\ RangeOf(statements') = RangeOf(statements) \cup {v}
      /\ NoRepeats(statements') /\ DependenciesFirst(statements')
  BY <1>1, <1>2, <1>3, <1>4, <1>5, ListAppend DEF TypeInv, CreatingInv, RecordInv
<1>9. TypeInv'
  BY <1>1, <1>2, <1>3, <1>6, <1>8 DEF TypeInv
<1>10. RecordInv'
  BY <1>1, <1>2, <1>7, <1>8 DEF CreatingInv, RecordInv
<1>11. PassInv'
  BY <1>1, <1>2, <1>3, <1>5 DEF CreatingInv, PassInv
<1>12. StuckInv'
  BY <1>1 DEF StuckInv
<1>13. CountInv'
  BY <1>1, <1>2, <1>7 DEF CreatingInv, CountInv, TypeInv
<1>14. OnePassInv'
  <2> SUFFICES ASSUME DependenciesFirst(order) PROVE OnePassInv'
    BY <1>1 DEF OnePassInv
  <2>1. v \in Views \ views /\ Plannable(v)
    BY <1>3, <1>4, <1>5 DEF Plannable
  <2>2. /\ passes = 1 /\ NoneLater(todo)
        /\ \A u \in RangeOf(failing) : u \in broken \/ InnerOf[u] \cap RangeOf(failing) # {}
    BY <1>2, <2>1 DEF CreatingInv, OnePassInv
  <2> QED BY <1>1, <1>3, <2>2 DEF OnePassInv
<1>15. \A u \in views' : Fresh(u)'
  BY <1>1, <1>2, <1>3, <1>5, <1>6 DEF CreatingInv, Fresh, TypeInv
<1>16. CreatingInv'
  BY <1>10, <1>11, <1>12, <1>13, <1>14, <1>15 DEF CreatingInv
<1> QED BY <1>1, <1>9, <1>16 DEF IInv, OkMeansFresh, FailureIsNotTheOrder

(* A view cannot be planned yet: it moves to the failing ones. *)
LEMMA PostponedKeepsIInv ==
  ASSUME IInv, TryCreateView, ~Plannable(Head(todo))
  PROVE  IInv'
<1> DEFINE v == Head(todo)
<1>1. /\ phase = "creating" /\ todo # <<>> /\ phase' = "creating"
      /\ UNCHANGED <<provider, generation, swaps, order, passes, broken, created>>
      /\ UNCHANGED <<views, reads, statements>>
      /\ failing' = Append(failing, v) /\ todo' = Tail(todo)
  BY DEF TryCreateView, providerVars, viewVars
<1>2. TypeInv /\ CreatingInv
  BY <1>1 DEF IInv
<1>3. /\ v \in Views /\ Tail(todo) \in Seq(Views)
      /\ RangeOf(todo) = {v} \cup RangeOf(Tail(todo))
      /\ NoRepeats(Tail(todo)) /\ v \notin RangeOf(Tail(todo))
      /\ NoneLater(todo) => NoneLater(Tail(todo)) /\ InnerOf[v] \cap RangeOf(todo) = {}
  BY <1>1, <1>2, ListHead DEF TypeInv, CreatingInv, PassInv
<1>4. ~Plannable(v)
  OBVIOUS
<1> HIDE DEF v
<1>5. v \notin views /\ v \notin RangeOf(failing)
  BY <1>2, <1>3 DEF CreatingInv, PassInv
<1>6. /\ failing' \in Seq(Views) /\ RangeOf(failing') = RangeOf(failing) \cup {v}
      /\ NoRepeats(failing')
  BY <1>1, <1>2, <1>3, <1>5, ListAppend DEF TypeInv, CreatingInv, PassInv
<1>7. TypeInv'
  BY <1>1, <1>2, <1>3, <1>6 DEF TypeInv
<1>8. RecordInv' /\ CountInv'
  BY <1>1, <1>2 DEF CreatingInv, RecordInv, CountInv
<1>9. PassInv'
  BY <1>1, <1>2, <1>3, <1>6 DEF CreatingInv, PassInv
<1>10. \A u \in Views : Plannable(u)' <=> Plannable(u)
  BY <1>1 DEF Plannable
<1>11. StuckInv'
  <2>1. RangeOf(failing') \subseteq Views
    BY <1>9 DEF PassInv
  <2> QED BY <1>1, <1>2, <1>4, <1>6, <1>10, <2>1 DEF CreatingInv, StuckInv
<1>12. OnePassInv'
  <2> SUFFICES ASSUME DependenciesFirst(order) PROVE OnePassInv'
    BY <1>1 DEF OnePassInv
  <2>1. CASE /\ passes = 1 /\ NoneLater(todo)
             /\ \A u \in RangeOf(failing) : u \in broken \/ InnerOf[u] \cap RangeOf(failing) # {}
    <3>1. v \in broken \/ InnerOf[v] \cap RangeOf(failing) # {}
      <4>1. InnerOf[v] \subseteq Views /\ InnerOf[v] \cap RangeOf(todo) = {}
        BY <1>3, <2>1, ViewConstants
      <4>2. v \in broken \/ \E u \in InnerOf[v] : u \notin views
        BY <1>4 DEF Plannable
      <4> QED BY <1>2, <4>1, <4>2 DEF CreatingInv, PassInv
    <3> QED BY <1>1, <1>3, <1>6, <2>1, <3>1 DEF OnePassInv
  <2>2. CASE passes = 2 /\ ~created /\ \A u \in Views \ views : ~Plannable(u)
    BY <1>1, <1>10, <2>2 DEF OnePassInv
  <2> QED BY <1>2, <2>1, <2>2 DEF CreatingInv, OnePassInv
<1>13. \A u \in views' : Fresh(u)'
  BY <1>1, <1>2 DEF CreatingInv, Fresh
<1>14. CreatingInv'
  BY <1>8, <1>9, <1>11, <1>12, <1>13 DEF CreatingInv
<1> QED BY <1>1, <1>7, <1>14 DEF IInv, OkMeansFresh, FailureIsNotTheOrder

(* Another pass over what is left. *)
LEMMA NextPassKeepsIInv ==
  ASSUME IInv, NextPass
  PROVE  IInv'
<1>1. /\ phase = "creating" /\ todo = <<>> /\ created /\ failing # <<>> /\ phase' = "creating"
      /\ todo' = failing /\ failing' = <<>> /\ created' = FALSE /\ passes' = passes + 1
      /\ UNCHANGED <<provider, generation, swaps, order, broken, views, reads, statements>>
  BY DEF NextPass, providerVars, viewVars
<1>2. TypeInv /\ CreatingInv
  BY <1>1 DEF IInv
<1>3. RangeOf(failing) = Views \ views /\ failing \in Seq(Views) /\ Head(failing) \in RangeOf(failing)
  <2>1. RangeOf(failing) = Views \ views
    BY <1>1, <1>2, EmptyList DEF CreatingInv, PassInv
  <2> QED BY <1>1, <1>2, <2>1, ListHead DEF TypeInv
<1>4. TypeInv'
  <2>1. passes' \in Nat
    <3>1. passes \in Nat /\ passes' = passes + 1
      BY <1>1, <1>2 DEF TypeInv
    <3> QED BY ONLY <3>1
  <2>2. created' \in BOOLEAN
    BY <1>1
  <2>3. failing' \in Seq(Views) /\ todo' \in Seq(Views)
    BY <1>1, <1>3, EmptyList
  <2> QED BY <1>1, <1>2, <2>1, <2>2, <2>3 DEF TypeInv
<1>5. RecordInv'
  BY <1>1, <1>2 DEF CreatingInv, RecordInv
<1>6. PassInv'
  BY <1>1, <1>2, <1>3, EmptyList DEF CreatingInv, PassInv
<1>7. StuckInv'
  BY <1>1, <1>3, EmptyList DEF StuckInv
<1>8. CountInv'
  <2>1. Cardinality(views) \in Nat
    BY <1>2, ViewsAreLayered, FS_Subset, FS_CardinalityType DEF TypeInv
  <2> QED BY <1>1, <1>2, <2>1 DEF CreatingInv, CountInv, TypeInv
<1>9. OnePassInv'
  <2> SUFFICES ASSUME DependenciesFirst(order)
               PROVE  passes' = 2 /\ ~created' /\ \A v \in Views \ views : ~Plannable(v)'
    BY <1>1 DEF OnePassInv
  <2>1. passes = 1 /\ \A v \in RangeOf(failing) : v \in broken \/ InnerOf[v] \cap RangeOf(failing) # {}
    BY <1>1, <1>2 DEF CreatingInv, OnePassInv
  <2> QED BY <1>1, <1>3, <2>1 DEF Plannable
<1>10. \A v \in views' : Fresh(v)'
  BY <1>1, <1>2 DEF CreatingInv, Fresh
<1>11. CreatingInv'
  BY <1>5, <1>6, <1>7, <1>8, <1>9, <1>10 DEF CreatingInv
<1> QED BY <1>1, <1>4, <1>11 DEF IInv, OkMeansFresh, FailureIsNotTheOrder

(***************************************************************************)
(* Nothing moved.  The views left are not there, so a lowest one of them   *)
(* names only views that are: its body does not plan in any order.         *)
(***************************************************************************)
LEMMA UnplannableKeepsIInv ==
  ASSUME IInv, ViewsUnplannable
  PROVE  IInv'
<1>1. /\ phase = "creating" /\ todo = <<>> /\ ~created /\ phase' = "failed"
      /\ result' = "unplannable views" /\ schema' = "chosen"
      /\ UNCHANGED <<provider, generation, swaps, views, reads, statements>>
      /\ UNCHANGED <<todo, failing, created, passes, order, broken>>
  BY DEF ViewsUnplannable, providerVars, viewVars, loopVars
<1>2. TypeInv /\ CreatingInv
  BY <1>1 DEF IInv
<1>3. TypeInv'
  BY <1>1, <1>2 DEF TypeInv
<1>4. \A v \in Views \ views : ~Plannable(v)
  BY <1>1, <1>2, EmptyList DEF CreatingInv, PassInv, StuckInv
<1>5. Views \ views # {} /\ Views \ views \in SUBSET Views
  BY <1>1, <1>2 DEF CreatingInv, StuckInv, TypeInv
<1>6. PICK v \in Views \ views : InnerOf[v] \cap (Views \ views) = {}
  BY <1>5, ViewsAreLayered
<1>7. InnerOf[v] \subseteq views
  BY <1>6, ViewConstants
<1>8. FailureIsNotTheOrder'
  BY <1>1, <1>4, <1>6, <1>7 DEF FailureIsNotTheOrder, Plannable
<1> QED BY <1>1, <1>3, <1>8 DEF IInv, OkMeansFresh

(* The last view was created. *)
LEMMA CreatedAllKeepsIInv ==
  ASSUME IInv, ViewsCreated
  PROVE  IInv'
<1>1. /\ phase = "creating" /\ todo = <<>> /\ created /\ failing = <<>> /\ phase' = "ready"
      /\ schema' = "chosen"
      /\ UNCHANGED <<provider, generation, swaps, views, reads, statements>>
      /\ UNCHANGED <<todo, failing, created, passes, order, broken>>
  BY DEF ViewsCreated, providerVars, viewVars, loopVars
<1>2. TypeInv /\ CreatingInv
  BY <1>1 DEF IInv
<1>3. TypeInv'
  BY <1>1, <1>2 DEF TypeInv
<1>4. views = Views
  BY <1>1, <1>2, EmptyList DEF CreatingInv, PassInv, TypeInv
<1>5. passes <= IF DependenciesFirst(order) THEN 1 ELSE Cardinality(Views)
  <2>1. DependenciesFirst(order) => passes = 1
    BY <1>1, <1>2 DEF CreatingInv, OnePassInv
  <2>2. passes <= Cardinality(Views)
    <3>1. Cardinality(Views) \in Nat
      BY ViewsAreLayered, FS_CardinalityType
    <3> QED BY <1>1, <1>2, <1>4, <3>1 DEF CreatingInv, CountInv
  <2> QED BY <2>1, <2>2
<1>6. Complete'
  BY <1>1, <1>2, <1>4, <1>5 DEF CreatingInv, RecordInv, Complete
<1>7. OkMeansFresh'
  BY <1>1, <1>2 DEF CreatingInv, OkMeansFresh, Fresh
<1> QED BY <1>1, <1>3, <1>6, <1>7 DEF IInv, FailureIsNotTheOrder

(* While views are not touched, what is recorded of them stays. *)
LEMMA CompleteAlone ==
  ASSUME Complete, UNCHANGED <<views, statements, passes, order>>
  PROVE  Complete'
BY DEF Complete, RecordInv

(* A context that is up has views. *)
LEMMA CompleteIsUp ==
  ASSUME TypeInv, Complete
  PROVE  views # {} /\ statements # <<>>
<1>1. views # {} /\ RangeOf(statements) = views
  BY ViewConstants DEF Complete, RecordInv
<1> QED BY <1>1, EmptyList

(* A call that fails: the context is not up at all, or is as it was, and   *)
(* the call says so.                                                       *)
LEMMA ErrorKeepsIInv ==
  ASSUME IInv, NEW e \in {"refused", "not installed"}, ReturnError(e),
         phase \in {"new", "ready", "installing"}, swaps' \in SUBSET Tables,
         UNCHANGED <<provider, generation, viewVars, loopVars, order, broken, schema>>
  PROVE  IInv'
<1>1. /\ UNCHANGED <<provider, generation, views, reads, statements>>
      /\ UNCHANGED <<todo, failing, created, passes, order, broken, schema>>
      /\ result' = e /\ phase' = IF views = {} THEN "failed" ELSE "ready"
  BY DEF viewVars, loopVars, ReturnError, Building
<1>2. TypeInv'
  BY <1>1 DEF IInv, TypeInv
<1>3. schema' = "chosen"
  BY <1>1 DEF IInv
<1>4. phase' = "ready" => Complete'
  BY <1>1, CompleteAlone DEF IInv
<1>5. OkMeansFresh' /\ FailureIsNotTheOrder'
  BY <1>1 DEF OkMeansFresh, FailureIsNotTheOrder
<1> QED BY <1>1, <1>2, <1>3, <1>4, <1>5 DEF IInv

(* A registration begins to swap the providers of its tables. *)
LEMMA InstallKeepsIInv ==
  ASSUME IInv, NEW tables \in SUBSET Tables, MayRegister, Install(tables)
  PROVE  IInv'
<1>1. /\ phase \in {"new", "ready"} /\ phase' = "installing" /\ swaps' = tables
      /\ generation' = generation + 1 /\ failing' = <<>>
      /\ UNCHANGED <<provider, views, reads, statements, order, todo, created, passes, schema>>
  BY DEF MayRegister, Install, viewVars
<1>2. TypeInv'
  BY <1>1, EmptyList DEF IInv, TypeInv
<1>3. (views' = {} /\ statements' = <<>>) \/ Complete'
  BY <1>1, CompleteAlone DEF IInv
<1> QED BY <1>1, <1>2, <1>3 DEF IInv, OkMeansFresh, FailureIsNotTheOrder

(* One table after the other. *)
LEMMA SwapKeepsIInv ==
  ASSUME IInv, NEW t \in Tables, InstallProvider(t)
  PROVE  IInv'
<1>1. /\ phase = "installing" /\ phase' = "installing"
      /\ provider' = [provider EXCEPT ![t] = generation] /\ swaps' = swaps \ {t}
      /\ UNCHANGED <<generation, views, reads, statements, order, schema>>
      /\ UNCHANGED <<todo, failing, created, passes>>
  BY DEF InstallProvider, viewVars, loopVars
<1>2. TypeInv'
  BY <1>1 DEF IInv, TypeInv
<1>3. (views' = {} /\ statements' = <<>>) \/ Complete'
  BY <1>1, CompleteAlone DEF IInv
<1> QED BY <1>1, <1>2, <1>3 DEF IInv, OkMeansFresh, FailureIsNotTheOrder

(* All swapped: the views are created, or the record is replayed. *)
LEMMA InstalledKeepsIInv ==
  ASSUME IInv, Installed
  PROVE  IInv'
<1>1. CASE statements = <<>>
  <2>1. views = {}
    BY <1>1, CompleteIsUp DEF IInv, Installed
  <2> QED BY <1>1, <2>1, CreateKeepsIInv DEF Installed
<1>2. CASE statements # <<>>
  <2>1. /\ phase = "installing" /\ phase' = "replanning" /\ todo' = statements
        /\ UNCHANGED <<provider, generation, swaps, views, reads, statements, order>>
        /\ UNCHANGED <<failing, created, passes, schema>>
    BY <1>2 DEF Installed, CreateViews, providerVars
  <2>2. TypeInv'
    BY <2>1 DEF IInv, TypeInv
  <2>3. Complete /\ Complete'
    BY <1>2, <2>1, CompleteAlone DEF IInv
  <2>4. ReplanInv'
    <3>1. statements \in Seq(Views) /\ RangeOf(statements) = Views
      BY <2>3 DEF IInv, TypeInv, Complete, RecordInv
    <3>2. NoneLater(statements)
      BY <2>3, <3>1, RecordCanBeReplayed DEF Complete, RecordInv
    <3> QED BY <2>1, <3>1, <3>2 DEF ReplanInv
  <2> QED BY <2>1, <2>2, <2>3, <2>4 DEF IInv, OkMeansFresh, FailureIsNotTheOrder
<1> QED BY <1>1, <1>2

(***************************************************************************)
(* One replayed statement.  The views its body names come before it in the *)
(* record, so they are re-planned already: if none failed they are fresh.  *)
(***************************************************************************)
LEMMA ReplanKeepsIInv ==
  ASSUME IInv, Replan
  PROVE  IInv'
<1> DEFINE v == Head(todo)
<1>1. /\ phase = "replanning" /\ todo # <<>> /\ phase' = "replanning" /\ todo' = Tail(todo)
      /\ UNCHANGED <<provider, generation, swaps, views, statements, order, created, passes>>
      /\ \/ reads' = [reads EXCEPT ![v] = PlannedReads(v)] /\ failing' = failing
         \/ reads' = reads /\ failing' = Append(failing, v)
  BY DEF Replan, providerVars
<1>2. TypeInv /\ Complete /\ ReplanInv
  BY <1>1 DEF IInv
<1>3. /\ v \in Views /\ Tail(todo) \in Seq(Views)
      /\ RangeOf(todo) = {v} \cup RangeOf(Tail(todo))
      /\ NoneLater(Tail(todo)) /\ InnerOf[v] \cap RangeOf(todo) = {}
  BY <1>1, <1>2, ListHead DEF TypeInv, ReplanInv
<1> HIDE DEF v
<1>4. PlannedReads(v) \in SUBSET (Tables \X Nat)
  BY <1>2, <1>3, PlanType
<1>5. /\ failing' \in Seq(Views)
      /\ failing' = <<>> =>
           /\ failing = <<>> /\ reads' = [reads EXCEPT ![v] = PlannedReads(v)]
  <2>1. /\ failing \in Seq(Views) /\ Append(failing, v) \in Seq(Views) /\ Len(failing) \in Nat
        /\ Len(Append(failing, v)) = Len(failing) + 1
    BY <1>2, <1>3, ListAppend DEF TypeInv
  <2>2. Append(failing, v) # <<>>
    BY <2>1, EmptyList
  <2> QED BY <1>1, <2>1, <2>2
<1>6. TypeInv'
  BY <1>1, <1>2, <1>3, <1>4, <1>5 DEF TypeInv
<1>7. Complete'
  BY <1>1, <1>2, CompleteAlone
<1>8. ASSUME failing' = <<>>, NEW u \in Views \ RangeOf(Tail(todo)) PROVE Fresh(u)'
  <2>1. \A w \in Views \ RangeOf(todo) : Fresh(w)
    BY <1>2, <1>5, <1>8 DEF ReplanInv
  <2>2. reads' = [reads EXCEPT ![v] = PlannedReads(v)]
    BY <1>5, <1>8
  <2>3. \A r \in PlannedReads(v) : r[2] = provider[r[1]]
    BY <1>2, <1>3, <2>1, PlanIsFresh, ViewConstants
  <2>4. CASE u = v
    BY <1>1, <1>2, <1>3, <2>2, <2>3, <2>4 DEF Fresh, TypeInv
  <2>5. CASE u # v
    <3>1. reads'[u] = reads[u] /\ provider' = provider
      BY <1>1, <1>2, <2>2, <2>5 DEF TypeInv
    <3>2. Fresh(u)
      BY <1>3, <1>8, <2>1, <2>5
    <3> QED BY <3>1, <3>2 DEF Fresh
  <2> QED BY <2>4, <2>5
<1>9. ReplanInv'
  BY <1>1, <1>3, <1>8 DEF ReplanInv
<1> QED BY <1>1, <1>6, <1>7, <1>9 DEF IInv, OkMeansFresh, FailureIsNotTheOrder

(* The end of the replay: when nothing failed, every view was planned anew. *)
LEMMA ReplannedKeepsIInv ==
  ASSUME IInv, Replanned
  PROVE  IInv'
<1>1. /\ phase = "replanning" /\ todo = <<>> /\ phase' = "ready" /\ schema' = "chosen"
      /\ result' = IF failing = <<>> THEN "ok" ELSE "not replanned"
      /\ UNCHANGED <<provider, generation, swaps, views, reads, statements, order>>
      /\ UNCHANGED <<todo, failing, created, passes>>
  BY DEF Replanned, providerVars, viewVars, loopVars
<1>2. TypeInv /\ Complete /\ ReplanInv
  BY <1>1 DEF IInv
<1>3. TypeInv' /\ Complete'
  BY <1>1, <1>2, CompleteAlone DEF TypeInv
<1>4. OkMeansFresh'
  BY <1>1, <1>2, EmptyList DEF ReplanInv, Complete, OkMeansFresh, Fresh
<1> QED BY <1>1, <1>3, <1>4 DEF IInv, FailureIsNotTheOrder

(* Every step keeps the invariant. *)
LEMMA NextIInv == IInv /\ [Next]_vars => IInv'
<1> SUFFICES ASSUME IInv, [Next]_vars PROVE IInv'
  OBVIOUS
<1>1. CASE Build
  BY <1>1, CreateKeepsIInv DEF Build, IInv
<1>2. CASE TryCreateView
  BY <1>2, CreatedKeepsIInv, PostponedKeepsIInv
<1>3. CASE NextPass \/ ViewsUnplannable \/ ViewsCreated
  BY <1>3, NextPassKeepsIInv, UnplannableKeepsIInv, CreatedAllKeepsIInv
<1>4. ASSUME NEW t \in Tables, InstallProvider(t) PROVE IInv'
  BY <1>4, SwapKeepsIInv
<1>5. CASE Installed \/ Replan \/ Replanned
  BY <1>5, InstalledKeepsIInv, ReplanKeepsIInv, ReplannedKeepsIInv
<1>6. ASSUME NEW tables \in SUBSET Tables,
             RegisterLazyCatalog(tables) \/ RegisterDatabaseIndependent(tables)
      PROVE  IInv'
  <2>1. MayRegister /\ (Install(tables) \/ Refuse)
    BY <1>6 DEF RegisterLazyCatalog, RegisterDatabaseIndependent
  <2>2. CASE Install(tables)
    BY <2>1, <2>2, InstallKeepsIInv
  <2>3. CASE Refuse
    BY <2>1, <2>3, ErrorKeepsIInv DEF Refuse, MayRegister, providerVars, IInv, TypeInv
  <2> QED BY <2>1, <2>2, <2>3
<1>7. CASE InstallFails
  BY <1>7, ErrorKeepsIInv DEF InstallFails
<1>8. CASE Change
  <2>1. /\ phase = "ready" /\ phase' = "ready" /\ UNCHANGED <<schema, result>>
        /\ UNCHANGED <<provider, generation, swaps, views, reads, statements, order>>
        /\ UNCHANGED <<todo, failing, created, passes>>
    BY <1>8 DEF Change, providerVars, viewVars, loopVars
  <2>2. TypeInv' /\ Complete'
    BY <2>1, CompleteAlone DEF IInv, TypeInv
  <2>3. OkMeansFresh'
    BY <2>1 DEF IInv, OkMeansFresh, Fresh
  <2> QED BY <2>1, <2>2, <2>3 DEF IInv, FailureIsNotTheOrder
<1>9. CASE UNCHANGED vars
  BY <1>9 DEF vars, IInv, TypeInv, Complete, RecordInv, CreatingInv, PassInv, StuckInv, CountInv,
              OnePassInv, ReplanInv, Plannable, Fresh, OkMeansFresh, FailureIsNotTheOrder
<1> QED BY <1>1, <1>2, <1>3, <1>4, <1>5, <1>6, <1>7, <1>8, <1>9 DEF Next, Work

(* Every reachable state satisfies the inductive invariant. *)
LEMMA IInvIsInvariant == Spec => []IInv
BY InitIInv, NextIInv, PTL DEF Spec

(***************************************************************************)
(* A registration that returned Ok has left no view reading a replaced     *)
(* provider, through however many layers of views.                         *)
(***************************************************************************)
THEOREM RegisteringRefreshesViews == Spec => []OkMeansFresh
<1>1. IInv => OkMeansFresh
  BY DEF IInv
<1> QED BY <1>1, IInvIsInvariant, PTL

(***************************************************************************)
(* A context that is up has all its views and a record of them that can be *)
(* replayed; it took one pass in a dependency order and never more passes  *)
(* than there are views.                                                   *)
(***************************************************************************)
THEOREM ContextsAreComplete == Spec => []ReadyMeansComplete
<1>1. IInv => ReadyMeansComplete
  BY DEF IInv, Complete, RecordInv, ReadyMeansComplete
<1> QED BY <1>1, IInvIsInvariant, PTL

(***************************************************************************)
(* What create_registered_views gives up on contains a body that does not  *)
(* plan: the order the views are tried in is never the reason.             *)
(***************************************************************************)
THEOREM OrderNeverFailsStartup == Spec => []FailureIsNotTheOrder
<1>1. IInv => FailureIsNotTheOrder
  BY DEF IInv
<1> QED BY <1>1, IInvIsInvariant, PTL

(* The default schema is the caller's again on every way out of building   *)
(* and registering.                                                        *)
THEOREM DefaultSchemaIsRestored == Spec => []SchemaIsRestored
<1>1. IInv => SchemaIsRestored
  BY DEF IInv, SchemaIsRestored
<1> QED BY <1>1, IInvIsInvariant, PTL
=============================================================================
