-------------------------- MODULE CastRewritesProofs --------------------------
(***************************************************************************)
(* Proofs about the comparison of a statement.  Its operands stand under    *)
(* any number of casts, calls, parentheses and collations, which a pass     *)
(* walks from the inside out.  First: the passes leave only types the       *)
(* planner knows.  Then: a comparison of object identifiers keeps its       *)
(* meaning.                                                                *)
(***************************************************************************)
EXTENDS QueryRewritesProofs

---------------------------------------------------------------------------
(* Walks over operands.                                                    *)

(* A pass visits an operand from the inside out: the operand alone, then    *)
(* one step after the other around what has been made so far.               *)
Visited(p, e) == Casts!Node(p, [e EXCEPT !.steps = <<>>])
Around(p, x, step) == Casts!Node(p, [x EXCEPT !.steps = Append(x.steps, step)])
Visits(p, e, v, m) ==
    v = [n \in 0..m |-> IF n = 0 THEN Visited(p, e) ELSE Around(p, v[n - 1], e.steps[n])]

(* There is such a walk, as far as one likes. *)
LEMMA WalkExists ==
  ASSUME NEW p, NEW e, NEW m \in Nat
  PROVE  \E v : Visits(p, e, v, m)
<1> DEFINE S == {n \in Nat : ~\E v : Visits(p, e, v, n)}
<1> SUFFICES ASSUME S # {} PROVE FALSE
  BY DEF S
<1> DEFINE k == Min(S)
<1>1. k \in S /\ \A j \in S : k <= j
  BY LeastPosition
<1>2. k \in Nat /\ ~\E v : Visits(p, e, v, k)
  BY <1>1
<1>3. \A j \in Nat : j < k => \E v : Visits(p, e, v, j)
  BY <1>1, <1>2
<1> HIDE DEF S, k
<1>4. CASE k = 0
  <2> DEFINE v == [n \in 0..0 |-> Visited(p, e)]
  <2>1. v = [n \in 0..0 |-> IF n = 0 THEN Visited(p, e) ELSE Around(p, v[n - 1], e.steps[n])]
    OBVIOUS
  <2> HIDE DEF v
  <2> QED BY <1>2, <1>4, <2>1 DEF Visits
<1>5. CASE k # 0
  <2>1. k - 1 \in Nat /\ k - 1 < k
    BY <1>2, <1>5
  <2>2. PICK u : Visits(p, e, u, k - 1)
    BY <1>3, <2>1
  <2> DEFINE made(n) == IF n = 0 THEN Visited(p, e) ELSE Around(p, u[n - 1], e.steps[n])
             v == [n \in 0..k |-> made(n)]
  <2>3. \A n \in 0..(k - 1) : u[n] = made(n)
    <3>1. u = [n \in 0..(k - 1) |-> made(n)]
      BY <2>2 DEF Visits
    <3> HIDE DEF made
    <3> QED BY <3>1
  <2>4. \A n \in 0..(k - 1) : v[n] = u[n]
    <3>1. \A n \in 0..(k - 1) : n \in 0..k
      BY <1>2
    <3> HIDE DEF made
    <3> QED BY <2>3, <3>1
  <2>5. \A n \in 0..k : made(n) = IF n = 0 THEN Visited(p, e) ELSE Around(p, v[n - 1], e.steps[n])
    <3> HIDE DEF v
    <3> SUFFICES ASSUME NEW n \in 0..k, n # 0
                 PROVE  Around(p, u[n - 1], e.steps[n]) = Around(p, v[n - 1], e.steps[n])
      OBVIOUS
    <3>1. n - 1 \in 0..(k - 1)
      BY <1>2
    <3> QED BY <2>4, <3>1
  <2>6. v = [n \in 0..k |-> IF n = 0 THEN Visited(p, e) ELSE Around(p, v[n - 1], e.steps[n])]
    <3> DEFINE w == [n \in 0..k |-> IF n = 0 THEN Visited(p, e) ELSE Around(p, v[n - 1], e.steps[n])]
    <3>1. \A n \in 0..k : v[n] = w[n]
      <4>1. \A n \in 0..k : v[n] = made(n)
        <5> HIDE DEF made
        <5> QED OBVIOUS
      <4>2. \A n \in 0..k : w[n] = IF n = 0 THEN Visited(p, e) ELSE Around(p, v[n - 1], e.steps[n])
        <5> HIDE DEF v
        <5> QED OBVIOUS
      <4> HIDE DEF v, w, made
      <4> QED BY <2>5, <4>1, <4>2
    <3>2. v = [n \in 0..k |-> v[n]] /\ w = [n \in 0..k |-> w[n]]
      <4> HIDE DEF made
      <4> QED OBVIOUS
    <3> HIDE DEF v, w
    <3>3. v = w
      BY <3>1, <3>2
    <3> QED BY <3>3 DEF w
  <2> HIDE DEF v
  <2> QED BY <1>2, <2>6 DEF Visits
<1> QED BY <1>4, <1>5

(* A pass over an operand ends where the walk does. *)
LEMMA WalkOf ==
  ASSUME NEW p, NEW e, Len(e.steps) \in Nat
  PROVE  \E v : /\ v[0] = Visited(p, e)
                /\ \A n \in 1..Len(e.steps) : v[n] = Around(p, v[n - 1], e.steps[n])
                /\ Casts!rewrite_each_expression(p, e) = v[Len(e.steps)]
<1> DEFINE m == Len(e.steps)
           v == CHOOSE w : Visits(p, e, w, m)
<1>1. Visits(p, e, v, m)
  BY WalkExists
<1>2. Casts!rewrite_each_expression(p, e) = v[m]
  BY DEF Casts!rewrite_each_expression, Visits, Visited, Around
<1> HIDE DEF v
<1>3. v[0] = Visited(p, e) /\ \A n \in 1..m : v[n] = Around(p, v[n - 1], e.steps[n])
  <2> DEFINE made(n) == IF n = 0 THEN Visited(p, e) ELSE Around(p, v[n - 1], e.steps[n])
  <2>1. v = [n \in 0..m |-> made(n)]
    BY <1>1 DEF Visits
  <2>2. 0 \in 0..m /\ \A n \in 1..m : n \in 0..m /\ n # 0
    OBVIOUS
  <2>3. \A n \in 0..m : v[n] = made(n)
    <3> HIDE DEF made, m
    <3> QED BY <2>1
  <2> QED BY <2>2, <2>3
<1> QED BY <1>2, <1>3

(* What holds of the operand alone and is kept by every step of the walk     *)
(* holds at its end.  S gives what is to hold after each number of steps.    *)
LEMMA WalkInduction ==
  ASSUME NEW p, NEW e, Len(e.steps) \in Nat, NEW S, Visited(p, e) \in S[0],
         \A n \in 1..Len(e.steps) : \A x \in S[n - 1] : Around(p, x, e.steps[n]) \in S[n]
  PROVE  Casts!rewrite_each_expression(p, e) \in S[Len(e.steps)]
<1> DEFINE m == Len(e.steps)
<1>1. PICK v : /\ v[0] = Visited(p, e)
               /\ \A n \in 1..m : v[n] = Around(p, v[n - 1], e.steps[n])
               /\ Casts!rewrite_each_expression(p, e) = v[m]
  BY WalkOf
<1> DEFINE Bad == {n \in 0..m : v[n] \notin S[n]}
<1>2. Bad = {}
  <2> SUFFICES ASSUME Bad # {} PROVE FALSE
    OBVIOUS
  <2> DEFINE k == Min(Bad)
  <2>0. Bad \subseteq Nat
    OBVIOUS
  <2>1. k \in Bad /\ \A j \in Bad : k <= j
    <3> HIDE DEF Bad
    <3> QED BY <2>0, LeastPosition
  <2> HIDE DEF k
  <2>2. k \in 0..m /\ v[k] \notin S[k]
    BY <2>1
  <2>3. k # 0
    BY <1>1, <2>2
  <2>4. k \in 1..m /\ k - 1 \in 0..m /\ ~(k <= k - 1)
    BY <2>2, <2>3
  <2>5. v[k - 1] \in S[k - 1]
    BY <2>1, <2>4
  <2> QED BY <1>1, <2>2, <2>4, <2>5
<1>3. m \in 0..m
  OBVIOUS
<1> QED BY <1>1, <1>2, <1>3

(* An operand by its fields. *)
Expr(b, steps) == [base |-> b, steps |-> steps]

(* The ends of a sequence. *)
LEMMA SequenceEnds ==
  ASSUME NEW U, NEW s \in Seq(U), NEW x
  PROVE  /\ Casts!Front(Append(s, x)) = s /\ Casts!Last(Append(s, x)) = x
         /\ Append(s, x) # <<>> /\ Len(Append(s, x)) = Len(s) + 1 /\ Len(s) \in Nat
<1> DEFINE V == U \cup {x}
           t == Append(s, x)
<1>1. s \in Seq(V) /\ x \in V
  OBVIOUS
<1>2. /\ t \in Seq(V) /\ Len(t) = Len(s) + 1 /\ Len(s) \in Nat
      /\ \A i \in 1..Len(s) : t[i] = s[i]
      /\ t[Len(t)] = x
  BY <1>1, AppendProperties, LenProperties
<1> HIDE DEF t
<1>3. Casts!Last(t) = x
  BY <1>2 DEF Casts!Last
<1>4. Casts!Front(t) = s
  <2>1. Casts!Front(t) = SubSeq(t, 1, Len(s))
    BY <1>2 DEF Casts!Front
  <2> DEFINE f == SubSeq(t, 1, Len(s))
  <2>2. f \in Seq(V) /\ Len(f) = Len(s) /\ \A i \in 1..Len(s) : f[i] = t[i]
    BY <1>2
  <2> HIDE DEF f
  <2>3. f = s
    BY <1>1, <1>2, <2>2, SeqEqual
  <2> QED BY <2>1, <2>3 DEF f
<1>5. t # <<>>
  BY <1>2
<1> QED BY <1>2, <1>3, <1>4, <1>5 DEF t

(* What a pass may put in the place of an operand's steps. *)
LEMMA StepsOf ==
  ASSUME NEW b, NEW y, NEW z
  PROVE  /\ Expr(b, y).base = b /\ Expr(b, y).steps = y
         /\ [Expr(b, y) EXCEPT !.steps = z] = Expr(b, z)
BY DEF Expr

(* What the passes read off an operand: its outermost step. *)
OuterIs(e, b, y, s) ==
    /\ ~Casts!Alone(e) /\ Casts!Outer(e) = s /\ Casts!Operand(e) = Expr(b, y)
    /\ e.base = b /\ (Casts!IsCast(e) <=> s.op = "cast") /\ Casts!CastType(e) = s.t
    /\ \A t : Casts!WithType(e, t) = Expr(b, Append(y, Casts!Cast(t)))
    /\ \A f : Casts!CallOf(f, Expr(b, y)) = Expr(b, Append(y, Casts!Call(f)))
    /\ \A z : [e EXCEPT !.steps = Append(Casts!Front(e.steps), z)] = Expr(b, Append(y, z))
    /\ Len(e.steps) = Len(y) + 1

(* They read it off rightly. *)
LEMMA OuterStep ==
  ASSUME NEW U, NEW b, NEW y \in Seq(U), NEW s
  PROVE  OuterIs(Expr(b, Append(y, s)), b, y, s)
<1> DEFINE e == Expr(b, Append(y, s))
<1>1. e.base = b /\ e.steps = Append(y, s)
  BY StepsOf
<1>2. /\ Casts!Front(e.steps) = y /\ Casts!Last(e.steps) = s /\ e.steps # <<>>
  BY <1>1, SequenceEnds
<1>3. \A z : [e EXCEPT !.steps = z] = Expr(b, z)
  BY StepsOf
<1> HIDE DEF e
<1>4. ~Casts!Alone(e) /\ Casts!Outer(e) = s
  BY <1>2 DEF Casts!Alone, Casts!Outer
<1>5. Casts!Operand(e) = Expr(b, y)
  <2>1. Casts!Operand(e) = [e EXCEPT !.steps = Casts!Front(e.steps)]
    BY DEF Casts!Operand
  <2> QED BY <1>2, <1>3, <2>1
<1>6. (Casts!IsCast(e) <=> s.op = "cast") /\ Casts!CastType(e) = s.t
  BY <1>4 DEF Casts!IsCast, Casts!CastType
<1>7. ASSUME NEW t PROVE Casts!WithType(e, t) = Expr(b, Append(y, Casts!Cast(t)))
  <2>1. Casts!WithType(e, t) = [e EXCEPT !.steps = Append(Casts!Front(e.steps), Casts!Cast(t))]
    BY DEF Casts!WithType
  <2> QED BY <1>2, <1>3, <2>1
<1>8. ASSUME NEW f PROVE Casts!CallOf(f, Expr(b, y)) = Expr(b, Append(y, Casts!Call(f)))
  <2> DEFINE x == Expr(b, y)
  <2>1. Casts!CallOf(f, x) = [x EXCEPT !.steps = Append(x.steps, Casts!Call(f))]
    BY DEF Casts!CallOf
  <2>2. x.steps = y /\ \A z : [x EXCEPT !.steps = z] = Expr(b, z)
    BY StepsOf
  <2> HIDE DEF x
  <2>3. Casts!CallOf(f, x) = Expr(b, Append(y, Casts!Call(f)))
    BY <2>1, <2>2
  <2> QED BY <2>3 DEF x
<1>9. /\ \A z : [e EXCEPT !.steps = Append(Casts!Front(e.steps), z)] = Expr(b, Append(y, z))
      /\ Len(e.steps) = Len(y) + 1
  BY <1>1, <1>2, <1>3, SequenceEnds
<1>10. OuterIs(e, b, y, s)
  BY <1>1, <1>4, <1>5, <1>6, <1>7, <1>8, <1>9 DEF OuterIs
<1> QED BY <1>10 DEF e

(* A type under either spelling. *)
Both(n) == {Casts!Cast(Casts!Bare(n)), Casts!Cast(Casts!Pg(n))}
CastTo(n) == Casts!Cast(Casts!Bare(n))

(* The passes recognise a cast by the two spellings. *)
LEMMA MatchesBoth ==
  ASSUME NEW s, Casts!IsStep(s), NEW n
  PROVE  (s.op = "cast" /\ Casts!object_name_matches(s.t, n)) <=> s \in Both(n)
<1>1. /\ s = [op |-> s.op, t |-> Casts!Type(s.t.s, s.t.n, s.t.a)]
      /\ s.t.a \in BOOLEAN
  BY DEF Casts!IsStep
<1>2. ASSUME s.op = "cast", Casts!object_name_matches(s.t, n) PROVE s \in Both(n)
  <2>1. s.t.n = n /\ s.t.a = FALSE /\ s.t.s \in {Casts!Unqualified, "pg_catalog"}
    BY <1>1, <1>2 DEF Casts!object_name_matches
  <2>2. CASE s.t.s = Casts!Unqualified
    BY <1>1, <1>2, <2>1, <2>2 DEF Both, Casts!Cast, Casts!Bare, Casts!Type
  <2>3. CASE s.t.s = "pg_catalog"
    BY <1>1, <1>2, <2>1, <2>3 DEF Both, Casts!Cast, Casts!Pg, Casts!Type
  <2> QED BY <2>1, <2>2, <2>3
<1>3. ASSUME s \in Both(n) PROVE s.op = "cast" /\ Casts!object_name_matches(s.t, n)
  BY <1>3 DEF Both, Casts!Cast, Casts!Bare, Casts!Pg, Casts!Type, Casts!object_name_matches
<1> QED BY <1>2, <1>3

(* The steps the passes put in: casts to types the planner knows, calls of   *)
(* their own functions, and the time zone as it is spelled.                 *)
Lookups == {"oid", "pg_proc_oid", "pg_type_oid", "array_to_string", "_pg_truetypid", "_pg_truetypmod"}
Made == {Casts!Cast(Casts!Type(Casts!Unqualified, n, a)) : n \in Casts!PlannableTypes, a \in BOOLEAN}
        \cup {Casts!Call(f) : f \in Lookups} \cup {Casts!Zone("UTC")}

(* They are plannable, and none of them is a parenthesis or a regclass. *)
LEMMA MadeSteps ==
  ASSUME NEW m \in Made
  PROVE  /\ Casts!IsStep(m) /\ Casts!PlannableStep(m) /\ m # Casts!Paren
         /\ m \notin Both("regclass")
<1>1. CASE \E n \in Casts!PlannableTypes, a \in BOOLEAN :
              m = Casts!Cast(Casts!Type(Casts!Unqualified, n, a))
  <2>1. PICK n \in Casts!PlannableTypes, a \in BOOLEAN :
              m = Casts!Cast(Casts!Type(Casts!Unqualified, n, a))
    BY <1>1
  <2>2. m.op = "cast" /\ m.t = Casts!Type(Casts!Unqualified, n, a)
        /\ m = [op |-> m.op, t |-> m.t]
    BY <2>1 DEF Casts!Cast
  <2>3. m.t.s = Casts!Unqualified /\ m.t.n = n /\ m.t.a = a
    BY <2>2 DEF Casts!Type
  <2>4. Casts!IsStep(m)
    BY <2>2, <2>3 DEF Casts!IsStep
  <2>5. Casts!PlannableStep(m)
    BY <2>2, <2>3 DEF Casts!PlannableStep
  <2>6. m # Casts!Paren
    BY <2>2 DEF Casts!Paren
  <2>7. n # "regclass"
    BY DEF Casts!PlannableTypes
  <2>8. m \notin Both("regclass")
    BY <2>2, <2>3, <2>7 DEF Both, Casts!Cast, Casts!Bare, Casts!Pg, Casts!Type
  <2> QED BY <2>4, <2>5, <2>6, <2>8
<1>2. CASE \E f \in Lookups : m = Casts!Call(f)
  <2>1. PICK f \in Lookups : m = Casts!Call(f)
    BY <1>2
  <2>2. m.op = "call" /\ m.t = Casts!Type(Casts!Unqualified, f, FALSE)
        /\ m = [op |-> m.op, t |-> m.t]
    BY <2>1 DEF Casts!Call, Casts!Bare
  <2>3. m.t.s = Casts!Unqualified /\ m.t.n = f /\ m.t.a = FALSE
    BY <2>2 DEF Casts!Type
  <2>4. Casts!IsStep(m)
    BY <2>2, <2>3 DEF Casts!IsStep
  <2>5. Casts!PlannableStep(m)
    BY <2>2 DEF Casts!PlannableStep
  <2>6. m # Casts!Paren
    BY <2>2 DEF Casts!Paren
  <2>7. m \notin Both("regclass")
    BY <2>2 DEF Both, Casts!Cast
  <2> QED BY <2>4, <2>5, <2>6, <2>7
<1>3. CASE m = Casts!Zone("UTC")
  <2>2. m.op = "zone" /\ m.t = Casts!Type(Casts!Unqualified, "UTC", FALSE)
        /\ m = [op |-> m.op, t |-> m.t]
    BY <1>3 DEF Casts!Zone, Casts!Bare
  <2>3. m.t.s = Casts!Unqualified /\ m.t.n = "UTC" /\ m.t.a = FALSE
    BY <2>2 DEF Casts!Type
  <2>4. Casts!IsStep(m)
    BY <2>2, <2>3 DEF Casts!IsStep
  <2>5. Casts!PlannableStep(m)
    BY <2>2, <2>3 DEF Casts!PlannableStep
  <2>6. m # Casts!Paren
    BY <2>2 DEF Casts!Paren
  <2>7. m \notin Both("regclass")
    BY <2>2 DEF Both, Casts!Cast
  <2> QED BY <2>4, <2>5, <2>6, <2>7
<1> QED BY <1>1, <1>2, <1>3 DEF Made

(* Which steps they are, by name. *)
LEMMA MadeByName ==
  /\ \A n \in Casts!PlannableTypes : CastTo(n) \in Made
  /\ \A n \in Casts!PlannableTypes, a \in BOOLEAN :
       Casts!Cast(Casts!Type(Casts!Unqualified, n, a)) \in Made
  /\ \A f \in Lookups : Casts!Call(f) \in Made
  /\ Casts!Zone("UTC") \in Made
<1>1. \A n \in Casts!PlannableTypes, a \in BOOLEAN :
       Casts!Cast(Casts!Type(Casts!Unqualified, n, a)) \in Made
  BY DEF Made
<1>2. \A n \in Casts!PlannableTypes : CastTo(n) \in Made
  BY <1>1 DEF CastTo, Casts!Bare
<1>3. (\A f \in Lookups : Casts!Call(f) \in Made) /\ Casts!Zone("UTC") \in Made
  BY DEF Made
<1> QED BY <1>1, <1>2, <1>3

(* A pass over the operand alone, and over one step more. *)
LEMMA WalkSteps ==
  ASSUME NEW p, NEW b, NEW y
  PROVE  /\ Visited(p, Expr(b, y)) = Casts!Node(p, Expr(b, <<>>))
         /\ \A s : Around(p, Expr(b, y), s) = Casts!Node(p, Expr(b, Append(y, s)))
<1> DEFINE x == Expr(b, y)
<1>1. x.steps = y /\ \A z : [x EXCEPT !.steps = z] = Expr(b, z)
  BY StepsOf
<1> HIDE DEF x
<1>2. Visited(p, x) = Casts!Node(p, Expr(b, <<>>))
  BY <1>1 DEF Visited
<1>3. ASSUME NEW s PROVE Around(p, x, s) = Casts!Node(p, Expr(b, Append(y, s)))
  BY <1>1 DEF Around
<1> QED BY <1>2, <1>3 DEF x

(* The same, for a given step. *)
LEMMA WalkAround ==
  ASSUME NEW p, NEW b, NEW y, NEW s
  PROVE  Around(p, Expr(b, y), s) = Casts!Node(p, Expr(b, Append(y, s)))
BY WalkSteps

(* A set of steps the passes work on. *)
IsStepSet(U) == (\A s \in U : Casts!IsStep(s)) /\ Made \subseteq U

(* A pass that looks at one step at a time, and puts another in the place of *)
(* those of R.                                                               *)
Instead(s, R) == Made \cup ({s} \ R)
PutsInstead(p, R, b, y, s) ==
    \E m \in Instead(s, R) : Casts!Node(p, Expr(b, Append(y, s))) = Expr(b, Append(y, m))
InPlace(p, R, U) ==
    /\ \A b : Casts!Node(p, Expr(b, <<>>)) = Expr(b, <<>>)
    /\ \A b : \A y \in Seq(U), s \in U : PutsInstead(p, R, b, y, s)

(* Over a whole operand: the base stays, and so does the number of steps. *)
LEMMA InPlacePass ==
  ASSUME NEW U, Made \subseteq U, NEW p, NEW R, InPlace(p, R, U), NEW b, NEW y \in Seq(U)
  PROVE  \E z \in Seq(U) : /\ Casts!rewrite_each_expression(p, Expr(b, y)) = Expr(b, z)
                           /\ Len(z) = Len(y)
                           /\ \A i \in 1..Len(y) : z[i] \in Instead(y[i], R)
<1> DEFINE Z(n) == {z \in Seq(U) : Len(z) = n /\ \A i \in 1..n : z[i] \in Instead(y[i], R)}
           S == [n \in 0..Len(y) |-> {Expr(b, z) : z \in Z(n)}]
           e == Expr(b, y)
<1>1. e.steps = y /\ Len(e.steps) \in Nat
  BY StepsOf
<1>2. Visited(p, e) \in S[0]
  <2>1. Visited(p, e) = Expr(b, <<>>)
    BY WalkSteps DEF InPlace
  <2>2. <<>> \in Z(0)
    OBVIOUS
  <2>3. 0 \in 0..Len(y)
    OBVIOUS
  <2> HIDE DEF Z, e
  <2> QED BY <2>1, <2>2, <2>3
<1>3. ASSUME NEW n \in 1..Len(y), NEW x \in S[n - 1]
      PROVE  Around(p, x, y[n]) \in S[n]
  <2>1. n - 1 \in 0..Len(y) /\ n \in 0..Len(y) /\ y[n] \in U
    OBVIOUS
  <2>2. PICK z \in Z(n - 1) : x = Expr(b, z)
    <3> HIDE DEF Z
    <3> QED BY <2>1
  <2>3. z \in Seq(U) /\ Len(z) = n - 1 /\ \A i \in 1..(n - 1) : z[i] \in Instead(y[i], R)
    OBVIOUS
  <2>4. PICK m \in Instead(y[n], R) : Casts!Node(p, Expr(b, Append(z, y[n]))) = Expr(b, Append(z, m))
    BY <2>1, <2>3 DEF InPlace, PutsInstead
  <2>5. Around(p, x, y[n]) = Expr(b, Append(z, m))
    <3>1. \A t : Around(p, Expr(b, z), t) = Casts!Node(p, Expr(b, Append(z, t)))
      BY WalkSteps
    <3> HIDE DEF Z
    <3> QED BY <2>2, <2>4, <3>1
  <2>6. m \in U
    BY <2>1 DEF Instead
  <2> DEFINE w == Append(z, m)
  <2>7. /\ w \in Seq(U) /\ Len(w) = n /\ w[n] = m
        /\ \A i \in 1..(n - 1) : w[i] = z[i]
    BY <2>3, <2>6, AppendProperties
  <2> HIDE DEF w
  <2>8. \A i \in 1..n : w[i] \in Instead(y[i], R)
    <3> SUFFICES ASSUME NEW i \in 1..n PROVE w[i] \in Instead(y[i], R)
      OBVIOUS
    <3>1. i \in 1..(n - 1) \/ i = n
      OBVIOUS
    <3> QED BY <2>3, <2>4, <2>7, <3>1
  <2>9. w \in Z(n)
    BY <2>7, <2>8
  <2> HIDE DEF Z
  <2>10. Expr(b, w) \in S[n]
    BY <2>1, <2>9
  <2> QED BY <2>5, <2>10 DEF w
<1> HIDE DEF S
<1>4. Casts!rewrite_each_expression(p, e) \in S[Len(y)]
  <2> HIDE DEF e
  <2> QED BY <1>1, <1>2, <1>3, WalkInduction
<1>5. PICK z \in Z(Len(y)) : Casts!rewrite_each_expression(p, e) = Expr(b, z)
  <2>1. Len(y) \in 0..Len(y)
    OBVIOUS
  <2> HIDE DEF Z, e
  <2> QED BY <1>4, <2>1 DEF S
<1> QED BY <1>5

(* The casts a pass retargets, under both spellings. *)
LEMMA RetargetedStep ==
  ASSUME NEW U, IsStepSet(U), NEW n, NEW target \in Casts!PlannableTypes, NEW b,
         NEW y \in Seq(U), NEW s \in U, NEW p,
         Casts!Node(p, Expr(b, Append(y, s)))
           = Casts!rewrite_custom_type_cast_target(Expr(b, Append(y, s)), n, target)
  PROVE  PutsInstead(p, Both(n), b, y, s)
<1> DEFINE e == Expr(b, Append(y, s))
<1>0. OuterIs(e, b, y, s)
  BY OuterStep
<1> HIDE DEF e
<1>1. /\ (Casts!IsCast(e) <=> s.op = "cast") /\ Casts!CastType(e) = s.t
      /\ Casts!WithType(e, Casts!Bare(target)) = Expr(b, Append(y, CastTo(target)))
  BY <1>0 DEF OuterIs, CastTo
<1>2. Casts!CastMatches(e, n) <=> s \in Both(n)
  <2>1. Casts!CastMatches(e, n) <=> (s.op = "cast" /\ Casts!object_name_matches(s.t, n))
    BY <1>1 DEF Casts!CastMatches
  <2> QED BY <2>1, MatchesBoth DEF IsStepSet
<1>3. CASE s \in Both(n)
  <2>1. CastTo(target) \in Instead(s, Both(n))
    BY MadeByName DEF Instead
  <2>2. Casts!rewrite_custom_type_cast_target(e, n, target) = Expr(b, Append(y, CastTo(target)))
    BY <1>1, <1>2, <1>3 DEF Casts!rewrite_custom_type_cast_target
  <2> QED BY <2>1, <2>2 DEF e, PutsInstead
<1>4. CASE s \notin Both(n)
  <2>1. s \in Instead(s, Both(n))
    BY <1>4 DEF Instead
  <2>2. Casts!rewrite_custom_type_cast_target(e, n, target) = e
    BY <1>2, <1>4 DEF Casts!rewrite_custom_type_cast_target
  <2> QED BY <2>1, <2>2 DEF e, PutsInstead
<1> QED BY <1>3, <1>4

(* No pass but a look at one step changes an operand that stands alone. *)
LEMMA RetargetedAlone ==
  ASSUME NEW n, NEW target, NEW b
  PROVE  Casts!rewrite_custom_type_cast_target(Expr(b, <<>>), n, target) = Expr(b, <<>>)
<1>1. Casts!Alone(Expr(b, <<>>))
  BY StepsOf DEF Casts!Alone
<1> QED BY <1>1 DEF Casts!rewrite_custom_type_cast_target, Casts!CastMatches, Casts!IsCast

(* The seven passes that retarget one type each. *)
LEMMA RetargetingPasses ==
  ASSUME NEW U, IsStepSet(U)
  PROVE  /\ InPlace("rewrite_regoperator_cast", Both("regoperator"), U)
         /\ InPlace("rewrite_regprocedure_cast", Both("regprocedure"), U)
         /\ InPlace("rewrite_regproc_cast", Both("regproc"), U)
         /\ InPlace("rewrite_regtype_cast", Both("regtype"), U)
         /\ InPlace("rewrite_char_cast", Both("char"), U)
         /\ InPlace("rewrite_xid_cast", Both("xid"), U)
         /\ InPlace("rewrite_name_cast", Both("name"), U)
<1>1. {"text", "char", "bigint"} \subseteq Casts!PlannableTypes
  BY DEF Casts!PlannableTypes
<1>2. ASSUME NEW p, NEW n, NEW target \in Casts!PlannableTypes,
             \A e : Casts!Node(p, e) = Casts!rewrite_custom_type_cast_target(e, n, target)
      PROVE  InPlace(p, Both(n), U)
  <2>1. ASSUME NEW b PROVE Casts!Node(p, Expr(b, <<>>)) = Expr(b, <<>>)
    BY <1>2, RetargetedAlone
  <2>2. ASSUME NEW b, NEW y \in Seq(U), NEW s \in U
        PROVE  PutsInstead(p, Both(n), b, y, s)
    BY <1>2, RetargetedStep
  <2> QED BY <2>1, <2>2 DEF InPlace
<1>3. InPlace("rewrite_regoperator_cast", Both("regoperator"), U)
  <2>1. \A e : Casts!Node("rewrite_regoperator_cast", e) = Casts!rewrite_custom_type_cast_target(e, "regoperator", "text")
    BY DEF Casts!Node, Casts!rewrite_regoperator_cast
  <2> QED BY <1>1, <1>2, <2>1
<1>4. InPlace("rewrite_regprocedure_cast", Both("regprocedure"), U)
  <2>1. \A e : Casts!Node("rewrite_regprocedure_cast", e) = Casts!rewrite_custom_type_cast_target(e, "regprocedure", "text")
    BY DEF Casts!Node, Casts!rewrite_regprocedure_cast
  <2> QED BY <1>1, <1>2, <2>1
<1>5. InPlace("rewrite_regproc_cast", Both("regproc"), U)
  <2>1. \A e : Casts!Node("rewrite_regproc_cast", e) = Casts!rewrite_custom_type_cast_target(e, "regproc", "text")
    BY DEF Casts!Node, Casts!rewrite_regproc_cast
  <2> QED BY <1>1, <1>2, <2>1
<1>6. InPlace("rewrite_regtype_cast", Both("regtype"), U)
  <2>1. \A e : Casts!Node("rewrite_regtype_cast", e) = Casts!rewrite_custom_type_cast_target(e, "regtype", "text")
    BY DEF Casts!Node, Casts!rewrite_regtype_cast
  <2> QED BY <1>1, <1>2, <2>1
<1>7. InPlace("rewrite_char_cast", Both("char"), U)
  <2>1. \A e : Casts!Node("rewrite_char_cast", e) = Casts!rewrite_custom_type_cast_target(e, "char", "char")
    BY DEF Casts!Node, Casts!rewrite_char_cast
  <2> QED BY <1>1, <1>2, <2>1
<1>8. InPlace("rewrite_xid_cast", Both("xid"), U)
  <2>1. \A e : Casts!Node("rewrite_xid_cast", e) = Casts!rewrite_custom_type_cast_target(e, "xid", "bigint")
    BY DEF Casts!Node, Casts!rewrite_xid_cast
  <2> QED BY <1>1, <1>2, <2>1
<1>9. InPlace("rewrite_name_cast", Both("name"), U)
  <2>1. \A e : Casts!Node("rewrite_name_cast", e) = Casts!rewrite_custom_type_cast_target(e, "name", "text")
    BY DEF Casts!Node, Casts!rewrite_name_cast
  <2> QED BY <1>1, <1>2, <2>1
<1> QED BY <1>3, <1>4, <1>5, <1>6, <1>7, <1>8, <1>9

(* AT TIME ZONE 'utc'. *)
LEMMA TimeZones ==
  ASSUME NEW U, IsStepSet(U)
  PROVE  InPlace("rewrite_time_zone_utc", {Casts!Zone("utc")}, U)
<1>1. ASSUME NEW b PROVE Casts!Node("rewrite_time_zone_utc", Expr(b, <<>>)) = Expr(b, <<>>)
  <2> DEFINE e == Expr(b, <<>>)
  <2>1. Casts!Alone(e) /\ ~Casts!IsCast(e)
    BY StepsOf DEF Casts!Alone, Casts!IsCast
  <2> HIDE DEF e
  <2>2. Casts!rewrite_time_zone_utc(e) = e
    BY <2>1 DEF Casts!rewrite_time_zone_utc, Casts!CastMatches
  <2> QED BY <2>2 DEF Casts!Node, e
<1>2. ASSUME NEW b, NEW y \in Seq(U), NEW s \in U
      PROVE  PutsInstead("rewrite_time_zone_utc", {Casts!Zone("utc")}, b, y, s)
  <2> DEFINE e == Expr(b, Append(y, s))
  <2>1. OuterIs(e, b, y, s)
    BY OuterStep
  <2> HIDE DEF e
  <2>2. Casts!Node("rewrite_time_zone_utc", e) = Casts!rewrite_time_zone_utc(e)
    BY DEF Casts!Node
  <2>3. SUFFICES \E m \in Instead(s, {Casts!Zone("utc")}) : Casts!rewrite_time_zone_utc(e) = Expr(b, Append(y, m))
    BY <2>2 DEF PutsInstead, e
  <2>4. Casts!IsStep(s)
    BY DEF IsStepSet
  <2>5. CASE s = Casts!Zone("utc")
    <3>1. Casts!rewrite_time_zone_utc(e) = Expr(b, Append(y, Casts!Zone("UTC")))
      BY <2>1, <2>5 DEF OuterIs, Casts!rewrite_time_zone_utc
    <3> QED BY <3>1, MadeByName DEF Instead
  <2>6. CASE s # Casts!Zone("utc")
    <3>1. Casts!rewrite_time_zone_utc(e) = e
      BY <2>1, <2>6 DEF OuterIs, Casts!rewrite_time_zone_utc
    <3> QED BY <2>6, <3>1 DEF Instead, e
  <2> QED BY <2>5, <2>6
<1> QED BY <1>1, <1>2 DEF InPlace

(* Casts to pg_catalog.text. *)
LEMMA QualifiedText ==
  ASSUME NEW U, IsStepSet(U)
  PROVE  InPlace("rewrite_schema_qualified_text", {Casts!Cast(Casts!Pg("text"))}, U)
<1>1. ASSUME NEW b PROVE Casts!Node("rewrite_schema_qualified_text", Expr(b, <<>>)) = Expr(b, <<>>)
  <2> DEFINE e == Expr(b, <<>>)
  <2>1. Casts!Alone(e) /\ ~Casts!IsCast(e)
    BY StepsOf DEF Casts!Alone, Casts!IsCast
  <2> HIDE DEF e
  <2>2. Casts!rewrite_schema_qualified_text(e) = e
    BY <2>1 DEF Casts!rewrite_schema_qualified_text, Casts!CastMatches
  <2> QED BY <2>2 DEF Casts!Node, e
<1>2. ASSUME NEW b, NEW y \in Seq(U), NEW s \in U
      PROVE  PutsInstead("rewrite_schema_qualified_text", {Casts!Cast(Casts!Pg("text"))}, b, y, s)
  <2> DEFINE e == Expr(b, Append(y, s))
  <2>1. OuterIs(e, b, y, s)
    BY OuterStep
  <2> HIDE DEF e
  <2>2. Casts!Node("rewrite_schema_qualified_text", e) = Casts!rewrite_schema_qualified_text(e)
    BY DEF Casts!Node
  <2>3. SUFFICES \E m \in Instead(s, {Casts!Cast(Casts!Pg("text"))}) : Casts!rewrite_schema_qualified_text(e) = Expr(b, Append(y, m))
    BY <2>2 DEF PutsInstead, e
  <2>4. Casts!IsStep(s)
    BY DEF IsStepSet
  <2>5. CASE s.op = "cast" /\ s.t = Casts!Pg("text")
    <3>1. Casts!rewrite_schema_qualified_text(e) = Expr(b, Append(y, CastTo("text")))
      BY <2>1, <2>5 DEF OuterIs, Casts!rewrite_schema_qualified_text, CastTo
    <3>2. "text" \in Casts!PlannableTypes
      BY DEF Casts!PlannableTypes
    <3> QED BY <3>1, <3>2, MadeByName DEF Instead
  <2>6. CASE ~(s.op = "cast" /\ s.t = Casts!Pg("text"))
    <3>1. Casts!rewrite_schema_qualified_text(e) = e
      BY <2>1, <2>6 DEF OuterIs, Casts!rewrite_schema_qualified_text
    <3>2. s # Casts!Cast(Casts!Pg("text"))
      BY <2>6 DEF Casts!Cast
    <3> QED BY <3>1, <3>2 DEF Instead, e
  <2> QED BY <2>5, <2>6
<1> QED BY <1>1, <1>2 DEF InPlace

(* Calls with rows for arguments. *)
LEMMA TrueTypes ==
  ASSUME NEW U, IsStepSet(U)
  PROVE  InPlace("rewrite_pg_truetypid", {Casts!RowCall("_pg_truetypid"), Casts!RowCall("_pg_truetypmod")}, U)
<1>1. ASSUME NEW b PROVE Casts!Node("rewrite_pg_truetypid", Expr(b, <<>>)) = Expr(b, <<>>)
  <2> DEFINE e == Expr(b, <<>>)
  <2>1. Casts!Alone(e) /\ ~Casts!IsCast(e)
    BY StepsOf DEF Casts!Alone, Casts!IsCast
  <2> HIDE DEF e
  <2>2. Casts!rewrite_pg_truetypid_composite_args(e) = e
    BY <2>1 DEF Casts!rewrite_pg_truetypid_composite_args, Casts!CastMatches
  <2> QED BY <2>2 DEF Casts!Node, e
<1>2. ASSUME NEW b, NEW y \in Seq(U), NEW s \in U
      PROVE  PutsInstead("rewrite_pg_truetypid", {Casts!RowCall("_pg_truetypid"), Casts!RowCall("_pg_truetypmod")}, b, y, s)
  <2> DEFINE e == Expr(b, Append(y, s))
  <2>1. OuterIs(e, b, y, s)
    BY OuterStep
  <2> HIDE DEF e
  <2>2. Casts!Node("rewrite_pg_truetypid", e) = Casts!rewrite_pg_truetypid_composite_args(e)
    BY DEF Casts!Node
  <2>3. SUFFICES \E m \in Instead(s, {Casts!RowCall("_pg_truetypid"), Casts!RowCall("_pg_truetypmod")}) : Casts!rewrite_pg_truetypid_composite_args(e) = Expr(b, Append(y, m))
    BY <2>2 DEF PutsInstead, e
  <2>4. Casts!IsStep(s)
    BY DEF IsStepSet
  <2>5. CASE s \in {Casts!RowCall("_pg_truetypid"), Casts!RowCall("_pg_truetypmod")}
    <3>1. s.t.n \in Lookups
      BY <2>5 DEF Casts!RowCall, Casts!Bare, Casts!Type, Lookups
    <3>2. Casts!rewrite_pg_truetypid_composite_args(e) = Casts!CallOf(s.t.n, Expr(b, y))
      BY <2>1, <2>5 DEF OuterIs, Casts!rewrite_pg_truetypid_composite_args
    <3>3. Casts!CallOf(s.t.n, Expr(b, y)) = Expr(b, Append(y, Casts!Call(s.t.n)))
      BY <2>1 DEF OuterIs
    <3> QED BY <3>1, <3>2, <3>3, MadeByName DEF Instead
  <2>6. CASE s \notin {Casts!RowCall("_pg_truetypid"), Casts!RowCall("_pg_truetypmod")}
    <3>1. Casts!rewrite_pg_truetypid_composite_args(e) = e
      BY <2>1, <2>6 DEF OuterIs, Casts!rewrite_pg_truetypid_composite_args
    <3> QED BY <2>6, <3>1 DEF Instead, e
  <2> QED BY <2>5, <2>6
<1> QED BY <1>1, <1>2 DEF InPlace

(* The domains of information_schema and VARCHAR, name[] and anyarray. *)
DomainCasts == {Casts!Cast(Casts!Type("information_schema", n, FALSE)) :
                  n \in DOMAIN Casts!information_schema_base_type} \cup {CastTo("varchar")}
TextBacked == Both("anyarray") \cup {Casts!Cast(Casts!Type(q, "name", TRUE)) :
                                      q \in {Casts!Unqualified, "pg_catalog"}}

(* A cast is its type. *)
LEMMA CastIsType ==
  ASSUME NEW s, Casts!IsStep(s), s.op = "cast"
  PROVE  s = Casts!Cast(s.t) /\ s.t = Casts!Type(s.t.s, s.t.n, s.t.a) /\ s.t.a \in BOOLEAN
<1>1. s = [op |-> s.op, t |-> Casts!Type(s.t.s, s.t.n, s.t.a)] /\ s.t.a \in BOOLEAN
  BY DEF Casts!IsStep
<1>2. s.t = Casts!Type(s.t.s, s.t.n, s.t.a)
  BY <1>1
<1> QED BY <1>1, <1>2 DEF Casts!Cast

(* The base type of a domain is one the planner knows. *)
LEMMA BaseTypes ==
  ASSUME NEW n \in DOMAIN Casts!information_schema_base_type
  PROVE  Casts!information_schema_base_type[n] \in Casts!PlannableTypes
BY DEF Casts!information_schema_base_type, Casts!PlannableTypes

(* Casts to the domains of information_schema. *)
LEMMA InformationSchema ==
  ASSUME NEW U, IsStepSet(U)
  PROVE  InPlace("rewrite_information_schema_casts", DomainCasts, U)
<1>1. ASSUME NEW b PROVE Casts!Node("rewrite_information_schema_casts", Expr(b, <<>>)) = Expr(b, <<>>)
  <2> DEFINE e == Expr(b, <<>>)
  <2>1. Casts!Alone(e) /\ ~Casts!IsCast(e)
    BY StepsOf DEF Casts!Alone, Casts!IsCast
  <2> HIDE DEF e
  <2>2. Casts!rewrite_information_schema_casts(e) = e
    BY <2>1 DEF Casts!rewrite_information_schema_casts, Casts!CastMatches
  <2> QED BY <2>2 DEF Casts!Node, e
<1>2. ASSUME NEW b, NEW y \in Seq(U), NEW s \in U
      PROVE  PutsInstead("rewrite_information_schema_casts", DomainCasts, b, y, s)
  <2> DEFINE e == Expr(b, Append(y, s))
  <2>1. OuterIs(e, b, y, s)
    BY OuterStep
  <2> HIDE DEF e
  <2>2. Casts!Node("rewrite_information_schema_casts", e) = Casts!rewrite_information_schema_casts(e)
    BY DEF Casts!Node
  <2>3. SUFFICES \E m \in Instead(s, DomainCasts) : Casts!rewrite_information_schema_casts(e) = Expr(b, Append(y, m))
    BY <2>2 DEF PutsInstead, e
  <2>4. Casts!IsStep(s)
    BY DEF IsStepSet
  <2> DEFINE Domain == /\ s.op = "cast" /\ s.t.s = "information_schema" /\ ~s.t.a
                       /\ s.t.n \in DOMAIN Casts!information_schema_base_type
  <2>5. CASE Domain
    <3> DEFINE n == Casts!information_schema_base_type[s.t.n]
    <3>1. n \in Casts!PlannableTypes
      BY <2>5, BaseTypes
    <3>2. ~(Casts!IsCast(e) /\ Casts!CastType(e) = Casts!Bare("varchar"))
      <4>1. Casts!Bare("varchar").n = "varchar"
        BY DEF Casts!Bare, Casts!Type
      <4>2. "varchar" \notin DOMAIN Casts!information_schema_base_type
        BY DEF Casts!information_schema_base_type
      <4> QED BY <2>1, <2>5, <4>1, <4>2 DEF OuterIs
    <3>3. Casts!rewrite_information_schema_casts(e) = Expr(b, Append(y, CastTo(n)))
      BY <2>1, <2>5, <3>2 DEF OuterIs, Casts!rewrite_information_schema_casts, CastTo
    <3> HIDE DEF n
    <3> QED BY <3>1, <3>3, MadeByName DEF Instead
  <2>6. CASE ~Domain /\ s.op = "cast" /\ s.t = Casts!Bare("varchar")
    <3>1. Casts!rewrite_information_schema_casts(e) = Expr(b, Append(y, CastTo("text")))
      BY <2>1, <2>6 DEF OuterIs, Casts!rewrite_information_schema_casts, CastTo
    <3>2. "text" \in Casts!PlannableTypes
      BY DEF Casts!PlannableTypes
    <3> QED BY <3>1, <3>2, MadeByName DEF Instead
  <2>7. CASE ~Domain /\ ~(s.op = "cast" /\ s.t = Casts!Bare("varchar"))
    <3>1. Casts!rewrite_information_schema_casts(e) = e
      BY <2>1, <2>7 DEF OuterIs, Casts!rewrite_information_schema_casts
    <3>2. s \notin DomainCasts
      <4> SUFFICES ASSUME s \in DomainCasts PROVE FALSE
        OBVIOUS
      <4>1. CASE s = CastTo("varchar")
        BY <2>7, <4>1 DEF CastTo, Casts!Cast
      <4>2. CASE \E n \in DOMAIN Casts!information_schema_base_type :
                    s = Casts!Cast(Casts!Type("information_schema", n, FALSE))
        BY <2>7, <4>2 DEF Casts!Cast, Casts!Type
      <4> QED BY <4>1, <4>2 DEF DomainCasts
    <3> QED BY <3>1, <3>2 DEF Instead, e
  <2> QED BY <2>5, <2>6, <2>7
<1> QED BY <1>1, <1>2 DEF InPlace

(* Literals that name a type. *)
LEMMA TypeLiterals ==
  ASSUME NEW U, IsStepSet(U)
  PROVE  InPlace("resolve_regtype_literals", {}, U)
<1>1. ASSUME NEW b PROVE Casts!Node("resolve_regtype_literals", Expr(b, <<>>)) = Expr(b, <<>>)
  <2> DEFINE e == Expr(b, <<>>)
  <2>1. Casts!Alone(e) /\ ~Casts!IsCast(e)
    BY StepsOf DEF Casts!Alone, Casts!IsCast
  <2> HIDE DEF e
  <2>2. Casts!resolve_regtype_literals_to_type_oids(e) = e
    BY <2>1 DEF Casts!resolve_regtype_literals_to_type_oids, Casts!CastMatches
  <2> QED BY <2>2 DEF Casts!Node, e
<1>2. ASSUME NEW b, NEW y \in Seq(U), NEW s \in U
      PROVE  PutsInstead("resolve_regtype_literals", {}, b, y, s)
  <2> DEFINE e == Expr(b, Append(y, s))
  <2>1. OuterIs(e, b, y, s)
    BY OuterStep
  <2> HIDE DEF e
  <2>2. Casts!Node("resolve_regtype_literals", e) = Casts!resolve_regtype_literals_to_type_oids(e)
    BY DEF Casts!Node
  <2>3. SUFFICES \E m \in Instead(s, {}) : Casts!resolve_regtype_literals_to_type_oids(e) = Expr(b, Append(y, m))
    BY <2>2 DEF PutsInstead, e
  <2>4. Casts!IsStep(s)
    BY DEF IsStepSet
  <2>5. /\ Casts!Operand(e) = Expr(b, y)
        /\ Casts!CallOf("pg_type_oid", Expr(b, y)) = Expr(b, Append(y, Casts!Call("pg_type_oid")))
    BY <2>1 DEF OuterIs
  <2>6. Casts!resolve_regtype_literals_to_type_oids(e)
          \in {e, Expr(b, Append(y, Casts!Call("pg_type_oid")))}
    BY <2>5 DEF Casts!resolve_regtype_literals_to_type_oids
  <2>7. Casts!Call("pg_type_oid") \in Made
    BY MadeByName DEF Lookups
  <2> QED BY <2>6, <2>7 DEF Instead, e
<1> QED BY <1>1, <1>2 DEF InPlace

(* Types whose values are text. *)
LEMMA TextBackedTypes ==
  ASSUME NEW U, IsStepSet(U)
  PROVE  InPlace("rewrite_text_backed_type_casts", TextBacked, U)
<1>1. ASSUME NEW b PROVE Casts!Node("rewrite_text_backed_type_casts", Expr(b, <<>>)) = Expr(b, <<>>)
  <2> DEFINE e == Expr(b, <<>>)
  <2>1. Casts!Alone(e) /\ ~Casts!IsCast(e)
    BY StepsOf DEF Casts!Alone, Casts!IsCast
  <2> HIDE DEF e
  <2>2. Casts!rewrite_text_backed_type_casts(e) = e
    BY <2>1 DEF Casts!rewrite_text_backed_type_casts, Casts!CastMatches
  <2> QED BY <2>2 DEF Casts!Node, e
<1>2. ASSUME NEW b, NEW y \in Seq(U), NEW s \in U
      PROVE  PutsInstead("rewrite_text_backed_type_casts", TextBacked, b, y, s)
  <2> DEFINE e == Expr(b, Append(y, s))
  <2>1. OuterIs(e, b, y, s)
    BY OuterStep
  <2> HIDE DEF e
  <2>2. Casts!Node("rewrite_text_backed_type_casts", e) = Casts!rewrite_text_backed_type_casts(e)
    BY DEF Casts!Node
  <2>3. SUFFICES \E m \in Instead(s, TextBacked) : Casts!rewrite_text_backed_type_casts(e) = Expr(b, Append(y, m))
    BY <2>2 DEF PutsInstead, e
  <2>4. Casts!IsStep(s)
    BY DEF IsStepSet
  <2>5. Casts!CastMatches(e, "anyarray") <=> s \in Both("anyarray")
    <3>1. Casts!CastMatches(e, "anyarray") <=> (s.op = "cast" /\ Casts!object_name_matches(s.t, "anyarray"))
      BY <2>1 DEF OuterIs, Casts!CastMatches
    <3> QED BY <2>4, <3>1, MatchesBoth
  <2> DEFINE Names == /\ Casts!IsCast(e) /\ Casts!CastType(e).a
                      /\ Casts!object_name_matches([Casts!CastType(e) EXCEPT !.a = FALSE], "name")
  <2>6. CASE Casts!CastMatches(e, "anyarray")
    <3>1. ~Names
      BY <2>6 DEF Casts!CastMatches, Casts!object_name_matches
    <3>2. Casts!rewrite_text_backed_type_casts(e) = Expr(b, Append(y, CastTo("text")))
      BY <2>1, <2>6, <3>1 DEF OuterIs, Casts!rewrite_text_backed_type_casts, CastTo
    <3>3. "text" \in Casts!PlannableTypes
      BY DEF Casts!PlannableTypes
    <3> QED BY <3>2, <3>3, MadeByName DEF Instead
  <2>7. CASE ~Casts!CastMatches(e, "anyarray") /\ Names
    <3>1. Casts!rewrite_text_backed_type_casts(e)
            = Casts!WithType(e, Casts!Type(Casts!Unqualified, "text", TRUE))
      BY <2>7 DEF Casts!rewrite_text_backed_type_casts
    <3>2. Casts!rewrite_text_backed_type_casts(e)
            = Expr(b, Append(y, Casts!Cast(Casts!Type(Casts!Unqualified, "text", TRUE))))
      BY <2>1, <3>1 DEF OuterIs
    <3>3. "text" \in Casts!PlannableTypes
      BY DEF Casts!PlannableTypes
    <3>4. Casts!Cast(Casts!Type(Casts!Unqualified, "text", TRUE)) \in Made
      BY <3>3, MadeByName
    <3> QED BY <3>2, <3>4 DEF Instead
  <2>8. CASE ~Casts!CastMatches(e, "anyarray") /\ ~Names
    <3>1. Casts!rewrite_text_backed_type_casts(e) = e
      BY <2>8 DEF Casts!rewrite_text_backed_type_casts
    <3>2. s \notin TextBacked
      <4> SUFFICES ASSUME NEW q \in {Casts!Unqualified, "pg_catalog"},
                          s = Casts!Cast(Casts!Type(q, "name", TRUE))
                   PROVE  FALSE
        BY <2>5, <2>8 DEF TextBacked
      <4>1. s.op = "cast" /\ s.t = Casts!Type(q, "name", TRUE)
        BY DEF Casts!Cast
      <4>2. s.t.a /\ Casts!object_name_matches([s.t EXCEPT !.a = FALSE], "name")
        BY <4>1 DEF Casts!Type, Casts!object_name_matches
      <4> QED BY <2>1, <2>8, <4>1, <4>2 DEF OuterIs
    <3> QED BY <3>1, <3>2 DEF Instead, e
  <2> QED BY <2>6, <2>7, <2>8
<1> QED BY <1>1, <1>2 DEF InPlace

(* Casts to oid: every one becomes a number or a lookup. *)
LEMMA OidCasts ==
  ASSUME NEW U, IsStepSet(U)
  PROVE  InPlace("rewrite_oid_cast", Both("oid"), U)
<1>1. ASSUME NEW b PROVE Casts!Node("rewrite_oid_cast", Expr(b, <<>>)) = Expr(b, <<>>)
  <2> DEFINE e == Expr(b, <<>>)
  <2>1. Casts!Alone(e) /\ ~Casts!IsCast(e)
    BY StepsOf DEF Casts!Alone, Casts!IsCast
  <2> HIDE DEF e
  <2>2. Casts!rewrite_oid_cast(e) = e
    BY <2>1 DEF Casts!rewrite_oid_cast, Casts!CastMatches
  <2> QED BY <2>2 DEF Casts!Node, e
<1>2. ASSUME NEW b, NEW y \in Seq(U), NEW s \in U
      PROVE  PutsInstead("rewrite_oid_cast", Both("oid"), b, y, s)
  <2> DEFINE e == Expr(b, Append(y, s))
  <2>1. OuterIs(e, b, y, s)
    BY OuterStep
  <2> HIDE DEF e
  <2>2. Casts!Node("rewrite_oid_cast", e) = Casts!rewrite_oid_cast(e)
    BY DEF Casts!Node
  <2>3. SUFFICES \E m \in Instead(s, Both("oid")) : Casts!rewrite_oid_cast(e) = Expr(b, Append(y, m))
    BY <2>2 DEF PutsInstead, e
  <2>4. Casts!IsStep(s)
    BY DEF IsStepSet
  <2>5. Casts!CastMatches(e, "oid") <=> s \in Both("oid")
    <3>1. Casts!CastMatches(e, "oid") <=> (s.op = "cast" /\ Casts!object_name_matches(s.t, "oid"))
      BY <2>1 DEF OuterIs, Casts!CastMatches
    <3> QED BY <2>4, <3>1, MatchesBoth
  <2>6. /\ Casts!Operand(e) = Expr(b, y)
        /\ Casts!WithType(e, Casts!Bare("bigint")) = Expr(b, Append(y, CastTo("bigint")))
        /\ Casts!CallOf("pg_proc_oid", Expr(b, y)) = Expr(b, Append(y, Casts!Call("pg_proc_oid")))
        /\ Casts!CallOf("oid", Expr(b, y)) = Expr(b, Append(y, Casts!Call("oid")))
    BY <2>1 DEF OuterIs, CastTo
  <2>7. CASE s \in Both("oid")
    <3> DEFINE Number == Casts!Alone(Casts!Operand(e)) /\ e.base.k \in {"number", "param"}
    <3>1. Casts!rewrite_oid_cast(e) \in {Expr(b, Append(y, CastTo("bigint"))),
                                        Expr(b, Append(y, Casts!Call("pg_proc_oid"))),
                                        Expr(b, Append(y, Casts!Call("oid")))}
      <4>1. CASE Number
        <5>1. ~Casts!is_regproc_column(Casts!Operand(e))
          BY <2>1, <2>6, <4>1, StepsOf DEF Casts!is_regproc_column, OuterIs
        <5> QED BY <2>5, <2>6, <2>7, <4>1, <5>1 DEF Casts!rewrite_oid_cast
      <4>2. CASE ~Number /\ Casts!is_regproc_column(Casts!Operand(e))
        BY <2>5, <2>6, <2>7, <4>2 DEF Casts!rewrite_oid_cast
      <4>3. CASE ~Number /\ ~Casts!is_regproc_column(Casts!Operand(e))
        BY <2>5, <2>6, <2>7, <4>3 DEF Casts!rewrite_oid_cast
      <4> QED BY <4>1, <4>2, <4>3
    <3>2. {CastTo("bigint"), Casts!Call("pg_proc_oid"), Casts!Call("oid")} \subseteq Made
      <4>1. "bigint" \in Casts!PlannableTypes /\ {"pg_proc_oid", "oid"} \subseteq Lookups
        BY DEF Casts!PlannableTypes, Lookups
      <4> QED BY <4>1, MadeByName
    <3> QED BY <3>1, <3>2 DEF Instead
  <2>8. CASE s \notin Both("oid")
    <3>1. Casts!rewrite_oid_cast(e) = e
      BY <2>5, <2>8 DEF Casts!rewrite_oid_cast
    <3> QED BY <2>8, <3>1 DEF Instead, e
  <2> QED BY <2>7, <2>8
<1> QED BY <1>1, <1>2 DEF InPlace

(* Arrays cast to VARCHAR. *)
LEMMA AggregateCasts ==
  ASSUME NEW U, IsStepSet(U)
  PROVE  InPlace("rewrite_array_agg_varchar_cast", {}, U)
<1>1. ASSUME NEW b PROVE Casts!Node("rewrite_array_agg_varchar_cast", Expr(b, <<>>)) = Expr(b, <<>>)
  <2> DEFINE e == Expr(b, <<>>)
  <2>1. Casts!Alone(e) /\ ~Casts!IsCast(e)
    BY StepsOf DEF Casts!Alone, Casts!IsCast
  <2> HIDE DEF e
  <2>2. Casts!rewrite_array_agg_varchar_cast(e) = e
    BY <2>1 DEF Casts!rewrite_array_agg_varchar_cast, Casts!CastMatches
  <2> QED BY <2>2 DEF Casts!Node, e
<1>2. ASSUME NEW b, NEW y \in Seq(U), NEW s \in U
      PROVE  PutsInstead("rewrite_array_agg_varchar_cast", {}, b, y, s)
  <2> DEFINE e == Expr(b, Append(y, s))
  <2>1. OuterIs(e, b, y, s)
    BY OuterStep
  <2> HIDE DEF e
  <2>2. Casts!Node("rewrite_array_agg_varchar_cast", e) = Casts!rewrite_array_agg_varchar_cast(e)
    BY DEF Casts!Node
  <2>3. SUFFICES \E m \in Instead(s, {}) : Casts!rewrite_array_agg_varchar_cast(e) = Expr(b, Append(y, m))
    BY <2>2 DEF PutsInstead, e
  <2>4. Casts!IsStep(s)
    BY DEF IsStepSet
  <2>5. /\ Casts!Operand(e) = Expr(b, y)
        /\ Casts!CallOf("array_to_string", Expr(b, y)) = Expr(b, Append(y, Casts!Call("array_to_string")))
    BY <2>1 DEF OuterIs
  <2>6. Casts!rewrite_array_agg_varchar_cast(e)
          \in {e, Expr(b, Append(y, Casts!Call("array_to_string")))}
    BY <2>5 DEF Casts!rewrite_array_agg_varchar_cast
  <2>7. Casts!Call("array_to_string") \in Made
    BY MadeByName DEF Lookups
  <2> QED BY <2>6, <2>7 DEF Instead, e
<1> QED BY <1>1, <1>2 DEF InPlace

(* The types of pg_catalog that have another name in DataFusion, but for the *)
(* two a literal may be looked up by.                                        *)
RenamedCasts == {Casts!Cast(Casts!Type("pg_catalog", n, a)) :
              n \in DOMAIN Casts!datafusion_type_for \ {"regclass", "regtype"}, a \in BOOLEAN}

(* The name in DataFusion is one the planner knows. *)
LEMMA DataFusionTypes ==
  ASSUME NEW n \in DOMAIN Casts!datafusion_type_for
  PROVE  Casts!datafusion_type_for[n] \in Casts!PlannableTypes
BY DEF Casts!datafusion_type_for, Casts!PlannableTypes

(* What becomes of one step. *)
LEMMA QualifiedStep ==
  ASSUME NEW U, IsStepSet(U), NEW b, NEW y \in Seq(U), NEW s \in U
  PROVE  LET r == Casts!rewrite_schema_qualified_custom_types(Expr(b, Append(y, s)))
         IN  \/ \E m \in Made : r = Expr(b, Append(y, m))
             \/ /\ r = Expr(b, Append(y, s)) /\ s \notin RenamedCasts
                /\ s = Casts!Cast(Casts!Pg("regclass")) => Casts!is_string_literal_operand(Expr(b, y))
<1> DEFINE e == Expr(b, Append(y, s))
           r == Casts!rewrite_schema_qualified_custom_types(e)
           Taken == /\ s.op = "cast" /\ s.t.s = "pg_catalog" /\ s.t.n \in DOMAIN Casts!datafusion_type_for
                    /\ ~(/\ Casts!is_string_literal_operand(Expr(b, y))
                         /\ Casts!names_a_resolvable_identifier(s.t))
<1>1. OuterIs(e, b, y, s)
  BY OuterStep
<1>2. Casts!IsStep(s)
  BY DEF IsStepSet
<1> HIDE DEF e
<1>3. CASE Taken
  <2> DEFINE n == Casts!datafusion_type_for[s.t.n]
             m == Casts!Cast(Casts!Type(Casts!Unqualified, n, s.t.a))
  <2>1. r = Casts!WithType(e, Casts!Type(Casts!Unqualified, n, s.t.a))
    BY <1>1, <1>3 DEF OuterIs, Casts!rewrite_schema_qualified_custom_types
  <2>2. r = Expr(b, Append(y, m))
    <3> HIDE DEF n, r
    <3> QED BY <1>1, <2>1 DEF OuterIs
  <2>3. n \in Casts!PlannableTypes /\ s.t.a \in BOOLEAN
    BY <1>2, <1>3, CastIsType, DataFusionTypes
  <2> HIDE DEF n
  <2>4. m \in Made
    BY <2>3, MadeByName
  <2> QED BY <2>2, <2>4 DEF e
<1>4. CASE ~Taken
  <2>1. r = e
    BY <1>1, <1>4 DEF OuterIs, Casts!rewrite_schema_qualified_custom_types
  <2>2. ASSUME s \in RenamedCasts PROVE FALSE
    <3>1. PICK n \in DOMAIN Casts!datafusion_type_for \ {"regclass", "regtype"}, a \in BOOLEAN :
            s = Casts!Cast(Casts!Type("pg_catalog", n, a))
      BY <2>2 DEF RenamedCasts
    <3>2. s.op = "cast" /\ s.t.s = "pg_catalog" /\ s.t.n = n
      BY <3>1 DEF Casts!Cast, Casts!Type
    <3>3. ~Casts!names_a_resolvable_identifier(s.t)
      BY <3>1, <3>2 DEF Casts!names_a_resolvable_identifier, Casts!object_name_matches
    <3> QED BY <1>4, <3>2, <3>3
  <2>3. ASSUME s = Casts!Cast(Casts!Pg("regclass"))
        PROVE  Casts!is_string_literal_operand(Expr(b, y))
    <3>1. s.op = "cast" /\ s.t.s = "pg_catalog" /\ s.t.n = "regclass"
      BY <2>3 DEF Casts!Cast, Casts!Pg, Casts!Type
    <3>2. "regclass" \in DOMAIN Casts!datafusion_type_for
      BY DEF Casts!datafusion_type_for
    <3> QED BY <1>4, <3>1, <3>2
  <2> QED BY <2>1, <2>2, <2>3 DEF e
<1> QED BY <1>3, <1>4 DEF e

(* The passes that take steps away.  A literal's operand has no parentheses  *)
(* but the outermost: Firm says so, and the passes keep it.                  *)
NoOperand == Casts!Base("null", 0, FALSE)
Literal(b) == b.k \in {"lit", "boollit"}
Firm(b, y) == Literal(b) => \A i \in 1..Len(y) : y[i] = Casts!Paren => i = Len(y)

Loosens(p, R, V, b, y, s) ==
    \/ Casts!Node(p, Expr(b, Append(y, s))) = Expr(b, Append(y, s)) /\ s \notin R
    \/ \E c \in {b, NoOperand}, z \in Seq(V \cup Made) : Casts!Node(p, Expr(b, Append(y, s))) = Expr(c, z)
Loosely(p, R, U) ==
    /\ \A b : Casts!Node(p, Expr(b, <<>>)) = Expr(b, <<>>)
    /\ \A V \in SUBSET U : \A b : \A y \in Seq(V), s \in U : Loosens(p, R, V, b, y, s)

(* A sequence of a set's elements. *)
LEMMA InSeq ==
  ASSUME NEW S, NEW T, NEW z \in Seq(S), \A i \in 1..Len(z) : z[i] \in T
  PROVE  z \in Seq(T)
<1>1. z = [i \in 1..Len(z) |-> z[i]] /\ Len(z) \in Nat
  OBVIOUS
<1>2. z \in [1..Len(z) -> T]
  BY <1>1
<1> QED BY <1>1, <1>2, SeqDef

(* Over a whole operand. *)
LEMMA LoosePass ==
  ASSUME NEW U, Made \subseteq U, NEW p, NEW R, Loosely(p, R, U),
         NEW T \in SUBSET U, NEW b, NEW y \in Seq(T), Firm(b, y), IsStepSet(U)
  PROVE  \E c \in {b, NoOperand}, z \in Seq((T \ R) \cup Made) :
            Casts!rewrite_each_expression(p, Expr(b, y)) = Expr(c, z) /\ Firm(c, z)
<1> DEFINE V == (T \ R) \cup Made
           Z(c, n) == {z \in Seq(V) : Literal(c) => \A i \in 1..Len(z) :
                                        z[i] = Casts!Paren => i = Len(z) /\ n = Len(y)}
           S == [n \in 0..Len(y) |-> UNION {{Expr(c, z) : z \in Z(c, n)} : c \in {b, NoOperand}}]
           e == Expr(b, y)
<1>1. e.steps = y /\ Len(e.steps) \in Nat
  BY StepsOf
<1>0. ~Literal(NoOperand) /\ V \subseteq U /\ \A m \in Made : m # Casts!Paren
  <2>1. NoOperand.k = "null"
    BY DEF NoOperand, Casts!Base
  <2> QED BY <2>1, MadeSteps DEF Literal
<1>2. Visited(p, e) \in S[0]
  <2>1. Visited(p, e) = Expr(b, <<>>)
    BY WalkSteps DEF Loosely
  <2>2. <<>> \in Z(b, 0)
    OBVIOUS
  <2>3. 0 \in 0..Len(y)
    OBVIOUS
  <2> HIDE DEF Z, e
  <2>4. Expr(b, <<>>) \in {Expr(b, z) : z \in Z(b, 0)}
    BY <2>2
  <2> QED BY <2>1, <2>3, <2>4
<1>3. ASSUME NEW n \in 1..Len(y), NEW x \in S[n - 1]
      PROVE  Around(p, x, y[n]) \in S[n]
  <2>1. n - 1 \in 0..Len(y) /\ n \in 0..Len(y) /\ y[n] \in T /\ n - 1 # Len(y) /\ y[n] \in U
    OBVIOUS
  <2>2. PICK c \in {b, NoOperand} : x \in {Expr(c, z) : z \in Z(c, n - 1)}
    <3> HIDE DEF Z
    <3> QED BY <2>1
  <2>3. PICK z \in Z(c, n - 1) : x = Expr(c, z)
    BY <2>2
  <2>4. z \in Seq(V) /\ Len(z) \in Nat /\ (Literal(c) => \A i \in 1..Len(z) : z[i] # Casts!Paren)
    BY <2>1, <2>3
  <2> DEFINE W == IF Literal(c) THEN V \ {Casts!Paren} ELSE V
  <2>5. W \subseteq V /\ W \in SUBSET U
    BY <1>0
  <2>6. z \in Seq(W)
    <3>1. \A i \in 1..Len(z) : z[i] \in W
      BY <2>4
    <3> HIDE DEF W, V, Z
    <3> QED BY <2>4, <3>1, InSeq
  <2>7. Around(p, x, y[n]) = Casts!Node(p, Expr(c, Append(z, y[n])))
    <3> HIDE DEF W, V, Z, S, e
    <3>1. Around(p, Expr(c, z), y[n]) = Casts!Node(p, Expr(c, Append(z, y[n])))
      BY WalkAround
    <3> QED BY <2>3, <3>1
  <2>8. Loosens(p, R, W, c, z, y[n])
    <3> HIDE DEF W, V, Z, S
    <3> QED BY <2>1, <2>5, <2>6 DEF Loosely
  <2>9. ASSUME NEW d \in {b, NoOperand}, NEW w \in Z(d, n) PROVE Expr(d, w) \in S[n]
    <3> HIDE DEF Z
    <3>1. Expr(d, w) \in {Expr(d, v) : v \in Z(d, n)}
      OBVIOUS
    <3> QED BY <2>1, <3>1
  <2>10. CASE Casts!Node(p, Expr(c, Append(z, y[n]))) = Expr(c, Append(z, y[n])) /\ y[n] \notin R
    <3> DEFINE w == Append(z, y[n])
    <3>1. y[n] \in V
      BY <2>1, <2>10
    <3>2. w \in Seq(V) /\ Len(w) = Len(z) + 1 /\ w[Len(w)] = y[n] /\ \A i \in 1..Len(z) : w[i] = z[i]
      <4> HIDE DEF V, Z
      <4> QED BY <2>4, <3>1, AppendProperties
    <3> HIDE DEF w
    <3>3. ASSUME Literal(c), NEW i \in 1..Len(w), w[i] = Casts!Paren PROVE i = Len(w) /\ n = Len(y)
      <4>1. c = b
        BY <1>0, <3>3
      <4>2. i \in 1..Len(z) \/ i = Len(w)
        BY <2>4, <3>2
      <4>3. i = Len(w)
        BY <2>4, <3>2, <3>3, <4>2
      <4>4. n \in 1..Len(y) /\ y[n] = Casts!Paren
        BY <3>2, <3>3, <4>3
      <4> HIDE DEF V, Z, S
      <4> QED BY <3>3, <4>1, <4>3, <4>4 DEF Firm
    <3>4. w \in Z(c, n)
      <4> HIDE DEF V
      <4> QED BY <3>2, <3>3
    <3> HIDE DEF S, Z, V
    <3>5. Expr(c, w) \in S[n]
      BY <2>9, <3>4
    <3> QED BY <2>7, <2>10, <3>5 DEF w
  <2>11. CASE \E d \in {c, NoOperand}, w \in Seq(W \cup Made) : Casts!Node(p, Expr(c, Append(z, y[n]))) = Expr(d, w)
    <3>1. PICK d \in {c, NoOperand}, w \in Seq(W \cup Made) : Casts!Node(p, Expr(c, Append(z, y[n]))) = Expr(d, w)
      BY <2>11
    <3>2. \A i \in 1..Len(w) : w[i] \in W \cup Made
      <4> HIDE DEF W, V, Z, S
      <4> QED OBVIOUS
    <3>3. \A i \in 1..Len(w) : w[i] \in V /\ (Literal(c) => w[i] # Casts!Paren)
      BY <1>0, <3>2
    <3>4. w \in Seq(V)
      <4> HIDE DEF W, V, Z, S
      <4> QED BY <3>3, InSeq
    <3>5. Literal(d) => d = c
      BY <1>0
    <3>6. w \in Z(d, n) /\ d \in {b, NoOperand}
      <4> HIDE DEF W, V, S
      <4> QED BY <3>3, <3>4, <3>5
    <3> HIDE DEF W, V, Z, S
    <3> QED BY <2>7, <2>9, <3>1, <3>6
  <2> HIDE DEF W, V, Z, S
  <2> QED BY <2>8, <2>10, <2>11 DEF Loosens
<1> HIDE DEF S
<1>4. Casts!rewrite_each_expression(p, e) \in S[Len(y)]
  <2> HIDE DEF e
  <2> QED BY <1>1, <1>2, <1>3, WalkInduction
<1>5. PICK c \in {b, NoOperand} : \E z \in Z(c, Len(y)) : Casts!rewrite_each_expression(p, e) = Expr(c, z)
  <2>1. Len(y) \in 0..Len(y)
    OBVIOUS
  <2> HIDE DEF Z, e
  <2> QED BY <1>4, <2>1 DEF S
<1>6. PICK z \in Z(c, Len(y)) : Casts!rewrite_each_expression(p, e) = Expr(c, z)
  BY <1>5
<1>7. z \in Seq(V) /\ Firm(c, z)
  BY <1>6 DEF Firm
<1> QED BY <1>6, <1>7

(* Collations that are the default. *)
LEMMA Collations ==
  ASSUME NEW U, IsStepSet(U)
  PROVE  Loosely("strip_default_collate", {Casts!Collate(Casts!Pg("default"))}, U)
<1>1. ASSUME NEW b PROVE Casts!Node("strip_default_collate", Expr(b, <<>>)) = Expr(b, <<>>)
  <2> DEFINE e == Expr(b, <<>>)
  <2>1. Casts!Alone(e) /\ ~Casts!IsCast(e)
    BY StepsOf DEF Casts!Alone, Casts!IsCast
  <2> HIDE DEF e
  <2>2. Casts!strip_default_collate(e) = e
    BY <2>1 DEF Casts!strip_default_collate, Casts!CastMatches
  <2> QED BY <2>2 DEF Casts!Node, e
<1>2. ASSUME NEW V \in SUBSET U, NEW b, NEW y \in Seq(V), NEW s \in U
      PROVE  Loosens("strip_default_collate", {Casts!Collate(Casts!Pg("default"))}, V, b, y, s)
  <2> DEFINE e == Expr(b, Append(y, s))
  <2>1. OuterIs(e, b, y, s)
    BY OuterStep
  <2> HIDE DEF e
  <2>2. Casts!Node("strip_default_collate", e) = Casts!strip_default_collate(e)
    BY DEF Casts!Node
  <2>3. SUFFICES \/ Casts!strip_default_collate(e) = e /\ s \notin {Casts!Collate(Casts!Pg("default"))}
                 \/ \E c \in {b, NoOperand}, z \in Seq(V \cup Made) : Casts!strip_default_collate(e) = Expr(c, z)
    BY <2>2 DEF Loosens, e
  <2>4. Casts!IsStep(s) /\ y \in Seq(V \cup Made)
    BY DEF IsStepSet
  <2>5. CASE s = Casts!Collate(Casts!Pg("default"))
    <3>1. Casts!strip_default_collate(e) = Expr(b, y)
      BY <2>1, <2>5 DEF OuterIs, Casts!strip_default_collate
    <3> QED BY <2>4, <3>1
  <2>6. CASE s # Casts!Collate(Casts!Pg("default"))
    <3>1. Casts!strip_default_collate(e) = e
      BY <2>1, <2>6 DEF OuterIs, Casts!strip_default_collate
    <3> QED BY <2>6, <3>1
  <2> QED BY <2>5, <2>6
<1> QED BY <1>1, <1>2 DEF Loosely

(* A cast to regoper is NULL, whatever it casts. *)
LEMMA Operators ==
  ASSUME NEW U, IsStepSet(U)
  PROVE  Loosely("rewrite_regoper_cast", Both("regoper"), U)
<1>1. ASSUME NEW b PROVE Casts!Node("rewrite_regoper_cast", Expr(b, <<>>)) = Expr(b, <<>>)
  <2> DEFINE e == Expr(b, <<>>)
  <2>1. Casts!Alone(e) /\ ~Casts!IsCast(e)
    BY StepsOf DEF Casts!Alone, Casts!IsCast
  <2> HIDE DEF e
  <2>2. Casts!rewrite_regoper_cast(e) = e
    BY <2>1 DEF Casts!rewrite_regoper_cast, Casts!CastMatches
  <2> QED BY <2>2 DEF Casts!Node, e
<1>2. ASSUME NEW V \in SUBSET U, NEW b, NEW y \in Seq(V), NEW s \in U
      PROVE  Loosens("rewrite_regoper_cast", Both("regoper"), V, b, y, s)
  <2> DEFINE e == Expr(b, Append(y, s))
  <2>1. OuterIs(e, b, y, s)
    BY OuterStep
  <2> HIDE DEF e
  <2>2. Casts!Node("rewrite_regoper_cast", e) = Casts!rewrite_regoper_cast(e)
    BY DEF Casts!Node
  <2>3. SUFFICES \/ Casts!rewrite_regoper_cast(e) = e /\ s \notin Both("regoper")
                 \/ \E c \in {b, NoOperand}, z \in Seq(V \cup Made) : Casts!rewrite_regoper_cast(e) = Expr(c, z)
    BY <2>2 DEF Loosens, e
  <2>4. Casts!IsStep(s) /\ y \in Seq(V \cup Made)
    BY DEF IsStepSet
  <2>5. Casts!CastMatches(e, "regoper") <=> s \in Both("regoper")
    <3>1. Casts!CastMatches(e, "regoper") <=> (s.op = "cast" /\ Casts!object_name_matches(s.t, "regoper"))
      BY <2>1 DEF OuterIs, Casts!CastMatches
    <3> QED BY <2>4, <3>1, MatchesBoth
  <2>6. CASE s \in Both("regoper")
    <3>1. Casts!rewrite_regoper_cast(e) = Expr(NoOperand, <<>>)
      BY <2>5, <2>6 DEF Casts!rewrite_regoper_cast, Expr, NoOperand
    <3>2. <<>> \in Seq(V \cup Made)
      OBVIOUS
    <3> QED BY <3>1, <3>2
  <2>7. CASE s \notin Both("regoper")
    BY <2>5, <2>7 DEF Casts!rewrite_regoper_cast
  <2> QED BY <2>6, <2>7
<1> QED BY <1>1, <1>2 DEF Loosely

(* Literals that name a function, cast to regproc and to oid. *)
LEMMA ProcedureLiterals ==
  ASSUME NEW U, IsStepSet(U)
  PROVE  Loosely("resolve_regproc_literals", {}, U)
<1>1. ASSUME NEW b PROVE Casts!Node("resolve_regproc_literals", Expr(b, <<>>)) = Expr(b, <<>>)
  <2> DEFINE e == Expr(b, <<>>)
  <2>1. Casts!Alone(e) /\ ~Casts!IsCast(e)
    BY StepsOf DEF Casts!Alone, Casts!IsCast
  <2> HIDE DEF e
  <2>2. Casts!resolve_regproc_literals_to_function_oids(e) = e
    BY <2>1 DEF Casts!resolve_regproc_literals_to_function_oids, Casts!CastMatches
  <2> QED BY <2>2 DEF Casts!Node, e
<1>2. ASSUME NEW V \in SUBSET U, NEW b, NEW y \in Seq(V), NEW s \in U
      PROVE  Loosens("resolve_regproc_literals", {}, V, b, y, s)
  <2> DEFINE e == Expr(b, Append(y, s))
  <2>1. OuterIs(e, b, y, s)
    BY OuterStep
  <2> HIDE DEF e
  <2>2. Casts!Node("resolve_regproc_literals", e) = Casts!resolve_regproc_literals_to_function_oids(e)
    BY DEF Casts!Node
  <2>3. SUFFICES \/ Casts!resolve_regproc_literals_to_function_oids(e) = e /\ s \notin {}
                 \/ \E c \in {b, NoOperand}, z \in Seq(V \cup Made) : Casts!resolve_regproc_literals_to_function_oids(e) = Expr(c, z)
    BY <2>2 DEF Loosens, e
  <2>4. Casts!IsStep(s) /\ y \in Seq(V \cup Made)
    BY DEF IsStepSet
  <2> DEFINE x == Casts!Operand(e)
             Taken == /\ Casts!CastMatches(e, "oid") /\ Casts!CastMatches(x, "regproc")
                      /\ Casts!is_string_literal_operand(Casts!Operand(x))
  <2>5. CASE Taken
    <3>1. Casts!resolve_regproc_literals_to_function_oids(e) = Casts!CallOf("pg_proc_oid", Casts!Operand(x))
      BY <2>5 DEF Casts!resolve_regproc_literals_to_function_oids
    <3>2. x = Expr(b, y) /\ y # <<>>
      <4>1. x = Expr(b, y) /\ ~Casts!Alone(x)
        BY <2>1, <2>5 DEF OuterIs, Casts!CastMatches, Casts!IsCast
      <4> HIDE DEF x
      <4> QED BY <4>1, StepsOf DEF Casts!Alone
    <3>3. Casts!Operand(x) = Expr(b, Casts!Front(y))
      <4>1. x.steps = y /\ \A z : [x EXCEPT !.steps = z] = Expr(b, z)
        BY <3>2, StepsOf
      <4> HIDE DEF x
      <4> QED BY <4>1 DEF Casts!Operand
    <3>4. Casts!Front(y) \in Seq(V)
      BY <3>2 DEF Casts!Front
    <3> DEFINE f == Casts!Front(y)
               m == Casts!Call("pg_proc_oid")
    <3>5. Casts!CallOf("pg_proc_oid", Expr(b, f)) = Expr(b, Append(f, m))
      <4>0. f \in Seq(V)
        BY <3>4
      <4> HIDE DEF f
      <4>1. OuterIs(Expr(b, Append(f, m)), b, f, m)
        BY <4>0, OuterStep
      <4> QED BY <4>1 DEF OuterIs
    <3>6. m \in Made
      BY MadeByName DEF Lookups
    <3> HIDE DEF f, m, x
    <3>7. Append(f, m) \in Seq(V \cup Made)
      BY <3>4, <3>6 DEF f
    <3> QED BY <3>1, <3>3, <3>5, <3>7 DEF f
  <2>6. CASE ~Taken
    BY <2>6 DEF Casts!resolve_regproc_literals_to_function_oids
  <2> QED BY <2>5, <2>6
<1> QED BY <1>1, <1>2 DEF Loosely

(* A pass that keeps the base: Z gives the steps there may be after each      *)
(* number of steps of the operand.                                           *)
StepsTo(p, b, z, s, W) == \E w \in W : Casts!Node(p, Expr(b, Append(z, s))) = Expr(b, w)

(* Over a whole operand. *)
LEMMA StepsPass ==
  ASSUME NEW U, NEW p, NEW b, NEW y \in Seq(U), NEW Z,
         Casts!Node(p, Expr(b, <<>>)) = Expr(b, <<>>), <<>> \in Z[0],
         \A n \in 1..Len(y) : \A z \in Z[n - 1] : StepsTo(p, b, z, y[n], Z[n])
  PROVE  \E z \in Z[Len(y)] : Casts!rewrite_each_expression(p, Expr(b, y)) = Expr(b, z)
<1> DEFINE S == [n \in 0..Len(y) |-> {Expr(b, z) : z \in Z[n]}]
           e == Expr(b, y)
<1>1. e.steps = y /\ Len(e.steps) \in Nat
  BY StepsOf
<1>2. Visited(p, e) \in S[0]
  <2>1. Visited(p, e) = Expr(b, <<>>)
    BY WalkSteps
  <2>2. 0 \in 0..Len(y)
    OBVIOUS
  <2> HIDE DEF e
  <2> QED BY <2>1, <2>2
<1>3. ASSUME NEW n \in 1..Len(y), NEW x \in S[n - 1]
      PROVE  Around(p, x, y[n]) \in S[n]
  <2>1. n - 1 \in 0..Len(y) /\ n \in 0..Len(y)
    OBVIOUS
  <2>2. PICK z \in Z[n - 1] : x = Expr(b, z)
    BY <2>1
  <2>3. PICK w \in Z[n] : Casts!Node(p, Expr(b, Append(z, y[n]))) = Expr(b, w)
    BY DEF StepsTo
  <2>4. Around(p, x, y[n]) = Expr(b, w)
    <3>1. Around(p, Expr(b, z), y[n]) = Casts!Node(p, Expr(b, Append(z, y[n])))
      BY WalkAround
    <3> HIDE DEF S
    <3> QED BY <2>2, <2>3, <3>1
  <2> QED BY <2>1, <2>4
<1> HIDE DEF S
<1>4. Casts!rewrite_each_expression(p, e) \in S[Len(y)]
  <2> HIDE DEF e
  <2> QED BY <1>1, <1>2, <1>3, WalkInduction
<1>5. Len(y) \in 0..Len(y)
  OBVIOUS
<1> QED BY <1>4, <1>5 DEF S

(* pg_catalog.regclass is left around a bare literal only. *)
FirstOnly(b, z) ==
    \A i \in 1..Len(z) : z[i] = Casts!Cast(Casts!Pg("regclass")) => i = 1 /\ Literal(b)

(* So rewrite_schema_qualified_custom_types leaves it. *)
LEMMA QualifiedPass ==
  ASSUME NEW U, IsStepSet(U), NEW T \in SUBSET U, NEW b, NEW y \in Seq(T), Firm(b, y)
  PROVE  \E z \in Seq((T \ RenamedCasts) \cup Made) :
            /\ Casts!rewrite_each_expression("rewrite_schema_qualified_custom_types", Expr(b, y)) = Expr(b, z)
            /\ FirstOnly(b, z)
<1> DEFINE p == "rewrite_schema_qualified_custom_types"
           V == (T \ RenamedCasts) \cup Made
           Z == [n \in 0..Len(y) |-> {z \in Seq(V) : /\ Len(z) = n /\ FirstOnly(b, z)
                                                     /\ \A i \in 1..n : z[i] \in Made \cup {y[i]}}]
           rc == Casts!Cast(Casts!Pg("regclass"))
<1>1. Casts!Node(p, Expr(b, <<>>)) = Expr(b, <<>>)
  <2> DEFINE e == Expr(b, <<>>)
  <2>1. Casts!Alone(e) /\ ~Casts!IsCast(e)
    BY StepsOf DEF Casts!Alone, Casts!IsCast
  <2> HIDE DEF e
  <2>2. Casts!rewrite_schema_qualified_custom_types(e) = e
    BY <2>1 DEF Casts!rewrite_schema_qualified_custom_types
  <2> QED BY <2>2 DEF Casts!Node, e
<1>2. <<>> \in Z[0]
  BY DEF FirstOnly
<1>3. ASSUME NEW n \in 1..Len(y), NEW z \in Z[n - 1] PROVE StepsTo(p, b, z, y[n], Z[n])
  <2>1. n - 1 \in 0..Len(y) /\ n \in 0..Len(y) /\ y[n] \in T /\ V \subseteq U
    BY DEF IsStepSet
  <2>2. /\ z \in Seq(V) /\ Len(z) = n - 1 /\ FirstOnly(b, z)
        /\ \A i \in 1..(n - 1) : z[i] \in Made \cup {y[i]}
    <3> HIDE DEF V
    <3> QED BY <2>1
  <2>3. z \in Seq(U) /\ y[n] \in U
    BY <2>1, <2>2
  <2> HIDE DEF Z
  <2>4. ASSUME NEW m \in Made \cup {y[n]}, m \in V,
               m = rc => m = y[n] /\ Casts!is_string_literal_operand(Expr(b, z))
        PROVE  Append(z, m) \in Z[n]
    <3> DEFINE w == Append(z, m)
    <3>1. w \in Seq(V) /\ Len(w) = n /\ w[n] = m /\ \A i \in 1..(n - 1) : w[i] = z[i]
      <4> HIDE DEF V
      <4> QED BY <2>2, <2>4, AppendProperties
    <3> HIDE DEF w
    <3>2. \A i \in 1..n : i \in 1..(n - 1) \/ i = n
      OBVIOUS
    <3>3. \A i \in 1..n : w[i] \in Made \cup {y[i]}
      BY <2>2, <2>4, <3>1, <3>2
    <3>4. ASSUME m = rc PROVE n = 1 /\ Literal(b)
      <4>1. Casts!is_string_literal_operand(Expr(b, z))
        BY <2>4, <3>4
      <4>2. Literal(b) /\ \A i \in DOMAIN z : z[i] = Casts!Paren
        BY <4>1, StepsOf DEF Casts!is_string_literal_operand, Literal
      <4>3. ASSUME n # 1 PROVE FALSE
        <5>1. 1 \in 1..(n - 1) /\ 1 \in DOMAIN z /\ 1 \in 1..Len(y) /\ 1 # Len(y)
          <6> HIDE DEF V
          <6> QED BY <2>2, <4>3
        <5>2. z[1] = Casts!Paren /\ z[1] \in Made \cup {y[1]}
          BY <2>2, <4>2, <5>1
        <5>3. y[1] = Casts!Paren
          BY <5>2, MadeSteps
        <5> QED BY <4>2, <5>1, <5>3 DEF Firm
      <4> QED BY <4>2, <4>3
    <3>5. FirstOnly(b, w)
      <4> SUFFICES ASSUME NEW i \in 1..n, w[i] = rc PROVE i = 1 /\ Literal(b)
        BY <3>1 DEF FirstOnly
      <4>1. CASE i = n
        BY <3>1, <3>4, <4>1
      <4>2. CASE i \in 1..(n - 1)
        BY <2>2, <3>1, <4>2 DEF FirstOnly
      <4> QED BY <3>2, <4>1, <4>2
    <3>6. w \in Z[n]
      <4> HIDE DEF V
      <4> QED BY <2>1, <3>1, <3>3, <3>5 DEF Z
    <3> QED BY <3>6 DEF w
  <2> DEFINE r == Casts!rewrite_schema_qualified_custom_types(Expr(b, Append(z, y[n])))
  <2>5. Casts!Node(p, Expr(b, Append(z, y[n]))) = r
    BY DEF Casts!Node
  <2>6. \/ \E m \in Made : r = Expr(b, Append(z, m))
        \/ /\ r = Expr(b, Append(z, y[n])) /\ y[n] \notin RenamedCasts
           /\ y[n] = rc => Casts!is_string_literal_operand(Expr(b, z))
    <3> HIDE DEF V
    <3> QED BY <2>3, QualifiedStep, Zenon
  <2> HIDE DEF r
  <2>7. CASE \E m \in Made : r = Expr(b, Append(z, m))
    <3>1. PICK m \in Made : r = Expr(b, Append(z, m))
      BY <2>7
    <3>2. m # rc
      BY MadeSteps DEF Both
    <3>3. Append(z, m) \in Z[n]
      BY <2>4, <3>2
    <3> QED BY <2>5, <3>1, <3>3 DEF StepsTo
  <2>8. CASE /\ r = Expr(b, Append(z, y[n])) /\ y[n] \notin RenamedCasts
             /\ y[n] = rc => Casts!is_string_literal_operand(Expr(b, z))
    <3>1. Append(z, y[n]) \in Z[n]
      BY <2>1, <2>4, <2>8
    <3> QED BY <2>5, <2>8, <3>1 DEF StepsTo
  <2> QED BY <2>6, <2>7, <2>8
<1> HIDE DEF Z
<1>4. PICK z \in Z[Len(y)] : Casts!rewrite_each_expression(p, Expr(b, y)) = Expr(b, z)
  <2> HIDE DEF p, V
  <2> QED BY <1>1, <1>2, <1>3, StepsPass
<1>5. Len(y) \in 0..Len(y)
  OBVIOUS
<1>6. z \in Seq(V) /\ FirstOnly(b, z)
  BY <1>4, <1>5 DEF Z
<1> QED BY <1>4, <1>6

(* No literal is cast to regclass directly. *)
NotFirst(b, z) == (Literal(b) /\ z # <<>>) => z[1] # CastTo("regclass")

(* What replace_regclass makes of one step. *)
LEMMA RegclassStep ==
  ASSUME NEW U, IsStepSet(U), NEW b, NEW z \in Seq(U), NEW s \in U
  PROVE  LET r == Casts!replace_regclass(Expr(b, Append(z, s)))
         IN  \/ r = Expr(b, z) /\ z # <<>>
             \/ r = Expr(b, Append(z, Casts!Call("oid")))
             \/ /\ r = Expr(b, Append(z, s))
                /\ s \in Both("regclass") => ~(z = <<>> /\ Literal(b))
<1> DEFINE e == Expr(b, Append(z, s))
           x == Expr(b, z)
           Collapses == /\ Casts!IsCast(e) /\ Casts!CastType(e) = Casts!Bare("oid")
                        /\ Len(e.steps) = 2 /\ Casts!Outer(Casts!Operand(e)) = Casts!Call("oid")
                        /\ Casts!IsLiteral(Casts!Operand(Casts!Operand(e)))
           Names == /\ Casts!IsCast(e) /\ Casts!is_regclass_type(Casts!CastType(e))
                    /\ Casts!IsLiteral(Casts!Operand(e))
           r == Casts!replace_regclass(e)
<1>1. OuterIs(e, b, z, s)
  BY OuterStep
<1>2. Casts!IsStep(s)
  BY DEF IsStepSet
<1> HIDE DEF e
<1>3. /\ Casts!Operand(e) = x /\ (Casts!IsCast(e) <=> s.op = "cast") /\ Casts!CastType(e) = s.t
      /\ Len(e.steps) = Len(z) + 1
      /\ Casts!CallOf("oid", x) = Expr(b, Append(z, Casts!Call("oid")))
  BY <1>1 DEF OuterIs
<1>4. Casts!IsLiteral(x) <=> z = <<>> /\ Literal(b)
  BY StepsOf DEF Casts!IsLiteral, Casts!Alone, Literal
<1>5. (s.op = "cast" /\ Casts!is_regclass_type(s.t)) <=> s \in Both("regclass")
  BY <1>2, MatchesBoth DEF Casts!is_regclass_type
<1> HIDE DEF x
<1>6. CASE Collapses
  <2>1. ~Names
    <3>1. Casts!Bare("oid").n = "oid"
      BY DEF Casts!Bare, Casts!Type
    <3> QED BY <1>6, <3>1 DEF Casts!is_regclass_type, Casts!object_name_matches
  <2>2. r = x
    BY <1>3, <1>6, <2>1 DEF Casts!replace_regclass
  <2>3. z # <<>>
    <3>1. Len(z) + 1 = 2
      BY <1>3, <1>6
    <3> QED BY <3>1
  <2> QED BY <2>2, <2>3 DEF x, e
<1>7. CASE ~Collapses /\ Names
  <2>1. r = Casts!CallOf("oid", x)
    BY <1>3, <1>7 DEF Casts!replace_regclass
  <2> QED BY <1>3, <2>1 DEF e
<1>8. CASE ~Collapses /\ ~Names
  <2>1. r = e
    BY <1>8 DEF Casts!replace_regclass
  <2>2. s \in Both("regclass") => ~(z = <<>> /\ Literal(b))
    BY <1>3, <1>4, <1>5, <1>8
  <2> QED BY <2>1, <2>2 DEF e
<1> QED BY <1>6, <1>7, <1>8

(* After it no pg_catalog.regclass is left. *)
LEMMA RegclassPass ==
  ASSUME NEW U, IsStepSet(U), NEW T \in SUBSET U, NEW b, NEW y \in Seq(T), FirstOnly(b, y)
  PROVE  \E z \in Seq((T \ {Casts!Cast(Casts!Pg("regclass"))}) \cup Made) :
            /\ Casts!rewrite_each_expression("replace_regclass", Expr(b, y)) = Expr(b, z)
            /\ NotFirst(b, z)
<1> DEFINE p == "replace_regclass"
           rc == Casts!Cast(Casts!Pg("regclass"))
           V == (T \ {rc}) \cup Made
           Z == [n \in 0..Len(y) |-> {z \in Seq(V) : /\ n = 0 <=> z = <<>>
                                                     /\ NotFirst(b, z)}]
<1>1. Casts!Node(p, Expr(b, <<>>)) = Expr(b, <<>>)
  <2> DEFINE e == Expr(b, <<>>)
  <2>1. Casts!Alone(e) /\ ~Casts!IsCast(e)
    BY StepsOf DEF Casts!Alone, Casts!IsCast
  <2> HIDE DEF e
  <2>2. Casts!replace_regclass(e) = e
    BY <2>1 DEF Casts!replace_regclass
  <2> QED BY <2>2 DEF Casts!Node, e
<1>2. <<>> \in Z[0]
  BY DEF NotFirst
<1>3. ASSUME NEW n \in 1..Len(y), NEW z \in Z[n - 1] PROVE StepsTo(p, b, z, y[n], Z[n])
  <2>1. n - 1 \in 0..Len(y) /\ n \in 0..Len(y) /\ n # 0 /\ y[n] \in T /\ V \subseteq U
    BY DEF IsStepSet
  <2>2. z \in Seq(V) /\ (n = 1 <=> z = <<>>) /\ NotFirst(b, z)
    <3> HIDE DEF V
    <3> QED BY <2>1
  <2>3. z \in Seq(U) /\ y[n] \in U
    BY <2>1, <2>2
  <2> HIDE DEF Z
  <2>4. ASSUME NEW w \in Seq(V), w # <<>>, NotFirst(b, w) PROVE w \in Z[n]
    <3> HIDE DEF V
    <3> QED BY <2>1, <2>4 DEF Z
  <2>5. ASSUME NEW m \in V, m = CastTo("regclass") => ~(z = <<>> /\ Literal(b))
        PROVE  Append(z, m) \in Z[n]
    <3> DEFINE w == Append(z, m)
    <3>1. w \in Seq(V) /\ w # <<>> /\ (z = <<>> => w[1] = m) /\ (z # <<>> => w[1] = z[1])
      <4> HIDE DEF V
      <4>1. Len(z) \in Nat /\ (z # <<>> => Len(z) # 0)
        BY <2>2
      <4> QED BY <2>2, <4>1, AppendProperties
    <3> HIDE DEF w
    <3>2. NotFirst(b, w)
      BY <2>2, <2>5, <3>1 DEF NotFirst
    <3>3. w \in Z[n]
      BY <2>4, <3>1, <3>2
    <3> QED BY <3>3 DEF w
  <2> DEFINE r == Casts!replace_regclass(Expr(b, Append(z, y[n])))
  <2>6. Casts!Node(p, Expr(b, Append(z, y[n]))) = r
    BY DEF Casts!Node
  <2>7. \/ r = Expr(b, z) /\ z # <<>>
        \/ r = Expr(b, Append(z, Casts!Call("oid")))
        \/ /\ r = Expr(b, Append(z, y[n]))
           /\ y[n] \in Both("regclass") => ~(z = <<>> /\ Literal(b))
    <3> HIDE DEF V
    <3> QED BY <2>3, RegclassStep, Zenon
  <2> HIDE DEF r
  <2>8. CASE r = Expr(b, z) /\ z # <<>>
    <3>1. z \in Z[n]
      BY <2>2, <2>4, <2>8
    <3> QED BY <2>6, <2>8, <3>1 DEF StepsTo
  <2>9. CASE r = Expr(b, Append(z, Casts!Call("oid")))
    <3>1. Casts!Call("oid") \in Made
      BY MadeByName DEF Lookups
    <3>2. Casts!Call("oid") # CastTo("regclass")
      BY <3>1, MadeSteps DEF Both, CastTo
    <3>3. Append(z, Casts!Call("oid")) \in Z[n]
      BY <2>5, <3>1, <3>2
    <3> QED BY <2>6, <2>9, <3>3 DEF StepsTo
  <2>10. CASE /\ r = Expr(b, Append(z, y[n]))
              /\ y[n] \in Both("regclass") => ~(z = <<>> /\ Literal(b))
    <3>1. y[n] # rc
      <4>1. ASSUME y[n] = rc PROVE FALSE
        <5>1. n = 1 /\ Literal(b)
          <6> HIDE DEF V, rc
          <6> QED BY <4>1 DEF FirstOnly, rc
        <5> QED BY <2>2, <2>10, <4>1, <5>1 DEF Both
      <4> QED BY <4>1
    <3>2. y[n] \in V
      BY <2>1, <3>1
    <3>3. y[n] = CastTo("regclass") => ~(z = <<>> /\ Literal(b))
      BY <2>10 DEF Both, CastTo
    <3>4. Append(z, y[n]) \in Z[n]
      <4> HIDE DEF V
      <4> QED BY <2>5, <3>2, <3>3
    <3> QED BY <2>6, <2>10, <3>4 DEF StepsTo
  <2> QED BY <2>7, <2>8, <2>9, <2>10
<1> HIDE DEF Z
<1>4. PICK z \in Z[Len(y)] : Casts!rewrite_each_expression(p, Expr(b, y)) = Expr(b, z)
  <2> HIDE DEF p, V
  <2> QED BY <1>1, <1>2, <1>3, StepsPass
<1>5. Len(y) \in 0..Len(y)
  OBVIOUS
<1>6. z \in Seq(V) /\ NotFirst(b, z)
  BY <1>4, <1>5 DEF Z
<1> QED BY <1>4, <1>6

(* What drop_redundant_oid_and_regclass_casts makes of one step. *)
LEMMA RedundantStep ==
  ASSUME NEW U, IsStepSet(U), NEW b, NEW z \in Seq(U), NEW s \in U
  PROVE  LET r == Casts!drop_redundant_oid_and_regclass_casts(Expr(b, Append(z, s)))
             bare == z = <<>> /\ Literal(b)
         IN  \/ r = Expr(b, z) /\ ~bare
             \/ r = Expr(b, Append(z, s)) /\ (s = CastTo("regclass") => bare)
<1> DEFINE e == Expr(b, Append(z, s))
           x == Expr(b, z)
           r == Casts!drop_redundant_oid_and_regclass_casts(e)
           bare == z = <<>> /\ Literal(b)
<1>1. OuterIs(e, b, z, s)
  BY OuterStep
<1> HIDE DEF e
<1>2. Casts!Operand(e) = x /\ (Casts!IsCast(e) <=> s.op = "cast") /\ Casts!CastType(e) = s.t
  BY <1>1 DEF OuterIs
<1>3. Casts!IsLiteral(x) <=> bare
  BY StepsOf DEF Casts!IsLiteral, Casts!Alone, Literal
<1>4. s = CastTo("regclass") => s.op = "cast" /\ s.t = Casts!Bare("regclass")
  BY DEF CastTo, Casts!Cast
<1> HIDE DEF x, bare
<1>5. \/ r = x /\ ~bare
      \/ r = e /\ (s = CastTo("regclass") => bare)
  BY <1>2, <1>3, <1>4 DEF Casts!drop_redundant_oid_and_regclass_casts
<1> QED BY <1>5 DEF e, x, bare

(* After it no regclass is left. *)
LEMMA RedundantPass ==
  ASSUME NEW U, IsStepSet(U), NEW T \in SUBSET U, NEW b, NEW y \in Seq(T), NotFirst(b, y)
  PROVE  \E z \in Seq((T \ {CastTo("regclass")}) \cup Made) :
            Casts!rewrite_each_expression("drop_redundant_oid_and_regclass_casts", Expr(b, y)) = Expr(b, z)
<1> DEFINE p == "drop_redundant_oid_and_regclass_casts"
           V == (T \ {CastTo("regclass")}) \cup Made
           Z == [n \in 0..Len(y) |-> {z \in Seq(V) : (z = <<>> /\ Literal(b)) => n = 0}]
<1>1. Casts!Node(p, Expr(b, <<>>)) = Expr(b, <<>>)
  <2> DEFINE e == Expr(b, <<>>)
  <2>1. Casts!Alone(e) /\ ~Casts!IsCast(e)
    BY StepsOf DEF Casts!Alone, Casts!IsCast
  <2> HIDE DEF e
  <2>2. Casts!drop_redundant_oid_and_regclass_casts(e) = e
    BY <2>1 DEF Casts!drop_redundant_oid_and_regclass_casts
  <2> QED BY <2>2 DEF Casts!Node, e
<1>2. <<>> \in Z[0]
  OBVIOUS
<1>3. ASSUME NEW n \in 1..Len(y), NEW z \in Z[n - 1] PROVE StepsTo(p, b, z, y[n], Z[n])
  <2>1. n - 1 \in 0..Len(y) /\ n \in 0..Len(y) /\ n # 0 /\ y[n] \in T /\ V \subseteq U
    BY DEF IsStepSet
  <2>2. z \in Seq(V) /\ ((z = <<>> /\ Literal(b)) => n = 1)
    <3> HIDE DEF V
    <3> QED BY <2>1
  <2>3. z \in Seq(U) /\ y[n] \in U
    BY <2>1, <2>2
  <2> HIDE DEF Z
  <2>4. ASSUME NEW w \in Seq(V), ~(w = <<>> /\ Literal(b)) PROVE w \in Z[n]
    <3> HIDE DEF V
    <3> QED BY <2>1, <2>4 DEF Z
  <2> DEFINE r == Casts!drop_redundant_oid_and_regclass_casts(Expr(b, Append(z, y[n])))
  <2>5. Casts!Node(p, Expr(b, Append(z, y[n]))) = r
    BY DEF Casts!Node
  <2>6. \/ r = Expr(b, z) /\ ~(z = <<>> /\ Literal(b))
        \/ r = Expr(b, Append(z, y[n])) /\ (y[n] = CastTo("regclass") => (z = <<>> /\ Literal(b)))
    <3> HIDE DEF V
    <3> QED BY <2>3, RedundantStep, Zenon
  <2> HIDE DEF r
  <2>7. CASE r = Expr(b, z) /\ ~(z = <<>> /\ Literal(b))
    <3>1. z \in Z[n]
      BY <2>2, <2>4, <2>7
    <3> QED BY <2>5, <2>7, <3>1 DEF StepsTo
  <2>8. CASE r = Expr(b, Append(z, y[n])) /\ (y[n] = CastTo("regclass") => (z = <<>> /\ Literal(b)))
    <3>1. y[n] # CastTo("regclass")
      <4>1. ASSUME y[n] = CastTo("regclass") PROVE FALSE
        <5>1. n = 1 /\ Literal(b) /\ y # <<>>
          <6> HIDE DEF V
          <6> QED BY <2>2, <2>8, <4>1
        <5> QED BY <4>1, <5>1 DEF NotFirst
      <4> QED BY <4>1
    <3>2. y[n] \in V
      BY <2>1, <3>1
    <3>3. Append(z, y[n]) \in Seq(V) /\ Append(z, y[n]) # <<>>
      <4> HIDE DEF V
      <4> QED BY <2>2, <3>2, SequenceEnds
    <3>4. Append(z, y[n]) \in Z[n]
      <4> HIDE DEF V
      <4> QED BY <2>4, <3>3
    <3> QED BY <2>5, <2>8, <3>4 DEF StepsTo
  <2> QED BY <2>6, <2>7, <2>8
<1> HIDE DEF Z
<1>4. PICK z \in Z[Len(y)] : Casts!rewrite_each_expression(p, Expr(b, y)) = Expr(b, z)
  <2> HIDE DEF p, V
  <2> QED BY <1>1, <1>2, <1>3, StepsPass
<1>5. Len(y) \in 0..Len(y)
  OBVIOUS
<1>6. z \in Seq(V)
  BY <1>4, <1>5 DEF Z
<1> QED BY <1>4, <1>6

(* After drop_oid_array_cast no oid[] is left. *)
LEMMA ArrayPass ==
  ASSUME NEW U, NEW b, NEW y \in Seq(U)
  PROVE  \E z \in Seq((U \ {Casts!Cast(Casts!Type(Casts!Unqualified, "oid", TRUE))}) \cup Made) :
            Casts!rewrite_each_expression("drop_oid_array_cast", Expr(b, y)) = Expr(b, z)
<1> DEFINE p == "drop_oid_array_cast"
           t == Casts!Type(Casts!Unqualified, "oid", TRUE)
           V == (U \ {Casts!Cast(t)}) \cup Made
           Z == [n \in 0..Len(y) |-> Seq(V)]
<1>1. Casts!Node(p, Expr(b, <<>>)) = Expr(b, <<>>)
  <2> DEFINE e == Expr(b, <<>>)
  <2>1. Casts!Alone(e) /\ ~Casts!IsCast(e)
    BY StepsOf DEF Casts!Alone, Casts!IsCast
  <2> HIDE DEF e
  <2>2. Casts!drop_oid_array_cast(e) = e
    BY <2>1 DEF Casts!drop_oid_array_cast
  <2> QED BY <2>2 DEF Casts!Node, e
<1> HIDE DEF t
<1>2. <<>> \in Z[0]
  OBVIOUS
<1>3. ASSUME NEW n \in 1..Len(y), NEW z \in Z[n - 1] PROVE StepsTo(p, b, z, y[n], Z[n])
  <2>1. z \in Seq(V) /\ Z[n] = Seq(V) /\ y[n] \in U
    <3>1. n - 1 \in 0..Len(y) /\ n \in 0..Len(y)
      OBVIOUS
    <3> HIDE DEF V
    <3> QED BY <3>1
  <2> DEFINE e == Expr(b, Append(z, y[n]))
  <2>2. OuterIs(e, b, z, y[n])
    BY <2>1, OuterStep
  <2> HIDE DEF e, Z
  <2>3. Casts!Node(p, e) = Casts!drop_oid_array_cast(e)
    BY DEF Casts!Node
  <2>4. CASE y[n].op = "cast" /\ y[n].t = t
    <3>1. Casts!drop_oid_array_cast(e) = Expr(b, z)
      BY <2>2, <2>4 DEF OuterIs, Casts!drop_oid_array_cast, t
    <3> HIDE DEF V
    <3> QED BY <2>1, <2>3, <3>1 DEF StepsTo, e
  <2>5. CASE ~(y[n].op = "cast" /\ y[n].t = t)
    <3>1. Casts!drop_oid_array_cast(e) = e
      BY <2>2, <2>5 DEF OuterIs, Casts!drop_oid_array_cast, t
    <3>2. y[n] # Casts!Cast(t)
      BY <2>5 DEF Casts!Cast
    <3>3. y[n] \in V
      BY <2>1, <3>2
    <3> HIDE DEF V
    <3>4. Append(z, y[n]) \in Seq(V)
      BY <2>1, <3>3
    <3> QED BY <2>1, <2>3, <3>1, <3>4 DEF StepsTo, e
  <2> QED BY <2>4, <2>5
<1>4. Z[Len(y)] = Seq(V)
  <2> HIDE DEF V
  <2> QED OBVIOUS
<1> HIDE DEF Z
<1>5. \E z \in Z[Len(y)] : Casts!rewrite_each_expression(p, Expr(b, y)) = Expr(b, z)
  <2> HIDE DEF p, V
  <2> QED BY <1>1, <1>2, <1>3, StepsPass
<1> QED BY <1>4, <1>5 DEF t

(* Where an operand stands between two passes: of the claimed steps those of *)
(* G are gone, and what the passes ahead rely on still holds.                *)
Left(U, G) == {s \in U : Casts!ClaimedStep(s) /\ s \notin G} \cup Made
Relied(k, b, y) == /\ k = "firm" => Firm(b, y)
                   /\ k = "first" => FirstOnly(b, y)
                   /\ k = "direct" => NotFirst(b, y)
Stands(U, G, k, e) == \E b : \E y \in Seq(Left(U, G)) : e = Expr(b, y) /\ Relied(k, b, y)
Moves(U, p, G, k, H, l) ==
    \A e : Stands(U, G, k, e) => Stands(U, H, l, Casts!rewrite_each_expression(p, e))

(* What is left when the steps of R go too. *)
LEMMA LeftWithout ==
  ASSUME NEW U, IsStepSet(U), NEW G, NEW R
  PROVE  /\ (Left(U, G) \ R) \cup Made = Left(U, G \cup R)
         /\ Left(U, G) \in SUBSET U
BY DEF Left, IsStepSet

(* A pass that works in place keeps what is relied on. *)
LEMMA MovesInPlace ==
  ASSUME NEW U, IsStepSet(U), NEW p, NEW R, InPlace(p, R, U), NEW G, NEW k
  PROVE  Moves(U, p, G, k, G \cup R, k)
<1> SUFFICES ASSUME NEW e, Stands(U, G, k, e)
             PROVE  Stands(U, G \cup R, k, Casts!rewrite_each_expression(p, e))
  BY DEF Moves
<1>1. PICK b : \E y \in Seq(Left(U, G)) : e = Expr(b, y) /\ Relied(k, b, y)
  BY DEF Stands
<1>2. PICK y \in Seq(Left(U, G)) : e = Expr(b, y) /\ Relied(k, b, y)
  BY <1>1
<1>3. y \in Seq(U) /\ Made \subseteq U
  BY LeftWithout DEF IsStepSet
<1>4. PICK z \in Seq(U) : /\ Casts!rewrite_each_expression(p, Expr(b, y)) = Expr(b, z)
                          /\ Len(z) = Len(y)
                          /\ \A i \in 1..Len(y) : z[i] \in Instead(y[i], R)
  BY <1>3, InPlacePass
<1>5. z \in Seq(Left(U, G \cup R))
  <2>1. ASSUME NEW i \in 1..Len(z) PROVE z[i] \in Left(U, G \cup R)
    <3>1. y[i] \in Left(U, G) /\ z[i] \in Instead(y[i], R)
      BY <1>4
    <3>2. z[i] \in (Left(U, G) \ R) \cup Made
      BY <3>1 DEF Instead
    <3> QED BY <3>2, LeftWithout
  <2> QED BY <2>1, InSeq
<1>6. ASSUME NEW i \in 1..Len(z), z[i] \notin Made PROVE z[i] = y[i]
  BY <1>4, <1>6 DEF Instead
<1>7. Casts!Paren \notin Made /\ CastTo("regclass") \notin Made /\ Casts!Cast(Casts!Pg("regclass")) \notin Made
  BY MadeSteps DEF Both, CastTo
<1>8. Firm(b, y) => Firm(b, z)
  BY <1>4, <1>6, <1>7 DEF Firm
<1>9. FirstOnly(b, y) => FirstOnly(b, z)
  BY <1>4, <1>6, <1>7 DEF FirstOnly
<1>10. NotFirst(b, y) => NotFirst(b, z)
  <2> SUFFICES ASSUME NotFirst(b, y), Literal(b), z # <<>>, z[1] = CastTo("regclass") PROVE FALSE
    BY DEF NotFirst
  <2>1. 1 \in 1..Len(z) /\ y # <<>>
    BY <1>4
  <2>2. y[1] = CastTo("regclass")
    BY <1>6, <1>7, <2>1
  <2> QED BY <2>1, <2>2 DEF NotFirst
<1>11. Relied(k, b, z)
  BY <1>2, <1>8, <1>9, <1>10 DEF Relied
<1> QED BY <1>2, <1>4, <1>5, <1>11 DEF Stands

(* The passes that take steps away keep it of a literal that its parentheses *)
(* are outermost.                                                            *)
LEMMA MovesLoosely ==
  ASSUME NEW U, IsStepSet(U), NEW p, NEW R, Loosely(p, R, U), NEW G
  PROVE  Moves(U, p, G, "firm", G \cup R, "firm")
<1> SUFFICES ASSUME NEW e, Stands(U, G, "firm", e)
             PROVE  Stands(U, G \cup R, "firm", Casts!rewrite_each_expression(p, e))
  BY DEF Moves
<1>1. PICK b : \E y \in Seq(Left(U, G)) : e = Expr(b, y) /\ Relied("firm", b, y)
  BY DEF Stands
<1>2. PICK y \in Seq(Left(U, G)) : e = Expr(b, y) /\ Relied("firm", b, y)
  BY <1>1
<1>3. Firm(b, y) /\ Left(U, G) \in SUBSET U /\ Made \subseteq U
  BY <1>2, LeftWithout DEF Relied, IsStepSet
<1>4. PICK c \in {b, NoOperand}, z \in Seq((Left(U, G) \ R) \cup Made) :
         Casts!rewrite_each_expression(p, Expr(b, y)) = Expr(c, z) /\ Firm(c, z)
  BY <1>3, LoosePass
<1>5. z \in Seq(Left(U, G \cup R))
  BY LeftWithout
<1>6. Relied("firm", c, z)
  BY <1>4 DEF Relied
<1> QED BY <1>2, <1>4, <1>5, <1>6 DEF Stands

(* What replace_regclass relies on. *)
LEMMA MovesQualified ==
  ASSUME NEW U, IsStepSet(U), NEW G
  PROVE  Moves(U, "rewrite_schema_qualified_custom_types", G, "firm", G \cup RenamedCasts, "first")
<1> DEFINE p == "rewrite_schema_qualified_custom_types"
           R == RenamedCasts
<1> SUFFICES ASSUME NEW e, Stands(U, G, "firm", e)
             PROVE  Stands(U, G \cup R, "first", Casts!rewrite_each_expression(p, e))
  BY DEF Moves
<1>1. PICK b : \E y \in Seq(Left(U, G)) : e = Expr(b, y) /\ Relied("firm", b, y)
  BY DEF Stands
<1>2. PICK y \in Seq(Left(U, G)) : e = Expr(b, y) /\ Relied("firm", b, y)
  BY <1>1
<1>3. Firm(b, y) /\ Left(U, G) \in SUBSET U
  BY <1>2, LeftWithout DEF Relied
<1>4. PICK z \in Seq((Left(U, G) \ R) \cup Made) :
         Casts!rewrite_each_expression(p, Expr(b, y)) = Expr(b, z) /\ FirstOnly(b, z)
  BY <1>3, QualifiedPass
<1> HIDE DEF R, p
<1>5. z \in Seq(Left(U, G \cup R))
  <2>1. (Left(U, G) \ R) \cup Made = Left(U, G \cup R)
    BY DEF Left, IsStepSet
  <2> QED BY <2>1
<1>6. Relied("first", b, z)
  BY <1>4 DEF Relied
<1> QED BY <1>2, <1>4, <1>5, <1>6 DEF Stands

(* What drop_redundant_oid_and_regclass_casts relies on. *)
LEMMA MovesRegclass ==
  ASSUME NEW U, IsStepSet(U), NEW G
  PROVE  Moves(U, "replace_regclass", G, "first", G \cup {Casts!Cast(Casts!Pg("regclass"))}, "direct")
<1> DEFINE p == "replace_regclass"
           R == {Casts!Cast(Casts!Pg("regclass"))}
<1> SUFFICES ASSUME NEW e, Stands(U, G, "first", e)
             PROVE  Stands(U, G \cup R, "direct", Casts!rewrite_each_expression(p, e))
  BY DEF Moves
<1>1. PICK b : \E y \in Seq(Left(U, G)) : e = Expr(b, y) /\ Relied("first", b, y)
  BY DEF Stands
<1>2. PICK y \in Seq(Left(U, G)) : e = Expr(b, y) /\ Relied("first", b, y)
  BY <1>1
<1>3. FirstOnly(b, y) /\ Left(U, G) \in SUBSET U
  BY <1>2, LeftWithout DEF Relied
<1>4. PICK z \in Seq((Left(U, G) \ R) \cup Made) :
         Casts!rewrite_each_expression(p, Expr(b, y)) = Expr(b, z) /\ NotFirst(b, z)
  BY <1>3, RegclassPass
<1> HIDE DEF R, p
<1>5. z \in Seq(Left(U, G \cup R))
  <2>1. (Left(U, G) \ R) \cup Made = Left(U, G \cup R)
    BY DEF Left, IsStepSet
  <2> QED BY <2>1
<1>6. Relied("direct", b, z)
  BY <1>4 DEF Relied
<1> QED BY <1>2, <1>4, <1>5, <1>6 DEF Stands

(* Nothing is relied on after it. *)
LEMMA MovesRedundant ==
  ASSUME NEW U, IsStepSet(U), NEW G
  PROVE  Moves(U, "drop_redundant_oid_and_regclass_casts", G, "direct", G \cup {CastTo("regclass")}, "done")
<1> DEFINE p == "drop_redundant_oid_and_regclass_casts"
           R == {CastTo("regclass")}
<1> SUFFICES ASSUME NEW e, Stands(U, G, "direct", e)
             PROVE  Stands(U, G \cup R, "done", Casts!rewrite_each_expression(p, e))
  BY DEF Moves
<1>1. PICK b : \E y \in Seq(Left(U, G)) : e = Expr(b, y) /\ Relied("direct", b, y)
  BY DEF Stands
<1>2. PICK y \in Seq(Left(U, G)) : e = Expr(b, y) /\ Relied("direct", b, y)
  BY <1>1
<1>3. NotFirst(b, y) /\ Left(U, G) \in SUBSET U
  BY <1>2, LeftWithout DEF Relied
<1>4. PICK z \in Seq((Left(U, G) \ R) \cup Made) :
         Casts!rewrite_each_expression(p, Expr(b, y)) = Expr(b, z)
  BY <1>3, RedundantPass
<1> HIDE DEF R, p
<1>5. z \in Seq(Left(U, G \cup R))
  <2>1. (Left(U, G) \ R) \cup Made = Left(U, G \cup R)
    BY DEF Left, IsStepSet
  <2> QED BY <2>1
<1>6. Relied("done", b, z)
  BY <1>4 DEF Relied
<1> QED BY <1>2, <1>4, <1>5, <1>6 DEF Stands

(* Nor after the casts to oid[] are gone. *)
LEMMA MovesArray ==
  ASSUME NEW U, IsStepSet(U), NEW G
  PROVE  Moves(U, "drop_oid_array_cast", G, "done", G \cup {Casts!Cast(Casts!Type(Casts!Unqualified, "oid", TRUE))}, "done")
<1> DEFINE p == "drop_oid_array_cast"
           R == {Casts!Cast(Casts!Type(Casts!Unqualified, "oid", TRUE))}
<1> SUFFICES ASSUME NEW e, Stands(U, G, "done", e)
             PROVE  Stands(U, G \cup R, "done", Casts!rewrite_each_expression(p, e))
  BY DEF Moves
<1>1. PICK b : \E y \in Seq(Left(U, G)) : e = Expr(b, y) /\ Relied("done", b, y)
  BY DEF Stands
<1>2. PICK y \in Seq(Left(U, G)) : e = Expr(b, y) /\ Relied("done", b, y)
  BY <1>1
<1>3. Left(U, G) \in SUBSET U
  BY <1>2, LeftWithout DEF Relied
<1>4. PICK z \in Seq((Left(U, G) \ R) \cup Made) :
         Casts!rewrite_each_expression(p, Expr(b, y)) = Expr(b, z)
  BY <1>3, ArrayPass
<1> HIDE DEF R, p
<1>5. z \in Seq(Left(U, G \cup R))
  <2>1. (Left(U, G) \ R) \cup Made = Left(U, G \cup R)
    BY DEF Left, IsStepSet
  <2> QED BY <2>1
<1>6. Relied("done", b, z)
  BY <1>4 DEF Relied
<1> QED BY <1>2, <1>4, <1>5, <1>6 DEF Stands

(* Both sides of a comparison. *)
BothStand(U, G, k, c) == /\ c = [l |-> c.l, op |-> c.op, r |-> c.r]
                         /\ Stands(U, G, k, c.l) /\ Stands(U, G, k, c.r)

(* A pass over both. *)
LEMMA EachMoves ==
  ASSUME NEW U, NEW p, NEW G, NEW k, NEW H, NEW l, Moves(U, p, G, k, H, l),
         NEW c, BothStand(U, G, k, c)
  PROVE  BothStand(U, H, l, Casts!Each(p, c))
<1> DEFINE x == Casts!rewrite_each_expression(p, c.l)
           y == Casts!rewrite_each_expression(p, c.r)
           d == Casts!Each(p, c)
<1>1. Stands(U, H, l, x) /\ Stands(U, H, l, y)
  BY DEF Moves, BothStand
<1>2. d = [c EXCEPT !.l = x, !.r = y] /\ c = [l |-> c.l, op |-> c.op, r |-> c.r]
  BY DEF Casts!Each, BothStand
<1> HIDE DEF x, y, d
<1>3. d = [l |-> x, op |-> c.op, r |-> y]
  BY <1>2
<1>4. d.l = x /\ d.r = y /\ d = [l |-> d.l, op |-> d.op, r |-> d.r]
  BY <1>3
<1> HIDE DEF x, y, d
<1>5. BothStand(U, H, l, d)
  BY <1>1, <1>4 DEF BothStand
<1> QED BY <1>5 DEF d

(* All the passes take away. *)
Collated == {Casts!Collate(Casts!Pg("default"))}
Zoned == {Casts!Zone("utc")}
RowCalls == {Casts!RowCall("_pg_truetypid"), Casts!RowCall("_pg_truetypmod")}
PgText == {Casts!Cast(Casts!Pg("text"))}
PgRegclass == {Casts!Cast(Casts!Pg("regclass"))}
OidArray == {Casts!Cast(Casts!Type(Casts!Unqualified, "oid", TRUE))}
Gone == UNION {Collated, Zoned, RowCalls, PgText, PgRegclass, {CastTo("regclass")}, OidArray,
               Both("regoper"), Both("regoperator"), Both("regprocedure"), Both("regproc"),
               Both("char"), Both("regtype"), Both("xid"), Both("name"), Both("oid"),
               RenamedCasts, DomainCasts, TextBacked}

(* A claimed step that is still there is plannable. *)
LEMMA LeftArePlannable ==
  ASSUME NEW s, Casts!IsStep(s), Casts!ClaimedStep(s), s \notin Gone
  PROVE  Casts!PlannableStep(s)
<1>1. /\ s \notin Collated /\ s \notin Zoned /\ s \notin RowCalls /\ s \notin PgRegclass
      /\ s # CastTo("regclass") /\ s \notin OidArray
      /\ s \notin RenamedCasts /\ s \notin DomainCasts /\ s \notin TextBacked
  BY DEF Gone
<1>2. /\ s \notin Both("regoper") /\ s \notin Both("regoperator") /\ s \notin Both("regprocedure")
      /\ s \notin Both("regproc") /\ s \notin Both("char") /\ s \notin Both("regtype")
      /\ s \notin Both("xid") /\ s \notin Both("name") /\ s \notin Both("oid")
  BY DEF Gone
<1>3. CASE s.op = "cast"
  <2>1. s = Casts!Cast(s.t) /\ s.t = Casts!Type(s.t.s, s.t.n, s.t.a) /\ s.t.a \in BOOLEAN
    BY <1>3, CastIsType
  <2>2. Casts!ClaimedType(s.t)
    BY <1>3 DEF Casts!ClaimedStep
  <2>3. ASSUME s.t.n \in Casts!CatalogTypes, ~s.t.a, s.t.s \in {Casts!Unqualified, "pg_catalog"}
        PROVE  FALSE
    <3>1. s \in Both(s.t.n)
      <4>1. Casts!object_name_matches(s.t, s.t.n)
        BY <2>3 DEF Casts!object_name_matches
      <4> QED BY <1>3, <4>1, MatchesBoth
    <3>2. s \notin Both("regclass") /\ s \notin Both("anyarray")
      BY <1>1 DEF Both, CastTo, PgRegclass, TextBacked
    <3> QED BY <1>2, <2>3, <3>1, <3>2 DEF Casts!CatalogTypes
  <2>4. CASE ~s.t.a /\ s.t.s = Casts!Unqualified /\ s.t.n \in Casts!CatalogTypes \cup Casts!PlannableTypes
    BY <1>3, <2>3, <2>4 DEF Casts!PlannableStep
  <2>5. ASSUME s.t.s = "pg_catalog", s.t.n \in DOMAIN Casts!datafusion_type_for \ {"regclass", "regtype"}
        PROVE  FALSE
    <3>1. s \in RenamedCasts
      BY <2>1, <2>5 DEF RenamedCasts
    <3> QED BY <1>1, <3>1
  <2>6. CASE ~s.t.a /\ s.t.s = "pg_catalog" /\ s.t.n \in Casts!CatalogTypes \cup DOMAIN Casts!datafusion_type_for
    <3>1. s.t.n \in Casts!CatalogTypes \/ s.t.n \in DOMAIN Casts!datafusion_type_for \ {"regclass", "regtype"}
      BY <2>6 DEF Casts!CatalogTypes
    <3> QED BY <2>3, <2>5, <2>6, <3>1
  <2>7. CASE ~s.t.a /\ s.t.s = "information_schema" /\ s.t.n \in DOMAIN Casts!information_schema_base_type
    <3>1. s = Casts!Cast(Casts!Type("information_schema", s.t.n, FALSE))
      <4>1. s.t.a = FALSE
        BY <2>1, <2>7
      <4> QED BY <2>1, <2>7, <4>1
    <3>2. s \in DomainCasts
      BY <2>7, <3>1 DEF DomainCasts
    <3> QED BY <1>1, <3>2
  <2>8. CASE s.t = Casts!Type(Casts!Unqualified, "oid", TRUE)
    BY <1>1, <2>1, <2>8 DEF OidArray
  <2>9. CASE s.t = Casts!Type(Casts!Unqualified, "name", TRUE)
    BY <1>1, <2>1, <2>9 DEF TextBacked
  <2>10. CASE s.t = Casts!Type("pg_catalog", "text", TRUE)
    <3>1. s.t.s = "pg_catalog" /\ s.t.n = "text"
      BY <2>10 DEF Casts!Type
    <3>2. "text" \in DOMAIN Casts!datafusion_type_for
      BY DEF Casts!datafusion_type_for
    <3> QED BY <2>5, <3>1, <3>2
  <2> QED BY <2>2, <2>4, <2>6, <2>7, <2>8, <2>9, <2>10 DEF Casts!ClaimedType
<1>4. CASE s.op = "collate"
  <2>1. s = Casts!Collate(s.t)
    BY <1>4 DEF Casts!IsStep, Casts!Collate
  <2>2. s.t = Casts!Pg("default") \/ s.t.s # "pg_catalog"
    BY <1>4 DEF Casts!ClaimedStep
  <2>3. s.t.s # "pg_catalog"
    BY <1>1, <2>1, <2>2 DEF Collated
  <2> QED BY <1>4, <2>3 DEF Casts!PlannableStep
<1>5. CASE s.op = "zone"
  <2>1. s = Casts!Zone("UTC")
    BY <1>1, <1>5 DEF Casts!ClaimedStep, Zoned
  <2>2. s.t.n = "UTC"
    BY <2>1 DEF Casts!Zone, Casts!Bare, Casts!Type
  <2> QED BY <1>5, <2>2 DEF Casts!PlannableStep
<1>6. CASE s.op = "rowcall"
  BY <1>1, <1>6 DEF Casts!ClaimedStep, RowCalls
<1>7. CASE s.op \notin {"cast", "collate", "zone", "rowcall"}
  BY <1>7 DEF Casts!PlannableStep
<1> QED BY <1>3, <1>4, <1>5, <1>6, <1>7

(* The passes over comparisons.  An operator keeps its operands; a call        *)
(* around an operand is one step more, and a boolean literal stands alone.     *)
LEMMA CallStands ==
  ASSUME NEW U, NEW G, NEW e, Stands(U, G, "direct", e)
  PROVE  Stands(U, G, "direct", Casts!CallOf("pg_proc_oid", e))
<1> DEFINE m == Casts!Call("pg_proc_oid")
<1>1. PICK b : \E y \in Seq(Left(U, G)) : e = Expr(b, y) /\ Relied("direct", b, y)
  BY DEF Stands
<1>2. PICK y \in Seq(Left(U, G)) : e = Expr(b, y) /\ Relied("direct", b, y)
  BY <1>1
<1>3. m \in Made
  BY MadeByName DEF Lookups
<1>4. Casts!CallOf("pg_proc_oid", e) = Expr(b, Append(y, m))
  <2>1. OuterIs(Expr(b, Append(y, m)), b, y, m)
    BY OuterStep
  <2> QED BY <1>2, <2>1 DEF OuterIs
<1> HIDE DEF m
<1>5. m \in Left(U, G) /\ m # CastTo("regclass")
  BY <1>3, MadeSteps DEF Left, Both, CastTo
<1> DEFINE w == Append(y, m)
<1>6. w \in Seq(Left(U, G)) /\ (y = <<>> => w[1] = m) /\ (y # <<>> => w[1] = y[1])
  <2> DEFINE V == Left(U, G)
  <2>0. y \in Seq(V) /\ m \in V
    BY <1>2, <1>5
  <2> HIDE DEF V
  <2>1. Len(y) \in Nat /\ (y # <<>> => Len(y) # 0)
    BY <2>0
  <2>2. w \in Seq(V) /\ (y = <<>> => w[1] = m) /\ (y # <<>> => w[1] = y[1])
    BY <2>0, <2>1, AppendProperties
  <2> QED BY <2>2 DEF V
<1> HIDE DEF w
<1>7. Relied("direct", b, w)
  BY <1>2, <1>5, <1>6 DEF Relied, NotFirst
<1> QED BY <1>4, <1>6, <1>7 DEF Stands, w

(* A literal read as a boolean. *)
LEMMA BooleanStands ==
  ASSUME NEW U, NEW G, NEW e, Stands(U, G, "direct", e)
  PROVE  Stands(U, G, "direct", Casts!char_boolean_literal(e))
<1>1. CASE Casts!Alone(e) /\ e.base.k = "boollit"
  <2> DEFINE d == [e.base EXCEPT !.k = "boolean"]
  <2>1. PICK b : \E y \in Seq(Left(U, G)) : e = Expr(b, y) /\ Relied("direct", b, y)
    BY DEF Stands
  <2>2. PICK y \in Seq(Left(U, G)) : e = Expr(b, y) /\ Relied("direct", b, y)
    BY <2>1
  <2>3. e.steps = <<>> /\ e = [base |-> e.base, steps |-> e.steps]
    BY <1>1, <2>2 DEF Casts!Alone, Expr
  <2>4. Casts!char_boolean_literal(e) = [e EXCEPT !.base = d]
    BY <1>1 DEF Casts!char_boolean_literal
  <2> HIDE DEF d
  <2>5. Casts!char_boolean_literal(e) = Expr(d, <<>>)
    BY <2>3, <2>4 DEF Expr
  <2>6. <<>> \in Seq(Left(U, G)) /\ Relied("direct", d, <<>>)
    <3>1. NotFirst(d, <<>>)
      BY DEF NotFirst
    <3>2. <<>> \in Seq(Left(U, G))
      OBVIOUS
    <3> QED BY <3>1, <3>2 DEF Relied
  <2> QED BY <2>5, <2>6 DEF Stands
<1>2. CASE ~(Casts!Alone(e) /\ e.base.k = "boollit")
  BY <1>2 DEF Casts!char_boolean_literal
<1> QED BY <1>1, <1>2

(* A comparison with other operands. *)
LEMMA SidesStand ==
  ASSUME NEW U, NEW G, NEW k, NEW c, BothStand(U, G, k, c), NEW x, NEW y,
         Stands(U, G, k, x), Stands(U, G, k, y)
  PROVE  BothStand(U, G, k, [c EXCEPT !.l = x, !.r = y])
<1> DEFINE d == [c EXCEPT !.l = x, !.r = y]
<1>1. d = [c EXCEPT !.l = x, !.r = y] /\ c = [l |-> c.l, op |-> c.op, r |-> c.r]
  BY DEF BothStand
<1> HIDE DEF d
<1>2. d = [l |-> x, op |-> c.op, r |-> y]
  BY <1>1
<1>3. d.l = x /\ d.r = y /\ d = [l |-> d.l, op |-> d.op, r |-> d.r]
  BY <1>2
<1>4. BothStand(U, G, k, d)
  BY <1>3 DEF BothStand
<1> QED BY <1>4 DEF d

(* The operator is not an operand. *)
LEMMA OperatorStands ==
  ASSUME NEW U, NEW G, NEW k, NEW c, BothStand(U, G, k, c)
  PROVE  BothStand(U, G, k, Casts!rewrite_pg_custom_operator(c))
<1>1. c = [l |-> c.l, op |-> c.op, r |-> c.r]
  BY DEF BothStand
<1> DEFINE d == Casts!rewrite_pg_custom_operator(c)
<1>2. d = c \/ d = [c EXCEPT !.op = "~"]
  BY DEF Casts!rewrite_pg_custom_operator
<1> HIDE DEF d
<1>3. d.l = c.l /\ d.r = c.r /\ d = [l |-> d.l, op |-> d.op, r |-> d.r]
  BY <1>1, <1>2
<1>4. BothStand(U, G, k, d)
  BY <1>3 DEF BothStand
<1> QED BY <1>4 DEF d

(* A regproc column and what it is compared with. *)
LEMMA ColumnsStand ==
  ASSUME NEW U, NEW G, NEW c, BothStand(U, G, "direct", c)
  PROVE  BothStand(U, G, "direct", Casts!resolve_regproc_columns_to_oids_in_comparisons(c))
<1> DEFINE d == Casts!resolve_regproc_columns_to_oids_in_comparisons(c)
           Call(e) == Casts!CallOf("pg_proc_oid", e)
<1>1. Stands(U, G, "direct", c.l) /\ Stands(U, G, "direct", c.r)
  BY DEF BothStand
<1>2. Stands(U, G, "direct", Call(c.l)) /\ Stands(U, G, "direct", Call(c.r))
  BY <1>1, CallStands
<1> HIDE DEF Call
<1>3. \/ d = c
      \/ \E x \in {c.l, Call(c.l)}, y \in {c.r, Call(c.r)} : d = [c EXCEPT !.l = x, !.r = y]
  BY DEF Casts!resolve_regproc_columns_to_oids_in_comparisons, Call
<1> HIDE DEF d
<1>4. BothStand(U, G, "direct", d)
  <2>1. CASE \E x \in {c.l, Call(c.l)}, y \in {c.r, Call(c.r)} : d = [c EXCEPT !.l = x, !.r = y]
    <3>1. PICK x \in {c.l, Call(c.l)}, y \in {c.r, Call(c.r)} : d = [c EXCEPT !.l = x, !.r = y]
      BY <2>1
    <3>2. Stands(U, G, "direct", x) /\ Stands(U, G, "direct", y)
      BY <1>1, <1>2
    <3> QED BY <3>1, <3>2, SidesStand
  <2> QED BY <1>3, <2>1
<1> QED BY <1>4 DEF d

(* A boolean column and what it is compared with. *)
LEMMA BooleansStand ==
  ASSUME NEW U, NEW G, NEW c, BothStand(U, G, "direct", c)
  PROVE  BothStand(U, G, "direct", Casts!rewrite_boolean_column_char_comparisons(c))
<1> DEFINE d == Casts!rewrite_boolean_column_char_comparisons(c)
           x == Casts!char_boolean_literal(c.l)
           y == Casts!char_boolean_literal(c.r)
<1>1. Stands(U, G, "direct", c.l) /\ Stands(U, G, "direct", c.r)
  BY DEF BothStand
<1>2. Stands(U, G, "direct", x) /\ Stands(U, G, "direct", y)
  BY <1>1, BooleanStands
<1>3. d \in {c, [c EXCEPT !.l = x], [c EXCEPT !.r = y]}
  BY DEF Casts!rewrite_boolean_column_char_comparisons
<1> HIDE DEF d, x, y
<1>4. c = [l |-> c.l, op |-> c.op, r |-> c.r]
  BY DEF BothStand
<1>5. /\ [c EXCEPT !.l = x] = [c EXCEPT !.l = x, !.r = c.r]
      /\ [c EXCEPT !.r = y] = [c EXCEPT !.l = c.l, !.r = y]
  BY <1>4
<1>6. BothStand(U, G, "direct", d)
  <2>1. CASE d = c
    BY <2>1
  <2>2. CASE d = [c EXCEPT !.l = x]
    <3>1. d = [c EXCEPT !.l = x, !.r = c.r]
      BY <1>5, <2>2
    <3> QED BY <1>1, <1>2, <3>1, SidesStand
  <2>3. CASE d = [c EXCEPT !.r = y]
    <3>1. d = [c EXCEPT !.l = c.l, !.r = y]
      BY <1>5, <2>3
    <3> QED BY <1>1, <1>2, <3>1, SidesStand
  <2> QED BY <1>3, <2>1, <2>2, <2>3
<1> QED BY <1>6 DEF d

(* The passes of rewrite_filters, one after the other. *)
LEMMA AllPasses ==
  ASSUME NEW U, IsStepSet(U), NEW c0, BothStand(U, {}, "firm", c0)
  PROVE  \E G : Gone \subseteq G /\ BothStand(U, G, "done", Casts!rewrite_filters(c0))
<1> DEFINE G0 == {}
           G1 == G0 \cup Collated
           c1 == Casts!Each("strip_default_collate", c0)
           G2 == G1 \cup Zoned
           c2 == Casts!Each("rewrite_time_zone_utc", c1)
           G3 == G2 \cup Both("regoper")
           c3 == Casts!Each("rewrite_regoper_cast", c2)
           G4 == G3 \cup Both("regoperator")
           c4 == Casts!Each("rewrite_regoperator_cast", c3)
           G5 == G4 \cup Both("regprocedure")
           c5 == Casts!Each("rewrite_regprocedure_cast", c4)
           G6 == G5 \cup {}
           c6 == Casts!Each("resolve_regproc_literals", c5)
           G7 == G6 \cup Both("regproc")
           c7 == Casts!Each("rewrite_regproc_cast", c6)
           c8 == Casts!rewrite_pg_custom_operator(c7)
           G8 == G7 \cup PgText
           c9 == Casts!Each("rewrite_schema_qualified_text", c8)
           G9 == G8 \cup RenamedCasts
           c10 == Casts!Each("rewrite_schema_qualified_custom_types", c9)
           G10 == G9 \cup RowCalls
           c11 == Casts!Each("rewrite_pg_truetypid", c10)
           G11 == G10 \cup DomainCasts
           c12 == Casts!Each("rewrite_information_schema_casts", c11)
           G12 == G11 \cup Both("char")
           c13 == Casts!Each("rewrite_char_cast", c12)
           G13 == G12 \cup PgRegclass
           c14 == Casts!Each("replace_regclass", c13)
           G14 == G13 \cup {}
           c15 == Casts!Each("resolve_regtype_literals", c14)
           G15 == G14 \cup Both("regtype")
           c16 == Casts!Each("rewrite_regtype_cast", c15)
           G16 == G15 \cup Both("xid")
           c17 == Casts!Each("rewrite_xid_cast", c16)
           G17 == G16 \cup Both("name")
           c18 == Casts!Each("rewrite_name_cast", c17)
           G18 == G17 \cup TextBacked
           c19 == Casts!Each("rewrite_text_backed_type_casts", c18)
           G19 == G18 \cup Both("oid")
           c20 == Casts!Each("rewrite_oid_cast", c19)
           c21 == Casts!resolve_regproc_columns_to_oids_in_comparisons(c20)
           c22 == Casts!rewrite_boolean_column_char_comparisons(c21)
           G20 == G19 \cup {CastTo("regclass")}
           c23 == Casts!Each("drop_redundant_oid_and_regclass_casts", c22)
           G21 == G20 \cup OidArray
           c24 == Casts!Each("drop_oid_array_cast", c23)
           G22 == G21 \cup {}
           c25 == Casts!Each("rewrite_array_agg_varchar_cast", c24)
<1>0. BothStand(U, G0, "firm", c0)
  OBVIOUS
<1>100. Casts!rewrite_filters(c0) = c25
  BY DEF Casts!rewrite_filters, Casts!collations_and_procedures, Casts!qualified_types,
         Casts!catalog_types, Casts!redundant_casts
<1>101. Gone \subseteq G22
  BY DEF Gone
<1> HIDE DEF G0, G1, c1, G2, c2, G3, c3, G4, c4, G5, c5, G6, c6, G7, c7, c8, G8, c9, G9, c10, G10, c11, G11, c12, G12, c13, G13, c14, G14, c15, G15, c16, G16, c17, G17, c18, G18, c19, G19, c20, c21, c22, G20, c23, G21, c24, G22, c25
<1>1. BothStand(U, G1, "firm", c1)
  <2>1. Loosely("strip_default_collate", Collated, U)
    BY Collations DEF Collated
  <2>2. Moves(U, "strip_default_collate", G0, "firm", G1, "firm")
    BY <2>1, MovesLoosely DEF G1
  <2> QED BY <1>0, <2>2, EachMoves DEF c1
<1>2. BothStand(U, G2, "firm", c2)
  <2>1. InPlace("rewrite_time_zone_utc", Zoned, U)
    BY TimeZones DEF Zoned
  <2>2. Moves(U, "rewrite_time_zone_utc", G1, "firm", G2, "firm")
    BY <2>1, MovesInPlace DEF G2
  <2> QED BY <1>1, <2>2, EachMoves DEF c2
<1>3. BothStand(U, G3, "firm", c3)
  <2>1. Loosely("rewrite_regoper_cast", Both("regoper"), U)
    BY Operators
  <2>2. Moves(U, "rewrite_regoper_cast", G2, "firm", G3, "firm")
    BY <2>1, MovesLoosely DEF G3
  <2> QED BY <1>2, <2>2, EachMoves DEF c3
<1>4. BothStand(U, G4, "firm", c4)
  <2>1. InPlace("rewrite_regoperator_cast", Both("regoperator"), U)
    BY RetargetingPasses
  <2>2. Moves(U, "rewrite_regoperator_cast", G3, "firm", G4, "firm")
    BY <2>1, MovesInPlace DEF G4
  <2> QED BY <1>3, <2>2, EachMoves DEF c4
<1>5. BothStand(U, G5, "firm", c5)
  <2>1. InPlace("rewrite_regprocedure_cast", Both("regprocedure"), U)
    BY RetargetingPasses
  <2>2. Moves(U, "rewrite_regprocedure_cast", G4, "firm", G5, "firm")
    BY <2>1, MovesInPlace DEF G5
  <2> QED BY <1>4, <2>2, EachMoves DEF c5
<1>6. BothStand(U, G6, "firm", c6)
  <2>1. Loosely("resolve_regproc_literals", {}, U)
    BY ProcedureLiterals
  <2>2. Moves(U, "resolve_regproc_literals", G5, "firm", G6, "firm")
    BY <2>1, MovesLoosely DEF G6
  <2> QED BY <1>5, <2>2, EachMoves DEF c6
<1>7. BothStand(U, G7, "firm", c7)
  <2>1. InPlace("rewrite_regproc_cast", Both("regproc"), U)
    BY RetargetingPasses
  <2>2. Moves(U, "rewrite_regproc_cast", G6, "firm", G7, "firm")
    BY <2>1, MovesInPlace DEF G7
  <2> QED BY <1>6, <2>2, EachMoves DEF c7
<1>8. BothStand(U, G7, "firm", c8)
  BY <1>7, OperatorStands DEF c8
<1>9. BothStand(U, G8, "firm", c9)
  <2>1. InPlace("rewrite_schema_qualified_text", PgText, U)
    BY QualifiedText DEF PgText
  <2>2. Moves(U, "rewrite_schema_qualified_text", G7, "firm", G8, "firm")
    BY <2>1, MovesInPlace DEF G8
  <2> QED BY <1>8, <2>2, EachMoves DEF c9
<1>10. BothStand(U, G9, "first", c10)
  <2>2. Moves(U, "rewrite_schema_qualified_custom_types", G8, "firm", G9, "first")
    BY MovesQualified DEF G9
  <2> QED BY <1>9, <2>2, EachMoves DEF c10
<1>11. BothStand(U, G10, "first", c11)
  <2>1. InPlace("rewrite_pg_truetypid", RowCalls, U)
    BY TrueTypes DEF RowCalls
  <2>2. Moves(U, "rewrite_pg_truetypid", G9, "first", G10, "first")
    BY <2>1, MovesInPlace DEF G10
  <2> QED BY <1>10, <2>2, EachMoves DEF c11
<1>12. BothStand(U, G11, "first", c12)
  <2>1. InPlace("rewrite_information_schema_casts", DomainCasts, U)
    BY InformationSchema
  <2>2. Moves(U, "rewrite_information_schema_casts", G10, "first", G11, "first")
    BY <2>1, MovesInPlace DEF G11
  <2> QED BY <1>11, <2>2, EachMoves DEF c12
<1>13. BothStand(U, G12, "first", c13)
  <2>1. InPlace("rewrite_char_cast", Both("char"), U)
    BY RetargetingPasses
  <2>2. Moves(U, "rewrite_char_cast", G11, "first", G12, "first")
    BY <2>1, MovesInPlace DEF G12
  <2> QED BY <1>12, <2>2, EachMoves DEF c13
<1>14. BothStand(U, G13, "direct", c14)
  <2>2. Moves(U, "replace_regclass", G12, "first", G13, "direct")
    BY MovesRegclass DEF G13, PgRegclass
  <2> QED BY <1>13, <2>2, EachMoves DEF c14
<1>15. BothStand(U, G14, "direct", c15)
  <2>1. InPlace("resolve_regtype_literals", {}, U)
    BY TypeLiterals
  <2>2. Moves(U, "resolve_regtype_literals", G13, "direct", G14, "direct")
    BY <2>1, MovesInPlace DEF G14
  <2> QED BY <1>14, <2>2, EachMoves DEF c15
<1>16. BothStand(U, G15, "direct", c16)
  <2>1. InPlace("rewrite_regtype_cast", Both("regtype"), U)
    BY RetargetingPasses
  <2>2. Moves(U, "rewrite_regtype_cast", G14, "direct", G15, "direct")
    BY <2>1, MovesInPlace DEF G15
  <2> QED BY <1>15, <2>2, EachMoves DEF c16
<1>17. BothStand(U, G16, "direct", c17)
  <2>1. InPlace("rewrite_xid_cast", Both("xid"), U)
    BY RetargetingPasses
  <2>2. Moves(U, "rewrite_xid_cast", G15, "direct", G16, "direct")
    BY <2>1, MovesInPlace DEF G16
  <2> QED BY <1>16, <2>2, EachMoves DEF c17
<1>18. BothStand(U, G17, "direct", c18)
  <2>1. InPlace("rewrite_name_cast", Both("name"), U)
    BY RetargetingPasses
  <2>2. Moves(U, "rewrite_name_cast", G16, "direct", G17, "direct")
    BY <2>1, MovesInPlace DEF G17
  <2> QED BY <1>17, <2>2, EachMoves DEF c18
<1>19. BothStand(U, G18, "direct", c19)
  <2>1. InPlace("rewrite_text_backed_type_casts", TextBacked, U)
    BY TextBackedTypes
  <2>2. Moves(U, "rewrite_text_backed_type_casts", G17, "direct", G18, "direct")
    BY <2>1, MovesInPlace DEF G18
  <2> QED BY <1>18, <2>2, EachMoves DEF c19
<1>20. BothStand(U, G19, "direct", c20)
  <2>1. InPlace("rewrite_oid_cast", Both("oid"), U)
    BY OidCasts
  <2>2. Moves(U, "rewrite_oid_cast", G18, "direct", G19, "direct")
    BY <2>1, MovesInPlace DEF G19
  <2> QED BY <1>19, <2>2, EachMoves DEF c20
<1>21. BothStand(U, G19, "direct", c21)
  BY <1>20, ColumnsStand DEF c21
<1>22. BothStand(U, G19, "direct", c22)
  BY <1>21, BooleansStand DEF c22
<1>23. BothStand(U, G20, "done", c23)
  <2>2. Moves(U, "drop_redundant_oid_and_regclass_casts", G19, "direct", G20, "done")
    BY MovesRedundant DEF G20
  <2> QED BY <1>22, <2>2, EachMoves DEF c23
<1>24. BothStand(U, G21, "done", c24)
  <2>2. Moves(U, "drop_oid_array_cast", G20, "done", G21, "done")
    BY MovesArray DEF G21, OidArray
  <2> QED BY <1>23, <2>2, EachMoves DEF c24
<1>25. BothStand(U, G22, "done", c25)
  <2>1. InPlace("rewrite_array_agg_varchar_cast", {}, U)
    BY AggregateCasts
  <2>2. Moves(U, "rewrite_array_agg_varchar_cast", G21, "done", G22, "done")
    BY <2>1, MovesInPlace DEF G22
  <2> QED BY <1>24, <2>2, EachMoves DEF c25
<1> QED BY <1>25, <1>100, <1>101

(* A client's operand stands before the first pass. *)
LEMMA OperandStands ==
  ASSUME NEW U, NEW e, Casts!IsOperand(e), ClaimedOperand(e), Casts!ToSet(e.steps) \subseteq U
  PROVE  Stands(U, {}, "firm", e)
<1> DEFINE b == e.base
           y == e.steps
<1>1. e = [base |-> Casts!Base(b.k, b.v, b.q), steps |-> y] /\ y \in Seq(Casts!ToSet(y))
  BY DEF Casts!IsOperand
<1>2. e = Expr(b, y)
  BY <1>1 DEF Expr
<1> HIDE DEF b, y
<1>3. ASSUME NEW i \in 1..Len(y) PROVE y[i] \in Left(U, {})
  <2>1. y[i] \in U /\ i \in DOMAIN y
    BY <1>1 DEF y
  <2>2. Casts!ClaimedStep(y[i])
    BY <2>1 DEF ClaimedOperand, y
  <2> QED BY <2>1, <2>2 DEF Left
<1>4. y \in Seq(Left(U, {}))
  BY <1>1, <1>3, InSeq
<1>5. Firm(b, y)
  <2>1. Literal(b) => \A i \in 1..Len(y) - 1 : y[i] # Casts!Paren
    BY DEF ClaimedOperand, Literal, b, y
  <2>2. Len(y) \in Nat
    BY <1>1
  <2>3. \A i \in 1..Len(y) : i # Len(y) => i \in 1..Len(y) - 1
    BY <2>2
  <2> QED BY <2>1, <2>3 DEF Firm
<1>6. Relied("firm", b, y)
  BY <1>5 DEF Relied
<1> QED BY <1>2, <1>4, <1>6 DEF Stands

(* An operand from which all has gone is plannable. *)
LEMMA StandsPlannable ==
  ASSUME NEW U, IsStepSet(U), NEW G, Gone \subseteq G, NEW e, Stands(U, G, "done", e)
  PROVE  Casts!Plannable(e)
<1>1. PICK b : \E y \in Seq(Left(U, G)) : e = Expr(b, y)
  BY DEF Stands
<1>2. PICK y \in Seq(Left(U, G)) : e = Expr(b, y)
  BY <1>1
<1>3. e.steps = y
  BY <1>2, StepsOf
<1>4. ASSUME NEW i \in DOMAIN y PROVE Casts!PlannableStep(y[i])
  <2>1. y[i] \in Left(U, G)
    OBVIOUS
  <2>2. CASE y[i] \in Made
    BY <2>2, MadeSteps
  <2>3. CASE y[i] \in U /\ Casts!ClaimedStep(y[i]) /\ y[i] \notin G
    BY <2>3, LeftArePlannable DEF IsStepSet
  <2> QED BY <2>1, <2>2, <2>3 DEF Left
<1> QED BY <1>3, <1>4 DEF Casts!Plannable

(* The stages leave no cast the planner does not know. *)
LEMMA CastStages == StageInv => CastsArePlannable
<1> SUFFICES ASSUME StageInv, outcome = "answered", ClaimedOperand(asked.cmp.l), ClaimedOperand(asked.cmp.r)
             PROVE  Casts!Plannable(stmt.cmp.l) /\ Casts!Plannable(stmt.cmp.r)
  BY DEF CastsArePlannable
<1> DEFINE c == asked.cmp
           U == Casts!ToSet(c.l.steps) \cup Casts!ToSet(c.r.steps) \cup Made
<1>1. IsStatement(asked) /\ stmt = Rewritten(asked)
  BY DEF StageInv, InFlight
<1>2. stmt.cmp = Casts!rewrite_filters(c)
  BY <1>1, StageFields
<1>3. Casts!IsComparison(c)
  BY <1>1 DEF IsStatement
<1> HIDE DEF c
<1>4. c = [l |-> c.l, op |-> c.op, r |-> c.r] /\ Casts!IsOperand(c.l) /\ Casts!IsOperand(c.r)
  BY <1>3 DEF Casts!IsComparison
<1>5. ASSUME NEW e, Casts!IsOperand(e), NEW s \in Casts!ToSet(e.steps) PROVE Casts!IsStep(s)
  <2>1. PICK i \in DOMAIN e.steps : s = e.steps[i]
    BY DEF Casts!ToSet
  <2> QED BY <1>5, <2>1 DEF Casts!IsOperand
<1>6. IsStepSet(U)
  BY <1>4, <1>5, MadeSteps DEF IsStepSet
<1>7. Stands(U, {}, "firm", c.l) /\ Stands(U, {}, "firm", c.r)
  <2>1. Casts!ToSet(c.l.steps) \subseteq U /\ Casts!ToSet(c.r.steps) \subseteq U
    OBVIOUS
  <2>2. ClaimedOperand(c.l) /\ ClaimedOperand(c.r)
    BY DEF c
  <2> HIDE DEF U
  <2> QED BY <1>4, <2>1, <2>2, OperandStands
<1> HIDE DEF U
<1>8. BothStand(U, {}, "firm", c)
  BY <1>4, <1>7 DEF BothStand
<1>9. PICK G : Gone \subseteq G /\ BothStand(U, G, "done", Casts!rewrite_filters(c))
  BY <1>6, <1>8, AllPasses
<1>10. Stands(U, G, "done", stmt.cmp.l) /\ Stands(U, G, "done", stmt.cmp.r)
  BY <1>2, <1>9 DEF BothStand
<1> QED BY <1>6, <1>9, <1>10, StandsPlannable

(***************************************************************************)
(* Every cast the passes claim has a type the planner knows by the end of   *)
(* rewrite_filters, however many casts, calls and collations are nested in  *)
(* one another and in whatever order: the passes run in an order in which   *)
(* none of them puts back what an earlier one took away, and the two that   *)
(* leave a regclass (rewrite_schema_qualified_custom_types around a literal,*)
(* replace_regclass around anything else) leave it where a later one looks. *)
(***************************************************************************)
THEOREM CastsAlwaysPlannable == Spec => []CastsArePlannable
BY Stages, CastStages, PTL

(* One step more around an operand: the pass looks at it last. *)
LEMMA LastStep ==
  ASSUME NEW U, NEW p, NEW b, NEW y \in Seq(U), NEW s \in U, NEW z,
         Casts!rewrite_each_expression(p, Expr(b, y)) = Expr(b, z)
  PROVE  Casts!rewrite_each_expression(p, Expr(b, Append(y, s))) = Casts!Node(p, Expr(b, Append(z, s)))
<1> DEFINE e == Expr(b, Append(y, s))
           d == Expr(b, y)
           m == Len(y)
<1>1. /\ e.steps = Append(y, s) /\ d.steps = y /\ m \in Nat /\ Len(e.steps) = m + 1
      /\ e.steps[m + 1] = s /\ \A i \in 1..m : e.steps[i] = y[i]
  <2>1. e.steps = Append(y, s) /\ d.steps = y
    BY StepsOf
  <2> HIDE DEF e, d
  <2> QED BY <2>1, AppendProperties
<1>2. Visited(p, e) = Visited(p, d)
  BY WalkSteps
<1> HIDE DEF e, d
<1>3. PICK w : /\ w[0] = Visited(p, e)
               /\ \A n \in 1..Len(e.steps) : w[n] = Around(p, w[n - 1], e.steps[n])
               /\ Casts!rewrite_each_expression(p, e) = w[Len(e.steps)]
  <2>1. Len(e.steps) \in Nat
    BY <1>1
  <2> QED BY <2>1, WalkOf
<1> DEFINE S == [n \in 0..m |-> {w[n]}]
<1>4. Casts!rewrite_each_expression(p, d) \in S[m]
  <2>1. Visited(p, d) \in S[0]
    BY <1>1, <1>2, <1>3
  <2>2. ASSUME NEW n \in 1..m, NEW x \in S[n - 1] PROVE Around(p, x, y[n]) \in S[n]
    <3>1. n - 1 \in 0..m /\ n \in 0..m /\ n \in 1..Len(e.steps)
      BY <1>1
    <3>2. x = w[n - 1] /\ S[n] = {w[n]}
      BY <3>1
    <3> QED BY <1>1, <1>3, <3>1, <3>2
  <2> HIDE DEF S
  <2> QED BY <1>1, <2>1, <2>2, WalkInduction
<1>5. w[m] = Expr(b, z)
  BY <1>1, <1>4 DEF d
<1>6. w[m + 1] = Around(p, w[m], s)
  <2>1. m + 1 \in 1..Len(e.steps) /\ (m + 1) - 1 = m
    BY <1>1
  <2> QED BY <1>1, <1>3, <2>1
<1>7. Casts!rewrite_each_expression(p, e) = Around(p, Expr(b, z), s)
  BY <1>1, <1>3, <1>5, <1>6
<1> QED BY <1>7, WalkAround DEF e

(* The operand alone. *)
LEMMA FirstNode ==
  ASSUME NEW p, NEW b
  PROVE  Casts!rewrite_each_expression(p, Expr(b, <<>>)) = Casts!Node(p, Expr(b, <<>>))
<1> DEFINE e == Expr(b, <<>>)
<1>1. e.steps = <<>> /\ Len(e.steps) = 0 /\ Visited(p, e) = Casts!Node(p, e)
  BY StepsOf, WalkSteps
<1> HIDE DEF e
<1>2. \E v : v[0] = Visited(p, e) /\ Casts!rewrite_each_expression(p, e) = v[Len(e.steps)]
  BY <1>1, WalkOf
<1> QED BY <1>1, <1>2 DEF e

(* No pass makes anything of an operand that stands alone. *)
LEMMA AloneRests ==
  ASSUME NEW p, NEW b
  PROVE  Casts!Node(p, Expr(b, <<>>)) = Expr(b, <<>>)
<1> DEFINE e == Expr(b, <<>>)
<1>1. Casts!Alone(e) /\ ~Casts!IsCast(e)
  BY StepsOf DEF Casts!Alone, Casts!IsCast
<1> HIDE DEF e
<1>2. \A n, t : Casts!rewrite_custom_type_cast_target(e, n, t) = e
  BY <1>1 DEF Casts!rewrite_custom_type_cast_target, Casts!CastMatches
<1>3. /\ Casts!rewrite_regoperator_cast(e) = e /\ Casts!rewrite_regprocedure_cast(e) = e
      /\ Casts!rewrite_regproc_cast(e) = e /\ Casts!rewrite_regtype_cast(e) = e
      /\ Casts!rewrite_char_cast(e) = e /\ Casts!rewrite_xid_cast(e) = e /\ Casts!rewrite_name_cast(e) = e
  BY <1>2 DEF Casts!rewrite_regoperator_cast, Casts!rewrite_regprocedure_cast, Casts!rewrite_regproc_cast,
              Casts!rewrite_regtype_cast, Casts!rewrite_char_cast, Casts!rewrite_xid_cast, Casts!rewrite_name_cast
<1>4. /\ Casts!strip_default_collate(e) = e /\ Casts!rewrite_time_zone_utc(e) = e
      /\ Casts!rewrite_pg_truetypid_composite_args(e) = e
  BY <1>1 DEF Casts!strip_default_collate, Casts!rewrite_time_zone_utc, Casts!rewrite_pg_truetypid_composite_args
<1>5. /\ Casts!rewrite_regoper_cast(e) = e /\ Casts!resolve_regproc_literals_to_function_oids(e) = e
      /\ Casts!resolve_regtype_literals_to_type_oids(e) = e /\ Casts!rewrite_oid_cast(e) = e
  BY <1>1 DEF Casts!rewrite_regoper_cast, Casts!resolve_regproc_literals_to_function_oids,
              Casts!resolve_regtype_literals_to_type_oids, Casts!rewrite_oid_cast, Casts!CastMatches
<1>6. /\ Casts!rewrite_schema_qualified_text(e) = e /\ Casts!rewrite_schema_qualified_custom_types(e) = e
      /\ Casts!rewrite_array_agg_varchar_cast(e) = e /\ Casts!drop_oid_array_cast(e) = e
      /\ Casts!drop_redundant_oid_and_regclass_casts(e) = e
  BY <1>1 DEF Casts!rewrite_schema_qualified_text, Casts!rewrite_schema_qualified_custom_types,
              Casts!rewrite_array_agg_varchar_cast, Casts!drop_oid_array_cast, Casts!drop_redundant_oid_and_regclass_casts
<1>7. Casts!rewrite_information_schema_casts(e) = e
  BY <1>1 DEF Casts!rewrite_information_schema_casts
<1>8. Casts!replace_regclass(e) = e
  BY <1>1 DEF Casts!replace_regclass
<1>9. Casts!rewrite_text_backed_type_casts(e) = e
  BY <1>1 DEF Casts!rewrite_text_backed_type_casts, Casts!CastMatches
<1>10. Casts!Node(p, e) = e
  BY <1>3, <1>4, <1>5, <1>6, <1>7, <1>8, <1>9 DEF Casts!Node
<1> QED BY <1>10 DEF e

(* The steps of the documented operands and of what becomes of them, and     *)
(* those of them that a pass may act on.                                    *)
Identifiers == {CastTo("bigint"), Casts!Paren} \cup {Casts!Call(f) : f \in {"oid", "pg_proc_oid", "pg_type_oid"}}
               \cup UNION {Both(n) : n \in {"regclass", "regtype", "regproc", "oid"}}
Touched(p) ==
    CASE p \in {"resolve_regproc_literals", "rewrite_oid_cast"} -> Both("oid")
      [] p = "rewrite_regproc_cast" -> Both("regproc")
      [] p = "rewrite_schema_qualified_custom_types" -> {Casts!Cast(Casts!Pg(n)) : n \in {"regclass", "regtype", "regproc"}}
      [] p \in {"replace_regclass", "drop_redundant_oid_and_regclass_casts"} -> Both("regclass") \cup Both("oid")
      [] p \in {"resolve_regtype_literals", "rewrite_regtype_cast"} -> Both("regtype")
      [] OTHER -> {}

(* What tells them apart. *)
LEMMA IdentifierSteps ==
  ASSUME NEW s \in Identifiers
  PROVE  /\ Casts!IsStep(s) /\ s.t.a = FALSE /\ s.op \in {"cast", "call", "paren"}
         /\ s.op = "cast" => /\ s.t.n \in {"regclass", "regtype", "regproc", "oid", "bigint"}
                             /\ s.t.s \in {Casts!Unqualified, "pg_catalog"}
                             /\ s \in Both(s.t.n)
                             /\ s.t.s = "pg_catalog" => s = Casts!Cast(Casts!Pg(s.t.n)) /\ s.t.n # "bigint"
<1>0. Casts!Unqualified # "pg_catalog"
  BY DEF Casts!Unqualified
<1>1. ASSUME NEW o, NEW q, NEW n, s = [op |-> o, t |-> Casts!Type(q, n, FALSE)]
      PROVE  Casts!IsStep(s) /\ s.t.a = FALSE /\ s.op = o /\ s.t.s = q /\ s.t.n = n
  BY <1>1 DEF Casts!Type, Casts!IsStep
<1>2. CASE s = CastTo("bigint")
  <2>1. s = [op |-> "cast", t |-> Casts!Type(Casts!Unqualified, "bigint", FALSE)]
    BY <1>2 DEF CastTo, Casts!Cast, Casts!Bare
  <2>2. s \in Both("bigint")
    BY <1>2 DEF CastTo, Both
  <2> QED BY <1>0, <1>1, <2>1, <2>2
<1>3. CASE s = Casts!Paren
  <2>1. PICK n : s = [op |-> "paren", t |-> Casts!Type(Casts!Unqualified, n, FALSE)]
    BY <1>3 DEF Casts!Paren, Casts!Bare
  <2>2. Casts!IsStep(s) /\ s.t.a = FALSE /\ s.op = "paren"
    BY <1>1, <2>1
  <2> QED BY <2>2
<1>4. CASE s \in {Casts!Call(f) : f \in {"oid", "pg_proc_oid", "pg_type_oid"}}
  <2>1. PICK n : s = [op |-> "call", t |-> Casts!Type(Casts!Unqualified, n, FALSE)]
    BY <1>4 DEF Casts!Call, Casts!Bare
  <2>2. Casts!IsStep(s) /\ s.t.a = FALSE /\ s.op = "call"
    BY <1>1, <2>1
  <2> QED BY <2>2
<1>5. CASE s \in UNION {Both(n) : n \in {"regclass", "regtype", "regproc", "oid"}}
  <2>1. PICK n \in {"regclass", "regtype", "regproc", "oid"} : s \in Both(n)
    BY <1>5
  <2>2. CASE s = Casts!Cast(Casts!Bare(n))
    <3>1. s = [op |-> "cast", t |-> Casts!Type(Casts!Unqualified, n, FALSE)]
      BY <2>2 DEF Casts!Cast, Casts!Bare
    <3> QED BY <1>0, <1>1, <2>1, <3>1
  <2>3. CASE s = Casts!Cast(Casts!Pg(n))
    <3>1. s = [op |-> "cast", t |-> Casts!Type("pg_catalog", n, FALSE)]
      BY <2>3 DEF Casts!Cast, Casts!Pg
    <3> QED BY <1>1, <2>1, <2>3, <3>1
  <2> QED BY <2>1, <2>2, <2>3 DEF Both
<1> QED BY <1>2, <1>3, <1>4, <1>5 DEF Identifiers

(* A pass leaves a step it does not act on as it is. *)
LEMMA Rests ==
  ASSUME NEW p, NEW b, NEW U, NEW y \in Seq(U), NEW s \in Identifiers, s \notin Touched(p)
  PROVE  Casts!Node(p, Expr(b, Append(y, s))) = Expr(b, Append(y, s))
<1> DEFINE e == Expr(b, Append(y, s))
<1>0. OuterIs(e, b, y, s)
  BY OuterStep
<1> HIDE DEF e
<1>1. ~Casts!Alone(e) /\ Casts!Outer(e) = s /\ (Casts!IsCast(e) <=> s.op = "cast") /\ Casts!CastType(e) = s.t
  BY <1>0 DEF OuterIs
<1>2. /\ Casts!IsStep(s) /\ s.t.a = FALSE /\ s.op \in {"cast", "call", "paren"}
      /\ s.op = "cast" => /\ s.t.n \in {"regclass", "regtype", "regproc", "oid", "bigint"}
                          /\ s.t.s \in {Casts!Unqualified, "pg_catalog"}
                          /\ s \in Both(s.t.n)
                          /\ s.t.s = "pg_catalog" => s = Casts!Cast(Casts!Pg(s.t.n)) /\ s.t.n # "bigint"
  BY IdentifierSteps
<1>3. \A n : Casts!CastMatches(e, n) => s \in Both(n) /\ s.op = "cast" /\ s.t.n = n
  BY <1>1, <1>2, MatchesBoth DEF Casts!CastMatches, Casts!object_name_matches
<1>4. \A n : n \notin {"regclass", "regtype", "regproc", "oid", "bigint"} => ~Casts!CastMatches(e, n)
  BY <1>2, <1>3
<1>5. \A n, t : ~Casts!CastMatches(e, n) => Casts!rewrite_custom_type_cast_target(e, n, t) = e
  BY DEF Casts!rewrite_custom_type_cast_target
<1>6. /\ Casts!rewrite_regoperator_cast(e) = e /\ Casts!rewrite_regprocedure_cast(e) = e
      /\ Casts!rewrite_char_cast(e) = e /\ Casts!rewrite_xid_cast(e) = e /\ Casts!rewrite_name_cast(e) = e
      /\ Casts!rewrite_regoper_cast(e) = e
  BY <1>4, <1>5 DEF Casts!rewrite_regoperator_cast, Casts!rewrite_regprocedure_cast,
              Casts!rewrite_char_cast, Casts!rewrite_xid_cast, Casts!rewrite_name_cast, Casts!rewrite_regoper_cast
<1>7. /\ Casts!strip_default_collate(e) = e /\ Casts!rewrite_time_zone_utc(e) = e
      /\ Casts!rewrite_pg_truetypid_composite_args(e) = e
  BY <1>1, <1>2 DEF Casts!strip_default_collate, Casts!rewrite_time_zone_utc, Casts!rewrite_pg_truetypid_composite_args,
                    Casts!Collate, Casts!Zone, Casts!RowCall
<1>8. Casts!rewrite_schema_qualified_text(e) = e /\ Casts!drop_oid_array_cast(e) = e /\ Casts!rewrite_array_agg_varchar_cast(e) = e
  BY <1>1, <1>2 DEF Casts!rewrite_schema_qualified_text, Casts!drop_oid_array_cast, Casts!rewrite_array_agg_varchar_cast,
                    Casts!Pg, Casts!Type
<1>9. Casts!rewrite_information_schema_casts(e) = e
  <2>1. /\ ~(Casts!IsCast(e) /\ Casts!CastType(e).s = "information_schema")
    BY <1>1, <1>2 DEF Casts!Unqualified
  <2>2. ~(Casts!IsCast(e) /\ Casts!CastType(e) = Casts!Bare("varchar"))
    BY <1>1, <1>2 DEF Casts!Bare, Casts!Type
  <2> QED BY <2>1, <2>2 DEF Casts!rewrite_information_schema_casts
<1>10. Casts!rewrite_text_backed_type_casts(e) = e
  <2>1. ~(Casts!IsCast(e) /\ Casts!CastType(e).a) /\ ~Casts!CastMatches(e, "anyarray")
    BY <1>1, <1>2, <1>4
  <2> QED BY <2>1 DEF Casts!rewrite_text_backed_type_casts
<1>11. ASSUME p \in {"resolve_regproc_literals", "rewrite_oid_cast"}
       PROVE  Casts!resolve_regproc_literals_to_function_oids(e) = e /\ Casts!rewrite_oid_cast(e) = e
  <2>1. s \notin Both("oid")
    BY <1>11 DEF Touched
  <2> QED BY <1>3, <2>1 DEF Casts!resolve_regproc_literals_to_function_oids, Casts!rewrite_oid_cast
<1>12. ASSUME p = "rewrite_regproc_cast" PROVE Casts!rewrite_regproc_cast(e) = e
  <2>1. s \notin Both("regproc")
    BY <1>12 DEF Touched
  <2> QED BY <1>3, <1>5, <2>1 DEF Casts!rewrite_regproc_cast
<1>13. ASSUME p \in {"resolve_regtype_literals", "rewrite_regtype_cast"}
       PROVE  Casts!resolve_regtype_literals_to_type_oids(e) = e /\ Casts!rewrite_regtype_cast(e) = e
  <2>1. s \notin Both("regtype")
    BY <1>13 DEF Touched
  <2> QED BY <1>3, <1>5, <2>1 DEF Casts!resolve_regtype_literals_to_type_oids, Casts!rewrite_regtype_cast
<1>14. ASSUME p = "rewrite_schema_qualified_custom_types"
       PROVE  Casts!rewrite_schema_qualified_custom_types(e) = e
  <2>1. s \notin {Casts!Cast(Casts!Pg(n)) : n \in {"regclass", "regtype", "regproc"}}
    BY <1>14 DEF Touched
  <2>2. "oid" \notin DOMAIN Casts!datafusion_type_for
    <3>1. DOMAIN Casts!datafusion_type_for = {"text", "regnamespace", "regtype", "regclass", "regproc", "regoper"}
            \cup {"int2", "int4", "int8", "float4", "float8", "bool"}
      BY Zenon DEF Casts!datafusion_type_for
    <3> QED BY <3>1
  <2>3. ~(Casts!IsCast(e) /\ Casts!CastType(e).s = "pg_catalog" /\ Casts!CastType(e).n \in DOMAIN Casts!datafusion_type_for)
    BY <1>1, <1>2, <2>1, <2>2
  <2> QED BY <2>3 DEF Casts!rewrite_schema_qualified_custom_types
<1>15. ASSUME p \in {"replace_regclass", "drop_redundant_oid_and_regclass_casts"}
       PROVE  Casts!replace_regclass(e) = e /\ Casts!drop_redundant_oid_and_regclass_casts(e) = e
  <2>1. s \notin Both("regclass") /\ s \notin Both("oid")
    BY <1>15 DEF Touched
  <2>2. Casts!Bare("oid").n = "oid" /\ Casts!Bare("regclass").n = "regclass"
    BY DEF Casts!Bare, Casts!Type
  <2>3. ~(Casts!IsCast(e) /\ Casts!CastType(e).n \in {"oid", "regclass"})
    BY <1>1, <1>2, <2>1
  <2>4. ~(Casts!IsCast(e) /\ Casts!CastType(e) \in {Casts!Bare("oid"), Casts!Bare("regclass")})
    BY <2>2, <2>3
  <2>5. ~(Casts!IsCast(e) /\ Casts!is_regclass_type(Casts!CastType(e)))
    BY <2>3 DEF Casts!is_regclass_type, Casts!object_name_matches
  <2>6. Casts!replace_regclass(e) = e
    BY <2>4, <2>5 DEF Casts!replace_regclass
  <2>7. Casts!drop_redundant_oid_and_regclass_casts(e) = e
    BY <2>4 DEF Casts!drop_redundant_oid_and_regclass_casts
  <2> QED BY <2>6, <2>7
<1>16. Casts!Node(p, e) = e
  BY <1>6, <1>7, <1>8, <1>9, <1>10, <1>11, <1>12, <1>13, <1>14, <1>15 DEF Casts!Node
<1> QED BY <1>16 DEF e

(* The value of an operand after each number of its steps. *)
ValueRuns(e, v, m) ==
    v = [n \in 0..m |-> IF n = 0 THEN Casts!ColumnValue(e.base) ELSE Casts!StepValue(v[n - 1], e.steps[n])]

(* There is such an evaluation, as far as one likes. *)
LEMMA ValueExists ==
  ASSUME NEW e, NEW m \in Nat
  PROVE  \E v : ValueRuns(e, v, m)
<1> DEFINE S == {n \in Nat : ~\E v : ValueRuns(e, v, n)}
<1> SUFFICES ASSUME S # {} PROVE FALSE
  BY DEF S
<1> DEFINE k == Min(S)
<1>1. k \in S /\ \A j \in S : k <= j
  BY LeastPosition
<1>2. k \in Nat /\ ~\E v : ValueRuns(e, v, k)
  BY <1>1
<1>3. \A j \in Nat : j < k => \E v : ValueRuns(e, v, j)
  BY <1>1, <1>2
<1> HIDE DEF S, k
<1>4. CASE k = 0
  <2> DEFINE v == [n \in 0..0 |-> Casts!ColumnValue(e.base)]
  <2>1. v = [n \in 0..0 |-> IF n = 0 THEN Casts!ColumnValue(e.base) ELSE Casts!StepValue(v[n - 1], e.steps[n])]
    OBVIOUS
  <2> HIDE DEF v
  <2> QED BY <1>2, <1>4, <2>1 DEF ValueRuns
<1>5. CASE k # 0
  <2>1. k - 1 \in Nat /\ k - 1 < k
    BY <1>2, <1>5
  <2>2. PICK u : ValueRuns(e, u, k - 1)
    BY <1>3, <2>1
  <2> DEFINE made(n) == IF n = 0 THEN Casts!ColumnValue(e.base) ELSE Casts!StepValue(u[n - 1], e.steps[n])
             v == [n \in 0..k |-> made(n)]
  <2>3. \A n \in 0..(k - 1) : u[n] = made(n)
    <3>1. u = [n \in 0..(k - 1) |-> made(n)]
      BY <2>2 DEF ValueRuns
    <3> HIDE DEF made
    <3> QED BY <3>1
  <2>4. \A n \in 0..(k - 1) : v[n] = u[n]
    <3>1. \A n \in 0..(k - 1) : n \in 0..k
      BY <1>2
    <3> HIDE DEF made
    <3> QED BY <2>3, <3>1
  <2>5. \A n \in 0..k : made(n) = IF n = 0 THEN Casts!ColumnValue(e.base) ELSE Casts!StepValue(v[n - 1], e.steps[n])
    <3> HIDE DEF v
    <3> SUFFICES ASSUME NEW n \in 0..k, n # 0
                 PROVE  Casts!StepValue(u[n - 1], e.steps[n]) = Casts!StepValue(v[n - 1], e.steps[n])
      OBVIOUS
    <3>1. n - 1 \in 0..(k - 1)
      BY <1>2
    <3> QED BY <2>4, <3>1
  <2>6. v = [n \in 0..k |-> IF n = 0 THEN Casts!ColumnValue(e.base) ELSE Casts!StepValue(v[n - 1], e.steps[n])]
    <3> DEFINE w == [n \in 0..k |-> IF n = 0 THEN Casts!ColumnValue(e.base) ELSE Casts!StepValue(v[n - 1], e.steps[n])]
    <3>1. \A n \in 0..k : v[n] = w[n]
      <4>1. \A n \in 0..k : v[n] = made(n)
        <5> HIDE DEF made
        <5> QED OBVIOUS
      <4>2. \A n \in 0..k : w[n] = IF n = 0 THEN Casts!ColumnValue(e.base) ELSE Casts!StepValue(v[n - 1], e.steps[n])
        <5> HIDE DEF v
        <5> QED OBVIOUS
      <4> HIDE DEF v, w, made
      <4> QED BY <2>5, <4>1, <4>2
    <3>2. v = [n \in 0..k |-> v[n]] /\ w = [n \in 0..k |-> w[n]]
      <4> HIDE DEF made
      <4> QED OBVIOUS
    <3> HIDE DEF v, w
    <3>3. v = w
      BY <3>1, <3>2
    <3> QED BY <3>3 DEF w
  <2> HIDE DEF v
  <2> QED BY <1>2, <2>6 DEF ValueRuns
<1> QED BY <1>4, <1>5

(* Where it ends. *)
LEMMA ValueOf ==
  ASSUME NEW e, Len(e.steps) \in Nat
  PROVE  \E v : /\ v[0] = Casts!ColumnValue(e.base)
                /\ \A n \in 1..Len(e.steps) : v[n] = Casts!StepValue(v[n - 1], e.steps[n])
                /\ Casts!Value(e) = v[Len(e.steps)]
<1> DEFINE m == Len(e.steps)
           v == CHOOSE w : ValueRuns(e, w, m)
<1>1. ValueRuns(e, v, m)
  BY ValueExists
<1>2. Casts!Value(e) = v[m]
  BY DEF Casts!Value, ValueRuns
<1> HIDE DEF v
<1>3. v[0] = Casts!ColumnValue(e.base) /\ \A n \in 1..m : v[n] = Casts!StepValue(v[n - 1], e.steps[n])
  <2> DEFINE made(n) == IF n = 0 THEN Casts!ColumnValue(e.base) ELSE Casts!StepValue(v[n - 1], e.steps[n])
  <2>1. v = [n \in 0..m |-> made(n)]
    BY <1>1 DEF ValueRuns
  <2>2. 0 \in 0..m /\ \A n \in 1..m : n \in 0..m /\ n # 0
    OBVIOUS
  <2>3. \A n \in 0..m : v[n] = made(n)
    <3> HIDE DEF made, m
    <3> QED BY <2>1
  <2> QED BY <2>2, <2>3
<1> QED BY <1>2, <1>3

(* The value of an operand alone, and with one step more. *)
LEMMA ValueSteps ==
  ASSUME NEW U, NEW b, NEW y \in Seq(U), NEW s \in U
  PROVE  /\ Casts!Value(Expr(b, <<>>)) = Casts!ColumnValue(b)
         /\ Casts!Value(Expr(b, Append(y, s))) = Casts!StepValue(Casts!Value(Expr(b, y)), s)
<1>1. Casts!Value(Expr(b, <<>>)) = Casts!ColumnValue(b)
  <2> DEFINE d == Expr(b, <<>>)
  <2>1. d.base = b /\ Len(d.steps) = 0
    BY StepsOf
  <2> HIDE DEF d
  <2>2. \E v : v[0] = Casts!ColumnValue(d.base) /\ Casts!Value(d) = v[Len(d.steps)]
    BY <2>1, ValueOf
  <2> QED BY <2>1, <2>2 DEF d
<1> DEFINE e == Expr(b, Append(y, s))
           d == Expr(b, y)
           m == Len(y)
<1>2. e.base = b /\ d.base = b /\ d.steps = y /\ Len(d.steps) \in Nat
  BY StepsOf
<1>3. /\ e.steps = Append(y, s) /\ m \in Nat /\ Len(e.steps) = m + 1
      /\ e.steps[m + 1] = s /\ \A i \in 1..m : e.steps[i] = y[i]
  <2>1. e.steps = Append(y, s)
    BY StepsOf
  <2> HIDE DEF e, d
  <2> QED BY <2>1, AppendProperties
<1> HIDE DEF e, d
<1>4. PICK v : /\ v[0] = Casts!ColumnValue(b)
               /\ \A n \in 1..m : v[n] = Casts!StepValue(v[n - 1], y[n])
               /\ Casts!Value(d) = v[m]
  <2>1. \E v : /\ v[0] = Casts!ColumnValue(d.base)
               /\ \A n \in 1..Len(d.steps) : v[n] = Casts!StepValue(v[n - 1], d.steps[n])
               /\ Casts!Value(d) = v[Len(d.steps)]
    BY <1>2, ValueOf
  <2> QED BY <1>2, <2>1
<1>5. PICK w : /\ w[0] = Casts!ColumnValue(b)
               /\ \A n \in 1..Len(e.steps) : w[n] = Casts!StepValue(w[n - 1], e.steps[n])
               /\ Casts!Value(e) = w[Len(e.steps)]
  <2>1. Len(e.steps) \in Nat
    BY <1>3
  <2>2. \E w : /\ w[0] = Casts!ColumnValue(e.base)
               /\ \A n \in 1..Len(e.steps) : w[n] = Casts!StepValue(w[n - 1], e.steps[n])
               /\ Casts!Value(e) = w[Len(e.steps)]
    BY <2>1, ValueOf
  <2> QED BY <1>2, <2>2
<1> DEFINE Bad == {n \in 0..m : v[n] # w[n]}
<1>6. Bad = {}
  <2> SUFFICES ASSUME Bad # {} PROVE FALSE
    OBVIOUS
  <2> DEFINE k == Min(Bad)
  <2>0. Bad \subseteq Nat
    OBVIOUS
  <2>1. k \in Bad /\ \A j \in Bad : k <= j
    <3> HIDE DEF Bad
    <3> QED BY <2>0, LeastPosition
  <2> HIDE DEF k
  <2>2. k \in 0..m /\ v[k] # w[k]
    BY <2>1
  <2>3. k # 0
    BY <1>4, <1>5, <2>2
  <2>4. k \in 1..m /\ k - 1 \in 0..m /\ ~(k <= k - 1) /\ k \in 1..Len(e.steps)
    BY <1>3, <2>2, <2>3
  <2>5. v[k - 1] = w[k - 1]
    BY <2>1, <2>4
  <2> QED BY <1>3, <1>4, <1>5, <2>2, <2>4, <2>5
<1>7. w[m] = v[m]
  BY <1>3, <1>6
<1>8. w[m + 1] = Casts!StepValue(w[m], s)
  <2>1. m + 1 \in 1..Len(e.steps) /\ (m + 1) - 1 = m
    BY <1>3
  <2> QED BY <1>3, <1>5, <2>1
<1>9. Casts!Value(e) = Casts!StepValue(Casts!Value(d), s)
  BY <1>3, <1>4, <1>5, <1>7, <1>8
<1> QED BY <1>1, <1>9 DEF e, d

(* What PostgreSQL may make of it after each number of its steps. *)
MeaningRuns(e, v, m) ==
    v = [n \in 0..m |-> IF n = 0 THEN Casts!PostgresBase(e.base) ELSE Casts!PostgresStep(v[n - 1], e.steps[n])]

(* There is such an evaluation, as far as one likes. *)
LEMMA MeaningExists ==
  ASSUME NEW e, NEW m \in Nat
  PROVE  \E v : MeaningRuns(e, v, m)
<1> DEFINE S == {n \in Nat : ~\E v : MeaningRuns(e, v, n)}
<1> SUFFICES ASSUME S # {} PROVE FALSE
  BY DEF S
<1> DEFINE k == Min(S)
<1>1. k \in S /\ \A j \in S : k <= j
  BY LeastPosition
<1>2. k \in Nat /\ ~\E v : MeaningRuns(e, v, k)
  BY <1>1
<1>3. \A j \in Nat : j < k => \E v : MeaningRuns(e, v, j)
  BY <1>1, <1>2
<1> HIDE DEF S, k
<1>4. CASE k = 0
  <2> DEFINE v == [n \in 0..0 |-> Casts!PostgresBase(e.base)]
  <2>1. v = [n \in 0..0 |-> IF n = 0 THEN Casts!PostgresBase(e.base) ELSE Casts!PostgresStep(v[n - 1], e.steps[n])]
    OBVIOUS
  <2> HIDE DEF v
  <2> QED BY <1>2, <1>4, <2>1 DEF MeaningRuns
<1>5. CASE k # 0
  <2>1. k - 1 \in Nat /\ k - 1 < k
    BY <1>2, <1>5
  <2>2. PICK u : MeaningRuns(e, u, k - 1)
    BY <1>3, <2>1
  <2> DEFINE made(n) == IF n = 0 THEN Casts!PostgresBase(e.base) ELSE Casts!PostgresStep(u[n - 1], e.steps[n])
             v == [n \in 0..k |-> made(n)]
  <2>3. \A n \in 0..(k - 1) : u[n] = made(n)
    <3>1. u = [n \in 0..(k - 1) |-> made(n)]
      BY <2>2 DEF MeaningRuns
    <3> HIDE DEF made
    <3> QED BY <3>1
  <2>4. \A n \in 0..(k - 1) : v[n] = u[n]
    <3>1. \A n \in 0..(k - 1) : n \in 0..k
      BY <1>2
    <3> HIDE DEF made
    <3> QED BY <2>3, <3>1
  <2>5. \A n \in 0..k : made(n) = IF n = 0 THEN Casts!PostgresBase(e.base) ELSE Casts!PostgresStep(v[n - 1], e.steps[n])
    <3> HIDE DEF v
    <3> SUFFICES ASSUME NEW n \in 0..k, n # 0
                 PROVE  Casts!PostgresStep(u[n - 1], e.steps[n]) = Casts!PostgresStep(v[n - 1], e.steps[n])
      OBVIOUS
    <3>1. n - 1 \in 0..(k - 1)
      BY <1>2
    <3> QED BY <2>4, <3>1
  <2>6. v = [n \in 0..k |-> IF n = 0 THEN Casts!PostgresBase(e.base) ELSE Casts!PostgresStep(v[n - 1], e.steps[n])]
    <3> DEFINE w == [n \in 0..k |-> IF n = 0 THEN Casts!PostgresBase(e.base) ELSE Casts!PostgresStep(v[n - 1], e.steps[n])]
    <3>1. \A n \in 0..k : v[n] = w[n]
      <4>1. \A n \in 0..k : v[n] = made(n)
        <5> HIDE DEF made
        <5> QED OBVIOUS
      <4>2. \A n \in 0..k : w[n] = IF n = 0 THEN Casts!PostgresBase(e.base) ELSE Casts!PostgresStep(v[n - 1], e.steps[n])
        <5> HIDE DEF v
        <5> QED OBVIOUS
      <4> HIDE DEF v, w, made
      <4> QED BY <2>5, <4>1, <4>2
    <3>2. v = [n \in 0..k |-> v[n]] /\ w = [n \in 0..k |-> w[n]]
      <4> HIDE DEF made
      <4> QED OBVIOUS
    <3> HIDE DEF v, w
    <3>3. v = w
      BY <3>1, <3>2
    <3> QED BY <3>3 DEF w
  <2> HIDE DEF v
  <2> QED BY <1>2, <2>6 DEF MeaningRuns
<1> QED BY <1>4, <1>5

(* Where it ends. *)
LEMMA MeaningOf ==
  ASSUME NEW e, Len(e.steps) \in Nat
  PROVE  \E v : /\ v[0] = Casts!PostgresBase(e.base)
                /\ \A n \in 1..Len(e.steps) : v[n] = Casts!PostgresStep(v[n - 1], e.steps[n])
                /\ Casts!PostgresValues(e) = v[Len(e.steps)]
<1> DEFINE m == Len(e.steps)
           v == CHOOSE w : MeaningRuns(e, w, m)
<1>1. MeaningRuns(e, v, m)
  BY MeaningExists
<1>2. Casts!PostgresValues(e) = v[m]
  BY DEF Casts!PostgresValues, MeaningRuns
<1> HIDE DEF v
<1>3. v[0] = Casts!PostgresBase(e.base) /\ \A n \in 1..m : v[n] = Casts!PostgresStep(v[n - 1], e.steps[n])
  <2> DEFINE made(n) == IF n = 0 THEN Casts!PostgresBase(e.base) ELSE Casts!PostgresStep(v[n - 1], e.steps[n])
  <2>1. v = [n \in 0..m |-> made(n)]
    BY <1>1 DEF MeaningRuns
  <2>2. 0 \in 0..m /\ \A n \in 1..m : n \in 0..m /\ n # 0
    OBVIOUS
  <2>3. \A n \in 0..m : v[n] = made(n)
    <3> HIDE DEF made, m
    <3> QED BY <2>1
  <2> QED BY <2>2, <2>3
<1> QED BY <1>2, <1>3

(* What it may make of an operand alone, and with one step more. *)
LEMMA MeaningSteps ==
  ASSUME NEW U, NEW b, NEW y \in Seq(U), NEW s \in U
  PROVE  /\ Casts!PostgresValues(Expr(b, <<>>)) = Casts!PostgresBase(b)
         /\ Casts!PostgresValues(Expr(b, Append(y, s))) = Casts!PostgresStep(Casts!PostgresValues(Expr(b, y)), s)
<1>1. Casts!PostgresValues(Expr(b, <<>>)) = Casts!PostgresBase(b)
  <2> DEFINE d == Expr(b, <<>>)
  <2>1. d.base = b /\ Len(d.steps) = 0
    BY StepsOf
  <2> HIDE DEF d
  <2>2. \E v : v[0] = Casts!PostgresBase(d.base) /\ Casts!PostgresValues(d) = v[Len(d.steps)]
    BY <2>1, MeaningOf
  <2> QED BY <2>1, <2>2 DEF d
<1> DEFINE e == Expr(b, Append(y, s))
           d == Expr(b, y)
           m == Len(y)
<1>2. e.base = b /\ d.base = b /\ d.steps = y /\ Len(d.steps) \in Nat
  BY StepsOf
<1>3. /\ e.steps = Append(y, s) /\ m \in Nat /\ Len(e.steps) = m + 1
      /\ e.steps[m + 1] = s /\ \A i \in 1..m : e.steps[i] = y[i]
  <2>1. e.steps = Append(y, s)
    BY StepsOf
  <2> HIDE DEF e, d
  <2> QED BY <2>1, AppendProperties
<1> HIDE DEF e, d
<1>4. PICK v : /\ v[0] = Casts!PostgresBase(b)
               /\ \A n \in 1..m : v[n] = Casts!PostgresStep(v[n - 1], y[n])
               /\ Casts!PostgresValues(d) = v[m]
  <2>1. \E v : /\ v[0] = Casts!PostgresBase(d.base)
               /\ \A n \in 1..Len(d.steps) : v[n] = Casts!PostgresStep(v[n - 1], d.steps[n])
               /\ Casts!PostgresValues(d) = v[Len(d.steps)]
    BY <1>2, MeaningOf
  <2> QED BY <1>2, <2>1
<1>5. PICK w : /\ w[0] = Casts!PostgresBase(b)
               /\ \A n \in 1..Len(e.steps) : w[n] = Casts!PostgresStep(w[n - 1], e.steps[n])
               /\ Casts!PostgresValues(e) = w[Len(e.steps)]
  <2>1. Len(e.steps) \in Nat
    BY <1>3
  <2>2. \E w : /\ w[0] = Casts!PostgresBase(e.base)
               /\ \A n \in 1..Len(e.steps) : w[n] = Casts!PostgresStep(w[n - 1], e.steps[n])
               /\ Casts!PostgresValues(e) = w[Len(e.steps)]
    BY <2>1, MeaningOf
  <2> QED BY <1>2, <2>2
<1> DEFINE Bad == {n \in 0..m : v[n] # w[n]}
<1>6. Bad = {}
  <2> SUFFICES ASSUME Bad # {} PROVE FALSE
    OBVIOUS
  <2> DEFINE k == Min(Bad)
  <2>0. Bad \subseteq Nat
    OBVIOUS
  <2>1. k \in Bad /\ \A j \in Bad : k <= j
    <3> HIDE DEF Bad
    <3> QED BY <2>0, LeastPosition
  <2> HIDE DEF k
  <2>2. k \in 0..m /\ v[k] # w[k]
    BY <2>1
  <2>3. k # 0
    BY <1>4, <1>5, <2>2
  <2>4. k \in 1..m /\ k - 1 \in 0..m /\ ~(k <= k - 1) /\ k \in 1..Len(e.steps)
    BY <1>3, <2>2, <2>3
  <2>5. v[k - 1] = w[k - 1]
    BY <2>1, <2>4
  <2> QED BY <1>3, <1>4, <1>5, <2>2, <2>4, <2>5
<1>7. w[m] = v[m]
  BY <1>3, <1>6
<1>8. w[m + 1] = Casts!PostgresStep(w[m], s)
  <2>1. m + 1 \in 1..Len(e.steps) /\ (m + 1) - 1 = m
    BY <1>3
  <2> QED BY <1>3, <1>5, <2>1
<1>9. Casts!PostgresValues(e) = Casts!PostgresStep(Casts!PostgresValues(d), s)
  BY <1>3, <1>4, <1>5, <1>7, <1>8
<1> QED BY <1>1, <1>9 DEF e, d

(* A pass leaves an operand none of whose steps it acts on. *)
LEMMA RestingPass ==
  ASSUME NEW p, NEW b, NEW y \in Seq(Identifiers), \A i \in 1..Len(y) : y[i] \notin Touched(p)
  PROVE  Casts!rewrite_each_expression(p, Expr(b, y)) = Expr(b, y)
<1> DEFINE Z == [n \in 0..Len(y) |-> {z \in Seq(Identifiers) : Len(z) = n /\ \A i \in 1..n : z[i] = y[i]}]
<1>1. <<>> \in Z[0]
  OBVIOUS
<1>2. ASSUME NEW n \in 1..Len(y), NEW z \in Z[n - 1] PROVE StepsTo(p, b, z, y[n], Z[n])
  <2>1. n - 1 \in 0..Len(y) /\ n \in 0..Len(y) /\ y[n] \in Identifiers /\ y[n] \notin Touched(p)
    OBVIOUS
  <2>2. z \in Seq(Identifiers) /\ Len(z) = n - 1 /\ \A i \in 1..(n - 1) : z[i] = y[i]
    BY <2>1
  <2> DEFINE w == Append(z, y[n])
  <2>3. w \in Seq(Identifiers) /\ Len(w) = n /\ w[n] = y[n] /\ \A i \in 1..(n - 1) : w[i] = z[i]
    BY <2>1, <2>2, AppendProperties
  <2>4. Casts!Node(p, Expr(b, w)) = Expr(b, w)
    BY <2>1, <2>2, Rests
  <2> HIDE DEF w
  <2>5. \A i \in 1..n : i \in 1..(n - 1) \/ i = n
    OBVIOUS
  <2>6. \A i \in 1..n : w[i] = y[i]
    BY <2>2, <2>3, <2>5
  <2>7. w \in Z[n]
    BY <2>1, <2>3, <2>6
  <2> HIDE DEF Z
  <2> QED BY <2>4, <2>7 DEF StepsTo, w
<1> HIDE DEF Z
<1>3. PICK z \in Z[Len(y)] : Casts!rewrite_each_expression(p, Expr(b, y)) = Expr(b, z)
  <2>1. Casts!Node(p, Expr(b, <<>>)) = Expr(b, <<>>)
    BY AloneRests
  <2> QED BY <1>1, <1>2, <2>1, StepsPass
<1>4. Len(y) \in 0..Len(y)
  OBVIOUS
<1>5. z \in Seq(Identifiers) /\ Len(z) = Len(y) /\ \A i \in 1..Len(y) : z[i] = y[i]
  BY <1>4 DEF Z
<1>6. z = y
  BY <1>5, SeqEqual
<1> QED BY <1>3, <1>6

(* One side of a comparison on its way through the passes over each operand. *)
Walk(p, e) == Casts!rewrite_each_expression(p, e)
Uncollated(e) == Walk("rewrite_regproc_cast", Walk("resolve_regproc_literals",
    Walk("rewrite_regprocedure_cast", Walk("rewrite_regoperator_cast",
      Walk("rewrite_regoper_cast", Walk("rewrite_time_zone_utc", Walk("strip_default_collate", e)))))))
Requalified(e) == Walk("rewrite_char_cast", Walk("rewrite_information_schema_casts",
    Walk("rewrite_pg_truetypid", Walk("rewrite_schema_qualified_custom_types",
      Walk("rewrite_schema_qualified_text", e)))))
Catalogued(e) == Walk("rewrite_oid_cast", Walk("rewrite_text_backed_type_casts",
    Walk("rewrite_name_cast", Walk("rewrite_xid_cast", Walk("rewrite_regtype_cast",
      Walk("resolve_regtype_literals", Walk("replace_regclass", e)))))))
Typed(e) == Catalogued(Requalified(Uncollated(e)))
Trimmed(e) == Walk("rewrite_array_agg_varchar_cast", Walk("drop_oid_array_cast",
    Walk("drop_redundant_oid_and_regclass_casts", e)))

(* Each takes both sides of a comparison its way. *)
LEMMA EachSide ==
  ASSUME NEW p, NEW l, NEW op, NEW r
  PROVE  Casts!Each(p, [l |-> l, op |-> op, r |-> r]) = [l |-> Walk(p, l), op |-> op, r |-> Walk(p, r)]
<1> DEFINE c == [l |-> l, op |-> op, r |-> r]
           d == Casts!Each(p, c)
           x == Walk(p, l)
           y == Walk(p, r)
<1>1. c.l = l /\ c.op = op /\ c.r = r /\ c = [l |-> c.l, op |-> c.op, r |-> c.r]
  OBVIOUS
<1> HIDE DEF c
<1>2. d = [c EXCEPT !.l = x, !.r = y]
  BY <1>1 DEF Casts!Each, Walk
<1> HIDE DEF d, x, y
<1>3. d = [l |-> x, op |-> c.op, r |-> y]
  BY <1>1, <1>2
<1> QED BY <1>1, <1>3 DEF c, d, x, y

(* So do the groups of passes. *)
LEMMA GroupsSide ==
  ASSUME NEW l, NEW op, NEW r
  PROVE  LET c == [l |-> l, op |-> op, r |-> r]
         IN  /\ Casts!collations_and_procedures(c) = [l |-> Uncollated(l), op |-> op, r |-> Uncollated(r)]
             /\ Casts!qualified_types(c) = [l |-> Requalified(l), op |-> op, r |-> Requalified(r)]
             /\ Casts!catalog_types(c) = [l |-> Catalogued(l), op |-> op, r |-> Catalogued(r)]
             /\ Casts!redundant_casts(c) = [l |-> Trimmed(l), op |-> op, r |-> Trimmed(r)]
<1> DEFINE c == [l |-> l, op |-> op, r |-> r]
           C(x, y) == [l |-> x, op |-> op, r |-> y]
<1>1. \A p, x, y : Casts!Each(p, C(x, y)) = C(Walk(p, x), Walk(p, y))
  BY EachSide
<1>2. c = C(l, r)
  OBVIOUS
<1> HIDE DEF c, C
<1>3. Casts!collations_and_procedures(c) = C(Uncollated(l), Uncollated(r))
  BY <1>1, <1>2 DEF Casts!collations_and_procedures, Uncollated
<1>4. Casts!qualified_types(c) = C(Requalified(l), Requalified(r))
  BY <1>1, <1>2 DEF Casts!qualified_types, Requalified
<1>5. Casts!catalog_types(c) = C(Catalogued(l), Catalogued(r))
  BY <1>1, <1>2 DEF Casts!catalog_types, Catalogued
<1>6. Casts!redundant_casts(c) = C(Trimmed(l), Trimmed(r))
  BY <1>1, <1>2 DEF Casts!redundant_casts, Trimmed
<1> QED BY <1>3, <1>4, <1>5, <1>6 DEF c, C

(* What resolve_regproc_literals makes of an oid cast: a lookup around a      *)
(* regproc of a literal, nothing around anything else.                       *)
LEMMA OidAroundOther ==
  ASSUME NEW b, NEW z \in Seq(Identifiers), NEW s \in Both("oid"),
         z = <<>> \/ \E x \in Seq(Identifiers), r \in Identifiers \ Both("regproc") : z = Append(x, r)
  PROVE  Casts!Node("resolve_regproc_literals", Expr(b, Append(z, s))) = Expr(b, Append(z, s))
<1> DEFINE e == Expr(b, Append(z, s))
           d == Expr(b, z)
<1>1. Casts!Operand(e) = d
  BY OuterStep DEF OuterIs
<1>2. ~Casts!CastMatches(d, "regproc")
  <2>1. CASE z = <<>>
    <3>1. Casts!Alone(d)
      BY <2>1, StepsOf DEF Casts!Alone
    <3> QED BY <3>1 DEF Casts!CastMatches, Casts!IsCast
  <2>2. CASE \E x \in Seq(Identifiers), r \in Identifiers \ Both("regproc") : z = Append(x, r)
    <3>1. PICK x \in Seq(Identifiers), r \in Identifiers \ Both("regproc") : z = Append(x, r)
      BY <2>2
    <3>2. OuterIs(d, b, x, r)
      BY <3>1, OuterStep
    <3>3. Casts!IsStep(r)
      BY IdentifierSteps
    <3> HIDE DEF d
    <3>4. (Casts!IsCast(d) <=> r.op = "cast") /\ Casts!CastType(d) = r.t
      BY <3>2 DEF OuterIs
    <3> QED BY <3>1, <3>3, <3>4, MatchesBoth DEF Casts!CastMatches
  <2> QED BY <2>1, <2>2
<1> HIDE DEF e, d
<1>3. Casts!resolve_regproc_literals_to_function_oids(e) = e
  BY <1>1, <1>2 DEF Casts!resolve_regproc_literals_to_function_oids
<1> QED BY <1>3 DEF Casts!Node, e

(* A cast to regproc with one to oid around it, over a literal in  *)
(* parentheses, is read by resolve_regproc_literals as one lookup. *)
LEMMA OidAroundLiteral ==
  ASSUME NEW b, b.k = "lit", NEW q \in Seq(Identifiers), \A i \in 1..Len(q) : q[i] = Casts!Paren,
         NEW r \in Both("regproc"), NEW s \in Both("oid")
  PROVE  Casts!Node("resolve_regproc_literals", Expr(b, Append(Append(q, r), s)))
           = Expr(b, Append(q, Casts!Call("pg_proc_oid")))
<1> DEFINE e == Expr(b, Append(Append(q, r), s))
           d == Expr(b, Append(q, r))
           x == Expr(b, q)
<1>0. r \in Identifiers /\ s \in Identifiers
  BY DEF Identifiers
<1>1. OuterIs(e, b, Append(q, r), s) /\ OuterIs(d, b, q, r)
  <2>1. Append(q, r) \in Seq(Identifiers)
    BY <1>0
  <2> QED BY <1>0, <2>1, OuterStep
<1>2. x.base = b /\ x.steps = q
  BY StepsOf
<1>3. Casts!IsStep(r) /\ Casts!IsStep(s)
  BY <1>0, IdentifierSteps
<1>4. Casts!is_string_literal_operand(x)
  <2>1. DOMAIN q = 1..Len(q)
    OBVIOUS
  <2> HIDE DEF x
  <2> QED BY <1>2, <2>1 DEF Casts!is_string_literal_operand
<1>5. Casts!Operand(e) = d /\ Casts!Operand(d) = x
  BY <1>1 DEF OuterIs
<1>6. Casts!CallOf("pg_proc_oid", x) = Expr(b, Append(q, Casts!Call("pg_proc_oid")))
  BY <1>1 DEF OuterIs
<1> HIDE DEF e, d, x
<1>7. Casts!CastMatches(e, "oid") /\ Casts!CastMatches(d, "regproc")
  <2>1. /\ (Casts!IsCast(e) <=> s.op = "cast") /\ Casts!CastType(e) = s.t
        /\ (Casts!IsCast(d) <=> r.op = "cast") /\ Casts!CastType(d) = r.t
    BY <1>1 DEF OuterIs
  <2> QED BY <1>3, <2>1, MatchesBoth DEF Casts!CastMatches
<1>8. Casts!resolve_regproc_literals_to_function_oids(e) = Casts!CallOf("pg_proc_oid", x)
  BY <1>4, <1>5, <1>7 DEF Casts!resolve_regproc_literals_to_function_oids
<1> QED BY <1>6, <1>8 DEF Casts!Node, e

(* An operand of one step and the pass that looks at it. *)
LEMMA OneStep ==
  ASSUME NEW p, NEW b, NEW s \in Identifiers
  PROVE  /\ Walk(p, Expr(b, <<s>>)) = Casts!Node(p, Expr(b, <<s>>))
         /\ OuterIs(Expr(b, <<s>>), b, <<>>, s)
<1>1. Append(<<>>, s) = <<s>> /\ <<>> \in Seq(Identifiers)
  OBVIOUS
<1>2. OuterIs(Expr(b, Append(<<>>, s)), b, <<>>, s)
  BY <1>1, OuterStep
<1>3. Casts!rewrite_each_expression(p, Expr(b, <<>>)) = Expr(b, <<>>)
  BY FirstNode, AloneRests
<1>4. Casts!rewrite_each_expression(p, Expr(b, Append(<<>>, s))) = Casts!Node(p, Expr(b, Append(<<>>, s)))
  <2> DEFINE y == <<>>
  <2>1. y \in Seq(Identifiers) /\ Casts!rewrite_each_expression(p, Expr(b, y)) = Expr(b, y)
    BY <1>1, <1>3
  <2> HIDE DEF y
  <2>2. Casts!rewrite_each_expression(p, Expr(b, Append(y, s))) = Casts!Node(p, Expr(b, Append(y, s)))
    BY <2>1, LastStep
  <2> QED BY <2>2 DEF y
<1> QED BY <1>1, <1>2, <1>4 DEF Walk

(* A literal under regclass or regtype is left to the lookups. *)
LEMMA QualifiedLiteral ==
  ASSUME NEW b, b.k = "lit", NEW s \in Both("regclass") \cup Both("regtype")
  PROVE  Casts!Node("rewrite_schema_qualified_custom_types", Expr(b, <<s>>)) = Expr(b, <<s>>)
<1> DEFINE e == Expr(b, <<s>>)
           x == Expr(b, <<>>)
<1>0. s \in Identifiers
  BY DEF Identifiers
<1>1. OuterIs(e, b, <<>>, s)
  BY <1>0, OneStep
<1>2. Casts!is_string_literal_operand(x)
  BY StepsOf DEF Casts!is_string_literal_operand
<1>3. Casts!IsStep(s)
  BY <1>0, IdentifierSteps
<1> HIDE DEF e
<1>4. Casts!Operand(e) = x /\ Casts!CastType(e) = s.t
  BY <1>1 DEF OuterIs
<1> HIDE DEF x
<1>5. Casts!names_a_resolvable_identifier(s.t)
  BY <1>3, MatchesBoth DEF Casts!names_a_resolvable_identifier
<1>6. Casts!rewrite_schema_qualified_custom_types(e) = e
  BY <1>2, <1>4, <1>5 DEF Casts!rewrite_schema_qualified_custom_types
<1> QED BY <1>6 DEF Casts!Node, e

(* replace_regclass looks a literal up, *)
LEMMA RegclassOfLiteral ==
  ASSUME NEW b, b.k = "lit", NEW s \in Both("regclass")
  PROVE  Casts!Node("replace_regclass", Expr(b, <<s>>)) = Expr(b, <<Casts!Call("oid")>>)
<1> DEFINE e == Expr(b, <<s>>)
           x == Expr(b, <<>>)
<1>0. s \in Identifiers
  BY DEF Identifiers
<1>1. OuterIs(e, b, <<>>, s)
  BY <1>0, OneStep
<1>2. Casts!IsLiteral(x)
  BY StepsOf DEF Casts!IsLiteral, Casts!Alone
<1>3. Casts!IsStep(s)
  BY <1>0, IdentifierSteps
<1>4. Casts!CallOf("oid", x) = Expr(b, <<Casts!Call("oid")>>)
  <2>1. Append(<<>>, Casts!Call("oid")) = <<Casts!Call("oid")>>
    OBVIOUS
  <2> QED BY <1>1, <2>1 DEF OuterIs
<1> HIDE DEF e
<1>5. Casts!Operand(e) = x /\ (Casts!IsCast(e) <=> s.op = "cast") /\ Casts!CastType(e) = s.t
  BY <1>1 DEF OuterIs
<1> HIDE DEF x
<1>6. s.op = "cast" /\ Casts!is_regclass_type(s.t)
  BY <1>3, MatchesBoth DEF Casts!is_regclass_type
<1>7. s.t # Casts!Bare("oid")
  <2>1. Casts!Bare("oid").n = "oid"
    BY DEF Casts!Bare, Casts!Type
  <2> QED BY <1>6, <2>1 DEF Casts!is_regclass_type, Casts!object_name_matches
<1>8. Casts!replace_regclass(e) = Casts!CallOf("oid", x)
  BY <1>2, <1>5, <1>6, <1>7 DEF Casts!replace_regclass
<1> QED BY <1>4, <1>8 DEF Casts!Node, e

(* Two steps, one after the other. *)
LEMMA TwoSteps ==
  ASSUME NEW U, NEW f \in U, NEW s \in U
  PROVE  Append(<<f>>, s) = <<f, s>>
<1>1. <<f>> \in Seq(U) /\ <<f, s>> \in Seq(U) /\ Len(<<f>>) = 1 /\ Len(<<f, s>>) = 2
  OBVIOUS
<1>2. /\ Append(<<f>>, s) \in Seq(U) /\ Len(Append(<<f>>, s)) = 2
      /\ Append(<<f>>, s)[1] = f /\ Append(<<f>>, s)[2] = s
  BY <1>1, AppendProperties
<1>3. \A i \in 1..2 : i = 1 \/ i = 2
  OBVIOUS
<1>4. \A i \in 1..2 : Append(<<f>>, s)[i] = <<f, s>>[i]
  BY <1>2, <1>3
<1> QED BY <1>1, <1>2, <1>4, SeqEqual

(* and takes a bare oid around the lookup away; *)
LEMMA OidAroundLookup ==
  ASSUME NEW b, b.k = "lit"
  PROVE  Casts!Node("replace_regclass", Expr(b, <<Casts!Call("oid"), CastTo("oid")>>)) = Expr(b, <<Casts!Call("oid")>>)
<1> DEFINE f == Casts!Call("oid")
           s == CastTo("oid")
           e == Expr(b, Append(<<f>>, s))
           d == Expr(b, <<f>>)
           x == Expr(b, <<>>)
<1>0. f \in Identifiers /\ s \in Identifiers /\ Append(<<f>>, s) = <<f, s>>
  <2>1. f \in Identifiers
    BY DEF Identifiers
  <2>2. s \in Both("oid")
    BY DEF Both, CastTo
  <2>3. s \in Identifiers
    BY <2>2 DEF Identifiers
  <2> HIDE DEF f, s
  <2> QED BY <2>1, <2>3, TwoSteps
<1>1. s.op = "cast" /\ s.t = Casts!Bare("oid")
  BY DEF CastTo, Casts!Cast
<1>2. Casts!IsLiteral(x)
  BY StepsOf DEF Casts!IsLiteral, Casts!Alone
<1> HIDE DEF f, s
<1>3. OuterIs(e, b, <<f>>, s)
  <2>1. <<f>> \in Seq(Identifiers)
    BY <1>0
  <2> QED BY <2>1, OuterStep
<1>4. OuterIs(d, b, <<>>, f)
  BY <1>0, OneStep
<1> HIDE DEF e, d, x
<1>5. /\ Casts!Operand(e) = d /\ Casts!IsCast(e) /\ Casts!CastType(e) = Casts!Bare("oid")
      /\ Casts!Operand(d) = x /\ Casts!Outer(d) = f /\ Len(e.steps) = 2
  BY <1>1, <1>3, <1>4 DEF OuterIs, d, x
<1>6. ~Casts!is_regclass_type(Casts!Bare("oid"))
  BY DEF Casts!is_regclass_type, Casts!object_name_matches, Casts!Bare, Casts!Type
<1>7. Casts!replace_regclass(e) = d
  BY <1>2, <1>5, <1>6 DEF Casts!replace_regclass, f
<1>8. Casts!Node("replace_regclass", e) = d
  BY <1>7 DEF Casts!Node
<1> QED BY <1>0, <1>8 DEF e, d, f, s

(* what stands under no other cast, and is no literal under regclass, it leaves. *)
LEMMA RegclassLeaves ==
  ASSUME NEW b, NEW s \in Identifiers, b.k \notin {"lit", "boollit"}
  PROVE  Casts!Node("replace_regclass", Expr(b, <<s>>)) = Expr(b, <<s>>)
<1> DEFINE e == Expr(b, <<s>>)
           x == Expr(b, <<>>)
<1>1. OuterIs(e, b, <<>>, s)
  BY OneStep
<1>2. ~Casts!IsLiteral(x)
  BY StepsOf DEF Casts!IsLiteral
<1> HIDE DEF e
<1>3. Casts!Operand(e) = x /\ Len(e.steps) # 2
  BY <1>1 DEF OuterIs
<1> HIDE DEF x
<1>4. Casts!replace_regclass(e) = e
  BY <1>2, <1>3 DEF Casts!replace_regclass
<1> QED BY <1>4 DEF Casts!Node, e

(* resolve_regtype_literals looks a literal up. *)
LEMMA RegtypeOfLiteral ==
  ASSUME NEW b, b.k = "lit", NEW s \in Both("regtype")
  PROVE  Casts!Node("resolve_regtype_literals", Expr(b, <<s>>)) = Expr(b, <<Casts!Call("pg_type_oid")>>)
<1> DEFINE e == Expr(b, <<s>>)
           x == Expr(b, <<>>)
<1>0. s \in Identifiers
  BY DEF Identifiers
<1>1. OuterIs(e, b, <<>>, s)
  BY <1>0, OneStep
<1>2. Casts!IsLiteral(x)
  BY StepsOf DEF Casts!IsLiteral, Casts!Alone
<1>3. Casts!IsStep(s)
  BY <1>0, IdentifierSteps
<1>4. Casts!CallOf("pg_type_oid", x) = Expr(b, <<Casts!Call("pg_type_oid")>>)
  <2>1. Append(<<>>, Casts!Call("pg_type_oid")) = <<Casts!Call("pg_type_oid")>>
    OBVIOUS
  <2> QED BY <1>1, <2>1 DEF OuterIs
<1> HIDE DEF e
<1>5. Casts!Operand(e) = x /\ (Casts!IsCast(e) <=> s.op = "cast") /\ Casts!CastType(e) = s.t
  BY <1>1 DEF OuterIs
<1> HIDE DEF x
<1>6. Casts!CastMatches(e, "regtype")
  BY <1>3, <1>5, MatchesBoth DEF Casts!CastMatches
<1>7. Casts!resolve_regtype_literals_to_type_oids(e) = Casts!CallOf("pg_type_oid", x)
  BY <1>2, <1>5, <1>6 DEF Casts!resolve_regtype_literals_to_type_oids
<1> QED BY <1>4, <1>7 DEF Casts!Node, e

(* rewrite_oid_cast makes a number a BIGINT and looks a regproc column up. *)
LEMMA OidCastMakes ==
  ASSUME NEW b, NEW s \in Both("oid")
  PROVE  /\ b.k \in {"number", "param"}
              => Casts!Node("rewrite_oid_cast", Expr(b, <<s>>)) = Expr(b, <<CastTo("bigint")>>)
         /\ b.k = "regproccol"
              => Casts!Node("rewrite_oid_cast", Expr(b, <<s>>)) = Expr(b, <<Casts!Call("pg_proc_oid")>>)
<1> DEFINE e == Expr(b, <<s>>)
           x == Expr(b, <<>>)
<1>0. s \in Identifiers
  BY DEF Identifiers
<1>1. OuterIs(e, b, <<>>, s)
  BY <1>0, OneStep
<1>2. Casts!Alone(x) /\ x.base = b
  BY StepsOf DEF Casts!Alone
<1>3. Casts!IsStep(s)
  BY <1>0, IdentifierSteps
<1>4. /\ Casts!CallOf("pg_proc_oid", x) = Expr(b, <<Casts!Call("pg_proc_oid")>>)
      /\ Casts!WithType(e, Casts!Bare("bigint")) = Expr(b, <<CastTo("bigint")>>)
  <2>1. \A z : Append(<<>>, z) = <<z>>
    OBVIOUS
  <2> QED BY <1>1, <2>1 DEF OuterIs, CastTo
<1> HIDE DEF e
<1>5. /\ Casts!Operand(e) = x /\ (Casts!IsCast(e) <=> s.op = "cast") /\ Casts!CastType(e) = s.t
      /\ e.base = b
  BY <1>1 DEF OuterIs
<1> HIDE DEF x
<1>6. Casts!CastMatches(e, "oid")
  BY <1>3, <1>5, MatchesBoth DEF Casts!CastMatches
<1>7. b.k \in {"number", "param"} => Casts!rewrite_oid_cast(e) = Casts!WithType(e, Casts!Bare("bigint"))
  BY <1>2, <1>5, <1>6 DEF Casts!rewrite_oid_cast, Casts!is_regproc_column
<1>8. b.k = "regproccol" => Casts!rewrite_oid_cast(e) = Casts!CallOf("pg_proc_oid", x)
  BY <1>2, <1>5, <1>6 DEF Casts!rewrite_oid_cast, Casts!is_regproc_column
<1>9. Casts!Node("rewrite_oid_cast", e) = Casts!rewrite_oid_cast(e)
  BY DEF Casts!Node
<1> QED BY <1>4, <1>7, <1>8, <1>9 DEF e

(* drop_redundant_oid_and_regclass_casts takes the cast of an OID column away. *)
LEMMA RegclassOfColumn ==
  ASSUME NEW b, b.k = "oidcol"
  PROVE  Casts!Node("drop_redundant_oid_and_regclass_casts", Expr(b, <<CastTo("regclass")>>)) = Expr(b, <<>>)
<1> DEFINE s == CastTo("regclass")
           e == Expr(b, <<s>>)
           x == Expr(b, <<>>)
<1>0. s \in Identifiers /\ s.op = "cast" /\ s.t = Casts!Bare("regclass")
  BY DEF Identifiers, Both, CastTo, Casts!Cast
<1> HIDE DEF s
<1>1. OuterIs(e, b, <<>>, s)
  BY <1>0, OneStep
<1>2. ~Casts!IsLiteral(x)
  BY StepsOf DEF Casts!IsLiteral
<1> HIDE DEF e
<1>3. Casts!Operand(e) = x /\ Casts!IsCast(e) /\ Casts!CastType(e) = Casts!Bare("regclass")
  BY <1>0, <1>1 DEF OuterIs
<1> HIDE DEF x
<1>4. Casts!drop_redundant_oid_and_regclass_casts(e) = x
  BY <1>2, <1>3 DEF Casts!drop_redundant_oid_and_regclass_casts
<1> QED BY <1>4 DEF Casts!Node, e, s, x

(* A pass that acts on none of these steps. *)
LEMMA Unmoved ==
  ASSUME NEW p, NEW b, NEW y \in Seq(Identifiers), \A i \in 1..Len(y) : y[i] \notin Touched(p)
  PROVE  Walk(p, Expr(b, y)) = Expr(b, y)
BY RestingPass DEF Walk

(* Most passes act on none at all. *)
LEMMA TouchedNothing ==
  ASSUME NEW p \in {"strip_default_collate", "rewrite_time_zone_utc", "rewrite_regoper_cast",
                    "rewrite_regoperator_cast", "rewrite_regprocedure_cast", "rewrite_schema_qualified_text",
                    "rewrite_pg_truetypid", "rewrite_information_schema_casts", "rewrite_char_cast",
                    "rewrite_xid_cast", "rewrite_name_cast", "rewrite_text_backed_type_casts",
                    "drop_oid_array_cast", "rewrite_array_agg_varchar_cast"}
  PROVE  Touched(p) = {}
BY DEF Touched

(* So what becomes of an operand is up to six of them. *)
LEMMA UncollatedBy ==
  ASSUME NEW b, NEW y \in Seq(Identifiers), NEW z \in Seq(Identifiers),
         \A i \in 1..Len(z) : z[i] \notin Both("regproc"),
         Walk("resolve_regproc_literals", Expr(b, y)) = Expr(b, z)
  PROVE  Uncollated(Expr(b, y)) = Expr(b, z)
<1> DEFINE e == Expr(b, y)
           d == Expr(b, z)
<1>1. /\ Walk("strip_default_collate", e) = e /\ Walk("rewrite_time_zone_utc", e) = e
      /\ Walk("rewrite_regoper_cast", e) = e /\ Walk("rewrite_regoperator_cast", e) = e
      /\ Walk("rewrite_regprocedure_cast", e) = e
  BY TouchedNothing, Unmoved
<1>2. Walk("rewrite_regproc_cast", d) = d
  <2>1. Touched("rewrite_regproc_cast") = Both("regproc")
    BY DEF Touched
  <2> QED BY <2>1, Unmoved
<1> HIDE DEF e, d
<1>3. Walk("resolve_regproc_literals", e) = d
  BY DEF e, d
<1>4. Uncollated(e) = d
  BY <1>1, <1>2, <1>3 DEF Uncollated
<1> QED BY <1>4 DEF e, d

(* The passes over schema-qualified types leave an operand alone when the *)
(* pass over custom types does.                                           *)
LEMMA QualifiedBy ==
  ASSUME NEW b, NEW y \in Seq(Identifiers),
         Walk("rewrite_schema_qualified_custom_types", Expr(b, y)) = Expr(b, y)
  PROVE  Requalified(Expr(b, y)) = Expr(b, y)
<1> DEFINE e == Expr(b, y)
<1>1. /\ Walk("rewrite_schema_qualified_text", e) = e /\ Walk("rewrite_pg_truetypid", e) = e
      /\ Walk("rewrite_information_schema_casts", e) = e /\ Walk("rewrite_char_cast", e) = e
  BY TouchedNothing, Unmoved
<1> HIDE DEF e
<1>2. Walk("rewrite_schema_qualified_custom_types", e) = e
  BY DEF e
<1>3. Requalified(e) = e
  BY <1>1, <1>2 DEF Requalified
<1> QED BY <1>3 DEF e

(* The passes over catalog types, from the three of them that may act on *)
(* an operand without a cast to regtype.                                 *)
LEMMA CataloguedBy ==
  ASSUME NEW b, NEW y, NEW x, NEW z \in Seq(Identifiers), NEW w,
         \A i \in 1..Len(z) : z[i] \notin Both("regtype"),
         Walk("replace_regclass", Expr(b, y)) = Expr(b, x),
         Walk("resolve_regtype_literals", Expr(b, x)) = Expr(b, z),
         Walk("rewrite_oid_cast", Expr(b, z)) = Expr(b, w)
  PROVE  Catalogued(Expr(b, y)) = Expr(b, w)
<1> DEFINE e == Expr(b, z)
<1>1. /\ Walk("rewrite_xid_cast", e) = e /\ Walk("rewrite_name_cast", e) = e
      /\ Walk("rewrite_text_backed_type_casts", e) = e
  BY TouchedNothing, Unmoved
<1>2. Walk("rewrite_regtype_cast", e) = e
  <2>1. Touched("rewrite_regtype_cast") = Both("regtype")
    BY DEF Touched
  <2> QED BY <2>1, Unmoved
<1> HIDE DEF e
<1>3. Walk("resolve_regtype_literals", Expr(b, x)) = e /\ Walk("rewrite_oid_cast", e) = Expr(b, w)
  BY DEF e
<1> QED BY <1>1, <1>2, <1>3 DEF Catalogued

(* The passes that drop casts, from the one that may act on an operand. *)
LEMMA TrimmedBy ==
  ASSUME NEW b, NEW y, NEW z \in Seq(Identifiers),
         Walk("drop_redundant_oid_and_regclass_casts", Expr(b, y)) = Expr(b, z)
  PROVE  Trimmed(Expr(b, y)) = Expr(b, z)
<1> DEFINE e == Expr(b, z)
<1>1. Walk("drop_oid_array_cast", e) = e /\ Walk("rewrite_array_agg_varchar_cast", e) = e
  BY TouchedNothing, Unmoved
<1> HIDE DEF e
<1>2. Walk("drop_redundant_oid_and_regclass_casts", Expr(b, y)) = e
  BY DEF e
<1>3. Trimmed(Expr(b, y)) = e
  BY <1>1, <1>2 DEF Trimmed
<1> QED BY <1>3 DEF e

(* What the documented operands become.  One that stands alone stays. *)
LEMMA AloneTyped ==
  ASSUME NEW b
  PROVE  Typed(Expr(b, <<>>)) = Expr(b, <<>>) /\ Trimmed(Expr(b, <<>>)) = Expr(b, <<>>)
<1>1. ASSUME NEW p PROVE Walk(p, Expr(b, <<>>)) = Expr(b, <<>>)
  BY FirstNode, AloneRests DEF Walk
<1> QED BY <1>1 DEF Typed, Uncollated, Requalified, Catalogued, Trimmed

(* The steps under which a documented operand may stand, by pass. *)
LEMMA TouchedCasts ==
  /\ Touched("resolve_regproc_literals") = Both("oid") /\ Touched("rewrite_oid_cast") = Both("oid")
  /\ Touched("resolve_regtype_literals") = Both("regtype")
  /\ Touched("replace_regclass") = Both("regclass") \cup Both("oid")
  /\ Touched("drop_redundant_oid_and_regclass_casts") = Both("regclass") \cup Both("oid")
  /\ Touched("rewrite_schema_qualified_custom_types") = {Casts!Cast(Casts!Pg(n)) : n \in {"regclass", "regtype", "regproc"}}
BY DEF Touched

(* No cast goes by two names. *)
LEMMA NamesDiffer ==
  ASSUME NEW n, NEW m, n # m, NEW s \in Both(n)
  PROVE  s \notin Both(m) /\ s # Casts!Cast(Casts!Pg(m)) /\ s # CastTo(m)
BY DEF Both, CastTo, Casts!Cast, Casts!Bare, Casts!Pg, Casts!Type

(* A lookup is no cast at all. *)
LEMMA LookupsRest ==
  ASSUME NEW f \in {"oid", "pg_proc_oid", "pg_type_oid"}, NEW p
  PROVE  Casts!Call(f) \in Identifiers /\ Casts!Call(f) \notin Touched(p) /\ (\A n : Casts!Call(f) \notin Both(n))
         /\ Casts!Paren \in Identifiers /\ Casts!Paren \notin Touched(p) /\ (\A n : Casts!Paren \notin Both(n))
<1>1. \A n : \A s \in Both(n) : s.op = "cast"
  BY DEF Both, Casts!Cast
<1>2. \A s \in Touched(p) : s.op = "cast"
  BY <1>1 DEF Touched, Casts!Cast
<1>3. Casts!Call(f).op = "call" /\ Casts!Paren.op = "paren"
  BY DEF Casts!Call, Casts!Paren
<1> QED BY <1>1, <1>2, <1>3 DEF Identifiers

(* What stands under a lookup stays so. *)
LEMMA LookedUp ==
  ASSUME NEW b, NEW q \in Seq(Identifiers), \A i \in 1..Len(q) : q[i] = Casts!Paren,
         NEW f \in {"oid", "pg_proc_oid", "pg_type_oid"}
  PROVE  LET z == Append(q, Casts!Call(f))
         IN  z \in Seq(Identifiers) /\ (\A i \in 1..Len(z) : \A n : z[i] \notin Both(n))
             /\ \A p : Walk(p, Expr(b, z)) = Expr(b, z)
<1> DEFINE c == Casts!Call(f)
           z == Append(q, c)
<1>1. ASSUME NEW p PROVE /\ c \in Identifiers /\ c \notin Touched(p) /\ (\A n : c \notin Both(n))
                         /\ Casts!Paren \notin Touched(p) /\ (\A n : Casts!Paren \notin Both(n))
  BY LookupsRest
<1>2. c \in Identifiers
  BY <1>1
<1> HIDE DEF c
<1>3. z \in Seq(Identifiers) /\ Len(z) = Len(q) + 1 /\ z[Len(q) + 1] = c /\ \A i \in 1..Len(q) : z[i] = q[i]
  BY <1>2, AppendProperties
<1>4. \A i \in 1..Len(q) + 1 : i \in 1..Len(q) \/ i = Len(q) + 1
  OBVIOUS
<1> HIDE DEF z
<1>5. \A i \in 1..Len(z) : z[i] = Casts!Paren \/ z[i] = c
  BY <1>3, <1>4
<1>6. ASSUME NEW p PROVE Walk(p, Expr(b, z)) = Expr(b, z)
  <2>1. \A i \in 1..Len(z) : z[i] \notin Touched(p)
    BY <1>1, <1>5
  <2> QED BY <1>3, <2>1, Unmoved
<1>7. \A i \in 1..Len(z) : \A n : z[i] \notin Both(n)
  BY <1>1, <1>5
<1> QED BY <1>3, <1>6, <1>7 DEF z, c

(* The same, over a whole operand. *)
LEMMA WalkLast ==
  ASSUME NEW p, NEW b, NEW y \in Seq(Identifiers), NEW s \in Identifiers, NEW z,
         Walk(p, Expr(b, y)) = Expr(b, z)
  PROVE  Walk(p, Expr(b, Append(y, s))) = Casts!Node(p, Expr(b, Append(z, s)))
BY LastStep DEF Walk

(* 'r'::regclass, and with a bare ::oid around it, is a lookup in pg_class. *)
LEMMA RegclassTyped ==
  ASSUME NEW b, b.k = "lit", NEW s \in Both("regclass")
  PROVE  /\ Typed(Expr(b, <<s>>)) = Expr(b, <<Casts!Call("oid")>>)
         /\ Typed(Expr(b, <<s, CastTo("oid")>>)) = Expr(b, <<Casts!Call("oid")>>)
<1> DEFINE o == CastTo("oid")
           f == Casts!Call("oid")
           y1 == <<s>>
           y2 == <<s, o>>
           z1 == <<f>>
<1>1. o \in Both("oid") /\ s \in Identifiers /\ o \in Identifiers /\ f \in Identifiers
  <2>1. o \in Both("oid")
    BY DEF Both, CastTo
  <2> HIDE DEF o
  <2> QED BY <2>1, LookupsRest DEF Identifiers
<1>2. /\ s \notin Both("oid") /\ s \notin Both("regproc") /\ s \notin Both("regtype")
      /\ o \notin Both("regproc") /\ o \notin Both("regtype") /\ o \notin Both("regclass")
  BY <1>1, NamesDiffer
<1>3. ASSUME NEW p PROVE f \notin Touched(p) /\ \A n : f \notin Both(n)
  BY LookupsRest
<1>4. o \notin Touched("rewrite_schema_qualified_custom_types")
  <2>1. o # Casts!Cast(Casts!Pg("regclass")) /\ o # Casts!Cast(Casts!Pg("regtype")) /\ o # Casts!Cast(Casts!Pg("regproc"))
    BY <1>1, NamesDiffer
  <2> HIDE DEF o
  <2> QED BY <2>1, TouchedCasts
<1>a. /\ Walk("replace_regclass", Expr(b, y1)) = Expr(b, z1)
      /\ Casts!Node("replace_regclass", Expr(b, <<f, o>>)) = Expr(b, z1)
      /\ Walk("rewrite_schema_qualified_custom_types", Expr(b, y1)) = Expr(b, y1)
  <2>1. Walk("replace_regclass", Expr(b, <<s>>)) = Expr(b, <<f>>)
    BY <1>1, OneStep, RegclassOfLiteral
  <2>2. Walk("rewrite_schema_qualified_custom_types", Expr(b, <<s>>)) = Expr(b, <<s>>)
    BY <1>1, OneStep, QualifiedLiteral
  <2> QED BY <2>1, <2>2, OidAroundLookup
<1>5. /\ Append(y1, o) = y2 /\ Append(z1, o) = <<f, o>>
      /\ y1 \in Seq(Identifiers) /\ z1 \in Seq(Identifiers) /\ y2 \in Seq(Identifiers)
      /\ Len(y1) = 1 /\ Len(z1) = 1 /\ Len(y2) = 2
      /\ y1[1] = s /\ z1[1] = f /\ y2[1] = s /\ y2[2] = o
      /\ <<>> \in Seq(Identifiers) /\ y1 = Append(<<>>, s)
  <2> HIDE DEF o, f
  <2> QED BY <1>1, TwoSteps
<1>6. (\A i \in 1..1 : i = 1) /\ \A i \in 1..2 : i = 1 \/ i = 2
  OBVIOUS
<1> HIDE DEF o, f, y1, y2, z1
<1>c. y1 \in Seq(Identifiers) /\ o \in Identifiers
  BY <1>1, <1>5
<1>b. Walk("resolve_regproc_literals", Expr(b, y1)) = Expr(b, y1)
  <2>1. \A i \in 1..Len(y1) : y1[i] \notin Touched("resolve_regproc_literals")
    BY <1>2, <1>5, <1>6, TouchedCasts
  <2> QED BY <1>5, <2>1, Unmoved
<1>7. Uncollated(Expr(b, y1)) = Expr(b, y1)
  <2>1. \A i \in 1..Len(y1) : y1[i] \notin Both("regproc")
    BY <1>2, <1>5, <1>6
  <2> QED BY <1>5, <1>b, <2>1, UncollatedBy
<1>8. Uncollated(Expr(b, y2)) = Expr(b, y2)
  <2>2. Walk("resolve_regproc_literals", Expr(b, y2)) = Expr(b, y2)
    <3>1. Walk("resolve_regproc_literals", Expr(b, Append(y1, o)))
            = Casts!Node("resolve_regproc_literals", Expr(b, Append(y1, o)))
      BY <1>b, <1>c, WalkLast
    <3>2. \E x \in Seq(Identifiers), r \in Identifiers \ Both("regproc") : y1 = Append(x, r)
      BY <1>1, <1>2, <1>5
    <3>3. Casts!Node("resolve_regproc_literals", Expr(b, Append(y1, o))) = Expr(b, Append(y1, o))
      BY <1>1, <1>5, <3>2, OidAroundOther
    <3> QED BY <1>5, <3>1, <3>3
  <2>3. \A i \in 1..Len(y2) : y2[i] \notin Both("regproc")
    BY <1>2, <1>5, <1>6
  <2> QED BY <1>5, <2>2, <2>3, UncollatedBy
<1>9. Requalified(Expr(b, y1)) = Expr(b, y1)
  BY <1>5, <1>a, QualifiedBy
<1>10. Requalified(Expr(b, y2)) = Expr(b, y2)
  <2>1. Walk("rewrite_schema_qualified_custom_types", Expr(b, Append(y1, o)))
            = Casts!Node("rewrite_schema_qualified_custom_types", Expr(b, Append(y1, o)))
    BY <1>a, <1>c, WalkLast
  <2>2. Casts!Node("rewrite_schema_qualified_custom_types", Expr(b, Append(y1, o))) = Expr(b, Append(y1, o))
    BY <1>4, <1>c, Rests
  <2>3. Walk("rewrite_schema_qualified_custom_types", Expr(b, y2)) = Expr(b, y2)
    BY <1>5, <2>1, <2>2
  <2> QED BY <1>5, <2>3, QualifiedBy
<1>11. ASSUME NEW y, Walk("replace_regclass", Expr(b, y)) = Expr(b, z1)
       PROVE  Catalogued(Expr(b, y)) = Expr(b, z1)
  <2>1. ASSUME NEW p PROVE Walk(p, Expr(b, z1)) = Expr(b, z1)
    <3>1. \A i \in 1..Len(z1) : z1[i] \notin Touched(p)
      BY <1>3, <1>5, <1>6
    <3> QED BY <1>5, <3>1, Unmoved
  <2>2. \A i \in 1..Len(z1) : z1[i] \notin Both("regtype")
    BY <1>3, <1>5, <1>6
  <2>3. /\ Walk("resolve_regtype_literals", Expr(b, z1)) = Expr(b, z1)
        /\ Walk("rewrite_oid_cast", Expr(b, z1)) = Expr(b, z1)
    BY <2>1
  <2> QED BY <1>5, <1>11, <2>2, <2>3, CataloguedBy
<1>12. Walk("replace_regclass", Expr(b, y2)) = Expr(b, z1)
  <2>1. Walk("replace_regclass", Expr(b, Append(y1, o))) = Casts!Node("replace_regclass", Expr(b, Append(z1, o)))
    BY <1>a, <1>c, WalkLast
  <2> QED BY <1>5, <1>a, <2>1
<1>13. Typed(Expr(b, y1)) = Expr(b, z1)
  BY <1>7, <1>9, <1>11, <1>a DEF Typed
<1>14. Typed(Expr(b, y2)) = Expr(b, z1)
  BY <1>8, <1>10, <1>11, <1>12 DEF Typed
<1> QED BY <1>13, <1>14 DEF o, f, y1, y2, z1

(* An operand under one step, and under one lookup. *)
LEMMA SingleStep ==
  ASSUME NEW s \in Identifiers
  PROVE  /\ <<s>> \in Seq(Identifiers) /\ Len(<<s>>) = 1
         /\ \A V : s \notin V => \A i \in 1..Len(<<s>>) : <<s>>[i] \notin V
<1>1. \A i \in 1..1 : i = 1
  OBVIOUS
<1> QED BY <1>1

(* A lookup of an identifier is left alone by every pass and is no cast. *)
LEMMA SingleLookup ==
  ASSUME NEW b, NEW f \in {"oid", "pg_proc_oid", "pg_type_oid"}, NEW p
  PROVE  /\ Walk(p, Expr(b, <<Casts!Call(f)>>)) = Expr(b, <<Casts!Call(f)>>)
         /\ \A n : \A i \in 1..Len(<<Casts!Call(f)>>) : <<Casts!Call(f)>>[i] \notin Both(n)
         /\ <<Casts!Call(f)>> \in Seq(Identifiers)
<1> DEFINE c == Casts!Call(f)
           z == <<c>>
<1>1. c \in Identifiers /\ c \notin Touched(p) /\ (\A n : c \notin Both(n))
  BY LookupsRest
<1> HIDE DEF c
<1>2. z \in Seq(Identifiers) /\ \A V : c \notin V => \A i \in 1..Len(z) : z[i] \notin V
  BY <1>1, SingleStep
<1> HIDE DEF z
<1>3. Walk(p, Expr(b, z)) = Expr(b, z)
  BY <1>1, <1>2, Unmoved
<1>4. \A n : \A i \in 1..Len(z) : z[i] \notin Both(n)
  BY <1>1, <1>2
<1> QED BY <1>2, <1>3, <1>4 DEF z, c

(* 't'::regtype is a lookup in pg_type. *)
LEMMA RegtypeTyped ==
  ASSUME NEW b, b.k = "lit", NEW s \in Both("regtype")
  PROVE  Typed(Expr(b, <<s>>)) = Expr(b, <<Casts!Call("pg_type_oid")>>)
<1> DEFINE y == <<s>>
           z == <<Casts!Call("pg_type_oid")>>
<1>1. s \in Identifiers
  BY DEF Identifiers
<1>2. s \notin Both("oid") /\ s \notin Both("regproc") /\ s \notin Both("regclass")
  BY NamesDiffer
<1>3. /\ Walk("resolve_regtype_literals", Expr(b, y)) = Expr(b, z)
      /\ Walk("rewrite_schema_qualified_custom_types", Expr(b, y)) = Expr(b, y)
  <2>1. Walk("resolve_regtype_literals", Expr(b, y)) = Expr(b, z)
    BY <1>1, OneStep, RegtypeOfLiteral
  <2>2. Walk("rewrite_schema_qualified_custom_types", Expr(b, y)) = Expr(b, y)
    BY <1>1, OneStep, QualifiedLiteral
  <2> QED BY <2>1, <2>2
<1>4. y \in Seq(Identifiers) /\ \A V : s \notin V => \A i \in 1..Len(y) : y[i] \notin V
  BY <1>1, SingleStep
<1>5. /\ Walk("rewrite_oid_cast", Expr(b, z)) = Expr(b, z)
      /\ \A i \in 1..Len(z) : z[i] \notin Both("regtype")
      /\ z \in Seq(Identifiers)
  BY SingleLookup
<1> HIDE DEF y, z
<1>6. s \notin Touched("resolve_regproc_literals") /\ s \notin Touched("replace_regclass")
  BY <1>2, TouchedCasts
<1>7. /\ Walk("resolve_regproc_literals", Expr(b, y)) = Expr(b, y)
      /\ Walk("replace_regclass", Expr(b, y)) = Expr(b, y)
  BY <1>4, <1>6, Unmoved
<1>8. Uncollated(Expr(b, y)) = Expr(b, y)
  BY <1>2, <1>4, <1>7, UncollatedBy
<1>9. Requalified(Expr(b, y)) = Expr(b, y)
  BY <1>3, <1>4, QualifiedBy
<1>10. Catalogued(Expr(b, y)) = Expr(b, z)
  BY <1>3, <1>5, <1>7, CataloguedBy
<1>11. Typed(Expr(b, y)) = Expr(b, z)
  BY <1>8, <1>9, <1>10 DEF Typed
<1> QED BY <1>11 DEF y, z

(* 'f'::regproc::oid, its literal in any number of parentheses, is a lookup *)
(* in pg_proc.                                                              *)
LEMMA RegprocTyped ==
  ASSUME NEW b, b.k = "lit", NEW q \in Seq(Identifiers), \A i \in 1..Len(q) : q[i] = Casts!Paren,
         NEW r \in Both("regproc"), NEW s \in Both("oid")
  PROVE  Typed(Expr(b, Append(Append(q, r), s))) = Expr(b, Append(q, Casts!Call("pg_proc_oid")))
<1> DEFINE y == Append(Append(q, r), s)
           z == Append(q, Casts!Call("pg_proc_oid"))
<1>1. r \in Identifiers /\ s \in Identifiers
  BY DEF Identifiers
<1>2. Append(q, r) \in Seq(Identifiers) /\ y \in Seq(Identifiers)
  BY <1>1
<1>3. /\ z \in Seq(Identifiers) /\ (\A i \in 1..Len(z) : \A n : z[i] \notin Both(n))
      /\ \A p : Walk(p, Expr(b, z)) = Expr(b, z)
  BY LookedUp, Zenon
<1>4. Walk("resolve_regproc_literals", Expr(b, y)) = Expr(b, z)
  <2> DEFINE p == "resolve_regproc_literals"
  <2>1. r \notin Touched(p) /\ Casts!Paren \notin Touched(p)
    BY TouchedCasts, NamesDiffer, LookupsRest
  <2>2. Casts!Node(p, Expr(b, y)) = Expr(b, z)
    BY OidAroundLiteral
  <2> HIDE DEF p
  <2>3. Walk(p, Expr(b, q)) = Expr(b, q)
    <3>1. \A i \in 1..Len(q) : q[i] \notin Touched(p)
      BY <2>1
    <3> QED BY <3>1, Unmoved
  <2>4. Walk(p, Expr(b, Append(q, r))) = Casts!Node(p, Expr(b, Append(q, r)))
    BY <1>1, <2>3, WalkLast
  <2>5. Casts!Node(p, Expr(b, Append(q, r))) = Expr(b, Append(q, r))
    BY <1>1, <2>1, Rests
  <2> DEFINE x == Append(q, r)
  <2>6. x \in Seq(Identifiers) /\ Walk(p, Expr(b, x)) = Expr(b, x) /\ y = Append(x, s)
    BY <1>2, <2>4, <2>5
  <2> HIDE DEF x, y, z
  <2>7. Walk(p, Expr(b, Append(x, s))) = Casts!Node(p, Expr(b, Append(x, s)))
    BY <1>1, <2>6, WalkLast
  <2> QED BY <2>2, <2>6, <2>7 DEF p
<1> HIDE DEF y, z
<1>5. Uncollated(Expr(b, y)) = Expr(b, z)
  BY <1>2, <1>3, <1>4, UncollatedBy
<1>6. Typed(Expr(b, y)) = Expr(b, z)
  BY <1>3, <1>5 DEF Typed, Requalified, Catalogued
<1> QED BY <1>6 DEF y, z

(* An oid cast around anything but a literal stays until rewrite_oid_cast. *)
LEMMA OidTyped ==
  ASSUME NEW b, b.k \notin {"lit", "boollit"}, NEW s \in Both("oid"), NEW z,
         Casts!Node("rewrite_oid_cast", Expr(b, <<s>>)) = Expr(b, z)
  PROVE  Typed(Expr(b, <<s>>)) = Expr(b, z)
<1> DEFINE y == <<s>>
<1>1. s \in Identifiers
  BY DEF Identifiers
<1>2. s \notin Both("regtype") /\ s \notin Both("regproc")
  BY NamesDiffer
<1>3. y \in Seq(Identifiers) /\ \A V : s \notin V => \A i \in 1..Len(y) : y[i] \notin V
  BY <1>1, SingleStep
<1>4. ASSUME NEW p PROVE Walk(p, Expr(b, y)) = Casts!Node(p, Expr(b, y))
  BY <1>1, OneStep
<1>5. Casts!Node("resolve_regproc_literals", Expr(b, y)) = Expr(b, y)
  <2> DEFINE x == <<>>
  <2>1. x \in Seq(Identifiers) /\ x = <<>> /\ Append(x, s) = y
    OBVIOUS
  <2> HIDE DEF x, y
  <2>2. Casts!Node("resolve_regproc_literals", Expr(b, Append(x, s))) = Expr(b, Append(x, s))
    BY <2>1, OidAroundOther
  <2> QED BY <2>1, <2>2
<1>6. Casts!Node("replace_regclass", Expr(b, y)) = Expr(b, y)
  BY <1>1, RegclassLeaves
<1> HIDE DEF y
<1>7. Casts!Node("rewrite_oid_cast", Expr(b, y)) = Expr(b, z)
  BY DEF y
<1>8. s \notin Touched("rewrite_schema_qualified_custom_types") /\ s \notin Touched("resolve_regtype_literals")
  <2>1. s # Casts!Cast(Casts!Pg("regclass")) /\ s # Casts!Cast(Casts!Pg("regtype")) /\ s # Casts!Cast(Casts!Pg("regproc"))
    BY NamesDiffer
  <2> QED BY <1>2, <2>1, TouchedCasts
<1>9. /\ Walk("rewrite_schema_qualified_custom_types", Expr(b, y)) = Expr(b, y)
      /\ Walk("resolve_regtype_literals", Expr(b, y)) = Expr(b, y)
  BY <1>3, <1>8, Unmoved
<1>10. /\ Walk("resolve_regproc_literals", Expr(b, y)) = Expr(b, y)
       /\ Walk("replace_regclass", Expr(b, y)) = Expr(b, y)
       /\ Walk("rewrite_oid_cast", Expr(b, y)) = Expr(b, z)
  BY <1>4, <1>5, <1>6, <1>7
<1>11. (\A i \in 1..Len(y) : y[i] \notin Both("regproc")) /\ (\A i \in 1..Len(y) : y[i] \notin Both("regtype"))
  BY <1>2, <1>3
<1>12. Uncollated(Expr(b, y)) = Expr(b, y)
  BY <1>3, <1>10, <1>11, UncollatedBy
<1>13. Requalified(Expr(b, y)) = Expr(b, y)
  BY <1>3, <1>9, QualifiedBy
<1>14. Catalogued(Expr(b, y)) = Expr(b, z)
  BY <1>3, <1>9, <1>10, <1>11, CataloguedBy
<1>15. Typed(Expr(b, y)) = Expr(b, z)
  BY <1>12, <1>13, <1>14 DEF Typed
<1> QED BY <1>15 DEF y

(* A bare regclass around an OID column stays until the redundant casts go. *)
LEMMA ColumnTyped ==
  ASSUME NEW b, b.k = "oidcol"
  PROVE  /\ Typed(Expr(b, <<CastTo("regclass")>>)) = Expr(b, <<CastTo("regclass")>>)
         /\ Trimmed(Expr(b, <<CastTo("regclass")>>)) = Expr(b, <<>>)
<1> DEFINE s == CastTo("regclass")
           y == <<s>>
<1>1. s \in Both("regclass")
  BY DEF CastTo, Both
<1>2. s \in Identifiers
  <2> HIDE DEF s
  <2> QED BY <1>1 DEF Identifiers
<1>3. s \notin Both("regtype") /\ s \notin Both("regproc") /\ s \notin Both("oid")
  <2> HIDE DEF s
  <2> QED BY <1>1, NamesDiffer
<1>4. y \in Seq(Identifiers) /\ \A V : s \notin V => \A i \in 1..Len(y) : y[i] \notin V
  BY <1>2, SingleStep
<1>5. ASSUME NEW p PROVE Walk(p, Expr(b, y)) = Casts!Node(p, Expr(b, y))
  BY <1>2, OneStep
<1>6. Casts!Node("replace_regclass", Expr(b, y)) = Expr(b, y)
  BY <1>2, RegclassLeaves
<1>7. Casts!Node("drop_redundant_oid_and_regclass_casts", Expr(b, y)) = Expr(b, <<>>)
  BY RegclassOfColumn
<1>8. s \notin Touched("rewrite_schema_qualified_custom_types")
  <2>1. s # Casts!Cast(Casts!Pg("regtype")) /\ s # Casts!Cast(Casts!Pg("regproc"))
    BY <1>1, NamesDiffer
  <2>2. s # Casts!Cast(Casts!Pg("regclass"))
    <3>1. Casts!Unqualified # "pg_catalog"
      BY DEF Casts!Unqualified
    <3> QED BY <3>1 DEF CastTo, Casts!Cast, Casts!Bare, Casts!Pg, Casts!Type
  <2> HIDE DEF s
  <2> QED BY <2>1, <2>2, TouchedCasts
<1> HIDE DEF s, y
<1>9. /\ s \notin Touched("resolve_regproc_literals") /\ s \notin Touched("resolve_regtype_literals")
      /\ s \notin Touched("rewrite_oid_cast")
  BY <1>3, TouchedCasts
<1>10. /\ Walk("rewrite_schema_qualified_custom_types", Expr(b, y)) = Expr(b, y)
       /\ Walk("resolve_regtype_literals", Expr(b, y)) = Expr(b, y)
       /\ Walk("resolve_regproc_literals", Expr(b, y)) = Expr(b, y)
       /\ Walk("rewrite_oid_cast", Expr(b, y)) = Expr(b, y)
  BY <1>4, <1>8, <1>9, Unmoved
<1>11. Walk("replace_regclass", Expr(b, y)) = Expr(b, y)
  BY <1>5, <1>6
<1>12. (\A i \in 1..Len(y) : y[i] \notin Both("regproc")) /\ (\A i \in 1..Len(y) : y[i] \notin Both("regtype"))
  BY <1>3, <1>4
<1>13. Uncollated(Expr(b, y)) = Expr(b, y)
  BY <1>4, <1>10, <1>12, UncollatedBy
<1>14. Requalified(Expr(b, y)) = Expr(b, y)
  BY <1>4, <1>10, QualifiedBy
<1>15. Catalogued(Expr(b, y)) = Expr(b, y)
  BY <1>4, <1>10, <1>11, <1>12, CataloguedBy
<1>16. Typed(Expr(b, y)) = Expr(b, y)
  BY <1>13, <1>14, <1>15 DEF Typed
<1>17. Trimmed(Expr(b, y)) = Expr(b, <<>>)
  <2> DEFINE z == <<>>
  <2>1. z \in Seq(Identifiers) /\ Walk("drop_redundant_oid_and_regclass_casts", Expr(b, y)) = Expr(b, z)
    BY <1>5, <1>7
  <2> HIDE DEF z
  <2>2. Trimmed(Expr(b, y)) = Expr(b, z)
    BY <2>1, TrimmedBy
  <2> QED BY <2>2 DEF z
<1> QED BY <1>16, <1>17 DEF s, y

(* A number under BIGINT, and what stands under a lookup, stay. *)
LEMMA TrimmedStays ==
  ASSUME NEW b, NEW q \in Seq(Identifiers), \A i \in 1..Len(q) : q[i] = Casts!Paren,
         NEW f \in {"oid", "pg_proc_oid", "pg_type_oid"}
  PROVE  /\ Trimmed(Expr(b, Append(q, Casts!Call(f)))) = Expr(b, Append(q, Casts!Call(f)))
         /\ Trimmed(Expr(b, <<CastTo("bigint")>>)) = Expr(b, <<CastTo("bigint")>>)
<1>1. Trimmed(Expr(b, Append(q, Casts!Call(f)))) = Expr(b, Append(q, Casts!Call(f)))
  <2> DEFINE z == Append(q, Casts!Call(f))
  <2>1. \A p : Walk(p, Expr(b, z)) = Expr(b, z)
    BY LookedUp, Zenon
  <2> HIDE DEF z
  <2>2. Trimmed(Expr(b, z)) = Expr(b, z)
    BY <2>1 DEF Trimmed
  <2> QED BY <2>2 DEF z
<1>2. Trimmed(Expr(b, <<CastTo("bigint")>>)) = Expr(b, <<CastTo("bigint")>>)
  <2> DEFINE s == CastTo("bigint")
             z == <<s>>
  <2>1. s \in Both("bigint")
    BY DEF CastTo, Both
  <2>2. s \notin Both("regclass") /\ s \notin Both("oid")
    BY <2>1, NamesDiffer
  <2>3. s \in Identifiers
    BY DEF Identifiers
  <2>4. z \in Seq(Identifiers) /\ \A V : s \notin V => \A i \in 1..Len(z) : z[i] \notin V
    BY <2>3, SingleStep
  <2> HIDE DEF s, z
  <2>5. s \notin Touched("drop_redundant_oid_and_regclass_casts")
    BY <2>2, TouchedCasts
  <2>6. Walk("drop_redundant_oid_and_regclass_casts", Expr(b, z)) = Expr(b, z)
    BY <2>4, <2>5, Unmoved
  <2>7. Trimmed(Expr(b, z)) = Expr(b, z)
    BY <2>4, <2>6, TrimmedBy
  <2> QED BY <2>7 DEF s, z
<1> QED BY <1>1, <1>2

(* Parentheses change neither what an operand evaluates to nor what it means. *)
LEMMA ParenthesesMeanNothing ==
  ASSUME NEW b, NEW q \in Seq(Identifiers), \A i \in 1..Len(q) : q[i] = Casts!Paren
  PROVE  Casts!Value(Expr(b, q)) = Casts!ColumnValue(b) /\ Casts!PostgresValues(Expr(b, q)) = Casts!PostgresBase(b)
<1> DEFINE e == Expr(b, q)
           m == Len(q)
<1>1. e.base = b /\ e.steps = q /\ Len(e.steps) = m /\ m \in Nat
  BY StepsOf
<1>2. Casts!Paren.op = "paren"
  BY DEF Casts!Paren
<1>3. ASSUME NEW v PROVE Casts!StepValue(v, Casts!Paren) = v /\ Casts!PostgresStep(v, Casts!Paren) = v
  <2> DEFINE s == Casts!Paren
  <2>1. s.op = "paren" /\ s # Casts!Cast(Casts!Bare("bigint")) /\ s # Casts!Cast(Casts!Bare("text"))
    BY <1>2 DEF Casts!Cast
  <2> HIDE DEF s
  <2>2. Casts!StepValue(v, s) = v
    BY <2>1 DEF Casts!StepValue
  <2>3. Casts!PostgresStep(v, s) = v
    BY <2>1 DEF Casts!PostgresStep
  <2> QED BY <2>2, <2>3 DEF s
<1> HIDE DEF e
<1>4. ASSUME NEW v, \A n \in 1..m : v[n] = v[n - 1] PROVE v[m] = v[0]
  <2> DEFINE Bad == {n \in 0..m : v[n] # v[0]}
  <2> SUFFICES ASSUME Bad # {} PROVE FALSE
    BY <1>1
  <2> DEFINE k == Min(Bad)
  <2>0. Bad \subseteq Nat
    OBVIOUS
  <2>1. k \in Bad /\ \A j \in Bad : k <= j
    <3> HIDE DEF Bad
    <3> QED BY <2>0, LeastPosition
  <2> HIDE DEF k
  <2>2. k \in 1..m /\ k - 1 \in 0..m /\ ~(k <= k - 1)
    BY <2>1
  <2>3. v[k - 1] = v[0]
    BY <2>1, <2>2
  <2> QED BY <1>4, <2>1, <2>2, <2>3
<1>5. Casts!Value(e) = Casts!ColumnValue(b)
  <2>1. PICK v : /\ v[0] = Casts!ColumnValue(e.base)
                 /\ \A n \in 1..Len(e.steps) : v[n] = Casts!StepValue(v[n - 1], e.steps[n])
                 /\ Casts!Value(e) = v[Len(e.steps)]
    BY <1>1, ValueOf
  <2>2. \A n \in 1..m : v[n] = v[n - 1]
    BY <1>1, <1>3, <2>1
  <2> QED BY <1>1, <1>4, <2>1, <2>2
<1>6. Casts!PostgresValues(e) = Casts!PostgresBase(b)
  <2>1. PICK v : /\ v[0] = Casts!PostgresBase(e.base)
                 /\ \A n \in 1..Len(e.steps) : v[n] = Casts!PostgresStep(v[n - 1], e.steps[n])
                 /\ Casts!PostgresValues(e) = v[Len(e.steps)]
    BY <1>1, MeaningOf
  <2>2. \A n \in 1..m : v[n] = v[n - 1]
    BY <1>1, <1>3, <2>1
  <2> QED BY <1>1, <1>4, <2>1, <2>2
<1> QED BY <1>5, <1>6 DEF e

(* The function that looks a type's names up. *)
Looks(t) == CASE t = "regclass" -> "oid" [] t = "regtype" -> "pg_type_oid" [] t = "regproc" -> "pg_proc_oid"

(* A name an object may have in every catalog. *)
IsName(v) == v = 0 \/ \A table \in {"pg_class", "pg_type", "pg_proc"} : v \in DOMAIN Oids[table]

(* What an operand may mean, and whether its value is one of these: a name   *)
(* no object has is an error to PostgreSQL.                                 *)
Settled(v, vs) == vs # {} /\ (vs = {Casts!Failure} \/ v \in vs)

(* A lookup finds one of the objects PostgreSQL may take the name for. *)
LEMMA LookupSettles ==
  ASSUME NEW t \in {"regclass", "regtype", "regproc"}, NEW v, IsName(v), NEW q
  PROVE  Settled(Casts!name_to_oid(Looks(t), Casts!Val("text", v, q)), Casts!Meanings(t, v))
<1> DEFINE x == Casts!Val("text", v, q)
           table == Casts!CatalogOf[t]
<1>1. x.k = "text" /\ Casts!parse_catalog_object_reference(x).v = v
  BY DEF Casts!Val, Casts!parse_catalog_object_reference
<1>2. Casts!LookupTable[Looks(t)] = table /\ table \in {"pg_class", "pg_type", "pg_proc"}
  BY DEF Casts!LookupTable, Looks, Casts!CatalogOf
<1> HIDE DEF x, table
<1>3. CASE v = 0
  <2>1. Casts!name_to_oid(Looks(t), x) = Casts!Val("int", 0, FALSE)
    BY <1>1, <1>3 DEF Casts!name_to_oid
  <2>2. Casts!Meanings(t, v) = {Casts!Val("int", 0, FALSE)}
    BY <1>3 DEF Casts!Meanings
  <2> QED BY <2>1, <2>2 DEF Settled, x
<1>4. CASE v # 0 /\ Oids[table][v] = {}
  <2>1. Casts!Meanings(t, v) = {Casts!Failure}
    BY <1>4 DEF Casts!Meanings, table
  <2> QED BY <2>1 DEF Settled
<1>5. CASE v # 0 /\ Oids[table][v] # {}
  <2> DEFINE found == Oids[table][v]
             o == CHOOSE i \in found : \A p \in found : i <= p
  <2>1. Casts!name_to_oid(Looks(t), x) = Casts!fetch_oids_by_names(table, v)
    BY <1>1, <1>2, <1>5 DEF Casts!name_to_oid
  <2>2. Casts!fetch_oids_by_names(table, v) = Casts!Val("int", o, FALSE)
    BY <1>5 DEF Casts!fetch_oids_by_names
  <2>3. Casts!Meanings(t, v) = {Casts!Val("int", i, FALSE) : i \in found}
    BY <1>5 DEF Casts!Meanings, table
  <2>4. found \subseteq Nat /\ found # {}
    BY <1>2, <1>5, OidAssumption DEF IsName
  <2>5. o \in found
    <3> HIDE DEF found
    <3> QED BY <2>4, LeastPosition
  <2> HIDE DEF o, found
  <2> QED BY <2>1, <2>2, <2>3, <2>5 DEF Settled, x
<1> QED BY <1>3, <1>4, <1>5

(* What the steps that are left evaluate to. *)
LEMMA LookupValue ==
  ASSUME NEW b, NEW q \in Seq(Identifiers), \A i \in 1..Len(q) : q[i] = Casts!Paren,
         NEW f \in {"oid", "pg_proc_oid", "pg_type_oid"}
  PROVE  Casts!Value(Expr(b, Append(q, Casts!Call(f)))) = Casts!name_to_oid(f, Casts!ColumnValue(b))
<1> DEFINE s == Casts!Call(f)
<1>1. s.op = "call" /\ s.t.n = f /\ f \in DOMAIN Casts!LookupTable
  BY DEF Casts!Call, Casts!Bare, Casts!Type, Casts!LookupTable
<1>2. s # Casts!Cast(Casts!Bare("bigint")) /\ s # Casts!Cast(Casts!Bare("text"))
  BY DEF Casts!Call, Casts!Cast
<1>3. s \in Identifiers
  BY LookupsRest
<1> HIDE DEF s
<1>4. Casts!Value(Expr(b, Append(q, s))) = Casts!StepValue(Casts!Value(Expr(b, q)), s)
  BY <1>3, ValueSteps
<1>5. Casts!Value(Expr(b, q)) = Casts!ColumnValue(b)
  BY ParenthesesMeanNothing
<1>6. \A v : Casts!StepValue(v, s) = Casts!name_to_oid(f, v)
  BY <1>1, <1>2 DEF Casts!StepValue
<1>7. Casts!Value(Expr(b, Append(q, s))) = Casts!name_to_oid(f, Casts!ColumnValue(b))
  BY <1>4, <1>5, <1>6
<1> QED BY <1>7 DEF s

(* The operand alone, and under one step. *)
LEMMA ShortValues ==
  ASSUME NEW b, NEW s \in Identifiers
  PROVE  /\ Casts!Value(Expr(b, <<>>)) = Casts!ColumnValue(b)
         /\ Casts!Value(Expr(b, <<s>>)) = Casts!StepValue(Casts!ColumnValue(b), s)
         /\ Casts!PostgresValues(Expr(b, <<>>)) = Casts!PostgresBase(b)
         /\ Casts!PostgresValues(Expr(b, <<s>>)) = Casts!PostgresStep(Casts!PostgresBase(b), s)
<1> DEFINE y == <<>>
<1>1. y \in Seq(Identifiers) /\ Append(y, s) = <<s>>
  OBVIOUS
<1>2. Casts!Value(Expr(b, <<>>)) = Casts!ColumnValue(b) /\ Casts!PostgresValues(Expr(b, <<>>)) = Casts!PostgresBase(b)
  <2>1. y \in Seq(Identifiers)
    BY <1>1
  <2> HIDE DEF y
  <2> QED BY <2>1, ValueSteps, MeaningSteps
<1>3. Casts!Value(Expr(b, y)) = Casts!ColumnValue(b) /\ Casts!PostgresValues(Expr(b, y)) = Casts!PostgresBase(b)
  BY <1>2
<1> HIDE DEF y
<1>4. /\ Casts!Value(Expr(b, Append(y, s))) = Casts!StepValue(Casts!Value(Expr(b, y)), s)
      /\ Casts!PostgresValues(Expr(b, Append(y, s))) = Casts!PostgresStep(Casts!PostgresValues(Expr(b, y)), s)
  <2>1. y \in Seq(Identifiers)
    BY <1>1
  <2> QED BY <2>1, ValueSteps, MeaningSteps
<1> QED BY <1>1, <1>2, <1>3, <1>4

(* What PostgreSQL makes of a cast: a text is a name, an OID stays what it is. *)
LEMMA PostgresCasts ==
  ASSUME NEW vs
  PROVE  /\ \A s \in Both("oid") : Casts!PostgresStep(vs, s) = vs
         /\ \A t \in {"regclass", "regtype", "regproc"} : \A s \in Both(t) :
              Casts!PostgresStep(vs, s) = UNION {IF v.k = "text" THEN Casts!Meanings(t, v.v) ELSE {v} : v \in vs}
<1>1. \A n : \A s \in Both(n) : s.op = "cast" /\ s.t.n = n
  BY DEF Both, Casts!Cast, Casts!Bare, Casts!Pg, Casts!Type
<1>2. DOMAIN Casts!CatalogOf = {"regclass", "regtype", "regproc"}
  BY DEF Casts!CatalogOf
<1>3. ASSUME NEW s \in Both("oid") PROVE Casts!PostgresStep(vs, s) = vs
  <2>1. s.op = "cast" /\ s.t.n = "oid" /\ s.t.n \notin DOMAIN Casts!CatalogOf
    BY <1>1, <1>2
  <2> QED BY <2>1 DEF Casts!PostgresStep
<1>4. ASSUME NEW t \in {"regclass", "regtype", "regproc"}, NEW s \in Both(t)
      PROVE  Casts!PostgresStep(vs, s) = UNION {IF v.k = "text" THEN Casts!Meanings(t, v.v) ELSE {v} : v \in vs}
  <2>1. s.op = "cast" /\ s.t.n = t /\ s.t.n \in DOMAIN Casts!CatalogOf /\ t # "oid"
    BY <1>1, <1>2
  <2> QED BY <2>1 DEF Casts!PostgresStep
<1> QED BY <1>3, <1>4

(* One value and no other. *)
Just(x) == {x}

(* The literal, the numbers and the columns on their own. *)
LEMMA BaseValues ==
  ASSUME NEW b
  PROVE  /\ b.k \in {"lit", "regproccol"} => Casts!ColumnValue(b) = Casts!Val("text", b.v, b.q)
         /\ b.k = "lit" => Casts!PostgresBase(b) = Just(Casts!Val("text", b.v, b.q))
         /\ b.k \in {"number", "param", "oidcol"} => /\ Casts!ColumnValue(b) = Casts!Val("int", b.v, FALSE)
                                                     /\ Casts!PostgresBase(b) = Just(Casts!Val("int", b.v, FALSE))
         /\ b.k = "regproccol" => Casts!PostgresBase(b) = Casts!Meanings("regproc", b.v)
         /\ b.k \in {"boolean", "boolcol"} => Casts!ColumnValue(b) = Casts!Val("bool", b.v, FALSE)
         /\ b.k \in {"boollit", "boolcol"} => Casts!PostgresBase(b) = Just(Casts!Val("bool", b.v, FALSE))
<1>1. /\ b.k \in {"lit", "regproccol"} => Casts!ColumnValue(b) = Casts!Val("text", b.v, b.q)
      /\ b.k \in {"number", "param", "oidcol"} => Casts!ColumnValue(b) = Casts!Val("int", b.v, FALSE)
      /\ b.k \in {"boolean", "boolcol"} => Casts!ColumnValue(b) = Casts!Val("bool", b.v, FALSE)
  BY DEF Casts!ColumnValue
<1>2. /\ b.k = "regproccol" => Casts!PostgresBase(b) = Casts!Meanings("regproc", b.v)
      /\ b.k = "boollit" => Casts!PostgresBase(b) = Just(Casts!Val("bool", b.v, FALSE))
      /\ b.k \in {"lit", "number", "param", "oidcol", "boolcol"} => Casts!PostgresBase(b) = {Casts!ColumnValue(b)}
  BY DEF Casts!PostgresBase, Just
<1> QED BY <1>1, <1>2 DEF Just

(* A text under a cast means what its name means in the catalog of the type. *)
LEMMA TextMeans ==
  ASSUME NEW t \in {"regclass", "regtype", "regproc"}, NEW s \in Both(t), NEW v, NEW q
  PROVE  /\ Casts!PostgresStep(Just(Casts!Val("text", v, q)), s) = Casts!Meanings(t, v)
         /\ \A y : y.k = "int" => Casts!PostgresStep(Just(y), s) = Just(y)
<1> DEFINE x == Casts!Val("text", v, q)
<1>1. x.k = "text" /\ x.v = v
  BY DEF Casts!Val
<1> HIDE DEF x
<1>2. \A vs : Casts!PostgresStep(vs, s) = UNION {IF u.k = "text" THEN Casts!Meanings(t, u.v) ELSE {u} : u \in vs}
  BY PostgresCasts
<1>3. UNION {IF u.k = "text" THEN Casts!Meanings(t, u.v) ELSE {u} : u \in {x}} = Casts!Meanings(t, v)
  BY <1>1
<1>4. Casts!PostgresStep(Just(x), s) = Casts!Meanings(t, v)
  BY <1>2, <1>3 DEF Just
<1>5. ASSUME NEW y, y.k = "int" PROVE Casts!PostgresStep(Just(y), s) = Just(y)
  <2>1. UNION {IF u.k = "text" THEN Casts!Meanings(t, u.v) ELSE {u} : u \in {y}} = {y}
    BY <1>5
  <2> QED BY <1>2, <2>1 DEF Just
<1> QED BY <1>4, <1>5 DEF x

(* The passes over comparisons leave such an operand alone. *)
Unread(x) == ~Casts!is_regproc_column(x) /\ ~Casts!is_text_literal(x) /\ ~Casts!is_boolean_column(x)

(* An operand that means by itself what PostgreSQL makes of it. *)
Decided(e) == Unread(Typed(e)) /\ Settled(Casts!Value(Trimmed(Typed(e))), Casts!PostgresValues(e))

(* What is no literal, and no column of the two kinds, is left. *)
LEMMA UnreadKinds ==
  ASSUME NEW b, NEW y, b.k \in {"number", "param", "oidcol"}
  PROVE  Unread(Expr(b, y))
<1>1. Expr(b, y).base = b
  BY StepsOf
<1> QED BY <1>1 DEF Unread, Casts!is_regproc_column, Casts!is_text_literal, Casts!is_boolean_column

(* So is what stands under a lookup. *)
LEMMA UnreadLookup ==
  ASSUME NEW b, NEW q \in Seq(Identifiers), NEW f \in {"oid", "pg_proc_oid", "pg_type_oid"}
  PROVE  Unread(Expr(b, Append(q, Casts!Call(f))))
<1> DEFINE c == Casts!Call(f)
           y == Append(q, c)
           e == Expr(b, y)
<1>1. c.op = "call" /\ c \in Identifiers
  BY LookupsRest DEF Casts!Call
<1> HIDE DEF c
<1>2. y \in Seq(Identifiers) /\ Len(y) = Len(q) + 1 /\ y[Len(q) + 1] = c /\ Len(q) \in Nat
  BY <1>1, AppendProperties
<1> HIDE DEF y
<1>3. Len(q) + 1 \in DOMAIN y /\ y # <<>>
  BY <1>2
<1>4. e.steps = y
  BY StepsOf
<1> HIDE DEF e
<1>5. Unread(e)
  BY <1>1, <1>2, <1>3, <1>4 DEF Unread, Casts!is_regproc_column, Casts!is_text_literal,
     Casts!is_boolean_column, Casts!Alone
<1> QED BY <1>5 DEF e, y, c

(* An operand that has become a lookup of its name in the catalog of a type, *)
(* and means an object of that catalog.                                      *)
LEMMA LookupDecides ==
  ASSUME NEW e, NEW b, b.k \in {"lit", "regproccol"}, IsName(b.v),
         NEW q \in Seq(Identifiers), \A i \in 1..Len(q) : q[i] = Casts!Paren,
         NEW t \in {"regclass", "regtype", "regproc"},
         Typed(e) = Expr(b, Append(q, Casts!Call(Looks(t)))), Casts!PostgresValues(e) = Casts!Meanings(t, b.v)
  PROVE  Decided(e)
<1> DEFINE f == Looks(t)
           x == Expr(b, Append(q, Casts!Call(f)))
<1>1. f \in {"oid", "pg_proc_oid", "pg_type_oid"}
  BY DEF Looks
<1> HIDE DEF f
<1>2. Unread(x)
  BY <1>1, UnreadLookup
<1>3. Trimmed(x) = x
  BY <1>1, TrimmedStays
<1>4. Casts!Value(x) = Casts!name_to_oid(f, Casts!ColumnValue(b))
  BY <1>1, LookupValue
<1>5. Casts!ColumnValue(b) = Casts!Val("text", b.v, b.q)
  BY BaseValues
<1>6. Settled(Casts!name_to_oid(f, Casts!Val("text", b.v, b.q)), Casts!Meanings(t, b.v))
  BY LookupSettles DEF f
<1>7. Typed(e) = x
  BY DEF f
<1> HIDE DEF x
<1> QED BY <1>2, <1>3, <1>4, <1>5, <1>6, <1>7 DEF Decided

(* The same, of a lookup around the name itself. *)
LEMMA SingleDecides ==
  ASSUME NEW e, NEW b, b.k \in {"lit", "regproccol"}, IsName(b.v),
         NEW t \in {"regclass", "regtype", "regproc"},
         Typed(e) = Expr(b, <<Casts!Call(Looks(t))>>), Casts!PostgresValues(e) = Casts!Meanings(t, b.v)
  PROVE  Decided(e)
<1> DEFINE q == <<>>
           c == Casts!Call(Looks(t))
<1>1. q \in Seq(Identifiers) /\ Append(q, c) = <<c>> /\ \A i \in 1..Len(q) : q[i] = Casts!Paren
  <2> HIDE DEF c
  <2> QED OBVIOUS
<1>2. Typed(e) = Expr(b, Append(q, c))
  BY <1>1
<1>3. q \in Seq(Identifiers) /\ \A i \in 1..Len(q) : q[i] = Casts!Paren
  BY <1>1
<1> HIDE DEF q
<1>4. Typed(e) = Expr(b, Append(q, Casts!Call(Looks(t))))
  BY <1>2
<1> QED BY <1>3, <1>4, LookupDecides

(* Literals under regclass, with or without a bare oid, and under regtype. *)
LEMMA NamesDecided ==
  ASSUME NEW b, b.k = "lit", IsName(b.v)
  PROVE  /\ \A s \in Both("regclass") : Decided(Expr(b, <<s>>)) /\ Decided(Expr(b, <<s, CastTo("oid")>>))
         /\ \A s \in Both("regtype") : Decided(Expr(b, <<s>>))
<1>0. Looks("regclass") = "oid" /\ Looks("regtype") = "pg_type_oid"
  BY DEF Looks
<1>1. ASSUME NEW t \in {"regclass", "regtype"}, NEW s \in Both(t)
      PROVE  Casts!PostgresValues(Expr(b, <<s>>)) = Casts!Meanings(t, b.v)
  <2>1. s \in Identifiers
    BY DEF Identifiers
  <2>2. Casts!PostgresValues(Expr(b, <<s>>)) = Casts!PostgresStep(Casts!PostgresBase(b), s)
    BY <2>1, ShortValues
  <2>3. Casts!PostgresBase(b) = Just(Casts!Val("text", b.v, b.q))
    BY BaseValues
  <2>4. Casts!PostgresStep(Just(Casts!Val("text", b.v, b.q)), s) = Casts!Meanings(t, b.v)
    <3>1. t \in {"regclass", "regtype", "regproc"}
      OBVIOUS
    <3> QED BY <3>1, TextMeans
  <2> QED BY <2>2, <2>3, <2>4
<1>2. ASSUME NEW s \in Both("regclass") PROVE Decided(Expr(b, <<s>>))
  <2>1. Typed(Expr(b, <<s>>)) = Expr(b, <<Casts!Call(Looks("regclass"))>>)
    BY <1>0, RegclassTyped
  <2>2. Casts!PostgresValues(Expr(b, <<s>>)) = Casts!Meanings("regclass", b.v)
    BY <1>1
  <2> QED BY <2>1, <2>2, SingleDecides
<1>3. ASSUME NEW s \in Both("regtype") PROVE Decided(Expr(b, <<s>>))
  <2>1. Typed(Expr(b, <<s>>)) = Expr(b, <<Casts!Call(Looks("regtype"))>>)
    BY <1>0, RegtypeTyped
  <2>2. Casts!PostgresValues(Expr(b, <<s>>)) = Casts!Meanings("regtype", b.v)
    BY <1>1
  <2> QED BY <2>1, <2>2, SingleDecides
<1>4. ASSUME NEW s \in Both("regclass") PROVE Decided(Expr(b, <<s, CastTo("oid")>>))
  <2> DEFINE o == CastTo("oid")
             y == <<s>>
  <2>1. o \in Both("oid")
    BY DEF Both, CastTo
  <2>2. Typed(Expr(b, <<s, o>>)) = Expr(b, <<Casts!Call(Looks("regclass"))>>)
    BY <1>0, RegclassTyped
  <2> HIDE DEF o
  <2>3. s \in Identifiers /\ o \in Identifiers
    BY <2>1 DEF Identifiers
  <2>4. Append(y, o) = <<s, o>> /\ y \in Seq(Identifiers)
    BY <2>3, TwoSteps
  <2>5. Casts!PostgresValues(Expr(b, y)) = Casts!Meanings("regclass", b.v)
    BY <1>1
  <2>6. Casts!PostgresValues(Expr(b, Append(y, o))) = Casts!Meanings("regclass", b.v)
    <3>1. y \in Seq(Identifiers)
      BY <2>4
    <3> HIDE DEF y
    <3>2. Casts!PostgresValues(Expr(b, Append(y, o))) = Casts!PostgresStep(Casts!PostgresValues(Expr(b, y)), o)
      BY <2>3, <3>1, MeaningSteps
    <3> QED BY <2>1, <2>5, <3>2, PostgresCasts
  <2>7. Casts!PostgresValues(Expr(b, <<s, o>>)) = Casts!Meanings("regclass", b.v)
    BY <2>4, <2>6
  <2>8. Decided(Expr(b, <<s, o>>))
    BY <2>2, <2>7, SingleDecides
  <2> QED BY <2>8 DEF o
<1> QED BY <1>2, <1>3, <1>4

(* Literals under regproc and oid, in any number of parentheses. *)
LEMMA ProceduresDecided ==
  ASSUME NEW b, b.k = "lit", IsName(b.v), NEW q \in Seq(Identifiers), \A i \in 1..Len(q) : q[i] = Casts!Paren,
         NEW r \in Both("regproc"), NEW s \in Both("oid")
  PROVE  Decided(Expr(b, Append(Append(q, r), s)))
<1> DEFINE x == Append(q, r)
           e == Expr(b, Append(x, s))
<1>1. r \in Identifiers /\ s \in Identifiers
  BY DEF Identifiers
<1>2. x \in Seq(Identifiers)
  BY <1>1
<1>3. Typed(e) = Expr(b, Append(q, Casts!Call(Looks("regproc"))))
  <2>1. Looks("regproc") = "pg_proc_oid"
    BY DEF Looks
  <2> QED BY <2>1, RegprocTyped
<1>4. Casts!PostgresValues(Expr(b, x)) = Casts!PostgresStep(Casts!PostgresValues(Expr(b, q)), r)
  BY <1>1, MeaningSteps
<1> HIDE DEF x
<1>5. Casts!PostgresValues(e) = Casts!PostgresStep(Casts!PostgresValues(Expr(b, x)), s)
  BY <1>1, <1>2, MeaningSteps
<1>6. Casts!PostgresValues(Expr(b, q)) = Just(Casts!Val("text", b.v, b.q))
  BY ParenthesesMeanNothing, BaseValues
<1>7. Casts!PostgresStep(Just(Casts!Val("text", b.v, b.q)), r) = Casts!Meanings("regproc", b.v)
  <2>1. "regproc" \in {"regclass", "regtype", "regproc"}
    OBVIOUS
  <2> QED BY <2>1, TextMeans
<1>8. Casts!PostgresValues(e) = Casts!Meanings("regproc", b.v)
  <2>1. \A vs : Casts!PostgresStep(vs, s) = vs
    BY PostgresCasts
  <2> QED BY <1>4, <1>5, <1>6, <1>7, <2>1
<1> HIDE DEF e
<1>9. Decided(e)
  BY <1>3, <1>8, LookupDecides
<1> QED BY <1>9 DEF e, x

(* A regproc column under oid. *)
LEMMA ProcedureColumnDecided ==
  ASSUME NEW b, b.k = "regproccol", IsName(b.v), NEW s \in Both("oid")
  PROVE  Decided(Expr(b, <<s>>))
<1> DEFINE e == Expr(b, <<s>>)
<1>1. s \in Identifiers
  BY DEF Identifiers
<1>2. Casts!Node("rewrite_oid_cast", e) = Expr(b, <<Casts!Call("pg_proc_oid")>>)
  BY OidCastMakes
<1>3. Typed(e) = Expr(b, <<Casts!Call("pg_proc_oid")>>)
  BY <1>2, OidTyped
<1>4. Casts!PostgresValues(e) = Casts!PostgresStep(Casts!PostgresBase(b), s)
  BY <1>1, ShortValues
<1>5. Casts!PostgresValues(e) = Casts!Meanings("regproc", b.v)
  BY <1>4, PostgresCasts, BaseValues
<1>6. Looks("regproc") = "pg_proc_oid"
  BY DEF Looks
<1> HIDE DEF e
<1>7. Decided(e)
  BY <1>3, <1>5, <1>6, SingleDecides
<1> QED BY <1>7 DEF e

(* Numbers and parameters, alone and under oid. *)
LEMMA NumbersDecided ==
  ASSUME NEW b, b.k \in {"number", "param"}, NEW s \in Both("oid")
  PROVE  Decided(Expr(b, <<s>>))
<1> DEFINE e == Expr(b, <<s>>)
           g == CastTo("bigint")
           x == Expr(b, <<g>>)
           v == Casts!Val("int", b.v, FALSE)
<1>1. s \in Identifiers /\ g \in Identifiers
  BY DEF Identifiers
<1>2. Casts!Node("rewrite_oid_cast", e) = x
  BY OidCastMakes
<1>3. Typed(e) = x
  BY <1>2, OidTyped
<1>4. Unread(x)
  BY UnreadKinds
<1>5. Trimmed(x) = x
  <2> DEFINE q == <<>>
  <2>1. q \in Seq(Identifiers) /\ \A i \in 1..Len(q) : q[i] = Casts!Paren
    OBVIOUS
  <2> HIDE DEF q
  <2> QED BY <2>1, TrimmedStays
<1>6. Casts!Value(x) = Casts!StepValue(v, g)
  BY <1>1, ShortValues, BaseValues
<1>7. Casts!StepValue(v, g) = v
  <2>1. g = Casts!Cast(Casts!Bare("bigint")) /\ g.op = "cast" /\ g # Casts!Cast(Casts!Bare("text"))
    BY DEF CastTo, Casts!Cast, Casts!Bare, Casts!Type
  <2>2. v.k = "int"
    BY DEF Casts!Val
  <2> HIDE DEF g, v
  <2> QED BY <2>1, <2>2 DEF Casts!StepValue
<1>8. Casts!PostgresValues(e) = Just(v)
  <2>1. Casts!PostgresValues(e) = Casts!PostgresStep(Casts!PostgresBase(b), s)
    BY <1>1, ShortValues
  <2> QED BY <2>1, PostgresCasts, BaseValues
<1> HIDE DEF e, x, v, g
<1>9. Decided(e)
  BY <1>3, <1>4, <1>5, <1>6, <1>7, <1>8 DEF Decided, Settled, Just
<1> QED BY <1>9 DEF e

(* A number, a parameter and an oid column on their own keep their value. *)
LEMMA AloneDecided ==
  ASSUME NEW b, b.k \in {"number", "param", "oidcol"}
  PROVE  Decided(Expr(b, <<>>))
<1> DEFINE e == Expr(b, <<>>)
           v == Casts!Val("int", b.v, FALSE)
<1>1. Typed(e) = e /\ Trimmed(e) = e
  BY AloneTyped
<1>2. Unread(e)
  BY UnreadKinds
<1>3. Casts!Paren \in Identifiers
  BY LookupsRest
<1>4. Casts!Value(e) = v /\ Casts!PostgresValues(e) = Just(v)
  BY <1>3, ShortValues, BaseValues
<1> HIDE DEF e, v
<1>5. Decided(e)
  BY <1>1, <1>2, <1>4 DEF Decided, Settled, Just
<1> QED BY <1>5 DEF e

(* An OID column under a bare regclass. *)
LEMMA ColumnDecided ==
  ASSUME NEW b, b.k = "oidcol"
  PROVE  Decided(Expr(b, <<CastTo("regclass")>>))
<1> DEFINE s == CastTo("regclass")
           e == Expr(b, <<s>>)
           v == Casts!Val("int", b.v, FALSE)
<1>1. s \in Both("regclass")
  BY DEF Both, CastTo
<1>2. Typed(e) = e /\ Trimmed(e) = Expr(b, <<>>)
  BY ColumnTyped
<1> HIDE DEF s
<1>3. s \in Identifiers
  BY <1>1 DEF Identifiers
<1>4. Unread(e)
  BY UnreadKinds
<1>5. Casts!Value(Expr(b, <<>>)) = v
  BY <1>3, ShortValues, BaseValues
<1>6. Casts!PostgresValues(e) = Just(v)
  <2>1. Casts!PostgresValues(e) = Casts!PostgresStep(Just(v), s)
    BY <1>3, ShortValues, BaseValues
  <2>2. Casts!PostgresStep(Just(v), s) = Just(v)
    <3>1. "regclass" \in {"regclass", "regtype", "regproc"}
      OBVIOUS
    <3>2. v.k = "int"
      BY DEF Casts!Val
    <3> HIDE DEF v
    <3> QED BY <1>1, <3>1, <3>2, TextMeans
  <2> QED BY <2>1, <2>2
<1> HIDE DEF e, v
<1>7. Decided(e)
  BY <1>2, <1>4, <1>5, <1>6 DEF Decided, Settled, Just
<1> QED BY <1>7 DEF e, s

(* A sequence that is not empty has a last element and what is before it. *)
LEMMA FrontAndLast ==
  ASSUME NEW S, NEW y \in Seq(S), Len(y) >= 1
  PROVE  /\ y = Append(Casts!Front(y), Casts!Last(y)) /\ Casts!Last(y) \in S
         /\ Casts!Front(y) \in Seq(S) /\ Len(Casts!Front(y)) = Len(y) - 1
<1> DEFINE x == SubSeq(y, 1, Len(y) - 1)
           l == y[Len(y)]
<1>1. Casts!Front(y) = x /\ Casts!Last(y) = l
  BY DEF Casts!Front, Casts!Last
<1>2. x \in Seq(S) /\ Len(x) = Len(y) - 1 /\ \A i \in 1..Len(y) - 1 : x[i] = y[i]
  <2> DEFINE m == Len(y) - 1
  <2>1. m \in Nat /\ m <= Len(y) /\ m \in 0..Len(y) /\ 1 \in 1..m + 1
    OBVIOUS
  <2> HIDE DEF m
  <2>2. SubSeq(y, 1, m) \in Seq(S) /\ Len(SubSeq(y, 1, m)) = m /\ \A i \in 1..m : SubSeq(y, 1, m)[i] = y[i]
    BY <2>1
  <2> QED BY <2>2 DEF m
<1>3. l \in S
  OBVIOUS
<1> HIDE DEF x
<1>4. Append(x, l) \in Seq(S) /\ Len(Append(x, l)) = Len(y) /\ Append(x, l)[Len(y)] = l
      /\ \A i \in 1..Len(y) - 1 : Append(x, l)[i] = x[i]
  BY <1>2, <1>3, AppendProperties
<1>5. \A i \in 1..Len(y) : i \in 1..Len(y) - 1 \/ i = Len(y)
  OBVIOUS
<1>6. \A i \in 1..Len(y) : Append(x, l)[i] = y[i]
  BY <1>2, <1>4, <1>5
<1>7. y = Append(x, l)
  BY <1>4, <1>6, SeqEqual
<1> QED BY <1>1, <1>2, <1>3, <1>7

(* Every documented operand but a regproc column on its own. *)
LEMMA ShapesDecided ==
  ASSUME NEW e, Casts!IsOperand(e), Casts!ResolvedShape(e), ~Casts!is_regproc_column(e)
  PROVE  Decided(e)
<1> DEFINE b == e.base
           y == e.steps
           S == Casts!ToSet(y)
<1>1. e = [base |-> Casts!Base(b.k, b.v, b.q), steps |-> y] /\ y \in Seq(S)
  BY DEF Casts!IsOperand
<1>2. e = Expr(b, y)
  BY <1>1 DEF Expr
<1>3. b.k \in {"lit", "regproccol"} => IsName(b.v)
  BY OidAssumption DEF Casts!IsOperand, IsName
<1>4. \A n : Casts!Spelled(n) = Both(n)
  BY DEF Casts!Spelled, Both
<1> HIDE DEF S
<1>5. CASE b.k = "lit" /\ (Casts!Under("regclass", e) \/ Casts!Under("regtype", e))
  <2>1. PICK t \in {"regclass", "regtype"} : Casts!Under(t, e)
    BY <1>5
  <2>2. PICK s \in Both(t) : y = <<s>>
    BY <1>4, <2>1 DEF Casts!Under
  <2> QED BY <1>2, <1>3, <1>5, <2>2, NamesDecided
<1>6. CASE b.k = "lit" /\ \E t \in Casts!Spelled("regclass") : y = <<t, Casts!Cast(Casts!Bare("oid"))>>
  <2>1. PICK s \in Both("regclass") : y = <<s, CastTo("oid")>>
    BY <1>4, <1>6 DEF CastTo
  <2> QED BY <1>2, <1>3, <1>6, <2>1, NamesDecided
<1>7. CASE /\ b.k = "lit" /\ Len(y) >= 2
           /\ Casts!Outer(e) \in Casts!Spelled("oid") /\ Casts!Outer(Casts!Operand(e)) \in Casts!Spelled("regproc")
           /\ Casts!is_string_literal_operand(Casts!Operand(Casts!Operand(e)))
  <2> DEFINE x == Casts!Front(y)
             q == Casts!Front(x)
             r == Casts!Last(x)
             s == Casts!Last(y)
  <2>1. y = Append(x, s) /\ x \in Seq(S) /\ Len(x) = Len(y) - 1
    BY <1>1, <1>7, FrontAndLast
  <2>2. x = Append(q, r) /\ q \in Seq(S)
    <3>1. Len(x) >= 1
      BY <1>7, <2>1
    <3> HIDE DEF x
    <3> QED BY <2>1, <3>1, FrontAndLast
  <2> HIDE DEF x, q, r, s
  <2>3. OuterIs(Expr(b, Append(x, s)), b, x, s) /\ OuterIs(Expr(b, Append(q, r)), b, q, r)
    BY <2>1, <2>2, OuterStep
  <2>4. OuterIs(e, b, x, s) /\ OuterIs(Expr(b, x), b, q, r)
    <3> HIDE DEF y, b
    <3> QED BY <1>2, <2>1, <2>2, <2>3
  <2>5. Casts!Outer(e) = s /\ Casts!Operand(e) = Expr(b, x) /\ Casts!Operand(Expr(b, x)) = Expr(b, q) /\ Casts!Outer(Expr(b, x)) = r
    BY <2>4 DEF OuterIs
  <2>6. s \in Both("oid") /\ r \in Both("regproc") /\ Casts!is_string_literal_operand(Expr(b, q))
    BY <1>4, <1>7, <2>5
  <2>7. \A i \in 1..Len(q) : q[i] = Casts!Paren
    <3>1. Expr(b, q).steps = q
      BY StepsOf
    <3> QED BY <2>2, <2>6, <3>1 DEF Casts!is_string_literal_operand
  <2>8. q \in Seq(Identifiers)
    <3>1. Casts!Paren \in Identifiers
      BY LookupsRest
    <3>2. \A i \in 1..Len(q) : q[i] \in Identifiers
      BY <2>7, <3>1
    <3> QED BY <2>2, <3>2, InSeq
  <2>9. Decided(Expr(b, Append(Append(q, r), s)))
    BY <1>3, <1>7, <2>6, <2>7, <2>8, ProceduresDecided
  <2> QED BY <1>2, <2>1, <2>2, <2>9
<1>8. CASE b.k \in {"regproccol", "number", "param"} /\ Casts!Under("oid", e)
  <2>1. PICK s \in Both("oid") : y = <<s>>
    BY <1>4, <1>8 DEF Casts!Under
  <2>2. CASE b.k = "regproccol"
    BY <1>2, <1>3, <2>1, <2>2, ProcedureColumnDecided
  <2>3. CASE b.k \in {"number", "param"}
    BY <1>2, <2>1, <2>3, NumbersDecided
  <2> QED BY <1>8, <2>2, <2>3
<1>9. CASE b.k \in {"number", "param", "oidcol"} /\ Casts!Alone(e)
  BY <1>2, <1>9, AloneDecided DEF Casts!Alone
<1>10. CASE b.k = "oidcol" /\ y = <<Casts!Cast(Casts!Bare("regclass"))>>
  <2>1. y = <<CastTo("regclass")>>
    BY <1>10 DEF CastTo
  <2> QED BY <1>2, <1>10, <2>1, ColumnDecided
<1>11. ~(b.k = "regproccol" /\ Casts!Alone(e))
  BY DEF Casts!is_regproc_column
<1> QED BY <1>5, <1>6, <1>7, <1>8, <1>9, <1>10, <1>11 DEF Casts!ResolvedShape

(* The answers to a comparison of what may be meant on the left with what    *)
(* may be meant on the right.                                               *)
MayAnswer(vs, ws) == {Casts!Compare(v, w) : v \in vs, w \in ws}

(* Two settled sides are compared as PostgreSQL may compare them. *)
LEMMA SettledSides ==
  ASSUME NEW v, NEW vs, Settled(v, vs), NEW w, NEW ws, Settled(w, ws), "error" \notin MayAnswer(vs, ws)
  PROVE  Casts!Compare(v, w) \in MayAnswer(vs, ws)
<1>1. PICK x \in vs : TRUE
  BY DEF Settled
<1>2. PICK y \in ws : TRUE
  BY DEF Settled
<1>3. Casts!Compare(x, y) # "error"
  BY DEF MayAnswer
<1>4. x # Casts!Failure /\ y # Casts!Failure
  BY <1>3 DEF Casts!Compare
<1>5. v \in vs /\ w \in ws
  BY <1>1, <1>2, <1>4 DEF Settled
<1> QED BY <1>5 DEF MayAnswer

(* Two columns that hold names agree where two that hold OIDs would: a row   *)
(* has one name, and an OID of its own.                                      *)
LEMMA NamesAgree ==
  ASSUME NEW v, IsName(v), NEW w, IsName(w),
         "error" \notin MayAnswer(Casts!Meanings("regproc", v), Casts!Meanings("regproc", w))
  PROVE  Casts!Compare(Casts!Val("text", v, FALSE), Casts!Val("text", w, FALSE))
           \in MayAnswer(Casts!Meanings("regproc", v), Casts!Meanings("regproc", w))
<1> DEFINE M(n) == Casts!Meanings("regproc", n)
           x == Casts!Val("text", v, FALSE)
           y == Casts!Val("text", w, FALSE)
<1>1. Casts!CatalogOf["regproc"] = "pg_proc"
  BY DEF Casts!CatalogOf
<1>2. ASSUME NEW n, IsName(n)
      PROVE  /\ M(n) # {}
             /\ \A m \in M(n) : m = Casts!Failure \/ \E o : /\ m = Casts!Val("int", o, FALSE)
                                                            /\ n = 0 => o = 0
                                                            /\ n # 0 => o \in Oids["pg_proc"][n]
  <2>1. CASE n = 0
    <3>1. M(n) = {Casts!Val("int", 0, FALSE)}
      BY <2>1 DEF Casts!Meanings
    <3> QED BY <2>1, <3>1
  <2>2. CASE n # 0 /\ Oids["pg_proc"][n] = {}
    <3>1. M(n) = {Casts!Failure}
      BY <1>1, <2>2 DEF Casts!Meanings
    <3> QED BY <3>1
  <2>3. CASE n # 0 /\ Oids["pg_proc"][n] # {}
    <3>1. M(n) = {Casts!Val("int", o, FALSE) : o \in Oids["pg_proc"][n]}
      BY <1>1, <2>3 DEF Casts!Meanings
    <3> HIDE DEF M
    <3> QED BY <2>3, <3>1
  <2> QED BY <2>1, <2>2, <2>3
<1>3. PICK a \in M(v) : TRUE
  BY <1>2
<1>4. PICK c \in M(w) : TRUE
  BY <1>2
<1>5. ASSUME NEW m \in M(v), NEW n \in M(w) PROVE Casts!Compare(m, n) # "error" /\ m # Casts!Failure /\ n # Casts!Failure
  <2>1. Casts!Compare(m, n) # "error"
    BY DEF MayAnswer
  <2> QED BY <2>1 DEF Casts!Compare
<1> HIDE DEF M
<1>6. PICK o : a = Casts!Val("int", o, FALSE) /\ (v = 0 => o = 0) /\ (v # 0 => o \in Oids["pg_proc"][v])
  BY <1>2, <1>3, <1>4, <1>5
<1>7. PICK p : c = Casts!Val("int", p, FALSE) /\ (w = 0 => p = 0) /\ (w # 0 => p \in Oids["pg_proc"][w])
  BY <1>2, <1>3, <1>4, <1>5
<1>8. CASE v = w
  <2>1. Casts!Compare(x, y) = "true"
    <3>1. x # Casts!Failure /\ x # Casts!Null
      BY DEF Casts!Failure, Casts!Null, Casts!Val
    <3>2. x = y
      BY <1>8
    <3> HIDE DEF x, y
    <3> QED BY <3>1, <3>2 DEF Casts!Compare
  <2>2. Casts!Compare(a, a) = "true"
    <3>1. a # Casts!Failure /\ a # Casts!Null
      BY <1>6 DEF Casts!Failure, Casts!Null, Casts!Val
    <3> QED BY <3>1 DEF Casts!Compare
  <2>3. a \in M(w)
    BY <1>3, <1>8
  <2>4. "true" \in MayAnswer(M(v), M(w))
    BY <1>3, <2>2, <2>3 DEF MayAnswer
  <2> QED BY <2>1, <2>4 DEF M
<1>9. CASE v # w
  <2>1. Casts!Compare(x, y) = "false"
    <3>1. /\ x # Casts!Failure /\ x # Casts!Null /\ y # Casts!Failure /\ y # Casts!Null
          /\ x.k = y.k /\ x # y
      BY <1>9 DEF Casts!Failure, Casts!Null, Casts!Val
    <3> HIDE DEF x, y
    <3> QED BY <3>1 DEF Casts!Compare
  <2>2. o # p
    BY <1>6, <1>7, <1>9, OidAssumption DEF IsName
  <2>3. Casts!Compare(a, c) = "false"
    <3>1. /\ a # Casts!Failure /\ a # Casts!Null /\ c # Casts!Failure /\ c # Casts!Null
          /\ a.k = c.k /\ a # c
      BY <1>6, <1>7, <2>2 DEF Casts!Failure, Casts!Null, Casts!Val
    <3> QED BY <3>1 DEF Casts!Compare
  <2>4. "false" \in MayAnswer(M(v), M(w))
    BY <1>3, <1>4, <2>3 DEF MayAnswer
  <2> QED BY <2>1, <2>4 DEF M
<1> QED BY <1>8, <1>9

(* A comparison for equality, by its sides. *)
Equal(l, r) == [l |-> l, op |-> "=", r |-> r]

(* Up to the passes over comparisons each side goes its own way. *)
LEMMA TypedSides ==
  ASSUME NEW l, NEW r
  PROVE  Casts!rewrite_filters(Equal(l, r))
           = Casts!redundant_casts(Casts!rewrite_boolean_column_char_comparisons(
               Casts!resolve_regproc_columns_to_oids_in_comparisons(Equal(Typed(l), Typed(r)))))
<1> DEFINE l1 == Uncollated(l)
           r1 == Uncollated(r)
           l2 == Requalified(l1)
           r2 == Requalified(r1)
<1>1. Casts!collations_and_procedures(Equal(l, r)) = Equal(l1, r1)
  BY GroupsSide, Zenon DEF Equal
<1>2. Casts!rewrite_pg_custom_operator(Equal(l1, r1)) = Equal(l1, r1)
  <2> DEFINE c == Equal(l1, r1)
  <2>1. c.op = "="
    BY DEF Equal
  <2> HIDE DEF c
  <2>2. Casts!rewrite_pg_custom_operator(c) = c
    BY <2>1 DEF Casts!rewrite_pg_custom_operator
  <2> QED BY <2>2 DEF c
<1> HIDE DEF l1, r1
<1>3. Casts!qualified_types(Equal(l1, r1)) = Equal(l2, r2)
  BY GroupsSide, Zenon DEF Equal
<1> HIDE DEF l2, r2
<1>4. Casts!catalog_types(Equal(l2, r2)) = Equal(Catalogued(l2), Catalogued(r2))
  BY GroupsSide, Zenon DEF Equal
<1>5. Typed(l) = Catalogued(l2) /\ Typed(r) = Catalogued(r2)
  BY DEF Typed, l1, r1, l2, r2
<1> QED BY <1>1, <1>2, <1>3, <1>4, <1>5 DEF Casts!rewrite_filters

(* After them too. *)
LEMMA TrimmedSides ==
  ASSUME NEW x, NEW y
  PROVE  Casts!redundant_casts(Equal(x, y)) = Equal(Trimmed(x), Trimmed(y))
BY GroupsSide, Zenon DEF Equal

(* The passes over comparisons, by what stands on either side. *)
LEMMA ComparedSides ==
  ASSUME NEW x, NEW y
  PROVE  LET d == Casts!resolve_regproc_columns_to_oids_in_comparisons(Equal(x, y))
             C(e) == Casts!CallOf("pg_proc_oid", e)
             T(e) == IF Casts!is_text_literal(e) THEN C(e) ELSE e
         IN  /\ (Casts!is_regproc_column(x) <=> Casts!is_regproc_column(y)) => d = Equal(x, y)
             /\ (Casts!is_regproc_column(x) /\ ~Casts!is_regproc_column(y)) => d = Equal(C(x), T(y))
             /\ (~Casts!is_regproc_column(x) /\ Casts!is_regproc_column(y)) => d = Equal(T(x), C(y))
<1> DEFINE c == Equal(x, y)
           d == Casts!resolve_regproc_columns_to_oids_in_comparisons(c)
           C(e) == Casts!CallOf("pg_proc_oid", e)
           T(e) == IF Casts!is_text_literal(e) THEN C(e) ELSE e
<1>1. c.l = x /\ c.r = y /\ c.op = "=" /\ c = [l |-> c.l, op |-> c.op, r |-> c.r]
  BY DEF Equal
<1> HIDE DEF c, T
<1>2. ASSUME NEW u, NEW v, d = [c EXCEPT !.l = u, !.r = v] PROVE d = Equal(u, v)
  <2> HIDE DEF d
  <2> QED BY <1>1, <1>2 DEF Equal
<1>3. ASSUME Casts!is_regproc_column(x), Casts!is_regproc_column(y) PROVE d = Equal(x, y)
  <2>1. d = [c EXCEPT !.l = x, !.r = y]
    BY <1>1, <1>3 DEF Casts!resolve_regproc_columns_to_oids_in_comparisons
  <2> QED BY <1>2, <2>1
<1>4. ASSUME ~Casts!is_regproc_column(x), ~Casts!is_regproc_column(y) PROVE d = Equal(x, y)
  <2>1. d = c
    BY <1>1, <1>4 DEF Casts!resolve_regproc_columns_to_oids_in_comparisons
  <2> QED BY <2>1 DEF c
<1>5. ASSUME Casts!is_regproc_column(x), ~Casts!is_regproc_column(y) PROVE d = Equal(C(x), T(y))
  <2>1. d = [c EXCEPT !.l = C(x), !.r = T(y)]
    BY <1>1, <1>5 DEF Casts!resolve_regproc_columns_to_oids_in_comparisons, T
  <2> QED BY <1>2, <2>1
<1>6. ASSUME ~Casts!is_regproc_column(x), Casts!is_regproc_column(y) PROVE d = Equal(T(x), C(y))
  <2>1. d = [c EXCEPT !.l = T(x), !.r = C(y)]
    BY <1>1, <1>6 DEF Casts!resolve_regproc_columns_to_oids_in_comparisons, T
  <2> QED BY <1>2, <2>1
<1>7. /\ (Casts!is_regproc_column(x) <=> Casts!is_regproc_column(y)) => d = Equal(x, y)
      /\ (Casts!is_regproc_column(x) /\ ~Casts!is_regproc_column(y)) => d = Equal(C(x), T(y))
      /\ (~Casts!is_regproc_column(x) /\ Casts!is_regproc_column(y)) => d = Equal(T(x), C(y))
  BY <1>3, <1>4, <1>5, <1>6
<1> QED BY <1>7 DEF c, T

(* Where no side is a boolean column nothing is made of it. *)
LEMMA NoBooleans ==
  ASSUME NEW x, NEW y, ~Casts!is_boolean_column(x), ~Casts!is_boolean_column(y)
  PROVE  Casts!rewrite_boolean_column_char_comparisons(Equal(x, y)) = Equal(x, y)
<1> DEFINE c == Equal(x, y)
<1>1. c.l = x /\ c.r = y
  BY DEF Equal
<1> HIDE DEF c
<1>2. Casts!rewrite_boolean_column_char_comparisons(c) = c
  BY <1>1 DEF Casts!rewrite_boolean_column_char_comparisons
<1> QED BY <1>2 DEF c

(* A name on its own, looked up in pg_proc. *)
LEMMA CalledSettles ==
  ASSUME NEW b, b.k \in {"lit", "regproccol"}, IsName(b.v), NEW x,
         x = Casts!CallOf("pg_proc_oid", Expr(b, <<>>))
  PROVE  ~Casts!is_boolean_column(x) /\ Settled(Casts!Value(Trimmed(x)), Casts!Meanings("regproc", b.v))
<1> DEFINE q == <<>>
           z == Expr(b, Append(q, Casts!Call("pg_proc_oid")))
<1>1. q \in Seq(Identifiers) /\ \A i \in 1..Len(q) : q[i] = Casts!Paren
  OBVIOUS
<1>2. x = z
  <2>1. x = Casts!CallOf("pg_proc_oid", Expr(b, q)) /\ q \in Seq(Identifiers)
    BY <1>1
  <2> HIDE DEF q
  <2> QED BY <2>1, OuterStep DEF OuterIs
<1> HIDE DEF q
<1>3. Unread(z)
  BY <1>1, UnreadLookup
<1>4. Trimmed(z) = z
  BY <1>1, TrimmedStays
<1>5. Casts!Value(z) = Casts!name_to_oid("pg_proc_oid", Casts!ColumnValue(b))
  BY <1>1, LookupValue
<1>6. Casts!ColumnValue(b) = Casts!Val("text", b.v, b.q)
  BY BaseValues
<1>7. Looks("regproc") = "pg_proc_oid"
  BY DEF Looks
<1>8. Settled(Casts!name_to_oid("pg_proc_oid", Casts!Val("text", b.v, b.q)), Casts!Meanings("regproc", b.v))
  BY <1>7, LookupSettles
<1> HIDE DEF z
<1> QED BY <1>2, <1>3, <1>4, <1>5, <1>6, <1>8 DEF Unread

(* What PostgreSQL may take a side for, given the other. *)
Means(own, other) ==
    IF Casts!IsLiteral(own) /\ own.base.k = "lit" /\ Casts!is_regproc_column(other)
    THEN Casts!Meanings("regproc", own.base.v) ELSE Casts!PostgresValues(own)

(* What PostgreSQL may answer, from what the two sides may mean to it. *)
LEMMA PostgresAnswers ==
  ASSUME NEW l, NEW r
  PROVE  Casts!PostgresComparisons(Equal(l, r)) = MayAnswer(Means(l, r), Means(r, l))
<1> DEFINE c == Equal(l, r)
<1>1. c.l = l /\ c.r = r
  BY DEF Equal
<1> HIDE DEF c
<1>2. Casts!PostgresComparisons(c) = MayAnswer(Means(l, r), Means(r, l))
  BY <1>1 DEF Casts!PostgresComparisons, MayAnswer, Means
<1> QED BY <1>2 DEF c

(* What the rewritten comparison answers. *)
LEMMA AnsweredSides ==
  ASSUME NEW l, NEW r, NEW x, NEW y,
         Casts!resolve_regproc_columns_to_oids_in_comparisons(Equal(Typed(l), Typed(r))) = Equal(x, y),
         ~Casts!is_boolean_column(x), ~Casts!is_boolean_column(y)
  PROVE  Casts!Answered(Casts!rewrite_filters(Equal(l, r)))
           = Casts!Compare(Casts!Value(Trimmed(x)), Casts!Value(Trimmed(y)))
<1> DEFINE c == Equal(Trimmed(x), Trimmed(y))
<1>1. c.l = Trimmed(x) /\ c.r = Trimmed(y)
  BY DEF Equal
<1>2. Casts!rewrite_filters(Equal(l, r)) = c
  BY TypedSides, NoBooleans, TrimmedSides
<1> HIDE DEF c
<1> QED BY <1>1, <1>2 DEF Casts!Answered

(* A regproc column, or a literal, on its own. *)
LEMMA NameAlone ==
  ASSUME NEW e, Casts!IsOperand(e), Casts!Alone(e), e.base.k \in {"lit", "regproccol"}
  PROVE  /\ e = Expr(e.base, <<>>) /\ Typed(e) = e /\ Trimmed(e) = e /\ IsName(e.base.v)
         /\ ~Casts!is_boolean_column(e) /\ ~Casts!is_boolean_column(Casts!CallOf("pg_proc_oid", e))
         /\ Settled(Casts!Value(Trimmed(Casts!CallOf("pg_proc_oid", e))), Casts!Meanings("regproc", e.base.v))
         /\ e.base.k = "regproccol" => /\ Casts!PostgresValues(e) = Casts!Meanings("regproc", e.base.v)
                                       /\ Casts!Value(e) = Casts!Val("text", e.base.v, FALSE)
<1> DEFINE b == e.base
<1>1. e = [base |-> Casts!Base(b.k, b.v, b.q), steps |-> e.steps] /\ e.steps = <<>>
  BY DEF Casts!IsOperand, Casts!Alone
<1>2. e = Expr(b, <<>>)
  BY <1>1 DEF Expr
<1>3. IsName(b.v)
  BY OidAssumption DEF Casts!IsOperand, IsName
<1>4. b.k = "regproccol" => b.q = FALSE
  BY DEF Casts!IsOperand
<1>5. b.k \in {"lit", "regproccol"} /\ ~Casts!is_boolean_column(e)
  BY DEF Casts!is_boolean_column
<1> HIDE DEF b
<1>6. Typed(e) = e /\ Trimmed(e) = e
  BY <1>2, AloneTyped
<1> DEFINE x == Casts!CallOf("pg_proc_oid", Expr(b, <<>>))
<1>7. ~Casts!is_boolean_column(x) /\ Settled(Casts!Value(Trimmed(x)), Casts!Meanings("regproc", b.v))
  BY <1>3, <1>5, CalledSettles
<1>8. x = Casts!CallOf("pg_proc_oid", e)
  BY <1>2
<1>9. Casts!Paren \in Identifiers
  BY LookupsRest
<1>10. Casts!Value(e) = Casts!ColumnValue(b) /\ Casts!PostgresValues(e) = Casts!PostgresBase(b)
  BY <1>2, <1>9, ShortValues
<1>11. b.k = "regproccol" => /\ Casts!PostgresValues(e) = Casts!Meanings("regproc", b.v)
                             /\ Casts!Value(e) = Casts!Val("text", b.v, FALSE)
  BY <1>4, <1>10, BaseValues
<1> HIDE DEF x
<1> QED BY <1>2, <1>3, <1>5, <1>6, <1>7, <1>8, <1>11 DEF b

(* A documented operand is no literal on its own. *)
LEMMA ShapesNotLiteral ==
  ASSUME NEW e, Casts!ResolvedShape(e)
  PROVE  ~(Casts!IsLiteral(e) /\ e.base.k = "lit")
<1> SUFFICES ASSUME e.steps = <<>>, e.base.k = "lit" PROVE FALSE
  BY DEF Casts!IsLiteral, Casts!Alone
<1>1. \A t, u : e.steps # <<t>> /\ e.steps # <<t, u>>
  OBVIOUS
<1>2. ~(Len(e.steps) >= 2)
  OBVIOUS
<1> QED BY <1>1, <1>2 DEF Casts!ResolvedShape, Casts!Under

(* Two documented operands. *)
LEMMA ShapesCompared ==
  ASSUME NEW l, NEW r, Casts!IsOperand(l), Casts!IsOperand(r), Casts!ResolvedShape(l), Casts!ResolvedShape(r),
         "error" \notin Casts!PostgresComparisons(Equal(l, r))
  PROVE  Casts!Answered(Casts!rewrite_filters(Equal(l, r))) \in Casts!PostgresComparisons(Equal(l, r))
<1> DEFINE C(e) == Casts!CallOf("pg_proc_oid", e)
           d == Casts!resolve_regproc_columns_to_oids_in_comparisons(Equal(Typed(l), Typed(r)))
           vs == Casts!PostgresValues(l)
           ws == Casts!PostgresValues(r)
           a == Casts!Answered(Casts!rewrite_filters(Equal(l, r)))
<1>1. Casts!PostgresComparisons(Equal(l, r)) = MayAnswer(vs, ws)
  BY PostgresAnswers, ShapesNotLiteral DEF Means
<1>2. ASSUME NEW e, Casts!IsOperand(e), Casts!ResolvedShape(e), ~Casts!is_regproc_column(e)
      PROVE  Unread(Typed(e)) /\ Settled(Casts!Value(Trimmed(Typed(e))), Casts!PostgresValues(e))
  BY <1>2, ShapesDecided DEF Decided
<1>3. ASSUME NEW e, Casts!IsOperand(e), Casts!is_regproc_column(e)
      PROVE  /\ Typed(e) = e /\ Trimmed(e) = e /\ IsName(e.base.v) /\ ~Casts!is_boolean_column(e)
             /\ ~Casts!is_boolean_column(C(e)) /\ Settled(Casts!Value(Trimmed(C(e))), Casts!PostgresValues(e))
             /\ Casts!PostgresValues(e) = Casts!Meanings("regproc", e.base.v)
             /\ Casts!Value(e) = Casts!Val("text", e.base.v, FALSE)
  <2>1. Casts!Alone(e) /\ e.base.k = "regproccol"
    BY <1>3 DEF Casts!is_regproc_column
  <2> QED BY <1>3, <2>1, NameAlone
<1>4. ASSUME NEW x, NEW y, d = Equal(x, y), ~Casts!is_boolean_column(x), ~Casts!is_boolean_column(y)
      PROVE  a = Casts!Compare(Casts!Value(Trimmed(x)), Casts!Value(Trimmed(y)))
  BY <1>4, AnsweredSides
<1>5. ASSUME NEW x, NEW y, d = Equal(x, y), ~Casts!is_boolean_column(x), ~Casts!is_boolean_column(y),
             Settled(Casts!Value(Trimmed(x)), vs), Settled(Casts!Value(Trimmed(y)), ws)
      PROVE  a \in MayAnswer(vs, ws)
  <2>1. a = Casts!Compare(Casts!Value(Trimmed(x)), Casts!Value(Trimmed(y)))
    BY <1>4, <1>5
  <2>2. "error" \notin MayAnswer(vs, ws)
    BY <1>1
  <2> HIDE DEF a, vs, ws
  <2> QED BY <1>5, <2>1, <2>2, SettledSides
<1>6. /\ (Casts!is_regproc_column(Typed(l)) <=> Casts!is_regproc_column(Typed(r))) => d = Equal(Typed(l), Typed(r))
      /\ (Casts!is_regproc_column(Typed(l)) /\ ~Casts!is_regproc_column(Typed(r)) /\ ~Casts!is_text_literal(Typed(r)))
           => d = Equal(C(Typed(l)), Typed(r))
      /\ (~Casts!is_regproc_column(Typed(l)) /\ Casts!is_regproc_column(Typed(r)) /\ ~Casts!is_text_literal(Typed(l)))
           => d = Equal(Typed(l), C(Typed(r)))
  BY ComparedSides
<1> HIDE DEF d, C, vs, ws, a
<1>7. CASE ~Casts!is_regproc_column(l) /\ ~Casts!is_regproc_column(r)
  <2>1. Unread(Typed(l)) /\ Settled(Casts!Value(Trimmed(Typed(l))), vs)
    BY <1>2, <1>7 DEF vs
  <2>2. Unread(Typed(r)) /\ Settled(Casts!Value(Trimmed(Typed(r))), ws)
    BY <1>2, <1>7 DEF ws
  <2>3. d = Equal(Typed(l), Typed(r))
    BY <1>6, <2>1, <2>2 DEF Unread
  <2> QED BY <1>1, <1>5, <2>1, <2>2, <2>3 DEF Unread, a
<1>8. CASE Casts!is_regproc_column(l) /\ ~Casts!is_regproc_column(r)
  <2>1. Typed(l) = l /\ ~Casts!is_boolean_column(C(l)) /\ Settled(Casts!Value(Trimmed(C(l))), vs)
    BY <1>3, <1>8 DEF vs
  <2>2. Unread(Typed(r)) /\ Settled(Casts!Value(Trimmed(Typed(r))), ws)
    BY <1>2, <1>8 DEF ws
  <2>3. d = Equal(C(l), Typed(r))
    BY <1>6, <1>8, <2>1, <2>2 DEF Unread
  <2> QED BY <1>1, <1>5, <2>1, <2>2, <2>3 DEF Unread, a
<1>9. CASE ~Casts!is_regproc_column(l) /\ Casts!is_regproc_column(r)
  <2>1. Unread(Typed(l)) /\ Settled(Casts!Value(Trimmed(Typed(l))), vs)
    BY <1>2, <1>9 DEF vs
  <2>2. Typed(r) = r /\ ~Casts!is_boolean_column(C(r)) /\ Settled(Casts!Value(Trimmed(C(r))), ws)
    BY <1>3, <1>9 DEF ws
  <2>3. d = Equal(Typed(l), C(r))
    BY <1>6, <1>9, <2>1, <2>2 DEF Unread
  <2> QED BY <1>1, <1>5, <2>1, <2>2, <2>3 DEF Unread, a
<1>10. CASE Casts!is_regproc_column(l) /\ Casts!is_regproc_column(r)
  <2>1. /\ Typed(l) = l /\ Trimmed(l) = l /\ IsName(l.base.v) /\ ~Casts!is_boolean_column(l)
        /\ vs = Casts!Meanings("regproc", l.base.v) /\ Casts!Value(l) = Casts!Val("text", l.base.v, FALSE)
    BY <1>3, <1>10 DEF vs
  <2>2. /\ Typed(r) = r /\ Trimmed(r) = r /\ IsName(r.base.v) /\ ~Casts!is_boolean_column(r)
        /\ ws = Casts!Meanings("regproc", r.base.v) /\ Casts!Value(r) = Casts!Val("text", r.base.v, FALSE)
    BY <1>3, <1>10 DEF ws
  <2>3. d = Equal(l, r)
    BY <1>6, <1>10, <2>1, <2>2
  <2>4. a = Casts!Compare(Casts!Val("text", l.base.v, FALSE), Casts!Val("text", r.base.v, FALSE))
    BY <1>4, <2>1, <2>2, <2>3
  <2>5. "error" \notin MayAnswer(Casts!Meanings("regproc", l.base.v), Casts!Meanings("regproc", r.base.v))
    BY <1>1, <2>1, <2>2
  <2>6. a \in MayAnswer(vs, ws)
    BY <2>1, <2>2, <2>4, <2>5, NamesAgree
  <2> QED BY <1>1, <2>6 DEF a
<1> QED BY <1>7, <1>8, <1>9, <1>10

(* A regproc column and a text. *)
LEMMA TextCompared ==
  ASSUME NEW l, NEW r, Casts!IsOperand(l), Casts!IsOperand(r), Casts!is_regproc_column(l),
         Casts!IsLiteral(r), r.base.k = "lit", "error" \notin Casts!PostgresComparisons(Equal(l, r))
  PROVE  Casts!Answered(Casts!rewrite_filters(Equal(l, r))) \in Casts!PostgresComparisons(Equal(l, r))
<1> DEFINE x == Casts!CallOf("pg_proc_oid", l)
           y == Casts!CallOf("pg_proc_oid", r)
           vs == Casts!Meanings("regproc", l.base.v)
           ws == Casts!Meanings("regproc", r.base.v)
<1>1. Casts!Alone(l) /\ l.base.k = "regproccol" /\ Casts!Alone(r) /\ ~Casts!is_regproc_column(r)
  BY DEF Casts!is_regproc_column, Casts!IsLiteral
<1>2. /\ Typed(l) = l /\ ~Casts!is_boolean_column(x) /\ Settled(Casts!Value(Trimmed(x)), vs)
      /\ Casts!PostgresValues(l) = vs
  BY <1>1, NameAlone
<1>3. Typed(r) = r /\ ~Casts!is_boolean_column(y) /\ Settled(Casts!Value(Trimmed(y)), ws)
  BY <1>1, NameAlone
<1>4. Casts!is_text_literal(r)
  BY <1>1 DEF Casts!is_text_literal, Casts!Alone
<1>5. Casts!resolve_regproc_columns_to_oids_in_comparisons(Equal(Typed(l), Typed(r))) = Equal(x, y)
  BY <1>1, <1>2, <1>3, <1>4, ComparedSides
<1>6. Casts!PostgresComparisons(Equal(l, r)) = MayAnswer(vs, ws)
  <2>1. Means(l, r) = vs /\ Means(r, l) = ws
    BY <1>1, <1>2 DEF Means
  <2> QED BY <2>1, PostgresAnswers
<1> HIDE DEF x, y, vs, ws
<1>7. Casts!Answered(Casts!rewrite_filters(Equal(l, r)))
        = Casts!Compare(Casts!Value(Trimmed(x)), Casts!Value(Trimmed(y)))
  BY <1>2, <1>3, <1>5, AnsweredSides
<1>8. Casts!Compare(Casts!Value(Trimmed(x)), Casts!Value(Trimmed(y))) \in MayAnswer(vs, ws)
  BY <1>2, <1>3, <1>6, SettledSides
<1> QED BY <1>6, <1>7, <1>8

(* A boolean column and one of the texts PostgreSQL reads as a boolean. *)
LEMMA BooleansCompared ==
  ASSUME NEW l, NEW r, Casts!IsOperand(l), Casts!IsOperand(r), Casts!is_boolean_column(l),
         Casts!Alone(r), r.base.k = "boollit"
  PROVE  Casts!Answered(Casts!rewrite_filters(Equal(l, r))) \in Casts!PostgresComparisons(Equal(l, r))
<1> DEFINE a == l.base
           b == r.base
           g == [b EXCEPT !.k = "boolean"]
           x == Casts!Val("bool", a.v, FALSE)
           y == Casts!Val("bool", b.v, FALSE)
<1>1. /\ l = [base |-> Casts!Base(a.k, a.v, a.q), steps |-> l.steps] /\ l.steps = <<>>
      /\ r = [base |-> Casts!Base(b.k, b.v, b.q), steps |-> r.steps] /\ r.steps = <<>>
  BY DEF Casts!IsOperand, Casts!Alone, Casts!is_boolean_column
<1>2. l = Expr(a, <<>>) /\ r = Expr(b, <<>>) /\ a.k = "boolcol" /\ b.k = "boollit"
  BY <1>1 DEF Expr, Casts!is_boolean_column
<1>3. g = [k |-> "boolean", v |-> b.v, q |-> b.q]
  <2>1. b = [k |-> b.k, v |-> b.v, q |-> b.q]
    BY <1>1 DEF Casts!Base
  <2> HIDE DEF b
  <2> QED BY <2>1
<1>4. Casts!char_boolean_literal(r) = Expr(g, <<>>)
  <2>1. Casts!char_boolean_literal(r) = [r EXCEPT !.base.k = "boolean"]
    BY DEF Casts!char_boolean_literal
  <2>2. r = [base |-> b, steps |-> <<>>]
    BY <1>2 DEF Expr
  <2>3. [r EXCEPT !.base.k = "boolean"] = [base |-> g, steps |-> <<>>]
    <3> HIDE DEF b, g
    <3>1. [r EXCEPT !.base.k = "boolean"] = [r EXCEPT !.base = g]
      BY <2>2 DEF b, g
    <3> QED BY <2>2, <3>1
  <2> QED BY <2>1, <2>3 DEF Expr
<1>5. Typed(l) = l /\ Typed(r) = r /\ Trimmed(l) = l
  BY <1>2, AloneTyped
<1>6. Casts!resolve_regproc_columns_to_oids_in_comparisons(Equal(l, r)) = Equal(l, r)
  <2>1. ~Casts!is_regproc_column(l) /\ ~Casts!is_regproc_column(r)
    BY <1>2 DEF Casts!is_regproc_column
  <2> QED BY <2>1, ComparedSides
<1>7. Casts!rewrite_boolean_column_char_comparisons(Equal(l, r)) = Equal(l, Expr(g, <<>>))
  <2> DEFINE c == Equal(l, r)
             z == Casts!char_boolean_literal(r)
             d == Casts!rewrite_boolean_column_char_comparisons(c)
  <2>1. c.l = l /\ c.r = r /\ c.op = "=" /\ c = [l |-> c.l, op |-> c.op, r |-> c.r]
    BY DEF Equal
  <2> HIDE DEF c
  <2>2. d = [c EXCEPT !.r = z]
    BY <2>1 DEF Casts!rewrite_boolean_column_char_comparisons
  <2> HIDE DEF d, z
  <2>3. d = [l |-> l, op |-> "=", r |-> z]
    BY <2>1, <2>2
  <2> QED BY <1>4, <2>3 DEF Equal, c, d, z
<1>8. Casts!rewrite_filters(Equal(l, r)) = Equal(l, Expr(g, <<>>))
  <2>1. Trimmed(Expr(g, <<>>)) = Expr(g, <<>>)
    BY AloneTyped
  <2> QED BY <1>5, <1>6, <1>7, <2>1, TypedSides, TrimmedSides
<1>9. Casts!Paren \in Identifiers
  BY LookupsRest
<1>10. Casts!Value(l) = x /\ Casts!PostgresValues(l) = Just(x)
  BY <1>2, <1>9, ShortValues, BaseValues
<1>11. Casts!Value(Expr(g, <<>>)) = y
  <2>1. g.k = "boolean" /\ g.v = b.v
    BY <1>3
  <2> HIDE DEF g, b
  <2> QED BY <1>9, <2>1, ShortValues, BaseValues
<1>12. Casts!PostgresValues(r) = Just(y)
  BY <1>2, <1>9, ShortValues, BaseValues
<1>13. Casts!Answered(Casts!rewrite_filters(Equal(l, r))) = Casts!Compare(x, y)
  <2> DEFINE c == Equal(l, Expr(g, <<>>))
  <2>1. c.l = l /\ c.r = Expr(g, <<>>)
    BY DEF Equal
  <2> HIDE DEF c
  <2> QED BY <1>8, <1>10, <1>11, <2>1 DEF Casts!Answered, c
<1>14. Casts!PostgresComparisons(Equal(l, r)) = MayAnswer(Just(x), Just(y))
  <2>1. Means(l, r) = Just(x) /\ Means(r, l) = Just(y)
    BY <1>2, <1>10, <1>12 DEF Means
  <2> QED BY <2>1, PostgresAnswers
<1>15. Casts!Compare(x, y) \in MayAnswer(Just(x), Just(y))
  BY DEF MayAnswer, Just
<1> QED BY <1>13, <1>14, <1>15

(* The stages give a comparison the answer it is asked for. *)
LEMMA ComparisonStages == StageInv => ComparisonsKeepTheirMeaning
<1> SUFFICES ASSUME StageInv, outcome = "answered", Casts!DocumentedComparison(asked.cmp),
                    "error" \notin Casts!PostgresComparisons(asked.cmp)
             PROVE  Casts!Answered(stmt.cmp) \in Casts!PostgresComparisons(asked.cmp)
  BY DEF ComparisonsKeepTheirMeaning
<1> DEFINE c == asked.cmp
           l == c.l
           r == c.r
<1>1. IsStatement(asked) /\ stmt = Rewritten(asked)
  BY DEF StageInv, InFlight
<1>2. stmt.cmp = Casts!rewrite_filters(c)
  BY <1>1, StageFields
<1>3. Casts!IsComparison(c)
  BY <1>1 DEF IsStatement
<1>4. Casts!DocumentedComparison(c) /\ "error" \notin Casts!PostgresComparisons(c)
  OBVIOUS
<1> HIDE DEF c
<1>5. c = Equal(l, r) /\ Casts!IsOperand(l) /\ Casts!IsOperand(r)
  BY <1>3, <1>4 DEF Casts!IsComparison, Casts!DocumentedComparison, Equal
<1>6. Casts!Answered(Casts!rewrite_filters(c)) \in Casts!PostgresComparisons(c)
  <2>1. \/ Casts!ResolvedShape(l) /\ Casts!ResolvedShape(r)
        \/ Casts!is_regproc_column(l) /\ Casts!IsLiteral(r) /\ r.base.k = "lit"
        \/ Casts!is_boolean_column(l) /\ Casts!Alone(r) /\ r.base.k = "boollit"
    BY <1>4 DEF Casts!DocumentedComparison
  <2>2. "error" \notin Casts!PostgresComparisons(Equal(l, r))
    BY <1>4, <1>5
  <2> HIDE DEF l, r
  <2>3. Casts!Answered(Casts!rewrite_filters(Equal(l, r))) \in Casts!PostgresComparisons(Equal(l, r))
    BY <1>5, <2>1, <2>2, ShapesCompared, TextCompared, BooleansCompared
  <2> QED BY <1>5, <2>3
<1> QED BY <1>2, <1>6 DEF c

(***************************************************************************)
(* A comparison of object identifiers has an answer PostgreSQL may give it,  *)
(* for every documented way to write one, every catalog and any number of    *)
(* parentheses: the name on each side is looked up once, in the catalog its   *)
(* type names and in no other, whether it is a literal under a cast, a text   *)
(* opposite a regproc column or the column itself, and two columns that hold  *)
(* names agree exactly where the OIDs PostgreSQL stores in them would.        *)
(***************************************************************************)
THEOREM ComparisonsMeanTheSame == Spec => []ComparisonsKeepTheirMeaning
BY Stages, ComparisonStages, PTL

=============================================================================
