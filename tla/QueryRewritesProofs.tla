------------------------- MODULE QueryRewritesProofs -------------------------
(***************************************************************************)
(* Proofs about QueryRewrites.  Everything that happens to a statement is   *)
(* a function of what the client sent, so the inductive invariant says      *)
(* which function at every pc, and each property is then a fact about that   *)
(* function: one chain of lemmas per part of the statement.                 *)
(***************************************************************************)
EXTENDS QueryRewrites, WellFoundedInduction, SequenceTheorems, FiniteSetTheorems, TLAPS

Dispatched(s) == [s EXCEPT !.st = dispatch_query(@)]
Reshaped(s) == before_filters(Dispatched(s))
Filtered(s) == rewrite_filters(Reshaped(s))
Rewritten(s) == after_filters(Filtered(s))

RouteOf(s) == dispatch_query(s.st).route

(* The parameter has been bound: there was none, or it could be decoded.    *)
Bound ==
    \/ asked.param.type = "none"
    \/ bindable(asked.param) /\ scalar = bind_parameter_as_scalar(asked.param)

(* What a statement looks like at every step of its way.                    *)
InFlight(made) == stmt = made /\ outcome = "" /\ RouteOf(asked) = "catalog"

StageInv ==
    /\ IsStatement(asked)
    /\ pc \in {"dispatch", "bind", "reshape", "filters", "predicates", "execute", "done"}
    /\ pc = "dispatch" => stmt = asked /\ outcome = ""
    /\ pc = "bind" => InFlight(Dispatched(asked))
    /\ pc = "reshape" => InFlight(Dispatched(asked)) /\ Bound
    /\ pc = "filters" => InFlight(Reshaped(asked)) /\ Bound
    /\ pc = "predicates" => InFlight(Filtered(asked)) /\ Bound
    /\ pc = "execute" => InFlight(Rewritten(asked)) /\ Bound
    /\ pc = "done" =>
         \/ outcome = "host" /\ RouteOf(asked) = "host" /\ stmt = Dispatched(asked)
         \/ outcome = "failed" /\ RouteOf(asked) # "host"
         \/ /\ outcome = "answered" /\ RouteOf(asked) = "catalog"
            /\ stmt = Rewritten(asked) /\ Bound

---------------------------------------------------------------------------
(* Fields of a rewritten statement.                                        *)

(* A statement by its parts. *)
Parts(cmp, subq, sel, arr, st, param) ==
    [cmp |-> cmp, sub |-> subq, sel |-> sel, arr |-> arr, st |-> st, param |-> param]

(* Replacing one part leaves the others. *)
LEMMA OnePart ==
  ASSUME NEW c, NEW q, NEW l, NEW a, NEW n, NEW p, NEW x
  PROVE  LET s == Parts(c, q, l, a, n, p)
         IN  /\ [s EXCEPT !.cmp = x] = Parts(x, q, l, a, n, p)
             /\ [s EXCEPT !.sub = x] = Parts(c, x, l, a, n, p)
             /\ [s EXCEPT !.sel = x] = Parts(c, q, x, a, n, p)
             /\ [s EXCEPT !.arr = x] = Parts(c, q, l, x, n, p)
             /\ [s EXCEPT !.st = x] = Parts(c, q, l, a, x, p)
             /\ s.cmp = c /\ s.sub = q /\ s.sel = l /\ s.arr = a /\ s.st = n /\ s.param = p
BY DEF Parts

(* Each stage touches the parts it names and no other. *)
LEMMA StageFields ==
  ASSUME NEW s, IsStatement(s)
  PROVE  /\ Dispatched(s).param = s.param /\ Dispatched(s).st = dispatch_query(s.st)
         /\ Dispatched(s).sub = s.sub /\ Dispatched(s).sel = s.sel
         /\ Dispatched(s).st.route = RouteOf(s)
         /\ Rewritten(s).st = names_in_filters(names_before_filters(dispatch_query(s.st)))
         /\ Rewritten(s).sub = subquery_after_filters(subquery_in_filters(
                                 subquery_before_filters(s.sub)))
         /\ Rewritten(s).sel = select_in_filters(select_before_filters(s.sel))
         /\ Rewritten(s).arr = Arrays!rewrite_filters(s.arr)
         /\ Rewritten(s).cmp = Casts!rewrite_filters(s.cmp)
<1> DEFINE d == Dispatched(s)
           r == Reshaped(s)
           f == Filtered(s)
           n == dispatch_query(s.st)
           b == names_before_filters(n)
           q == subquery_before_filters(s.sub)
           l == select_before_filters(s.sel)
<1>0. s = Parts(s.cmp, s.sub, s.sel, s.arr, s.st, s.param)
  BY DEF IsStatement, Parts
<1>1. d = Parts(s.cmp, s.sub, s.sel, s.arr, n, s.param)
  BY <1>0, OnePart DEF Dispatched
<1>2. r = Parts(s.cmp, q, l, s.arr, b, s.param)
  <2>1. r = [[[d EXCEPT !.sub = subquery_before_filters(d.sub)]
                EXCEPT !.sel = select_before_filters(d.sel)]
                EXCEPT !.st = names_before_filters(d.st)]
    BY <1>1, OnePart DEF Reshaped, before_filters
  <2> HIDE DEF n, b, q, l, d, r
  <2>2. d.sub = s.sub /\ d.sel = s.sel /\ d.st = n
    BY <1>1, OnePart
  <2>3. [d EXCEPT !.sub = q] = Parts(s.cmp, q, s.sel, s.arr, n, s.param)
    BY <1>1, OnePart
  <2>4. [Parts(s.cmp, q, s.sel, s.arr, n, s.param) EXCEPT !.sel = l]
          = Parts(s.cmp, q, l, s.arr, n, s.param)
    BY OnePart
  <2>5. [Parts(s.cmp, q, l, s.arr, n, s.param) EXCEPT !.st = b]
          = Parts(s.cmp, q, l, s.arr, b, s.param)
    BY OnePart
  <2>6. r = [[[d EXCEPT !.sub = q] EXCEPT !.sel = l] EXCEPT !.st = b]
    BY <2>1, <2>2, Zenon DEF b, q, l
  <2> QED BY <2>3, <2>4, <2>5, <2>6
<1> DEFINE c1 == Casts!rewrite_filters(s.cmp)
           q1 == subquery_in_filters(q)
           l1 == select_in_filters(l)
           a1 == Arrays!rewrite_filters(s.arr)
           b1 == names_in_filters(b)
<1>3. f = Parts(c1, q1, l1, a1, b1, s.param)
  <2>1. f = [[[[[r EXCEPT !.cmp = Casts!rewrite_filters(r.cmp)]
                  EXCEPT !.sub = subquery_in_filters(r.sub)]
                  EXCEPT !.sel = select_in_filters(r.sel)]
                  EXCEPT !.arr = Arrays!rewrite_filters(r.arr)]
                  EXCEPT !.st = names_in_filters(r.st)]
    BY <1>2, OnePart DEF Filtered, rewrite_filters
  <2> HIDE DEF n, b, q, l, d, r, f, c1, q1, l1, a1, b1
  <2>2. r.cmp = s.cmp /\ r.sub = q /\ r.sel = l /\ r.arr = s.arr /\ r.st = b
    BY <1>2, OnePart
  <2>3. [r EXCEPT !.cmp = c1] = Parts(c1, q, l, s.arr, b, s.param)
    BY <1>2, OnePart
  <2>4. [Parts(c1, q, l, s.arr, b, s.param) EXCEPT !.sub = q1]
          = Parts(c1, q1, l, s.arr, b, s.param)
    BY OnePart
  <2>5. [Parts(c1, q1, l, s.arr, b, s.param) EXCEPT !.sel = l1]
          = Parts(c1, q1, l1, s.arr, b, s.param)
    BY OnePart
  <2>6. [Parts(c1, q1, l1, s.arr, b, s.param) EXCEPT !.arr = a1]
          = Parts(c1, q1, l1, a1, b, s.param)
    BY OnePart
  <2>7. [Parts(c1, q1, l1, a1, b, s.param) EXCEPT !.st = b1]
          = Parts(c1, q1, l1, a1, b1, s.param)
    BY OnePart
  <2>8. /\ c1 = Casts!rewrite_filters(r.cmp) /\ q1 = subquery_in_filters(r.sub)
        /\ l1 = select_in_filters(r.sel) /\ a1 = Arrays!rewrite_filters(r.arr)
        /\ b1 = names_in_filters(r.st)
    BY <2>2 DEF c1, q1, l1, a1, b1
  <2> DEFINE s1 == [r EXCEPT !.cmp = c1]
             s2 == [s1 EXCEPT !.sub = q1]
             s3 == [s2 EXCEPT !.sel = l1]
             s4 == [s3 EXCEPT !.arr = a1]
             s5 == [s4 EXCEPT !.st = b1]
  <2>9. f = s5
    BY <2>1, <2>8
  <2>10. s1 = Parts(c1, q, l, s.arr, b, s.param)
    BY <2>3
  <2> HIDE DEF s1
  <2>11. s2 = Parts(c1, q1, l, s.arr, b, s.param)
    BY <2>10, <2>4
  <2> HIDE DEF s2
  <2>12. s3 = Parts(c1, q1, l1, s.arr, b, s.param)
    BY <2>11, <2>5
  <2> HIDE DEF s3
  <2>13. s4 = Parts(c1, q1, l1, a1, b, s.param)
    BY <2>12, <2>6
  <2> HIDE DEF s4
  <2>14. s5 = Parts(c1, q1, l1, a1, b1, s.param)
    BY <2>13, <2>7
  <2> QED BY <2>9, <2>14
<1>4. Rewritten(s) = Parts(c1, subquery_after_filters(q1), l1, a1, b1, s.param)
  BY <1>3, OnePart DEF Rewritten, after_filters
<1> HIDE DEF c1, q1, l1, a1, b1, n, b, q, l
<1>5. /\ Rewritten(s).st = b1 /\ Rewritten(s).sel = l1 /\ Rewritten(s).arr = a1
      /\ Rewritten(s).cmp = c1
      /\ Rewritten(s).sub = subquery_after_filters(q1)
  BY <1>4, OnePart
<1>6. d.param = s.param /\ d.st = n /\ d.sub = s.sub /\ d.sel = s.sel
  BY <1>1, OnePart
<1> QED BY <1>5, <1>6 DEF RouteOf, d, n, b, q, l, c1, q1, l1, a1, b1

---------------------------------------------------------------------------
(* The inductive invariant.                                                *)

(* A statement starts as the client sent it. *)
LEMMA StageInit == Init => StageInv
<1> SUFFICES ASSUME Init PROVE StageInv
  OBVIOUS
<1>1. IsStatement(asked)
  BY StatementAssumption DEF Init
<1> QED BY <1>1 DEF Init, StageInv

(* Every step is the next stage of what the client sent. *)
LEMMA StageStep == StageInv /\ [Next]_vars => StageInv'
<1> SUFFICES ASSUME StageInv, [Next]_vars PROVE StageInv'
  OBVIOUS
<1> DEFINE d == Dispatched(asked)
<1>0. IsStatement(asked) /\ d.param = asked.param /\ d.st.route = RouteOf(asked)
  BY StageFields DEF StageInv
<1>1. CASE Dispatch
  <2>1. stmt' = d /\ asked' = asked
    BY <1>1 DEF Dispatch, StageInv, Dispatched
  <2>2. stmt'.st.route = RouteOf(asked)
    BY <1>0, <2>1
  <2> QED BY <1>0, <1>1, <2>1, <2>2 DEF Dispatch, StageInv, InFlight
<1>2. CASE Bind
  <2>1. stmt = d /\ outcome = "" /\ RouteOf(asked) = "catalog" /\ stmt.param = asked.param
    BY <1>0, <1>2 DEF Bind, StageInv, InFlight
  <2>2. asked' = asked /\ stmt' = stmt
    BY <1>2 DEF Bind
  <2>3. CASE stmt.param.type = "none" /\ Continues("reshape") /\ UNCHANGED scalar
    BY <1>0, <2>1, <2>2, <2>3 DEF Continues, StageInv, InFlight, Bound
  <2>4. CASE /\ bindable(stmt.param) /\ Continues("reshape")
             /\ scalar' = bind_parameter_as_scalar(stmt.param)
    BY <1>0, <2>1, <2>2, <2>4 DEF Continues, StageInv, InFlight, Bound
  <2>5. CASE stmt.param.type # "none" /\ ~bindable(stmt.param) /\ Fails /\ UNCHANGED scalar
    BY <1>0, <2>1, <2>2, <2>5 DEF Fails, StageInv
  <2> QED BY <1>2, <2>3, <2>4, <2>5 DEF Bind
<1>3. CASE ReshapeBeforeFilters
  BY <1>3 DEF ReshapeBeforeFilters, Continues, StageInv, InFlight, Bound, Reshaped
<1>4. CASE RewriteFilters
  BY <1>4 DEF RewriteFilters, Continues, Fails, StageInv, InFlight, Bound, Filtered
<1>5. CASE ReshapeAfterFilters
  BY <1>5 DEF ReshapeAfterFilters, Continues, StageInv, InFlight, Bound, Rewritten
<1>6. CASE Execute
  BY <1>6 DEF Execute, StageInv, InFlight, Bound
<1>7. CASE UNCHANGED vars
  BY <1>7 DEF vars, StageInv, InFlight, Bound
<1> QED BY <1>1, <1>2, <1>3, <1>4, <1>5, <1>6, <1>7 DEF Next, Done

(* The stages hold of every statement. *)
LEMMA Stages == Spec => []StageInv
BY StageInit, StageStep, PTL DEF Spec

---------------------------------------------------------------------------
(* Parameters.                                                             *)

(* A bound parameter is the client's value and type. *)
LEMMA BoundValue == StageInv => ParametersKeepTheirValues
<1> SUFFICES ASSUME StageInv, outcome = "answered", asked.param.type # "none",
                    asked.param.fmt = "binary" \/ asked.param.type \in TextTypes
             PROVE  /\ scalar = Scalar(PlannerType[asked.param.type],
                            IF asked.param.null THEN 0 ELSE asked.param.value)
                    /\ asked.param.type \in TextTypes /\ ~asked.param.null => asked.param.utf8
  BY DEF ParametersKeepTheirValues
<1> DEFINE p == asked.param
<1>1. bindable(p) /\ scalar = bind_parameter_as_scalar(p)
  BY DEF StageInv, InFlight, Bound
<1>2. p.null \in BOOLEAN /\ p.utf8 \in BOOLEAN
  BY DEF StageInv, IsStatement
<1>3. DOMAIN Width \cap TextTypes = {}
  BY DEF Width, TextTypes
<1>4. CASE p.null
  BY <1>1, <1>4 DEF bind_parameter_as_scalar
<1>5. CASE ~p.null
  BY <1>1, <1>2, <1>3, <1>5 DEF bind_parameter_as_scalar, bindable
<1> QED BY <1>2, <1>4, <1>5

(***************************************************************************)
(* A parameter the planner sees has the value and the type the client      *)
(* sent; anything else failed before a pass saw the statement              *)
(* (bind_parameter_as_scalar).                                             *)
(***************************************************************************)
THEOREM ParametersKept == Spec => []ParametersKeepTheirValues
BY Stages, BoundValue, PTL

---------------------------------------------------------------------------
(* Session identities.                                                     *)

Normal(w) == rewrite_keywords_to_registered_calls(
               drop_parentheses_after_a_parenthesis_less_keyword(w))

(* The fields of a spelling, and what replacing one does. *)
LEMMA SpellingFields ==
  ASSUME NEW n, NEW q, NEW p, NEW d, NEW x
  PROVE  LET w == Spelling(n, q, p, d)
         IN  /\ [w EXCEPT !.n = x] = Spelling(x, q, p, d)
             /\ [w EXCEPT !.paren = x] = Spelling(n, q, x, d)
             /\ [w EXCEPT !.quoted = x] = Spelling(n, q, p, x)
             /\ w.n = n /\ w.q = q /\ w.paren = p /\ w.quoted = d
BY DEF Spelling

(* Parentheses after a parenthesis-less keyword go, and nothing else. *)
LEMMA DroppedParentheses ==
  ASSUME NEW w, IsSpelling(w)
  PROVE  LET d == drop_parentheses_after_a_parenthesis_less_keyword(w)
         IN  d = Spelling(w.n, w.q, w.paren /\ (w.quoted \/ w.n \notin {"current_user", "session_user"}),
                                w.quoted)
<1> DEFINE W(p) == Spelling(w.n, w.q, p, w.quoted)
<1>1. w = W(w.paren) /\ {w.q, w.paren, w.quoted} \subseteq BOOLEAN
  BY DEF IsSpelling
<1>2. [W(w.paren) EXCEPT !.paren = FALSE] = W(FALSE)
  <2> DEFINE no == FALSE
  <2> HIDE DEF no
  <2>1. [Spelling(w.n, w.q, w.paren, w.quoted) EXCEPT !.paren = no]
          = Spelling(w.n, w.q, no, w.quoted)
    BY SpellingFields
  <2> QED BY <2>1 DEF no
<1>3. CASE w.paren /\ ~w.quoted /\ w.n \in {"current_user", "session_user"}
  BY <1>1, <1>2, <1>3 DEF drop_parentheses_after_a_parenthesis_less_keyword,
       PARENTHESIS_LESS_TO_SQLPARSER
<1>4. CASE ~(w.paren /\ ~w.quoted /\ w.n \in {"current_user", "session_user"})
  BY <1>1, <1>4 DEF drop_parentheses_after_a_parenthesis_less_keyword,
       PARENTHESIS_LESS_TO_SQLPARSER
<1> QED BY <1>3, <1>4

(* What a spelling becomes, by its name and its flags. *)
LEMMA NormalSpelling ==
  ASSUME NEW w, IsSpelling(w)
  PROVE  /\ w.quoted => Normal(w) = w
         /\ ~w.quoted /\ w.n \in {"current_user", "session_user"}
              => Normal(w) = Spelling(w.n, w.q, FALSE, FALSE)
         /\ ~w.quoted /\ w.n \in {"current_role", "current_schema"} /\ ~w.q /\ ~w.paren
              => Normal(w) = Spelling(w.n, FALSE, TRUE, FALSE)
         /\ ~w.quoted /\ w.n = "user" /\ ~w.q /\ ~w.paren
              => Normal(w) = Spelling("current_user", FALSE, FALSE, FALSE)
         /\ ~w.quoted /\ w.n = "current_catalog" /\ ~w.q /\ ~w.paren
              => Normal(w) = Spelling("current_database", FALSE, TRUE, FALSE)
         /\ (/\ ~w.quoted /\ w.n \notin {"current_user", "session_user"}
             /\ w.q \/ w.paren \/ w.n \in {"", "current_database"})
              => Normal(w) = w
<1> DEFINE d == drop_parentheses_after_a_parenthesis_less_keyword(w)
<1>1. /\ w = Spelling(w.n, w.q, w.paren, w.quoted)
      /\ {w.q, w.paren, w.quoted} \subseteq BOOLEAN
      /\ w.n \in {"current_user", "session_user", "current_role", "user", "current_catalog",
                  "current_database", "current_schema", ""}
  BY DEF IsSpelling, IdentityValue
<1>2. d = Spelling(w.n, w.q, w.paren /\ (w.quoted \/ w.n \notin {"current_user", "session_user"}),
                         w.quoted)
  BY DroppedParentheses
<1>3. /\ d.n = w.n /\ d.q = w.q /\ d.quoted = w.quoted
      /\ d.paren = (w.paren /\ (w.quoted \/ w.n \notin {"current_user", "session_user"}))
  BY <1>2 DEF Spelling
<1> HIDE DEF d
<1>4. Normal(w) = IF spelling_written_as(d)
                  THEN [[[d EXCEPT !.n = SPELLINGS[d.n].n]
                           EXCEPT !.paren = SPELLINGS[d.n].paren] EXCEPT !.quoted = FALSE]
                  ELSE d
  BY DEF Normal, d, rewrite_keywords_to_registered_calls
<1>5. spelling_written_as(d)
        <=> ~w.quoted /\ ~w.q /\ ~w.paren
              /\ w.n \in {"current_role", "current_schema", "user", "current_catalog"}
  BY <1>1, <1>3 DEF spelling_written_as, SPELLINGS
<1>6. ASSUME NEW n, NEW p
      PROVE  [[[d EXCEPT !.n = n] EXCEPT !.paren = p] EXCEPT !.quoted = FALSE]
               = Spelling(n, w.q, p, FALSE)
  <2> DEFINE r == w.paren /\ (w.quoted \/ w.n \notin {"current_user", "session_user"})
  <2> HIDE DEF r
  <2>1. d = Spelling(w.n, w.q, r, w.quoted)
    BY <1>2 DEF r
  <2>2. [d EXCEPT !.n = n] = Spelling(n, w.q, r, w.quoted)
    BY <2>1, SpellingFields
  <2>3. [Spelling(n, w.q, r, w.quoted) EXCEPT !.paren = p]
          = Spelling(n, w.q, p, w.quoted)
    BY SpellingFields
  <2>4. [Spelling(n, w.q, p, w.quoted) EXCEPT !.quoted = FALSE]
          = Spelling(n, w.q, p, FALSE)
    <3> DEFINE no == FALSE
    <3> HIDE DEF no
    <3>1. [Spelling(n, w.q, p, w.quoted) EXCEPT !.quoted = no]
            = Spelling(n, w.q, p, no)
      BY SpellingFields
    <3> QED BY <3>1 DEF no
  <2> QED BY <2>2, <2>3, <2>4
<1>7. CASE spelling_written_as(d)
  <2>1. Normal(w) = Spelling(SPELLINGS[w.n].n, w.q, SPELLINGS[w.n].paren, FALSE)
    BY <1>3, <1>4, <1>6, <1>7
  <2>2. ~w.quoted /\ ~w.q /\ ~w.paren /\ w.q = FALSE
    BY <1>1, <1>5, <1>7
  <2>3. CASE w.n \in {"current_role", "current_schema"}
    <3>1. SPELLINGS[w.n].n = w.n /\ SPELLINGS[w.n].paren = TRUE
      BY <2>3 DEF SPELLINGS
    <3> QED BY <2>1, <2>2, <2>3, <3>1
  <2>4. CASE w.n = "user"
    <3>1. SPELLINGS[w.n].n = "current_user" /\ SPELLINGS[w.n].paren = FALSE
      BY <2>4 DEF SPELLINGS
    <3> QED BY <2>1, <2>2, <2>4, <3>1
  <2>5. CASE w.n = "current_catalog"
    <3>1. SPELLINGS[w.n].n = "current_database" /\ SPELLINGS[w.n].paren = TRUE
      BY <2>5 DEF SPELLINGS
    <3> QED BY <2>1, <2>2, <2>5, <3>1
  <2> QED BY <1>5, <1>7, <2>3, <2>4, <2>5
<1>8. CASE ~spelling_written_as(d)
  <2>1. Normal(w) = d
    BY <1>4, <1>8
  <2> QED BY <1>1, <1>2, <1>5, <1>8, <2>1
<1> QED BY <1>7, <1>8

(* A spelling stays a spelling, parses, and is the same when normalised again. *)
LEMMA NormalIsStable ==
  ASSUME NEW w, IsSpelling(w)
  PROVE  IsSpelling(Normal(w)) /\ Parses(Normal(w)) /\ Normal(Normal(w)) = Normal(w)
<1>1. /\ w.n \in {"current_user", "session_user", "current_role", "user", "current_catalog",
                  "current_database", "current_schema", ""}
      /\ w.q \in BOOLEAN /\ w.paren \in BOOLEAN /\ w.quoted \in BOOLEAN
  BY DEF IsSpelling, IdentityValue
<1>3. CASE w.quoted \/ (w.n \notin {"current_user", "session_user"}
                         /\ (w.q \/ w.paren \/ w.n \in {"", "current_database"}))
  <2>1. Normal(w) = w
    BY <1>1, <1>3, NormalSpelling
  <2>2. Parses(w)
    BY <1>1, <1>3 DEF Parses, PARENTHESIS_LESS_TO_SQLPARSER
  <2> QED BY <2>1, <2>2
<1>4. CASE ~w.quoted /\ w.n \in {"current_user", "session_user"}
  <2> DEFINE x == Spelling(w.n, w.q, FALSE, FALSE)
  <2>1. Normal(w) = x
    BY <1>4, NormalSpelling
  <2>2. /\ IsSpelling(x) /\ Parses(x)
        /\ x.n = w.n /\ x.q = w.q /\ x.paren = FALSE /\ x.quoted = FALSE
    BY <1>1 DEF Spelling, IsSpelling, IdentityValue, Parses
  <2> HIDE DEF x
  <2>3. Normal(x) = Spelling(x.n, x.q, FALSE, FALSE)
    BY <1>4, <2>2, NormalSpelling
  <2> QED BY <2>1, <2>2, <2>3 DEF x
<1>5. CASE ~w.quoted /\ ~w.q /\ ~w.paren
             /\ w.n \in {"current_role", "current_schema", "current_catalog"}
  <2> DEFINE n == IF w.n = "current_catalog" THEN "current_database" ELSE w.n
             x == Spelling(n, FALSE, TRUE, FALSE)
  <2>0. n \in {"current_role", "current_schema", "current_database"}
    BY <1>5
  <2>1. Normal(w) = x
    BY <1>5, NormalSpelling
  <2> HIDE DEF n
  <2>2. /\ IsSpelling(x) /\ Parses(x)
        /\ x.n = n /\ x.q = FALSE /\ x.paren = TRUE /\ x.quoted = FALSE
    BY <2>0 DEF Spelling, IsSpelling, IdentityValue, Parses,
         PARENTHESIS_LESS_TO_SQLPARSER
  <2> HIDE DEF x
  <2>3. Normal(x) = x
    BY <2>0, <2>2, NormalSpelling
  <2> QED BY <2>1, <2>2, <2>3
<1>6. CASE ~w.quoted /\ ~w.q /\ ~w.paren /\ w.n = "user"
  <2> DEFINE x == Spelling("current_user", FALSE, FALSE, FALSE)
  <2>1. Normal(w) = x
    BY <1>6, NormalSpelling
  <2>2. /\ IsSpelling(x) /\ Parses(x)
        /\ x.n = "current_user" /\ x.q = FALSE /\ x.paren = FALSE /\ x.quoted = FALSE
    BY DEF Spelling, IsSpelling, IdentityValue, Parses
  <2> HIDE DEF x
  <2>3. Normal(x) = Spelling("current_user", FALSE, FALSE, FALSE)
    <3>1. Normal(x) = Spelling(x.n, x.q, FALSE, FALSE)
      BY <2>2, NormalSpelling
    <3> QED BY <2>2, <3>1
  <2> QED BY <2>1, <2>2, <2>3 DEF x
<1> QED BY <1>1, <1>3, <1>4, <1>5, <1>6

(* A spelling PostgreSQL accepts is answered as what it means there, and is  *)
(* the catalog's call exactly when it means a role, a database or a schema.  *)
LEMMA NormalMeaning ==
  ASSUME NEW w, IsSpelling(w), PostgresIdentity(w) # "error"
  PROVE  /\ w.n # "" => AnsweredIdentity(Normal(w)) = PostgresIdentity(w)
         /\ (/\ IsCall(Normal(w))
             /\ function_is_catalog(IF Normal(w).q THEN "pg_catalog" ELSE "", Normal(w).n))
            <=> PostgresIdentity(w) \in {"role", "database", "schema"}
<1> DEFINE x == Normal(w)
<1>1. /\ w.n \in {"current_user", "session_user", "current_role", "user", "current_catalog",
                  "current_database", "current_schema", ""}
      /\ w.q \in BOOLEAN /\ w.paren \in BOOLEAN /\ w.quoted \in BOOLEAN
  BY DEF IsSpelling, IdentityValue
<1>2. Parses(x)
  BY NormalIsStable
<1>3. ASSUME NEW f \in {"current_user", "session_user", "current_role", "current_schema",
                        "current_database"}
      PROVE  /\ <<"pg_catalog", f>> \in ScalarFunctions
             /\ function_is_catalog("", f) /\ function_is_catalog("pg_catalog", f)
  BY IdentityAssumption DEF function_is_catalog, schema_is_catalog,
       CatalogSchemas
<1>4. CASE w.quoted
  <2>1. x = w
    BY <1>4, NormalSpelling
  <2>2. /\ PostgresIdentity(w) \in {"none", "column"}
        /\ w.n # "" => PostgresIdentity(w) = "column"
    BY <1>4 DEF PostgresIdentity
  <2>3. ~IsCall(w) /\ AnsweredIdentity(w) = "column"
    BY <1>4 DEF IsCall, AnsweredIdentity
  <2> QED BY <2>1, <2>2, <2>3
<1>5. CASE ~w.quoted /\ w.n = ""
  <2>1. x = w
    BY <1>1, <1>5, NormalSpelling
  <2> QED BY <1>5, <2>1 DEF IsCall, PostgresIdentity
<1>6. CASE ~w.quoted /\ w.n # ""
  <2> DEFINE v == PostgresIdentity(w)
  <2>1. ASSUME NEW f \in {"current_user", "session_user", "current_role", "current_schema",
                          "current_database"},
               x.n = f, x.paren \/ f \in {"current_user", "session_user"}, ~x.quoted,
               v = IdentityValue[f]
        PROVE  /\ AnsweredIdentity(x) = v /\ IsCall(x)
               /\ function_is_catalog(IF x.q THEN "pg_catalog" ELSE "", x.n)
               /\ v \in {"role", "database", "schema"}
    <3>1. IsCall(x)
      BY <2>1 DEF IsCall, PARENTHESIS_LESS_TO_SQLPARSER
    <3>2. AnsweredIdentity(x) = IdentityValue[f]
      BY <1>2, <1>3, <2>1, <3>1 DEF AnsweredIdentity
    <3>3. function_is_catalog(IF x.q THEN "pg_catalog" ELSE "", x.n)
      BY <1>3, <2>1
    <3>4. IdentityValue[f] \in {"role", "database", "schema"}
      BY <2>1 DEF IdentityValue
    <3> QED BY <2>1, <3>1, <3>2, <3>3, <3>4
  <2>2. CASE w.n \in {"current_user", "session_user"}
    <3>1. x = Spelling(w.n, w.q, FALSE, FALSE)
      BY <1>6, <2>2, NormalSpelling
    <3>2. x.n = w.n /\ x.quoted = FALSE
      BY <3>1 DEF Spelling
    <3>3. v = IdentityValue[w.n]
      BY <1>1, <1>6, <2>2 DEF PostgresIdentity
    <3> QED BY <2>1, <2>2, <3>2, <3>3
  <2>3. CASE w.n \in {"current_role", "current_schema"} /\ ~w.q /\ ~w.paren
    <3>1. x = Spelling(w.n, FALSE, TRUE, FALSE)
      BY <1>6, <2>3, NormalSpelling
    <3>2. x.n = w.n /\ x.quoted = FALSE /\ x.paren = TRUE
      BY <3>1 DEF Spelling
    <3>3. v = IdentityValue[w.n]
      BY <1>1, <1>6, <2>3 DEF PostgresIdentity
    <3> QED BY <2>1, <2>3, <3>2, <3>3
  <2>4. CASE w.n = "user" /\ ~w.q /\ ~w.paren
    <3>1. x = Spelling("current_user", FALSE, FALSE, FALSE)
      BY <1>6, <2>4, NormalSpelling
    <3>2. x.n = "current_user" /\ x.quoted = FALSE
      BY <3>1 DEF Spelling
    <3>3. v = IdentityValue["current_user"]
      BY <1>1, <1>6, <2>4 DEF PostgresIdentity, IdentityValue
    <3> QED BY <2>1, <3>2, <3>3
  <2>5. CASE w.n = "current_catalog" /\ ~w.q /\ ~w.paren
    <3>1. x = Spelling("current_database", FALSE, TRUE, FALSE)
      BY <1>6, <2>5, NormalSpelling
    <3>2. x.n = "current_database" /\ x.quoted = FALSE /\ x.paren = TRUE
      BY <3>1 DEF Spelling
    <3>3. v = IdentityValue["current_database"]
      BY <1>1, <1>6, <2>5 DEF PostgresIdentity, IdentityValue
    <3> QED BY <2>1, <3>2, <3>3
  <2>6. CASE w.n \in {"current_schema", "current_database"} /\ w.paren
    <3>1. x = w
      BY <1>6, <2>6, NormalSpelling
    <3>2. v = IdentityValue[w.n]
      BY <1>1, <1>6, <2>6 DEF PostgresIdentity
    <3> QED BY <1>6, <2>1, <2>6, <3>1, <3>2
  <2>7. \/ w.n \in {"current_user", "session_user"}
        \/ w.n \in {"current_role", "current_schema"} /\ ~w.q /\ ~w.paren
        \/ w.n = "user" /\ ~w.q /\ ~w.paren
        \/ w.n = "current_catalog" /\ ~w.q /\ ~w.paren
        \/ w.n \in {"current_schema", "current_database"} /\ w.paren
    BY <1>1, <1>6 DEF PostgresIdentity
  <2> QED BY <1>6, <2>2, <2>3, <2>4, <2>5, <2>6, <2>7
<1> QED BY <1>4, <1>5, <1>6

---------------------------------------------------------------------------
(* Routing.                                                                *)

(* Replacing a field of a FROM item leaves the others: its schema. *)
LEMMA SetSchema ==
  ASSUME NEW st, IsNaming(st), NEW x
  PROVE  LET r == [st EXCEPT !.s = x]
         IN  /\ IsNaming(r) /\ r.s = x /\ r.n = st.n /\ r.call = st.call /\ r.place = st.place
             /\ r.alias = st.alias /\ r.cols = st.cols /\ r.cte = st.cte /\ r.func = st.func
             /\ r.cast = st.cast /\ r.spell = st.spell /\ r.path = st.path /\ r.route = st.route
             /\ r.valid = st.valid
BY DEF IsNaming

(* The name. *)
LEMMA SetName ==
  ASSUME NEW st, IsNaming(st), NEW x
  PROVE  LET r == [st EXCEPT !.n = x]
         IN  /\ IsNaming(r) /\ r.s = st.s /\ r.n = x /\ r.call = st.call /\ r.place = st.place
             /\ r.alias = st.alias /\ r.cols = st.cols /\ r.cte = st.cte /\ r.func = st.func
             /\ r.cast = st.cast /\ r.spell = st.spell /\ r.path = st.path /\ r.route = st.route
             /\ r.valid = st.valid
BY DEF IsNaming

(* The alias. *)
LEMMA SetAlias ==
  ASSUME NEW st, IsNaming(st), NEW x, x \in BOOLEAN
  PROVE  LET r == [st EXCEPT !.alias = x]
         IN  /\ IsNaming(r) /\ r.s = st.s /\ r.n = st.n /\ r.call = st.call /\ r.place = st.place
             /\ r.alias = x /\ r.cols = st.cols /\ r.cte = st.cte /\ r.func = st.func
             /\ r.cast = st.cast /\ r.spell = st.spell /\ r.path = st.path /\ r.route = st.route
             /\ r.valid = st.valid
BY DEF IsNaming

(* The column list. *)
LEMMA SetCols ==
  ASSUME NEW st, IsNaming(st), NEW x, x \in BOOLEAN
  PROVE  LET r == [st EXCEPT !.cols = x]
         IN  /\ IsNaming(r) /\ r.s = st.s /\ r.n = st.n /\ r.call = st.call /\ r.place = st.place
             /\ r.alias = st.alias /\ r.cols = x /\ r.cte = st.cte /\ r.func = st.func
             /\ r.cast = st.cast /\ r.spell = st.spell /\ r.path = st.path /\ r.route = st.route
             /\ r.valid = st.valid
BY DEF IsNaming

(* The route. *)
LEMMA SetRoute ==
  ASSUME NEW st, IsNaming(st), NEW x
  PROVE  LET r == [st EXCEPT !.route = x]
         IN  /\ IsNaming(r) /\ r.s = st.s /\ r.n = st.n /\ r.call = st.call /\ r.place = st.place
             /\ r.alias = st.alias /\ r.cols = st.cols /\ r.cte = st.cte /\ r.func = st.func
             /\ r.cast = st.cast /\ r.spell = st.spell /\ r.path = st.path /\ r.route = x
             /\ r.valid = st.valid
BY DEF IsNaming

(* The identity. *)
LEMMA SetSpelling ==
  ASSUME NEW st, IsNaming(st), NEW x, IsSpelling(x)
  PROVE  LET r == [st EXCEPT !.spell = x]
         IN  /\ IsNaming(r) /\ r.s = st.s /\ r.n = st.n /\ r.call = st.call /\ r.place = st.place
             /\ r.alias = st.alias /\ r.cols = st.cols /\ r.cte = st.cte /\ r.func = st.func
             /\ r.cast = st.cast /\ r.spell = x /\ r.path = st.path /\ r.route = st.route
             /\ r.valid = st.valid
BY DEF IsNaming

(* Normalising rewrites the identity only. *)
LEMMA NormalizedNaming ==
  ASSUME NEW st, IsNaming(st)
  PROVE  LET r == normalize_session_identity_spellings(st)
         IN  /\ IsNaming(r) /\ r = [st EXCEPT !.spell = Normal(st.spell)]
             /\ r.s = st.s /\ r.n = st.n /\ r.call = st.call /\ r.place = st.place
             /\ r.alias = st.alias /\ r.cols = st.cols /\ r.cte = st.cte /\ r.func = st.func
             /\ r.cast = st.cast /\ r.spell = Normal(st.spell) /\ r.path = st.path
             /\ r.route = st.route /\ r.valid = st.valid
<1>1. IsSpelling(Normal(st.spell))
  BY NormalIsStable DEF IsNaming
<1>2. normalize_session_identity_spellings(st) = [st EXCEPT !.spell = Normal(st.spell)]
  BY DEF normalize_session_identity_spellings, Normal
<1> QED BY <1>1, <1>2, SetSpelling

(* The least of a non-empty set of positions. *)
LEMMA LeastPosition ==
  ASSUME NEW S, S \subseteq Nat, S # {}
  PROVE  Min(S) \in S /\ \A j \in S : Min(S) <= j
<1> DEFINE R == {p \in Nat \X Nat : p[1] < p[2]}
<1>1. IsWellFoundedOn(R, Nat)
  BY NatLessThanWellFounded DEF OpToRel
<1>2. PICK i \in S : \A j \in S : <<j, i>> \notin R
  BY <1>1, WFMin
<1>3. ASSUME NEW j \in S PROVE i <= j
  <2>1. i \in Nat /\ j \in Nat /\ <<j, i>> \notin R
    BY <1>2
  <2>2. ~(j < i)
    BY <2>1
  <2> QED BY <2>1, <2>2
<1> QED BY <1>3 DEF Min

(* A least element is determined by what it is. *)
LEMMA LeastIs ==
  ASSUME NEW S, S \subseteq Int, NEW m \in S, \A j \in S : m <= j
  PROVE  Min(S) = m
<1>1. Min(S) \in S /\ \A j \in S : Min(S) <= j
  BY DEF Min
<1> HIDE DEF Min
<1>2. m \in Int /\ Min(S) \in Int /\ Min(S) <= m /\ m <= Min(S)
  BY <1>1
<1> QED BY <1>2

(* The path with pg_catalog in front of it. *)
LEMMA Prefixed ==
  ASSUME NEW path \in Seq(STRING)
  PROVE  LET p == <<"pg_catalog">> \o path
         IN  /\ DOMAIN p = 1 .. Len(path) + 1 /\ p[1] = "pg_catalog"
             /\ \A i \in DOMAIN path : p[i + 1] = path[i] /\ i + 1 \in DOMAIN p
             /\ \A i \in DOMAIN p : i = 1 \/ i - 1 \in DOMAIN path
             /\ DOMAIN path = 1 .. Len(path) /\ Len(path) \in Nat
OBVIOUS

(* The router finds a table in the schema PostgreSQL finds it in. *)
LEMMA ResolvedSchema ==
  ASSUME NEW st, IsNaming(st), ~st.call
  PROVE  resolve_schema(st) = PostgresObject(st).s
<1> DEFINE path == st.path
           At(i) == IF path[i] = "$user" THEN default_schema ELSE path[i]
           hits == {i \in DOMAIN path : table_exists(At(i), st.n)}
           listed == "pg_catalog" \in ToSet(path)
           p == parse_search_path(path)
           Schema(i) == IF p[i] = "$user" THEN default_schema ELSE p[i]
           found == {i \in DOMAIN p : table_exists(Schema(i), st.n)}
<1>0. path \in Seq(STRING)
  BY DEF IsNaming
<1>1. resolve_schema(st) =
        IF st.s # "" THEN IF table_exists(st.s, st.n) THEN st.s ELSE ""
        ELSE IF found # {} THEN Schema(Min(found)) ELSE ""
  BY DEF resolve_schema
<1>2. PostgresObject(st).s =
        IF st.s # "" THEN IF table_exists(st.s, st.n) THEN st.s ELSE ""
        ELSE IF ~listed /\ table_exists("pg_catalog", st.n) THEN "pg_catalog"
        ELSE IF hits # {} THEN At(Min(hits)) ELSE ""
  BY DEF PostgresObject, Object, Nothing
<1>3. CASE st.s # ""
  <2> DEFINE here == table_exists(st.s, st.n)
  <2>1. resolve_schema(st) = IF here THEN st.s ELSE ""
    BY <1>3 DEF resolve_schema
  <2>2. PostgresObject(st) = IF here THEN Object("table", st.s, st.n) ELSE Nothing
    BY <1>3 DEF PostgresObject
  <2>3. Object("table", st.s, st.n).s = st.s /\ Nothing.s = ""
    BY DEF Object, Nothing
  <2> HIDE DEF here
  <2>4. CASE here
    BY <2>1, <2>2, <2>3, <2>4
  <2>5. CASE ~here
    BY <2>1, <2>2, <2>3, <2>5
  <2> QED BY <2>4, <2>5
<1>4. CASE st.s = "" /\ listed
  <2>1. p = path
    BY <1>4 DEF parse_search_path
  <2> QED BY <1>1, <1>2, <1>4, <2>1
<1>5. CASE st.s = "" /\ ~listed
  <2>1. p = <<"pg_catalog">> \o path
    BY <1>5 DEF parse_search_path
  <2>2. /\ DOMAIN p = 1 .. Len(path) + 1 /\ p[1] = "pg_catalog"
        /\ \A i \in DOMAIN path : p[i + 1] = path[i] /\ i + 1 \in DOMAIN p
        /\ \A i \in DOMAIN p : i = 1 \/ i - 1 \in DOMAIN path
        /\ DOMAIN path = 1 .. Len(path) /\ Len(path) \in Nat
    BY <1>0, <2>1, Prefixed
  <2> HIDE DEF p
  <2>3. Schema(1) = "pg_catalog" /\ \A i \in DOMAIN path : Schema(i + 1) = At(i)
    BY <2>2
  <2>4. hits \subseteq Nat /\ found \subseteq Nat
    BY <2>2
  <2>5. CASE table_exists("pg_catalog", st.n)
    <3>1. 1 \in found /\ \A j \in found : 1 <= j
      BY <2>2, <2>3, <2>5
    <3>2. Min(found) = 1
      BY <2>4, <3>1, LeastIs
    <3>3. Schema(Min(found)) = "pg_catalog"
      BY <2>3, <3>2
    <3>4. found # {}
      BY <3>1
    <3> HIDE DEF found, Schema, hits, At
    <3> QED BY <1>1, <1>2, <1>5, <2>5, <3>3, <3>4
  <2>6. CASE ~table_exists("pg_catalog", st.n)
    <3>1. \A i \in hits : i + 1 \in found
      BY <2>2, <2>3
    <3>2. \A i \in found : i - 1 \in hits
      <4> SUFFICES ASSUME NEW i \in found PROVE i - 1 \in hits
        OBVIOUS
      <4>1. i # 1
        BY <2>3, <2>6
      <4>2. i - 1 \in DOMAIN path /\ (i - 1) + 1 = i
        BY <2>2, <4>1
      <4>3. Schema(i) = At(i - 1)
        BY <2>3, <4>2
      <4> QED BY <4>2, <4>3
    <3>3. CASE hits = {}
      BY <1>1, <1>2, <1>5, <2>6, <3>2, <3>3
    <3>4. CASE hits # {}
      <4> DEFINE m == Min(hits)
      <4>1. m \in hits /\ \A j \in hits : m <= j
        BY <2>4, <3>4, LeastPosition
      <4> HIDE DEF m
      <4>2. m + 1 \in found /\ \A j \in found : m + 1 <= j
        <5>1. ASSUME NEW j \in found PROVE m + 1 <= j
          <6>1. m <= j - 1 /\ m \in Nat /\ j \in Nat
            BY <2>4, <3>2, <4>1
          <6> QED BY <6>1
        <5> QED BY <3>1, <4>1, <5>1
      <4>3. Min(found) = m + 1
        <5>1. found \subseteq Int
          BY <2>4
        <5> HIDE DEF found
        <5> QED BY <4>2, <5>1, LeastIs
      <4>4. Schema(m + 1) = At(m)
        BY <2>3, <4>1
      <4>5. found # {}
        BY <4>2
      <4> QED BY <1>1, <1>2, <1>5, <2>6, <3>4, <4>3, <4>4, <4>5 DEF m
    <3> QED BY <3>3, <3>4
  <2> QED BY <2>5, <2>6
<1> QED BY <1>3, <1>4, <1>5

(* The schema a name resolves to depends on the name and the path only. *)
LEMMA SameSchema ==
  ASSUME NEW a, NEW b, a.s = b.s, a.n = b.n, a.path = b.path
  PROVE  resolve_schema(a) = resolve_schema(b)
BY DEF resolve_schema

(* Qualifying a table writes the schema it was found in. *)
LEMMA QualifiedNaming ==
  ASSUME NEW st, IsNaming(st)
  PROVE  LET r == qualify_catalog_tables(st)
         IN  /\ IsNaming(r) /\ r.n = st.n /\ r.call = st.call /\ r.place = st.place
             /\ r.alias = st.alias /\ r.cols = st.cols /\ r.cte = st.cte
             /\ r.spell = st.spell /\ r.path = st.path
             /\ r.s = IF st.place \in InFrom /\ st.s = "" /\ object_is_catalog(st)
                      THEN resolve_schema(st) ELSE st.s
<1>1. CASE st.place \in InFrom /\ st.s = "" /\ object_is_catalog(st)
  <2> DEFINE x == resolve_schema(st)
  <2>1. qualify_catalog_tables(st) = [st EXCEPT !.s = x]
    BY <1>1 DEF qualify_catalog_tables
  <2>2. x = IF st.place \in InFrom /\ st.s = "" /\ object_is_catalog(st)
            THEN resolve_schema(st) ELSE st.s
    BY <1>1
  <2> HIDE DEF x
  <2> DEFINE r == [st EXCEPT !.s = x]
  <2>3. /\ IsNaming(r) /\ r.n = st.n /\ r.call = st.call /\ r.place = st.place
        /\ r.alias = st.alias /\ r.cols = st.cols /\ r.cte = st.cte
        /\ r.spell = st.spell /\ r.path = st.path /\ r.s = x
    BY SetSchema
  <2> HIDE DEF r
  <2> QED BY <2>1, <2>2, <2>3 DEF r
<1>2. CASE ~(st.place \in InFrom /\ st.s = "" /\ object_is_catalog(st))
  BY <1>2 DEF qualify_catalog_tables
<1> QED BY <1>1, <1>2

(* What dispatch makes of a statement, and what it calls it. *)
LEMMA RouteDecided ==
  ASSUME NEW st, IsNaming(st)
  PROVE  LET r == normalize_session_identity_spellings(st)
         IN  /\ ~st.valid => dispatch_query(st).route = "error"
             /\ st.valid /\ statement_has_catalog(r)
                  => /\ dispatch_query(st) = [qualify_catalog_tables(r) EXCEPT !.route = "catalog"]
                     /\ dispatch_query(st).route = "catalog"
             /\ st.valid /\ ~statement_has_catalog(r)
                  => /\ dispatch_query(st) = [st EXCEPT !.route = "host"]
                     /\ dispatch_query(st).route = "host"
<1> DEFINE r == normalize_session_identity_spellings(st)
           q == qualify_catalog_tables(r)
<1>1. Parses(r.spell) /\ IsNaming(r) /\ st.valid \in BOOLEAN
  BY NormalizedNaming, NormalIsStable DEF IsNaming
<1>2. IsNaming(q)
  BY <1>1, QualifiedNaming
<1>3. dispatch_query(st) =
        IF ~st.valid THEN [st EXCEPT !.route = "error"]
        ELSE IF statement_has_catalog(r) THEN [q EXCEPT !.route = "catalog"]
        ELSE [st EXCEPT !.route = "host"]
  BY <1>1 DEF dispatch_query
<1> HIDE DEF r, q
<1>4. ASSUME NEW a, NEW x, IsNaming(a) PROVE [a EXCEPT !.route = x].route = x
  BY <1>4 DEF IsNaming
<1>5. /\ [st EXCEPT !.route = "error"].route = "error"
      /\ [st EXCEPT !.route = "host"].route = "host"
      /\ [q EXCEPT !.route = "catalog"].route = "catalog"
  BY <1>2, <1>4
<1> QED BY <1>3, <1>5 DEF r, q

(* A statement has a catalog name to the router exactly when PostgreSQL      *)
(* finds one of its names in the catalog.                                   *)
LEMMA RoutedNames ==
  ASSUME NEW st, IsNaming(st), RoutedByName(st), PostgresIdentity(st.spell) # "error"
  PROVE  statement_has_catalog(normalize_session_identity_spellings(st)) <=> CatalogsOwn(st)
<1> DEFINE r == normalize_session_identity_spellings(st)
<1>1. /\ r.s = st.s /\ r.n = st.n /\ r.path = st.path /\ r.place = st.place
      /\ r.func = st.func /\ r.cast = st.cast /\ r.spell = Normal(st.spell)
  BY NormalizedNaming
<1> HIDE DEF r
<1>2. resolve_schema(r) = PostgresObject(st).s
  BY <1>1, SameSchema, ResolvedSchema DEF RoutedByName
<1>3. query_has_catalog(r) <=> PostgresObject(st).s \in CatalogSchemas
  BY <1>1, <1>2 DEF query_has_catalog, object_is_catalog, schema_is_catalog, RoutedByName
<1>4. (r.func # "" /\ function_is_catalog("", r.func))
        <=> \E s \in CatalogSchemas : <<s, st.func>> \in ScalarFunctions
  BY <1>1, IdentityAssumption DEF function_is_catalog
<1>5. (/\ IsCall(r.spell)
       /\ function_is_catalog(IF r.spell.q THEN "pg_catalog" ELSE "", r.spell.n))
        <=> PostgresIdentity(st.spell) \in {"role", "database", "schema"}
  BY <1>1, NormalMeaning DEF IsNaming
<1>6. statement_casts_to_an_object_identifier_type(r) <=> st.cast = "custom"
  BY <1>1 DEF statement_casts_to_an_object_identifier_type
<1>7. CatalogsOwn(st) <=>
        \/ query_has_catalog(r)
        \/ statement_casts_to_an_object_identifier_type(r)
        \/ r.func # "" /\ function_is_catalog("", r.func)
        \/ /\ IsCall(r.spell)
           /\ function_is_catalog(IF r.spell.q THEN "pg_catalog" ELSE "", r.spell.n)
  BY <1>3, <1>4, <1>5, <1>6 DEF CatalogsOwn
<1> QED BY <1>7 DEF statement_has_catalog, r

(* The stages route by the names, and leave the host's text alone. *)
LEMMA RoutedStages == StageInv => RoutingFollowsTheNames
<1> SUFFICES ASSUME StageInv PROVE RoutingFollowsTheNames
  OBVIOUS
<1> DEFINE st == asked.st
           r == normalize_session_identity_spellings(st)
<1>1. IsStatement(asked) /\ IsNaming(st) /\ st.route = ""
  BY DEF StageInv, IsStatement
<1>2. pc # "dispatch" => (outcome = "host" <=> RouteOf(asked) = "host")
  BY DEF StageInv, InFlight
<1>3. ASSUME pc # "dispatch", st.valid, RoutedByName(st), PostgresIdentity(st.spell) # "error"
      PROVE  outcome = "host" <=> ~CatalogsOwn(st)
  <2>1. statement_has_catalog(r) <=> CatalogsOwn(st)
    BY <1>1, <1>3, RoutedNames
  <2>2. RouteOf(asked) = "host" <=> ~statement_has_catalog(r)
    BY <1>1, <1>3, RouteDecided DEF RouteOf
  <2> QED BY <1>2, <1>3, <2>1, <2>2
<1>4. ASSUME outcome = "host" PROVE [stmt EXCEPT !.st.route = ""] = asked
  <2> DEFINE h == [st EXCEPT !.route = "host"]
             e == [h EXCEPT !.route = ""]
  <2>1. RouteOf(asked) = "host" /\ stmt = Dispatched(asked)
    BY <1>4 DEF StageInv, InFlight
  <2>2. dispatch_query(st) = h
    BY <1>1, <2>1, RouteDecided DEF RouteOf, IsNaming
  <2>3. e = st
    BY <1>1 DEF IsNaming
  <2> HIDE DEF h, e
  <2>4. asked = Parts(asked.cmp, asked.sub, asked.sel, asked.arr, st, asked.param)
    BY <1>1 DEF IsStatement, Parts
  <2>5. stmt = Parts(asked.cmp, asked.sub, asked.sel, asked.arr, h, asked.param)
    BY <2>1, <2>2, <2>4, OnePart DEF Dispatched
  <2>6. [stmt EXCEPT !.st.route = ""] = [stmt EXCEPT !.st = e]
    <3>1. stmt.st = h
      BY <2>5, OnePart
    <3> QED BY <3>1 DEF e
  <2>7. [stmt EXCEPT !.st = e] = Parts(asked.cmp, asked.sub, asked.sel, asked.arr, e, asked.param)
    BY <2>5, OnePart
  <2> QED BY <2>3, <2>4, <2>6, <2>7
<1> QED BY <1>3, <1>4 DEF RoutingFollowsTheNames

(***************************************************************************)
(* A statement is answered here exactly when one of its names is the       *)
(* catalog's by PostgreSQL's rules, and the host gets the client's own     *)
(* text (dispatch_query), for every set of tables, every search path and   *)
(* every statement within the claim.                                       *)
(***************************************************************************)
THEOREM RoutingByName == Spec => []RoutingFollowsTheNames
BY Stages, RoutedStages, PTL

---------------------------------------------------------------------------
(* The passes over FROM items.                                             *)

(* What a pass that is not about identities leaves of a FROM item. *)
KeepsItem(r, st) ==
    /\ IsNaming(r)
    /\ r.call = st.call /\ r.place = st.place /\ r.cte = st.cte /\ r.spell = st.spell

(* A statement routed to the catalog: qualified and normalised. *)
LEMMA DispatchedItem ==
  ASSUME NEW st, IsNaming(st), dispatch_query(st).route = "catalog"
  PROVE  LET d == dispatch_query(st)
         IN  /\ IsNaming(d) /\ d.call = st.call /\ d.place = st.place /\ d.cte = st.cte
             /\ d.n = st.n /\ d.alias = st.alias /\ d.cols = st.cols
             /\ d.spell = Normal(st.spell)
             /\ d.s = IF st.place \in InFrom /\ st.s = "" /\ object_is_catalog(st)
                      THEN resolve_schema(st) ELSE st.s
<1> DEFINE r == normalize_session_identity_spellings(st)
           q == qualify_catalog_tables(r)
           d == [q EXCEPT !.route = "catalog"]
           put == IF st.place \in InFrom /\ st.s = "" /\ object_is_catalog(st)
                  THEN resolve_schema(st) ELSE st.s
<1>1. dispatch_query(st) = d
  <2>1. st.valid \in BOOLEAN
    BY DEF IsNaming
  <2> QED BY <2>1, RouteDecided
<1>2. /\ IsNaming(r) /\ r.s = st.s /\ r.n = st.n /\ r.call = st.call /\ r.place = st.place
      /\ r.alias = st.alias /\ r.cols = st.cols /\ r.cte = st.cte /\ r.path = st.path
      /\ r.spell = Normal(st.spell)
  BY NormalizedNaming
<1> HIDE DEF r
<1>3. resolve_schema(r) = resolve_schema(st)
  BY <1>2, SameSchema
<1>4. /\ IsNaming(q) /\ q.n = r.n /\ q.call = r.call /\ q.place = r.place
      /\ q.alias = r.alias /\ q.cols = r.cols /\ q.cte = r.cte /\ q.spell = r.spell
      /\ q.s = IF r.place \in InFrom /\ r.s = "" /\ object_is_catalog(r)
               THEN resolve_schema(r) ELSE r.s
  BY <1>2, QualifiedNaming
<1>5. q.s = put
  BY <1>2, <1>3, <1>4 DEF object_is_catalog
<1> HIDE DEF q, put
<1>6. /\ IsNaming(d) /\ d.call = q.call /\ d.place = q.place /\ d.cte = q.cte
      /\ d.n = q.n /\ d.alias = q.alias /\ d.cols = q.cols /\ d.spell = q.spell /\ d.s = q.s
  <2> DEFINE x == "catalog"
  <2> HIDE DEF x
  <2>0. IsNaming(q)
    BY <1>4
  <2>1. LET e == [q EXCEPT !.route = x]
        IN  /\ IsNaming(e) /\ e.call = q.call /\ e.place = q.place /\ e.cte = q.cte
            /\ e.n = q.n /\ e.alias = q.alias /\ e.cols = q.cols /\ e.spell = q.spell
            /\ e.s = q.s
    BY <2>0, SetRoute
  <2> QED BY <2>1 DEF x
<1> HIDE DEF d
<1> QED BY <1>1, <1>2, <1>4, <1>5, <1>6 DEF put

(* Normalising once more changes nothing. *)
LEMMA NormalItem ==
  ASSUME NEW st, IsNaming(st), Normal(st.spell) = st.spell
  PROVE  normalize_session_identity_spellings(st) = st
<1>1. normalize_session_identity_spellings(st) = [st EXCEPT !.spell = st.spell]
  BY NormalizedNaming
<1> QED BY <1>1 DEF IsNaming

(* The prefix goes from the known names and from calls where it is stripped. *)
LEMMA UnprefixedItem ==
  ASSUME NEW st, IsNaming(st)
  PROVE  LET r == rewrite_schema_qualified_udtfs(st)
         IN  /\ KeepsItem(r, st) /\ r.n = st.n /\ r.alias = st.alias /\ r.cols = st.cols
             /\ r.s = IF /\ st.s = "pg_catalog"
                         /\ \/ st.n \in UnprefixedNames
                            \/ /\ st.call
                               /\ st.place \in {"from", "join", "derived", "subquery"}
                      THEN "" ELSE st.s
<1> DEFINE e == [st EXCEPT !.s = ""]
           a == IF st.s = "pg_catalog" /\ st.n \in UnprefixedNames THEN e ELSE st
<1>1. /\ IsNaming(e) /\ e.s = "" /\ e.n = st.n /\ e.call = st.call /\ e.place = st.place
      /\ e.alias = st.alias /\ e.cols = st.cols /\ e.cte = st.cte /\ e.spell = st.spell
  <2> DEFINE x == ""
  <2> HIDE DEF x
  <2>1. LET r == [st EXCEPT !.s = x]
        IN  /\ IsNaming(r) /\ r.s = x /\ r.n = st.n /\ r.call = st.call /\ r.place = st.place
            /\ r.alias = st.alias /\ r.cols = st.cols /\ r.cte = st.cte /\ r.spell = st.spell
    BY SetSchema
  <2> QED BY <2>1 DEF x
<1>2. rewrite_schema_qualified_udtfs(st) =
        IF a.call /\ a.s = "pg_catalog" /\ a.place \in {"from", "join", "derived", "subquery"}
        THEN [a EXCEPT !.s = ""] ELSE a
  BY DEF rewrite_schema_qualified_udtfs, strip_table_function_factors
<1>3. CASE st.s = "pg_catalog" /\ st.n \in UnprefixedNames
  <2>1. a = e
    BY <1>3
  <2>2. rewrite_schema_qualified_udtfs(st) = e
    <3> HIDE DEF a, e
    <3> QED BY <1>1, <1>2, <2>1
  <2> HIDE DEF e
  <2> QED BY <1>1, <1>3, <2>2 DEF KeepsItem
<1>4. CASE ~(st.s = "pg_catalog" /\ st.n \in UnprefixedNames)
  <2>1. a = st
    BY <1>4
  <2>2. CASE st.call /\ st.s = "pg_catalog" /\ st.place \in {"from", "join", "derived", "subquery"}
    <3>1. rewrite_schema_qualified_udtfs(st) = e
      <4> HIDE DEF a
      <4> QED BY <1>2, <2>1, <2>2
    <3> HIDE DEF e
    <3> QED BY <1>1, <2>2, <3>1 DEF KeepsItem
  <2>3. CASE ~(st.call /\ st.s = "pg_catalog"
                 /\ st.place \in {"from", "join", "derived", "subquery"})
    <3>1. rewrite_schema_qualified_udtfs(st) = st
      <4> HIDE DEF a
      <4> QED BY <1>2, <2>1, <2>3
    <3> QED BY <1>4, <2>3, <3>1 DEF KeepsItem
  <2> QED BY <2>2, <2>3
<1> QED BY <1>3, <1>4

(* A single-column function gets the column list its alias stands for. *)
LEMMA NamedItem ==
  ASSUME NEW st, IsNaming(st)
  PROVE  LET r == name_set_returning_function_column_after_its_alias(st)
         IN  /\ KeepsItem(r, st) /\ r.n = st.n /\ r.s = st.s
             /\ (/\ st.call /\ st.alias /\ st.n \in SINGLE_COLUMN_SET_RETURNING_FUNCTIONS
                 /\ st.place \in {"from", "join", "subquery", "exists"}) => r.cols
<1> DEFINE e == [st EXCEPT !.cols = TRUE]
           named == /\ st.call /\ st.alias /\ ~st.cols
                    /\ st.n \in SINGLE_COLUMN_SET_RETURNING_FUNCTIONS
                    /\ st.place \in {"from", "join", "subquery", "exists"}
<1>1. name_set_returning_function_column_after_its_alias(st) = IF named THEN e ELSE st
  BY DEF name_set_returning_function_column_after_its_alias
<1>2. /\ IsNaming(e) /\ e.s = st.s /\ e.n = st.n /\ e.call = st.call /\ e.place = st.place
      /\ e.cols = TRUE /\ e.cte = st.cte /\ e.spell = st.spell
  <2> DEFINE x == TRUE
  <2>0. x \in BOOLEAN
    OBVIOUS
  <2> HIDE DEF x
  <2>1. LET r == [st EXCEPT !.cols = x]
        IN  /\ IsNaming(r) /\ r.s = st.s /\ r.n = st.n /\ r.call = st.call /\ r.place = st.place
            /\ r.cols = x /\ r.cte = st.cte /\ r.spell = st.spell
    BY <2>0, SetCols
  <2> QED BY <2>1 DEF x
<1>3. st.cols \in BOOLEAN /\ st.call \in BOOLEAN /\ st.alias \in BOOLEAN
  BY DEF IsNaming
<1>4. CASE named
  <2> HIDE DEF e
  <2> QED BY <1>1, <1>2, <1>4 DEF KeepsItem
<1>5. CASE ~named
  <2> HIDE DEF e
  <2> QED BY <1>1, <1>3, <1>5 DEF KeepsItem
<1> QED BY <1>4, <1>5

(* One table function is registered under another name. *)
LEMMA VersionedItem ==
  ASSUME NEW st, IsNaming(st)
  PROVE  LET r == rewrite_available_extension_versions_source(st)
             it == /\ st.call /\ st.n = "pg_available_extension_versions"
                   /\ st.s \in {"", "pg_catalog"}
         IN  /\ KeepsItem(r, st) /\ r.cols = st.cols
             /\ r.s = (IF it THEN "" ELSE st.s)
             /\ r.n = (IF it THEN "available_extension_versions" ELSE st.n)
<1> DEFINE s == ""
           n == "available_extension_versions"
           e == [st EXCEPT !.s = s]
           f == [e EXCEPT !.n = n]
           it == /\ st.call /\ st.n = "pg_available_extension_versions"
                 /\ st.s \in {"", "pg_catalog"}
<1>1. rewrite_available_extension_versions_source(st) = IF it THEN f ELSE st
  BY DEF rewrite_available_extension_versions_source
<1> HIDE DEF s, n
<1>2. /\ IsNaming(e) /\ e.s = s /\ e.call = st.call /\ e.place = st.place
      /\ e.cols = st.cols /\ e.cte = st.cte /\ e.spell = st.spell
  BY SetSchema
<1> HIDE DEF e
<1>3. /\ IsNaming(f) /\ f.n = n /\ f.s = e.s /\ f.call = e.call /\ f.place = e.place
      /\ f.cols = e.cols /\ f.cte = e.cte /\ f.spell = e.spell
  BY <1>2, SetName
<1> HIDE DEF f
<1>4. CASE it
  BY <1>1, <1>2, <1>3, <1>4 DEF KeepsItem, s, n
<1>5. CASE ~it
  BY <1>1, <1>5 DEF KeepsItem
<1> QED BY <1>4, <1>5

(* A bare table of an expression's sub-query is one of pg_catalog. *)
LEMMA AliasedItem ==
  ASSUME NEW st, IsNaming(st)
  PROVE  LET r == alias_subquery_tables(st)
         IN  /\ KeepsItem(r, st) /\ r.n = st.n /\ r.cols = st.cols
             /\ r.s = IF /\ st.place \in {"subquery", "exists", "in"}
                         /\ st.s = "" /\ ~st.call THEN "pg_catalog" ELSE st.s
<1> DEFINE s == IF st.s = "" /\ ~st.call THEN "pg_catalog" ELSE st.s
           yes == TRUE
           e == [st EXCEPT !.s = s]
           f == [e EXCEPT !.alias = yes]
<1>1. alias_subquery_tables(st) = IF st.place \in {"subquery", "exists", "in"} THEN f ELSE st
  BY DEF alias_subquery_tables
<1>2. yes \in BOOLEAN
  OBVIOUS
<1> HIDE DEF s, yes
<1>3. /\ IsNaming(e) /\ e.s = s /\ e.n = st.n /\ e.call = st.call /\ e.place = st.place
      /\ e.cols = st.cols /\ e.cte = st.cte /\ e.spell = st.spell
  BY SetSchema
<1> HIDE DEF e
<1>4. /\ IsNaming(f) /\ f.n = e.n /\ f.s = e.s /\ f.call = e.call /\ f.place = e.place
      /\ f.cols = e.cols /\ f.cte = e.cte /\ f.spell = e.spell
  BY <1>2, <1>3, SetAlias
<1> HIDE DEF f
<1>5. CASE st.place \in {"subquery", "exists", "in"}
  BY <1>1, <1>3, <1>4, <1>5 DEF KeepsItem, s
<1>6. CASE st.place \notin {"subquery", "exists", "in"}
  BY <1>1, <1>6 DEF KeepsItem
<1> QED BY <1>5, <1>6

(* The schema and the name an item has after dispatch and after each pass. *)
PutSchema(st) == IF st.place \in InFrom /\ st.s = "" /\ object_is_catalog(st)
                 THEN resolve_schema(st) ELSE st.s

BareSchema(st) ==
    IF /\ PutSchema(st) = "pg_catalog"
       /\ \/ st.n \in UnprefixedNames
          \/ st.call /\ st.place \in {"from", "join", "derived", "subquery"}
    THEN "" ELSE PutSchema(st)

IsVersions(st) == /\ st.call /\ st.n = "pg_available_extension_versions"
                  /\ BareSchema(st) \in {"", "pg_catalog"}

LastSchema(st) ==
    LET s == IF IsVersions(st) THEN "" ELSE BareSchema(st)
    IN  IF st.place \in {"subquery", "exists", "in"} /\ s = "" /\ ~st.call
        THEN "pg_catalog" ELSE s

LastItem(st) == names_in_filters(names_before_filters(dispatch_query(st)))

(* All the passes together. *)
LEMMA RewrittenItem ==
  ASSUME NEW st, IsNaming(st), dispatch_query(st).route = "catalog"
  PROVE  LET w == LastItem(st)
         IN  /\ IsNaming(w) /\ w.call = st.call /\ w.spell = Normal(st.spell)
             /\ w.n = (IF IsVersions(st) THEN "available_extension_versions" ELSE st.n)
             /\ w.s = LastSchema(st)
             /\ (/\ st.call /\ st.alias /\ st.n \in SINGLE_COLUMN_SET_RETURNING_FUNCTIONS
                 /\ st.place \in {"from", "join", "subquery", "exists"}) => w.cols
<1> DEFINE d == dispatch_query(st)
           u == rewrite_schema_qualified_udtfs(d)
           c == name_set_returning_function_column_after_its_alias(u)
           v == rewrite_available_extension_versions_source(c)
           w == alias_subquery_tables(v)
<1>1. /\ IsNaming(d) /\ d.call = st.call /\ d.place = st.place
      /\ d.n = st.n /\ d.alias = st.alias /\ d.cols = st.cols
      /\ d.spell = Normal(st.spell) /\ d.s = PutSchema(st)
  BY DispatchedItem DEF PutSchema
<1>2. LastItem(st) = w
  <2>1. Normal(d.spell) = d.spell
    BY <1>1, NormalIsStable DEF IsNaming
  <2>2. normalize_session_identity_spellings(d) = d
    BY <1>1, <2>1, NormalItem
  <2> QED BY <2>2 DEF LastItem, names_before_filters, names_in_filters
<1> HIDE DEF d
<1>3. /\ IsNaming(u) /\ u.call = d.call /\ u.place = d.place /\ u.spell = d.spell
      /\ u.n = d.n /\ u.alias = d.alias /\ u.cols = d.cols
  BY <1>1, UnprefixedItem DEF KeepsItem
<1>4. u.s = BareSchema(st)
  <2>1. u.s = IF /\ d.s = "pg_catalog"
                 /\ \/ d.n \in UnprefixedNames
                    \/ d.call /\ d.place \in {"from", "join", "derived", "subquery"}
              THEN "" ELSE d.s
    BY <1>1, UnprefixedItem
  <2> QED BY <1>1, <2>1 DEF BareSchema
<1> HIDE DEF u
<1>5. /\ IsNaming(c) /\ c.call = u.call /\ c.place = u.place /\ c.spell = u.spell
      /\ c.n = u.n /\ c.s = u.s
      /\ (/\ u.call /\ u.alias /\ u.n \in SINGLE_COLUMN_SET_RETURNING_FUNCTIONS
          /\ u.place \in {"from", "join", "subquery", "exists"}) => c.cols
  BY <1>3, NamedItem DEF KeepsItem
<1> HIDE DEF c
<1>6. /\ IsNaming(v) /\ v.call = c.call /\ v.place = c.place /\ v.spell = c.spell
      /\ v.cols = c.cols
  BY <1>5, VersionedItem DEF KeepsItem
<1>7. /\ v.s = (IF IsVersions(st) THEN "" ELSE BareSchema(st))
      /\ v.n = (IF IsVersions(st) THEN "available_extension_versions" ELSE st.n)
  <2> DEFINE it == /\ c.call /\ c.n = "pg_available_extension_versions"
                   /\ c.s \in {"", "pg_catalog"}
  <2>1. /\ v.s = (IF it THEN "" ELSE c.s)
        /\ v.n = (IF it THEN "available_extension_versions" ELSE c.n)
    BY <1>5, VersionedItem
  <2>2. it = IsVersions(st)
    BY <1>1, <1>3, <1>4, <1>5 DEF IsVersions
  <2>3. c.s = BareSchema(st) /\ c.n = st.n
    BY <1>1, <1>3, <1>4, <1>5
  <2> HIDE DEF it, v
  <2> QED BY <2>1, <2>2, <2>3
<1> HIDE DEF v
<1>8. /\ IsNaming(w) /\ w.call = v.call /\ w.spell = v.spell /\ w.n = v.n /\ w.cols = v.cols
  BY <1>6, AliasedItem DEF KeepsItem
<1>9. w.s = LastSchema(st)
  <2>1. w.s = IF v.place \in {"subquery", "exists", "in"} /\ v.s = "" /\ ~v.call
              THEN "pg_catalog" ELSE v.s
    BY <1>6, AliasedItem
  <2>2. v.place = st.place /\ v.call = st.call
    BY <1>1, <1>3, <1>5, <1>6
  <2> HIDE DEF w
  <2> QED BY <1>7, <2>1, <2>2 DEF LastSchema
<1> HIDE DEF w
<1>10. w.call = st.call /\ w.spell = Normal(st.spell) /\ w.n = v.n
  BY <1>1, <1>3, <1>5, <1>6, <1>8
<1>11. (/\ st.call /\ st.alias /\ st.n \in SINGLE_COLUMN_SET_RETURNING_FUNCTIONS
        /\ st.place \in {"from", "join", "subquery", "exists"}) => w.cols
  BY <1>1, <1>3, <1>5, <1>6, <1>8
<1> QED BY <1>2, <1>7, <1>8, <1>9, <1>10, <1>11

(* Every spelling ends as the call it means. *)
LEMMA IdentityStages == StageInv => IdentitySpellingsResolve
<1> SUFFICES ASSUME StageInv, outcome = "answered", asked.st.spell.n # "",
                    PostgresIdentity(asked.st.spell) # "error"
             PROVE  /\ AnsweredIdentity(stmt.st.spell) = PostgresIdentity(asked.st.spell)
                    /\ normalize_session_identity_spellings(stmt.st) = stmt.st
  BY DEF IdentitySpellingsResolve
<1> DEFINE st == asked.st
           w == LastItem(st)
<1>1. /\ IsStatement(asked) /\ IsNaming(st) /\ IsSpelling(st.spell)
      /\ dispatch_query(st).route = "catalog" /\ stmt = Rewritten(asked)
  BY DEF StageInv, InFlight, IsStatement, IsNaming, RouteOf
<1>2. stmt.st = w
  BY <1>1, StageFields DEF LastItem
<1>3. IsNaming(w) /\ w.spell = Normal(st.spell)
  BY <1>1, RewrittenItem
<1> HIDE DEF w
<1>4. Normal(w.spell) = w.spell
  BY <1>1, <1>3, NormalIsStable
<1>5. normalize_session_identity_spellings(w) = w
  BY <1>3, <1>4, NormalItem
<1>6. AnsweredIdentity(Normal(st.spell)) = PostgresIdentity(st.spell)
  BY <1>1, NormalMeaning
<1> QED BY <1>2, <1>3, <1>5, <1>6

(***************************************************************************)
(* Every spelling of a session identity PostgreSQL accepts is a call of    *)
(* the function it means by the end of the passes, and normalising it      *)
(* again changes nothing (normalize_session_identity_spellings).           *)
(***************************************************************************)
THEOREM IdentitiesResolve == Spec => []IdentitySpellingsResolve
BY Stages, IdentityStages, PTL

(* Positions of the searched path are numbers. *)
LEMMA PathPositions ==
  ASSUME NEW path \in Seq(STRING)
  PROVE  DOMAIN parse_search_path(path) \subseteq Nat
<1>1. CASE "pg_catalog" \in ToSet(path)
  <2>1. parse_search_path(path) = path
    BY <1>1 DEF parse_search_path
  <2>2. DOMAIN path = 1 .. Len(path) /\ Len(path) \in Nat
    OBVIOUS
  <2> QED BY <2>1, <2>2
<1>2. CASE "pg_catalog" \notin ToSet(path)
  <2>1. parse_search_path(path) = <<"pg_catalog">> \o path
    BY <1>2 DEF parse_search_path
  <2>2. DOMAIN (<<"pg_catalog">> \o path) = 1 .. Len(path) + 1 /\ Len(path) \in Nat
    BY Prefixed
  <2>3. DOMAIN parse_search_path(path) = 1 .. Len(path) + 1
    BY <2>1, <2>2
  <2> HIDE DEF parse_search_path
  <2> QED BY <2>2, <2>3
<1> QED BY <1>1, <1>2

(* A bare name is found where there is a table of that name. *)
LEMMA FoundTable ==
  ASSUME NEW st, IsNaming(st), resolve_schema(st) # ""
  PROVE  table_exists(resolve_schema(st), st.n)
<1> DEFINE p == parse_search_path(st.path)
           Schema(i) == IF p[i] = "$user" THEN default_schema ELSE p[i]
           found == {i \in DOMAIN p : table_exists(Schema(i), st.n)}
<1>1. found \subseteq Nat
  <2>1. st.path \in Seq(STRING)
    BY DEF IsNaming
  <2>2. DOMAIN p \subseteq Nat
    BY <2>1, PathPositions
  <2> HIDE DEF p
  <2> QED BY <2>2
<1>2. CASE st.s # ""
  <2>1. resolve_schema(st) = IF table_exists(st.s, st.n) THEN st.s ELSE ""
    BY <1>2 DEF resolve_schema
  <2> QED BY <2>1
<1>3. CASE st.s = ""
  <2>1. found # {} /\ resolve_schema(st) = Schema(Min(found))
    BY <1>3 DEF resolve_schema
  <2>2. Min(found) \in found
    <3> HIDE DEF found
    <3> QED BY <1>1, <2>1, LeastPosition
  <2> QED BY <2>1, <2>2
<1> QED BY <1>2, <1>3

(* A claimed call ends as a bare registered name. *)
LEMMA CallItem ==
  ASSUME NEW st, IsNaming(st), ClaimedItem(st), st.call, dispatch_query(st).route = "catalog"
  PROVE  PlannedObject(LastItem(st)) = PostgresObject(st)
<1> DEFINE w == LastItem(st)
           n == IF IsVersions(st) THEN "available_extension_versions" ELSE st.n
<1>1. /\ st.s \in {"", "pg_catalog"} /\ st.n \in PostgresFunctions
      /\ PostgresObject(st) = Object("function", "pg_catalog", st.n)
  BY DEF ClaimedItem, PostgresObject
<1>2. PutSchema(st) \in {"", "pg_catalog"}
  <2>1. CASE st.place \in InFrom /\ st.s = "" /\ object_is_catalog(st)
    <3>1. resolve_schema(st) \in CatalogSchemas
      BY <2>1 DEF object_is_catalog, schema_is_catalog
    <3>2. resolve_schema(st) # "information_schema"
      BY <1>1, FoundTable, TableFunctionAssumption DEF table_exists
    <3> QED BY <2>1, <3>1, <3>2 DEF PutSchema, CatalogSchemas
  <2>2. CASE ~(st.place \in InFrom /\ st.s = "" /\ object_is_catalog(st))
    BY <1>1, <2>2 DEF PutSchema
  <2> QED BY <2>1, <2>2
<1>3. PutSchema(st) = "pg_catalog" => st.s = "pg_catalog" \/ object_is_catalog(st)
  BY DEF PutSchema
<1>4. BareSchema(st) = ""
  BY <1>2, <1>3 DEF BareSchema, ClaimedItem
<1>5. LastSchema(st) = ""
  BY <1>4 DEF LastSchema
<1>6. IsVersions(st) <=> st.n = "pg_available_extension_versions"
  BY <1>4 DEF IsVersions
<1>7. /\ n \in TableFunctions
      /\ (IF n = "available_extension_versions" THEN "pg_available_extension_versions" ELSE n)
           = st.n
  BY <1>1, <1>6, TableFunctionAssumption DEF PostgresFunctions, UnprefixedNames
<1> HIDE DEF n
<1>8. w.call = st.call /\ w.n = n /\ w.s = LastSchema(st)
  BY RewrittenItem DEF n
<1> HIDE DEF w
<1>9. PlannedObject(w) = Object("function", "pg_catalog",
                                IF n = "available_extension_versions"
                                THEN "pg_available_extension_versions" ELSE n)
  BY <1>5, <1>7, <1>8 DEF PlannedObject
<1> QED BY <1>1, <1>7, <1>9 DEF w

(* A claimed table ends qualified, or bare in the default schema. *)
LEMMA TableItem ==
  ASSUME NEW st, IsNaming(st), ClaimedItem(st), ~st.call, dispatch_query(st).route = "catalog"
  PROVE  PlannedObject(LastItem(st)) = PostgresObject(st)
<1> DEFINE w == LastItem(st)
           x == resolve_schema(st)
<1>0. x = PostgresObject(st).s
  BY ResolvedSchema
<1>1. PostgresObject(st) = Object("table", x, st.n)
  <2>1. PostgresObject(st) # Nothing
    BY DEF ClaimedItem
  <2>2. \E s : PostgresObject(st) = Object("table", s, st.n)
    BY <2>1 DEF PostgresObject
  <2>3. PICK s : PostgresObject(st) = Object("table", s, st.n)
    BY <2>2
  <2>4. Object("table", s, st.n).s = s
    BY DEF Object
  <2> QED BY <1>0, <2>3, <2>4
<1>2. x # ""
  <2>1. CASE st.s = ""
    <3>1. x \in CatalogSchemas \cup {default_schema}
      BY <1>0, <2>1 DEF ClaimedItem
    <3> QED BY <3>1 DEF CatalogSchemas, default_schema
  <2>2. CASE st.s # ""
    BY <1>0, <2>2 DEF ClaimedItem, PostgresObject, Object
  <2> QED BY <2>1, <2>2
<1>3. table_exists(x, st.n)
  BY <1>2, FoundTable
<1>4. ~IsVersions(st)
  BY DEF IsVersions
<1>5. ~(x = "pg_catalog" /\ st.n \in UnprefixedNames)
  BY <1>3, TableFunctionAssumption DEF table_exists
<1>6. LastSchema(st) = x \/ (LastSchema(st) = "" /\ x = default_schema)
  <2>1. CASE st.s # ""
    <3>1. x = st.s
      BY <1>2, <2>1 DEF resolve_schema
    <3>2. PutSchema(st) = x
      BY <2>1, <3>1 DEF PutSchema
    <3>3. BareSchema(st) = x
      BY <1>5, <3>2 DEF BareSchema
    <3> HIDE DEF x
    <3> QED BY <1>2, <1>4, <3>3 DEF LastSchema
  <2>2. CASE st.s = "" /\ st.place \in InFrom /\ x \in CatalogSchemas
    <3>1. PutSchema(st) = x
      BY <2>2 DEF PutSchema, object_is_catalog, schema_is_catalog
    <3>2. BareSchema(st) = x
      BY <1>5, <3>1 DEF BareSchema
    <3> HIDE DEF x
    <3> QED BY <1>2, <1>4, <3>2 DEF LastSchema
  <2>3. CASE st.s = "" /\ st.place \in InFrom /\ x \notin CatalogSchemas
    <3>1. x = default_schema
      BY <1>0, <2>3 DEF ClaimedItem
    <3>2. PutSchema(st) = ""
      BY <2>3 DEF PutSchema, object_is_catalog, schema_is_catalog
    <3>3. BareSchema(st) = ""
      BY <3>2 DEF BareSchema
    <3>4. st.place \notin {"subquery", "exists", "in"}
      BY <2>3 DEF InFrom
    <3> HIDE DEF x
    <3> QED BY <1>4, <3>1, <3>3, <3>4 DEF LastSchema
  <2>4. CASE st.s = "" /\ st.place \notin InFrom
    <3>1. st.place \in {"subquery", "exists", "in"}
      BY <2>4 DEF IsNaming
    <3>2. x = "pg_catalog"
      BY <1>0, <2>4, <3>1 DEF ClaimedItem
    <3>3. PutSchema(st) = "" /\ BareSchema(st) = ""
      BY <2>4 DEF PutSchema, BareSchema
    <3> HIDE DEF x
    <3> QED BY <1>4, <3>1, <3>2, <3>3 DEF LastSchema
  <2> QED BY <2>1, <2>2, <2>3, <2>4
<1>7. w.call = st.call /\ w.n = st.n /\ w.s = LastSchema(st)
  BY <1>4, RewrittenItem
<1> HIDE DEF w, x
<1>8. (IF w.s = "" THEN default_schema ELSE w.s) = x
  BY <1>2, <1>6, <1>7
<1>9. PlannedObject(w) = Object("table", x, st.n)
  BY <1>3, <1>7, <1>8 DEF PlannedObject
<1> QED BY <1>1, <1>9 DEF w

(* The stages keep what a FROM item means. *)
LEMMA ItemStages == StageInv => FromItemsKeepTheirMeaning
<1> SUFFICES ASSUME StageInv, outcome = "answered", ClaimedItem(asked.st)
             PROVE  /\ PlannedObject(stmt.st) = PostgresObject(asked.st)
                    /\ (/\ asked.st.call /\ asked.st.alias
                        /\ asked.st.n \in SINGLE_COLUMN_SET_RETURNING_FUNCTIONS
                        /\ asked.st.place \in {"from", "join", "subquery", "exists"})
                         => stmt.st.cols
  BY DEF FromItemsKeepTheirMeaning
<1> DEFINE st == asked.st
<1>1. /\ IsStatement(asked) /\ IsNaming(st)
      /\ dispatch_query(st).route = "catalog" /\ stmt = Rewritten(asked)
  BY DEF StageInv, InFlight, IsStatement, RouteOf
<1>2. stmt.st = LastItem(st)
  BY <1>1, StageFields DEF LastItem
<1>3. PlannedObject(LastItem(st)) = PostgresObject(st)
  BY <1>1, CallItem, TableItem
<1> QED BY <1>1, <1>2, <1>3, RewrittenItem

(***************************************************************************)
(* A FROM item of an answered statement means to the planner the object    *)
(* PostgreSQL finds under its name, and a single-column function's column  *)
(* carries its alias (qualify_catalog_tables, rewrite_schema_qualified_    *)
(* udtfs, alias_subquery_tables), for every set of tables and every path.  *)
(***************************************************************************)
THEOREM FromItemsMeanTheSame == Spec => []FromItemsKeepTheirMeaning
BY Stages, ItemStages, PTL

---------------------------------------------------------------------------
(* Sub-queries.                                                            *)

(* Replacing a field of a sub-query leaves the others: its form. *)
LEMMA ReplaceForm ==
  ASSUME NEW q, HasFields(q), NEW x
  PROVE  LET r == [q EXCEPT !.form = x]
         IN  /\ HasFields(r) /\ r.form = x
             /\ r.pos = q.pos /\ r.proj = q.proj /\ r.preds = q.preds /\ r.on = q.on
             /\ r.neg = q.neg /\ r.limit = q.limit /\ r.ordered = q.ordered /\ r.distinct = q.distinct
             /\ r.grouped = q.grouped /\ r.left = q.left /\ r.qualified = q.qualified /\ r.known = q.known
             /\ r.named = q.named /\ r.inbody = q.inbody
BY DEF HasFields

(* The projection. *)
LEMMA ReplaceProj ==
  ASSUME NEW q, HasFields(q), NEW x
  PROVE  LET r == [q EXCEPT !.proj = x]
         IN  /\ HasFields(r) /\ r.proj = x
             /\ r.form = q.form /\ r.pos = q.pos /\ r.preds = q.preds /\ r.on = q.on
             /\ r.neg = q.neg /\ r.limit = q.limit /\ r.ordered = q.ordered /\ r.distinct = q.distinct
             /\ r.grouped = q.grouped /\ r.left = q.left /\ r.qualified = q.qualified /\ r.known = q.known
             /\ r.named = q.named /\ r.inbody = q.inbody
BY DEF HasFields

(* The conjuncts. *)
LEMMA ReplacePreds ==
  ASSUME NEW q, HasFields(q), NEW x
  PROVE  LET r == [q EXCEPT !.preds = x]
         IN  /\ HasFields(r) /\ r.preds = x
             /\ r.form = q.form /\ r.pos = q.pos /\ r.proj = q.proj /\ r.on = q.on
             /\ r.neg = q.neg /\ r.limit = q.limit /\ r.ordered = q.ordered /\ r.distinct = q.distinct
             /\ r.grouped = q.grouped /\ r.left = q.left /\ r.qualified = q.qualified /\ r.known = q.known
             /\ r.named = q.named /\ r.inbody = q.inbody
BY DEF HasFields

(* The join condition. *)
LEMMA ReplaceOn ==
  ASSUME NEW q, HasFields(q), NEW x
  PROVE  LET r == [q EXCEPT !.on = x]
         IN  /\ HasFields(r) /\ r.on = x
             /\ r.form = q.form /\ r.pos = q.pos /\ r.proj = q.proj /\ r.preds = q.preds
             /\ r.neg = q.neg /\ r.limit = q.limit /\ r.ordered = q.ordered /\ r.distinct = q.distinct
             /\ r.grouped = q.grouped /\ r.left = q.left /\ r.qualified = q.qualified /\ r.known = q.known
             /\ r.named = q.named /\ r.inbody = q.inbody
BY DEF HasFields

(* The LIMIT. *)
LEMMA ReplaceLimit ==
  ASSUME NEW q, HasFields(q), NEW x
  PROVE  LET r == [q EXCEPT !.limit = x]
         IN  /\ HasFields(r) /\ r.limit = x
             /\ r.form = q.form /\ r.pos = q.pos /\ r.proj = q.proj /\ r.preds = q.preds
             /\ r.on = q.on /\ r.neg = q.neg /\ r.ordered = q.ordered /\ r.distinct = q.distinct
             /\ r.grouped = q.grouped /\ r.left = q.left /\ r.qualified = q.qualified /\ r.known = q.known
             /\ r.named = q.named /\ r.inbody = q.inbody
BY DEF HasFields

(* DISTINCT. *)
LEMMA ReplaceDistinct ==
  ASSUME NEW q, HasFields(q), NEW x
  PROVE  LET r == [q EXCEPT !.distinct = x]
         IN  /\ HasFields(r) /\ r.distinct = x
             /\ r.form = q.form /\ r.pos = q.pos /\ r.proj = q.proj /\ r.preds = q.preds
             /\ r.on = q.on /\ r.neg = q.neg /\ r.limit = q.limit /\ r.ordered = q.ordered
             /\ r.grouped = q.grouped /\ r.left = q.left /\ r.qualified = q.qualified /\ r.known = q.known
             /\ r.named = q.named /\ r.inbody = q.inbody
BY DEF HasFields

(* Whether outer columns carry their table. *)
LEMMA ReplaceQualified ==
  ASSUME NEW q, HasFields(q), NEW x
  PROVE  LET r == [q EXCEPT !.qualified = x]
         IN  /\ HasFields(r) /\ r.qualified = x
             /\ r.form = q.form /\ r.pos = q.pos /\ r.proj = q.proj /\ r.preds = q.preds
             /\ r.on = q.on /\ r.neg = q.neg /\ r.limit = q.limit /\ r.ordered = q.ordered
             /\ r.distinct = q.distinct /\ r.grouped = q.grouped /\ r.left = q.left /\ r.known = q.known
             /\ r.named = q.named /\ r.inbody = q.inbody
BY DEF HasFields

(* The projection's alias. *)
LEMMA ReplaceNamed ==
  ASSUME NEW q, HasFields(q), NEW x
  PROVE  LET r == [q EXCEPT !.named = x]
         IN  /\ HasFields(r) /\ r.named = x
             /\ r.form = q.form /\ r.pos = q.pos /\ r.proj = q.proj /\ r.preds = q.preds
             /\ r.on = q.on /\ r.neg = q.neg /\ r.limit = q.limit /\ r.ordered = q.ordered
             /\ r.distinct = q.distinct /\ r.grouped = q.grouped /\ r.left = q.left /\ r.qualified = q.qualified
             /\ r.known = q.known /\ r.inbody = q.inbody
BY DEF HasFields

LastSubquery(q) ==
    subquery_after_filters(subquery_in_filters(subquery_before_filters(q)))

(* What the stages make of a sub-query. *)
LEMMA SubqueryStages ==
  ASSUME StageInv, outcome = "answered"
  PROVE  IsSubquery(asked.sub) /\ stmt.sub = LastSubquery(asked.sub)
<1>1. IsStatement(asked) /\ stmt = Rewritten(asked)
  BY DEF StageInv, InFlight
<1> QED BY <1>1, StageFields DEF LastSubquery, IsStatement

(* Which forms each pass leaves alone. *)
LEMMA UntouchedForms ==
  ASSUME NEW q
  PROVE  /\ q.form # "scalar" => rewrite_correlated_limit_one_subquery_to_max(q) = q
         /\ q.form # "lateral" => decorrelate_lateral_aggregate_join(q) = q
         /\ q.form # "scalar" \/ q.pos # "projection"
              => rewrite_scalar_subqueries_to_ctes(q) = q
         /\ q.form # "scalar" \/ q.proj # "cmp"
              => rewrite_boolean_scalar_subquery_to_exists(q) = q
         /\ q.form # "exists" => rewrite_exists_to_count(q) = q
         /\ q.form # "tuplein" => rewrite_tuple_in_subquery_to_exists(q) = q
<1>1. q.form # "scalar" => rewrite_correlated_limit_one_subquery_to_max(q) = q
  BY DEF rewrite_correlated_limit_one_subquery_to_max
<1>2. q.form # "lateral" => decorrelate_lateral_aggregate_join(q) = q
  BY DEF decorrelate_lateral_aggregate_join, is_joined_on_literal_true
<1>3. q.form # "scalar" \/ q.pos # "projection" => rewrite_scalar_subqueries_to_ctes(q) = q
  <2> SUFFICES ASSUME q.form # "scalar" \/ q.pos # "projection"
               PROVE  rewrite_scalar_subqueries_to_ctes(q) = q
    OBVIOUS
  <2>1. qualify_outer_columns_in_projection_subqueries(q) = q
    BY DEF qualify_outer_columns_in_projection_subqueries
  <2>2. ~analyse_scalar(q)
    BY DEF analyse_scalar
  <2> QED BY <2>1, <2>2 DEF rewrite_scalar_subqueries_to_ctes
<1>4. q.form # "scalar" \/ q.proj # "cmp" => rewrite_boolean_scalar_subquery_to_exists(q) = q
  BY DEF rewrite_boolean_scalar_subquery_to_exists, is_boolean_comparison
<1>5. q.form # "exists" => rewrite_exists_to_count(q) = q
  BY DEF rewrite_exists_to_count
<1>6. q.form # "tuplein" => rewrite_tuple_in_subquery_to_exists(q) = q
  BY DEF rewrite_tuple_in_subquery_to_exists
<1> QED BY <1>1, <1>2, <1>3, <1>4, <1>5, <1>6

(* A sub-query that no pass has changed agrees with itself. *)
LEMMA AgreesWithItself ==
  ASSUME NEW q, NEW o, NEW T PROVE Agrees(q, q, o, T)
BY DEF Agrees

(* An aggregate that is NULL over no rows yields one value, and NULL there. *)
LEMMA AggregateOfNothing ==
  ASSUME NEW p \in Aggregates \ {"count", "count+1"}, NEW o, NEW T, NEW rows
  PROVE  /\ ~IsEmpty(Projected(p, o, T, rows))
         /\ rows = {} => Projected(p, o, T, rows) = <<Null>>
<1> DEFINE none == {}
<1>1. p \in {"max", "maxcmp", "maxouter", "maxkey"}
  BY DEF Aggregates
<1>2. ASSUME NEW v PROVE ~IsEmpty(<<v>>)
  BY DEF IsEmpty
<1>3. \E v : Projected(p, o, T, rows) = <<v>> /\ (rows = {} => v = Null)
  <2>1. MaxOf(none) = Null
    BY DEF MaxOf
  <2>2. CASE p = "max"
    <3>1. Projected(p, o, T, rows) = <<MaxOf({T[i].v : i \in rows})>>
      BY <2>2 DEF Projected
    <3>2. rows = {} => {T[i].v : i \in rows} = none
      OBVIOUS
    <3> HIDE DEF none
    <3> QED BY <2>1, <3>1, <3>2
  <2>3. CASE p = "maxkey"
    <3>1. Projected(p, o, T, rows) = <<MaxOf({T[i].k : i \in rows})>>
      BY <2>3 DEF Projected
    <3>2. rows = {} => {T[i].k : i \in rows} = none
      OBVIOUS
    <3> HIDE DEF none
    <3> QED BY <2>1, <3>1, <3>2
  <2>4. CASE p = "maxcmp"
    <3> DEFINE bs == {Eq(T[i].v, 1) : i \in rows}
    <3>1. Projected(p, o, T, rows)
            = <<IF True \in bs THEN True ELSE IF False \in bs THEN False ELSE Null>>
      BY <2>4 DEF Projected
    <3>2. rows = {} => bs = {}
      OBVIOUS
    <3> HIDE DEF bs
    <3> QED BY <3>1, <3>2
  <2>5. CASE p = "maxouter"
    <3>1. Projected(p, o, T, rows) = <<IF rows = {} THEN Null ELSE o.k>>
      BY <2>5 DEF Projected
    <3> QED BY <3>1
  <2> QED BY <1>1, <2>2, <2>3, <2>4, <2>5
<1> QED BY <1>2, <1>3

(* The grouped join has the rows of the LATERAL it replaces. *)
LEMMA LateralAgrees ==
  ASSUME NEW q, HasFields(q), ClaimedLateral(q), NEW o, NEW T
  PROVE  Agrees(q, decorrelate_lateral_aggregate_join(q), o, T)
<1> DEFINE r == decorrelate_lateral_aggregate_join(q)
           rows == Matching(q.preds, o, T)
           values == Projected(q.proj, o, T, rows)
<1>1. CASE r = q
  BY <1>1, AgreesWithItself
<1>2. CASE r # q
  <2> DEFINE grouped == "grouped"
             none == {}
             a == [q EXCEPT !.form = grouped]
             b == [a EXCEPT !.on = q.preds]
             c == [b EXCEPT !.preds = none]
  <2>1. r = c /\ q.proj \in Aggregates
    BY <1>2 DEF decorrelate_lateral_aggregate_join, expression_computes_aggregate
  <2> HIDE DEF grouped, none
  <2>2. /\ HasFields(a) /\ a.form = grouped /\ a.proj = q.proj /\ a.left = q.left
    BY ReplaceForm
  <2> HIDE DEF a
  <2>3. /\ HasFields(b) /\ b.form = grouped /\ b.proj = q.proj /\ b.left = q.left
        /\ b.on = q.preds
    BY <2>2, ReplaceOn
  <2> HIDE DEF b
  <2>4. c.form = grouped /\ c.proj = q.proj /\ c.left = q.left /\ c.on = q.preds
    BY <2>3, ReplacePreds
  <2> HIDE DEF c
  <2>5. Answers(c, o, T) = {GroupedAnswer(c, o, T)}
    BY <2>4 DEF Answers, grouped
  <2>6. Answers(q, o, T) = {IF IsEmpty(values) /\ q.left THEN <<Null>> ELSE values}
    BY DEF Answers, ClaimedLateral
  <2>7. q.left /\ q.proj \in Aggregates \ {"count", "count+1"}
    BY <2>1 DEF ClaimedLateral
  <2>8. ~IsEmpty(values) /\ (rows = {} => values = <<Null>>)
    BY <2>7, AggregateOfNothing
  <2>9. GroupedAnswer(c, o, T) = IF rows # {} THEN values ELSE <<Null>>
    BY <2>4, <2>7 DEF GroupedAnswer
  <2> HIDE DEF values, rows, r
  <2>10. Answers(c, o, T) = Answers(q, o, T)
    <3>1. GroupedAnswer(c, o, T) = values
      BY <2>8, <2>9
    <3>2. Answers(q, o, T) = {values}
      BY <2>6, <2>8
    <3> QED BY <2>5, <3>1, <3>2
  <2> QED BY <2>1, <2>10 DEF Agrees, r
<1> QED BY <1>1, <1>2

(* The stages keep the rows of a LATERAL. *)
LEMMA LateralStages == StageInv => LateralJoinsKeepRows
<1> SUFFICES ASSUME StageInv, outcome = "answered", ClaimedLateral(asked.sub)
             PROVE  Faithful(asked.sub, stmt.sub)
  BY DEF LateralJoinsKeepRows
<1> DEFINE q == asked.sub
           r == decorrelate_lateral_aggregate_join(q)
<1>1. IsSubquery(q) /\ stmt.sub = LastSubquery(q)
  BY SubqueryStages
<1>2. HasFields(q) /\ q.form = "lateral"
  BY <1>1 DEF IsSubquery, ClaimedLateral
<1>3. r.form \in {"lateral", "grouped"}
  <2>1. r = q \/ r = [q EXCEPT !.form = "grouped", !.on = q.preds, !.preds = {}]
    BY DEF decorrelate_lateral_aggregate_join
  <2>2. [q EXCEPT !.form = "grouped", !.on = q.preds, !.preds = {}].form = "grouped"
    BY <1>2 DEF HasFields
  <2> QED BY <1>2, <2>1, <2>2
<1>4. LastSubquery(q) = r
  <2>1. subquery_before_filters(q) = q
    BY <1>2, UntouchedForms DEF subquery_before_filters
  <2>2. subquery_in_filters(q) = r
    BY <1>3, UntouchedForms DEF subquery_in_filters
  <2> HIDE DEF r
  <2>3. rewrite_boolean_scalar_subquery_to_exists(r) = r /\ rewrite_exists_to_count(r) = r
        /\ rewrite_tuple_in_subquery_to_exists(r) = r
    BY <1>3, UntouchedForms
  <2> QED BY <2>1, <2>2, <2>3 DEF LastSubquery, subquery_after_filters
<1> QED BY <1>1, <1>2, <1>4, LateralAgrees DEF Faithful

(***************************************************************************)
(* A LATERAL aggregate under a LEFT JOIN yields the same rows as the       *)
(* grouped join it becomes, where the aggregate is NULL over no rows       *)
(* (decorrelate_lateral_aggregate_join).                                   *)
(***************************************************************************)
THEOREM LateralJoinsSameRows == Spec => []LateralJoinsKeepRows
BY Stages, LateralStages, PTL

(* The rows of the small relations. *)
LEMMA SmallRows ==
  ASSUME NEW o \in OuterRows, NEW T \in Relations
  PROVE  /\ o.k \in 1 .. 2 /\ o.w \in 0 .. 2
         /\ \A i \in DOMAIN T : T[i].k \in 1 .. 2 /\ T[i].v \in 0 .. 2
<1>1. o.k \in 1 .. 2 /\ o.w \in 0 .. 2
  BY DEF OuterRows
<1>2. PICK m \in 0 .. 2 : T \in [1 .. m -> [k : 1 .. 2, v : 0 .. 2]]
  BY DEF Relations, SeqOf
<1>3. \A i \in DOMAIN T : T[i] \in [k : 1 .. 2, v : 0 .. 2]
  BY <1>2
<1> QED BY <1>1, <1>3

(* A comparison of two values is NULL, true or false. *)
LEMMA Equality ==
  ASSUME NEW a \in Nat, NEW b \in Nat
  PROVE  /\ Eq(a, b) \in {Null, True, False}
         /\ Eq(a, b) = True <=> a = b /\ a # 0
         /\ a # 0 /\ b # 0 => Eq(a, b) # Null
<1>1. CASE a = 0 \/ b = 0
  <2>1. Eq(a, b) = Null
    BY <1>1 DEF Eq, Null
  <2> QED BY <1>1, <2>1 DEF Null, True
<1>2. CASE a # 0 /\ b # 0
  <2>1. Eq(a, b) = IF a = b THEN True ELSE False
    BY <1>2 DEF Eq, Null
  <2> QED BY <1>2, <2>1 DEF Null, True, False
<1> QED BY <1>1, <1>2

(* What a row contributes when the value is true, false or NULL. *)
LEMMA PlacedValues ==
  /\ Placed("filter", True) = <<True>> /\ Placed("filter", False) = <<>>
  /\ Placed("filter", Null) = <<>> /\ Placed("filter", Error) = <<Error>>
  /\ Placed("not", True) = <<>> /\ Placed("not", False) = <<True>>
  /\ Placed("not", Null) = <<>>
<1>1. /\ Negation(True) = False /\ Negation(False) = True /\ Negation(Null) = Null
      /\ True # False /\ True # Null /\ True # Error /\ False # Error /\ Null # Error
      /\ False # Null
  BY DEF Negation, True, False, Null, Error
<1> QED BY <1>1 DEF Placed

(* Matching one more conjunct. *)
LEMMA MatchingMore ==
  ASSUME NEW P, NEW Q, NEW o, NEW T
  PROVE  Matching(P \cup Q, o, T)
           = {i \in Matching(P, o, T) : \A p \in Q : Holds(p, o, T[i])}
BY DEF Matching

(* EXISTS is a count of the rows that match. *)
LEMMA ExistsAgrees ==
  ASSUME NEW q, HasFields(q), q.form = "exists", q.proj = "one", NEW o, NEW T
  PROVE  Agrees(q, rewrite_exists_to_count(q), o, T)
<1> DEFINE r == rewrite_exists_to_count(q)
           rows == Matching(q.preds, o, T)
<1>1. CASE r = q
  BY <1>1, AgreesWithItself
<1>2. CASE r # q
  <2> DEFINE count == "count"
             no == FALSE
             a == [q EXCEPT !.form = count]
             b == [a EXCEPT !.proj = count]
             c == [b EXCEPT !.distinct = no]
  <2>1. r = c
    BY <1>2 DEF rewrite_exists_to_count
  <2> HIDE DEF count, no
  <2>2. HasFields(a) /\ a.form = count /\ a.pos = q.pos /\ a.preds = q.preds /\ a.neg = q.neg
    BY ReplaceForm
  <2> HIDE DEF a
  <2>3. HasFields(b) /\ b.form = count /\ b.pos = q.pos /\ b.preds = q.preds /\ b.neg = q.neg
    BY <2>2, ReplaceProj
  <2> HIDE DEF b
  <2>4. c.form = count /\ c.pos = q.pos /\ c.preds = q.preds /\ c.neg = q.neg
    BY <2>3, ReplaceDistinct
  <2> HIDE DEF c
  <2>5. Answers(c, o, T) = {Placed(q.pos, Signed(q, Truth(rows # {})))}
    BY <2>4 DEF Answers, Signed, count
  <2>6. Answers(q, o, T)
          = {Placed(q.pos, Signed(q, Truth(~IsEmpty(Projected("one", o, T, rows)))))}
    BY DEF Answers
  <2>7. IsEmpty(Projected("one", o, T, rows)) <=> rows = {}
    BY DEF Projected, IsEmpty
  <2> HIDE DEF rows, r
  <2>8. Answers(c, o, T) = Answers(q, o, T)
    BY <2>5, <2>6, <2>7
  <2> QED BY <2>1, <2>8 DEF Agrees, r
<1> QED BY <1>1, <1>2

(* A tuple comparison is true where both columns are equal. *)
LEMMA TupleTruth ==
  ASSUME NEW o \in OuterRows, NEW T \in Relations, NEW P
  PROVE  LET b == TupleIn(o, T, Matching(P, o, T))
             M == Matching(P \cup {"k=k", "v=w"}, o, T)
         IN  /\ b \in {True, False, Null}
             /\ b = True <=> M # {}
             /\ NullFree(o, T) => b # Null
<1> DEFINE rows == Matching(P, o, T)
           M == Matching(P \cup {"k=k", "v=w"}, o, T)
           E(i) == IF False \in {Eq(T[i].k, o.k), Eq(T[i].v, o.w)} THEN False
                   ELSE IF Null \in {Eq(T[i].k, o.k), Eq(T[i].v, o.w)} THEN Null
                   ELSE True
           each == {E(i) : i \in rows}
           b == TupleIn(o, T, rows)
<1>1. b = CASE True \in each -> True
            [] True \notin each /\ Null \in each -> Null
            [] OTHER -> False
  BY DEF TupleIn
<1>2. M = {i \in rows : Eq(T[i].k, o.k) = True /\ Eq(T[i].v, o.w) = True}
  <2>1. M = {i \in rows : \A p \in {"k=k", "v=w"} : Holds(p, o, T[i])}
    BY MatchingMore
  <2>2. \A i : /\ Holds("k=k", o, T[i]) <=> Eq(T[i].k, o.k) = True
               /\ Holds("v=w", o, T[i]) <=> Eq(T[i].v, o.w) = True
    BY DEF Holds
  <2> HIDE DEF M, rows
  <2> QED BY <2>1, <2>2
<1>3. ASSUME NEW i \in rows
      PROVE  /\ E(i) = True <=> Eq(T[i].k, o.k) = True /\ Eq(T[i].v, o.w) = True
             /\ NullFree(o, T) => E(i) # Null
  <2> DEFINE e == Eq(T[i].k, o.k)
             f == Eq(T[i].v, o.w)
  <2>1. i \in DOMAIN T
    BY DEF Matching
  <2>2. /\ T[i].k \in 1 .. 2 /\ o.k \in 1 .. 2 /\ T[i].v \in 0 .. 2 /\ o.w \in 0 .. 2
    BY <2>1, SmallRows
  <2>3. /\ T[i].k \in Nat /\ o.k \in Nat /\ T[i].v \in Nat /\ o.w \in Nat
        /\ T[i].k # 0 /\ o.k # 0
    BY <2>2
  <2>4. e \in {Null, True, False} /\ f \in {Null, True, False} /\ e # Null
    BY <2>3, Equality
  <2>5. NullFree(o, T) => f # Null
    BY <2>1, <2>3, Equality DEF NullFree, Null
  <2>6. True # False /\ True # Null /\ False # Null
    BY DEF True, False, Null
  <2> HIDE DEF e, f
  <2>7. E(i) = IF False \in {e, f} THEN False ELSE IF Null \in {e, f} THEN Null ELSE True
    BY DEF e, f
  <2>8. (e = True /\ f = True) \/ False \in {e, f} \/ (Null \in {e, f} /\ False \notin {e, f})
    BY <2>4
  <2> HIDE DEF E
  <2> QED BY <2>4, <2>5, <2>6, <2>7, <2>8 DEF e, f
<1>4. True \in each <=> M # {}
  <2> HIDE DEF E, rows, M
  <2> QED BY <1>2, <1>3
<1>5. NullFree(o, T) => Null \notin each
  <2> HIDE DEF E, rows
  <2> QED BY <1>3
<1>6. True # False /\ True # Null /\ False # Null
  BY DEF True, False, Null
<1> HIDE DEF each, b, M
<1>7. /\ b \in {True, False, Null}
      /\ b = True <=> M # {}
      /\ NullFree(o, T) => b # Null
  BY <1>1, <1>4, <1>5, <1>6
<1> QED BY <1>7 DEF b, M, rows

(* Where a NULL comparison may be read as false: EXISTS instead of IN. *)
LEMMA TupleSigns ==
  ASSUME NEW q, q.neg \in BOOLEAN, q.pos \in {"filter", "not"},
         NEW b \in {True, False, Null}, NEW there \in BOOLEAN, b = True <=> there,
         b # Null \/ ~(q.neg <=> q.pos = "filter")
  PROVE  Placed(q.pos, Signed(q, b)) = Placed(q.pos, Signed(q, Truth(there)))
<1>1. /\ Negation(True) = False /\ Negation(False) = True /\ Negation(Null) = Null
      /\ True # False /\ True # Null /\ False # Null
  BY DEF Negation, True, False, Null
<1>2. CASE b # Null
  <2>1. Truth(there) = b
    BY <1>1, <1>2 DEF Truth
  <2> QED BY <2>1
<1>3. CASE b = Null
  <2>1. Truth(there) = False
    BY <1>1, <1>3 DEF Truth
  <2>2. Signed(q, b) = Null
    BY <1>1, <1>3 DEF Signed
  <2>3. CASE q.neg
    <3>1. Signed(q, False) = True /\ q.pos = "not"
      BY <1>1, <1>3, <2>3 DEF Signed
    <3> QED BY <2>1, <2>2, <3>1, PlacedValues
  <2>4. CASE ~q.neg
    <3>1. Signed(q, False) = False /\ q.pos = "filter"
      BY <1>3, <2>4 DEF Signed
    <3> QED BY <2>1, <2>2, <3>1, PlacedValues
  <2> QED BY <2>3, <2>4
<1> QED BY <1>2, <1>3

(* A tuple IN is an EXISTS of the equal rows. *)
LEMMA TupleAgrees ==
  ASSUME NEW q, IsSubquery(q), q.form = "tuplein", q.pos # "projection",
         NEW o \in OuterRows, NEW T \in Relations,
         ~(q.neg <=> q.pos = "filter") \/ NullFree(o, T)
  PROVE  Agrees(q, rewrite_tuple_in_subquery_to_exists(q), o, T)
<1> DEFINE r == rewrite_tuple_in_subquery_to_exists(q)
           exists == "exists"
           one == "one"
           P == q.preds \cup {"k=k", "v=w"}
           a == [q EXCEPT !.form = exists]
           b == [a EXCEPT !.proj = one]
           c == [b EXCEPT !.preds = P]
           M == Matching(P, o, T)
           v == TupleIn(o, T, Matching(q.preds, o, T))
<1>1. r = c
  BY DEF rewrite_tuple_in_subquery_to_exists
<1>2. HasFields(q) /\ q.neg \in BOOLEAN /\ q.pos \in {"filter", "not"}
  BY DEF IsSubquery
<1>3. v \in {True, False, Null} /\ (v = True <=> M # {}) /\ (NullFree(o, T) => v # Null)
  BY TupleTruth
<1> HIDE DEF exists, one, P, M, v
<1>4. HasFields(a) /\ a.form = exists /\ a.pos = q.pos /\ a.neg = q.neg
  BY <1>2, ReplaceForm
<1> HIDE DEF a
<1>5. HasFields(b) /\ b.form = exists /\ b.pos = q.pos /\ b.neg = q.neg /\ b.proj = one
  BY <1>4, ReplaceProj
<1> HIDE DEF b
<1>6. c.form = exists /\ c.pos = q.pos /\ c.neg = q.neg /\ c.proj = one /\ c.preds = P
  BY <1>5, ReplacePreds
<1> HIDE DEF c
<1>7. Answers(c, o, T) = {Placed(q.pos, Signed(q, Truth(M # {})))}
  <2>1. Answers(c, o, T) = {Placed(c.pos, Signed(c, Truth(~IsEmpty(Projected("one", o, T, M)))))}
    BY <1>6 DEF Answers, exists, one, M
  <2>2. IsEmpty(Projected("one", o, T, M)) <=> M = {}
    BY DEF Projected, IsEmpty
  <2>3. \A x : Signed(c, x) = Signed(q, x)
    BY <1>6 DEF Signed
  <2> QED BY <1>6, <2>1, <2>2, <2>3
<1>8. Answers(q, o, T) = {Placed(q.pos, Signed(q, v))}
  BY DEF Answers, v
<1>9. Placed(q.pos, Signed(q, v)) = Placed(q.pos, Signed(q, Truth(M # {})))
  <2> DEFINE there == M # {}
  <2>1. there \in BOOLEAN /\ (v = True <=> there)
    BY <1>3
  <2> HIDE DEF there
  <2>2. Placed(q.pos, Signed(q, v)) = Placed(q.pos, Signed(q, Truth(there)))
    BY <1>2, <1>3, <2>1, TupleSigns
  <2> QED BY <2>2 DEF there
<1> HIDE DEF r
<1> QED BY <1>1, <1>7, <1>8, <1>9 DEF Agrees, r

(* The first in the order of a set of comparisons. *)
LEMMA FirstComparison ==
  ASSUME NEW vs, vs \subseteq {Null, True, False}
  PROVE  /\ True \in vs => MinOf(vs) = True
         /\ True \notin vs => MinOf(vs) \in {Null, False}
<1> DEFINE S == vs \ {Null}
<1>1. S \subseteq {-1, -2} /\ (True \in vs <=> -2 \in S) /\ (False \in vs <=> -1 \in S)
  BY DEF True, False, Null
<1>2. vs \subseteq {Null} <=> S = {}
  OBVIOUS
<1>3. MinOf(vs) = IF S = {} THEN Null ELSE Min(S)
  BY <1>2 DEF MinOf
<1> HIDE DEF S
<1>4. CASE -2 \in S
  <2>1. Min(S) = -2
    <3>1. S \subseteq Int /\ \A j \in S : -2 <= j
      BY <1>1
    <3> QED BY <1>4, <3>1, LeastIs
  <2>2. S # {}
    BY <1>4
  <2> QED BY <1>1, <1>3, <1>4, <2>1, <2>2 DEF True
<1>5. CASE -2 \notin S /\ -1 \in S
  <2>1. Min(S) = -1
    <3>1. S \subseteq Int /\ \A j \in S : -1 <= j
      BY <1>1, <1>5
    <3> QED BY <1>5, <3>1, LeastIs
  <2>2. S # {}
    BY <1>5
  <2> QED BY <1>1, <1>3, <1>5, <2>1, <2>2 DEF False
<1>6. CASE S = {}
  BY <1>1, <1>3, <1>6
<1> QED BY <1>1, <1>4, <1>5, <1>6

(* The values of a comparison over the matching rows. *)
LEMMA ComparedValues ==
  ASSUME NEW q, q.proj = "cmp", NEW o \in OuterRows, NEW T \in Relations
  PROVE  LET rows == Matching(q.preds, o, T)
             values == Projected(q.proj, o, T, rows)
         IN  /\ DOMAIN values = rows /\ Range(values) \subseteq {Null, True, False}
             /\ True \in Range(values) <=> Matching(q.preds \cup {"v=1"}, o, T) # {}
<1> DEFINE rows == Matching(q.preds, o, T)
           values == Projected(q.proj, o, T, rows)
           M == Matching(q.preds \cup {"v=1"}, o, T)
<1>1. values = [i \in rows |-> Eq(T[i].v, 1)]
  BY DEF Projected
<1>2. DOMAIN values = rows /\ Range(values) = {Eq(T[i].v, 1) : i \in rows}
  BY <1>1 DEF Range
<1>3. ASSUME NEW i \in rows
      PROVE  Eq(T[i].v, 1) \in {Null, True, False} /\ (Eq(T[i].v, 1) = True <=> T[i].v = 1)
  <2>1. T[i].v \in 0 .. 2
    BY SmallRows DEF Matching
  <2>2. T[i].v \in Nat /\ 1 \in Nat
    BY <2>1
  <2> QED BY <2>2, Equality
<1>4. M = {i \in rows : T[i].v = 1}
  <2>1. M = {i \in rows : \A p \in {"v=1"} : Holds(p, o, T[i])}
    BY MatchingMore
  <2>2. \A i : Holds("v=1", o, T[i]) <=> T[i].v = 1
    BY DEF Holds
  <2> HIDE DEF M, rows
  <2> QED BY <2>1, <2>2
<1> HIDE DEF rows, M, values
<1>5. True \in Range(values) <=> M # {}
  BY <1>2, <1>3, <1>4
<1> QED BY <1>2, <1>3, <1>5 DEF rows, M, values

(* A boolean scalar in a filter is an EXISTS of the rows it is true for. *)
LEMMA BooleanAgrees ==
  ASSUME NEW q, q.form = "scalar", q.pos = "filter", q.proj = "cmp", q.limit \in BOOLEAN,
         q.ordered \in BOOLEAN,
         NEW r, r.form = "count", r.pos = "filter", ~r.neg, r.preds = q.preds \cup {"v=1"},
         NEW o \in OuterRows, NEW T \in Relations
  PROVE  Agrees(q, r, o, T)
<1> DEFINE rows == Matching(q.preds, o, T)
           values == Projected(q.proj, o, T, rows)
           M == Matching(q.preds \cup {"v=1"}, o, T)
           vs == Range(values)
           S == Single(q, values)
<1>1. /\ DOMAIN values = rows /\ vs \subseteq {Null, True, False}
      /\ True \in vs <=> M # {}
  BY ComparedValues, ZenonT(30)
<1>2. Answers(q, o, T) = {Placed("filter", b) : b \in S}
  BY DEF Answers
<1>3. Answers(r, o, T) = {Placed("filter", Truth(M # {}))}
  BY DEF Answers, Signed
<1>4. rows # {} => vs # {}
  <2>1. vs = {values[i] : i \in DOMAIN values}
    BY DEF Range
  <2> HIDE DEF values, rows, vs
  <2> QED BY <1>1, <2>1
<1>5. rows = {} => M = {}
  <2>1. M \subseteq rows
    BY DEF Matching
  <2> QED BY <2>1
<1>6. (S = {Null} /\ rows = {}) \/ S = {MinOf(vs)} \/ (S = vs /\ rows # {}) \/ S = {Error}
  <2>1. IsEmpty(values) <=> rows = {}
    BY <1>1 DEF IsEmpty
  <2> HIDE DEF values, rows
  <2>2. CASE IsEmpty(values)
    <3>1. S = {Null}
      BY <2>2 DEF Single, IsSingle
    <3> QED BY <2>1, <2>2, <3>1
  <2>3. CASE ~IsEmpty(values) /\ q.limit
    <3>1. S = {MinOf(vs)} \/ S = vs
      BY <2>3 DEF Single
    <3> QED BY <2>1, <2>3, <3>1
  <2>4. CASE ~IsEmpty(values) /\ ~q.limit
    <3>1. S = vs \/ S = {Error}
      BY <2>4 DEF Single
    <3> QED BY <2>1, <2>4, <3>1
  <2> QED BY <2>2, <2>3, <2>4
<1>7. True # False /\ True # Null /\ False # Null
  BY DEF True, False, Null
<1>8. Truth(M # {}) = IF M # {} THEN True ELSE False
  BY DEF Truth
<1> HIDE DEF values, rows, vs, S, M
<1>9. CASE S = {Null} /\ rows = {}
  <2>1. Truth(M # {}) = False
    BY <1>5, <1>8, <1>9
  <2>2. Answers(r, o, T) = {<<>>} /\ <<>> \in Answers(q, o, T)
    BY <1>2, <1>3, <1>9, <2>1, PlacedValues
  <2> QED BY <2>2 DEF Agrees
<1>10. ASSUME NEW b \in S, b \in {Null, True, False}, b = True <=> M # {}
       PROVE  Agrees(q, r, o, T)
  <2>1. Placed("filter", b) = Placed("filter", Truth(M # {}))
    BY <1>7, <1>8, <1>10, PlacedValues
  <2>2. Answers(r, o, T) \subseteq Answers(q, o, T)
    BY <1>2, <1>3, <2>1
  <2> QED BY <2>2 DEF Agrees
<1>11. CASE S = {MinOf(vs)}
  <2> DEFINE b == MinOf(vs)
  <2>1. (True \in vs => b = True) /\ (True \notin vs => b \in {Null, False})
    BY <1>1, FirstComparison
  <2>2. b \in S
    BY <1>11
  <2> HIDE DEF b
  <2>3. b \in {Null, True, False} /\ (b = True <=> M # {})
    BY <1>1, <1>7, <2>1
  <2> QED BY <1>10, <2>2, <2>3
<1>12. CASE S = vs /\ rows # {}
  <2>1. \E b \in vs : b = True <=> M # {}
    BY <1>1, <1>4, <1>12
  <2> QED BY <1>1, <1>10, <1>12, <2>1
<1>13. CASE S = {Error}
  <2>1. <<Error>> \in Answers(q, o, T)
    BY <1>2, <1>13, PlacedValues
  <2> QED BY <2>1 DEF Agrees
<1> QED BY <1>6, <1>9, <1>11, <1>12, <1>13

(* The greatest of some values is one of them. *)
LEMMA GreatestIsThere ==
  ASSUME NEW vs, vs \subseteq 0 .. 2, vs # {}
  PROVE  MaxOf(vs) \in vs
<1>1. CASE vs \subseteq {0}
  BY <1>1 DEF MaxOf, Null
<1>2. CASE ~(vs \subseteq {0})
  <2>1. MaxOf(vs) = Max(vs)
    BY <1>2 DEF MaxOf, Null
  <2>2. \A v \in vs : v = 0 \/ v = 1 \/ v = 2
    OBVIOUS
  <2>3. \E x \in vs : \A y \in vs : x >= y
    <3>1. CASE 2 \in vs
      BY <2>2, <3>1
    <3>2. CASE 2 \notin vs
      <4>1. 1 \in vs
        BY <1>2, <2>2, <3>2
      <4> QED BY <2>2, <3>2, <4>1
    <3> QED BY <3>1, <3>2
  <2> QED BY <2>1, <2>3 DEF Max
<1> QED BY <1>1, <1>2

(* What LIMIT 1 without an order becomes. *)
LEMMA LimitOneFields ==
  ASSUME NEW q, HasFields(q), q.form = "scalar", correlated_limit_one_projection(q)
  PROVE  LET r == rewrite_correlated_limit_one_subquery_to_max(q)
         IN  /\ HasFields(r) /\ r.form = "scalar" /\ r.proj = wrap_in_max(q.proj)
             /\ r.limit = FALSE /\ r.named = FALSE
             /\ r.pos = q.pos /\ r.preds = q.preds /\ r.on = q.on /\ r.ordered = q.ordered
             /\ r.qualified = q.qualified /\ r.known = q.known /\ r.inbody = q.inbody
<1> DEFINE no == FALSE
           p == wrap_in_max(q.proj)
           a == [q EXCEPT !.proj = p]
           b == [a EXCEPT !.limit = no]
           c == [b EXCEPT !.named = no]
<1>1. rewrite_correlated_limit_one_subquery_to_max(q) = c
  BY DEF rewrite_correlated_limit_one_subquery_to_max
<1> HIDE DEF no, p
<1>2. /\ HasFields(a) /\ a.form = q.form /\ a.proj = p /\ a.pos = q.pos /\ a.preds = q.preds
      /\ a.on = q.on /\ a.ordered = q.ordered /\ a.qualified = q.qualified
      /\ a.known = q.known /\ a.inbody = q.inbody
  BY ReplaceProj
<1> HIDE DEF a
<1>3. /\ HasFields(b) /\ b.form = a.form /\ b.proj = a.proj /\ b.pos = a.pos /\ b.preds = a.preds
      /\ b.on = a.on /\ b.ordered = a.ordered /\ b.qualified = a.qualified
      /\ b.known = a.known /\ b.inbody = a.inbody /\ b.limit = no
  BY <1>2, ReplaceLimit
<1> HIDE DEF b
<1>4. /\ HasFields(c) /\ c.form = b.form /\ c.proj = b.proj /\ c.pos = b.pos /\ c.preds = b.preds
      /\ c.on = b.on /\ c.ordered = b.ordered /\ c.qualified = b.qualified
      /\ c.known = b.known /\ c.inbody = b.inbody /\ c.limit = b.limit /\ c.named = no
  BY <1>3, ReplaceNamed
<1> HIDE DEF c
<1>5. /\ HasFields(c) /\ c.form = "scalar" /\ c.proj = p /\ c.limit = no /\ c.named = no
      /\ c.pos = q.pos /\ c.preds = q.preds /\ c.on = q.on /\ c.ordered = q.ordered
      /\ c.qualified = q.qualified /\ c.known = q.known /\ c.inbody = q.inbody
  BY <1>2, <1>3, <1>4
<1> QED BY <1>1, <1>5 DEF no, p

(* The aggregate's value is one that LIMIT 1 may leave. *)
LEMMA WrappedValue ==
  ASSUME NEW q, q.proj \in {"col", "cmp", "outer"}, q.limit, ~q.ordered,
         NEW o \in OuterRows, NEW T \in Relations
  PROVE  LET rows == Matching(q.preds, o, T)
         IN  \E x \in Single(q, Projected(q.proj, o, T, rows)) :
               Projected(wrap_in_max(q.proj), o, T, rows) = <<x>>
<1> DEFINE rows == Matching(q.preds, o, T)
           values == Projected(q.proj, o, T, rows)
<1>1. DOMAIN values = rows
  BY DEF Projected
<1>2. rows = {} => Single(q, values) = {Null}
  BY <1>1 DEF Single, IsEmpty, IsSingle
<1>3. rows # {} => Single(q, values) = Range(values)
  <2> SUFFICES ASSUME rows # {} PROVE Single(q, values) = Range(values)
    OBVIOUS
  <2>1. ~IsEmpty(values)
    BY <1>1 DEF IsEmpty
  <2> HIDE DEF values, rows
  <2> QED BY <2>1 DEF Single
<1>4. wrap_in_max(q.proj) \in Aggregates \ {"count", "count+1"}
  BY DEF wrap_in_max, Aggregates
<1>5. CASE rows = {}
  <2>1. Projected(wrap_in_max(q.proj), o, T, rows) = <<Null>>
    BY <1>4, <1>5, AggregateOfNothing
  <2> QED BY <1>2, <1>5, <2>1
<1>6. CASE rows # {}
  <2>1. CASE q.proj = "col"
    <3> DEFINE vs == {T[i].v : i \in rows}
    <3>1. Projected(wrap_in_max(q.proj), o, T, rows) = <<MaxOf(vs)>>
      BY <2>1 DEF wrap_in_max, Projected
    <3>2. Range(values) = vs
      BY <2>1 DEF Projected, Range
    <3>3. vs \subseteq 0 .. 2
      BY SmallRows DEF Matching
    <3>4. vs # {}
      BY <1>6
    <3> HIDE DEF vs
    <3>5. MaxOf(vs) \in vs
      BY <3>3, <3>4, GreatestIsThere
    <3> QED BY <1>3, <1>6, <3>1, <3>2, <3>5
  <2>2. CASE q.proj = "cmp"
    <3> DEFINE bs == {Eq(T[i].v, 1) : i \in rows}
               x == IF True \in bs THEN True ELSE IF False \in bs THEN False ELSE Null
    <3>1. Projected(wrap_in_max(q.proj), o, T, rows) = <<x>>
      BY <2>2 DEF wrap_in_max, Projected
    <3>2. Range(values) = bs
      BY <2>2 DEF Projected, Range
    <3>3. bs \subseteq {Null, True, False}
      BY <2>2, <3>2, ComparedValues
    <3>4. bs # {}
      BY <1>6
    <3> HIDE DEF bs
    <3>5. x \in bs
      BY <3>3, <3>4
    <3> QED BY <1>3, <1>6, <3>1, <3>2, <3>5
  <2>3. CASE q.proj = "outer"
    <3>1. Projected(wrap_in_max(q.proj), o, T, rows) = <<o.k>>
      BY <1>6, <2>3 DEF wrap_in_max, Projected
    <3>2. Range(values) = {o.k}
      BY <1>6, <2>3 DEF Projected, Range
    <3> QED BY <1>3, <1>6, <3>1, <3>2
  <2> QED BY <2>1, <2>2, <2>3
<1> QED BY <1>5, <1>6

(* One row is its value. *)
LEMMA OneValue ==
  ASSUME NEW q, q.limit = FALSE, NEW x
  PROVE  Single(q, <<x>>) = {x} /\ IsSingle(<<x>>) /\ Range(<<x>>) = {x}
<1> DEFINE values == <<x>>
<1>1. DOMAIN values = {1} /\ Range(values) = {x}
  BY DEF Range
<1> HIDE DEF values
<1>2. ~IsEmpty(values) /\ IsSingle(values)
  BY <1>1 DEF IsEmpty, IsSingle
<1>3. Single(q, values) = {x}
  BY <1>1, <1>2 DEF Single
<1> QED BY <1>1, <1>2, <1>3 DEF values

(* LIMIT 1 as an aggregate answers what LIMIT 1 may answer. *)
LEMMA LimitOneAnswers ==
  ASSUME NEW q, IsSubquery(q), q.form = "scalar", correlated_limit_one_projection(q),
         NEW o \in OuterRows, NEW T \in Relations
  PROVE  Answers(rewrite_correlated_limit_one_subquery_to_max(q), o, T) \subseteq Answers(q, o, T)
<1> DEFINE r == rewrite_correlated_limit_one_subquery_to_max(q)
           rows == Matching(q.preds, o, T)
           values == Projected(q.proj, o, T, rows)
<1>1. /\ r.form = "scalar" /\ r.proj = wrap_in_max(q.proj) /\ r.limit = FALSE
      /\ r.pos = q.pos /\ r.preds = q.preds
  BY LimitOneFields DEF IsSubquery
<1> HIDE DEF r
<1>2. q.proj \in {"col", "cmp", "outer"} /\ q.limit /\ ~q.ordered
  BY DEF IsSubquery, correlated_limit_one_projection, contains_aggregate_call, Aggregates,
       limits_to_one_row_unordered
<1>3. PICK x \in Single(q, values) : Projected(wrap_in_max(q.proj), o, T, rows) = <<x>>
  BY <1>2, WrappedValue
<1>4. Answers(r, o, T) = {Placed(q.pos, b) : b \in Single(r, <<x>>)}
  BY <1>1, <1>3 DEF Answers
<1>5. Single(r, <<x>>) = {x}
  BY <1>1, OneValue
<1>6. Answers(q, o, T) = {Placed(q.pos, b) : b \in Single(q, values)}
  BY DEF Answers
<1> HIDE DEF values
<1>7. Answers(r, o, T) \subseteq Answers(q, o, T)
  BY <1>3, <1>4, <1>5, <1>6
<1> QED BY <1>7 DEF r

(* A comparison in a filter becomes a count of the rows it is true for. *)
LEMMA BooleanFields ==
  ASSUME NEW q, HasFields(q), q.form = "scalar", q.proj = "cmp", ~q.grouped, ~q.distinct
  PROVE  LET r == rewrite_exists_to_count(rewrite_boolean_scalar_subquery_to_exists(q))
         IN  /\ r.form = "count" /\ r.pos = q.pos /\ r.neg = q.neg
             /\ r.preds = q.preds \cup {"v=1"}
<1> DEFINE exists == "exists"
           one == "one"
           count == "count"
           no == FALSE
           P == q.preds \cup {"v=1"}
           a == [q EXCEPT !.form = exists]
           b == [a EXCEPT !.proj = one]
           c == [b EXCEPT !.preds = P]
           d == [c EXCEPT !.form = count]
           e == [d EXCEPT !.proj = count]
           f == [e EXCEPT !.distinct = no]
<1>1. rewrite_boolean_scalar_subquery_to_exists(q) = c
  BY DEF rewrite_boolean_scalar_subquery_to_exists, is_boolean_comparison
<1> HIDE DEF exists, one, P, no
<1>2. HasFields(a) /\ a.form = exists /\ a.pos = q.pos /\ a.neg = q.neg /\ a.grouped = q.grouped
  BY ReplaceForm
<1> HIDE DEF a
<1>3. HasFields(b) /\ b.form = exists /\ b.pos = q.pos /\ b.neg = q.neg /\ b.grouped = q.grouped
  BY <1>2, ReplaceProj
<1> HIDE DEF b
<1>4. /\ HasFields(c) /\ c.form = exists /\ c.pos = q.pos /\ c.neg = q.neg
      /\ c.grouped = q.grouped /\ c.preds = P
  BY <1>3, ReplacePreds
<1> HIDE DEF c
<1>5. rewrite_exists_to_count(c) = f
  BY <1>4 DEF rewrite_exists_to_count, exists, no
<1> HIDE DEF count
<1>6. HasFields(d) /\ d.form = count /\ d.pos = q.pos /\ d.neg = q.neg /\ d.preds = P
  BY <1>4, ReplaceForm
<1> HIDE DEF d
<1>7. HasFields(e) /\ e.form = count /\ e.pos = q.pos /\ e.neg = q.neg /\ e.preds = P
  BY <1>6, ReplaceProj
<1> HIDE DEF e
<1>8. f.form = count /\ f.pos = q.pos /\ f.neg = q.neg /\ f.preds = P
  BY <1>7, ReplaceDistinct
<1> HIDE DEF f
<1> QED BY <1>1, <1>5, <1>8 DEF count, P

(* A scalar in a filter, through all the passes. *)
LEMMA FilterAgrees ==
  ASSUME NEW q, IsSubquery(q), q.form = "scalar", q.pos = "filter",
         NEW o \in OuterRows, NEW T \in Relations
  PROVE  Agrees(q, LastSubquery(q), o, T)
<1> DEFINE r == subquery_before_filters(q)
           b == rewrite_boolean_scalar_subquery_to_exists(r)
           c == rewrite_exists_to_count(b)
<1>0. /\ HasFields(q) /\ q.limit \in BOOLEAN /\ q.ordered \in BOOLEAN /\ ~q.neg
      /\ q.grouped \in BOOLEAN /\ q.distinct \in BOOLEAN
  BY DEF IsSubquery
<1>1. CASE correlated_limit_one_projection(q)
  <2>1. r = rewrite_correlated_limit_one_subquery_to_max(q)
    BY DEF subquery_before_filters
  <2>2. r.form = "scalar" /\ r.pos = "filter" /\ r.proj = wrap_in_max(q.proj)
    BY <1>0, <1>1, <2>1, LimitOneFields
  <2>3. q.proj \in {"col", "cmp", "outer"}
    BY <1>1 DEF IsSubquery, correlated_limit_one_projection, contains_aggregate_call, Aggregates
  <2>4. wrap_in_max(q.proj) # "cmp"
    BY <2>3 DEF wrap_in_max
  <2> HIDE DEF r
  <2>5. LastSubquery(q) = r
    BY <2>2, <2>4, UntouchedForms DEF LastSubquery, subquery_in_filters, subquery_after_filters, r
  <2>6. Answers(r, o, T) \subseteq Answers(q, o, T)
    BY <1>1, <2>1, LimitOneAnswers
  <2> QED BY <2>5, <2>6 DEF Agrees
<1>2. CASE ~correlated_limit_one_projection(q)
  <2>1. r = q
    BY <1>2 DEF subquery_before_filters, rewrite_correlated_limit_one_subquery_to_max
  <2>2. subquery_in_filters(q) = q
    BY UntouchedForms DEF subquery_in_filters
  <2> HIDE DEF r
  <2>3. CASE q.proj = "cmp" /\ ~q.grouped /\ ~q.distinct
    <3>1. c.form = "count" /\ c.pos = "filter" /\ ~c.neg /\ c.preds = q.preds \cup {"v=1"}
      BY <1>0, <2>1, <2>3, BooleanFields
    <3> HIDE DEF c
    <3>2. rewrite_tuple_in_subquery_to_exists(c) = c
      BY <3>1, UntouchedForms
    <3>3. LastSubquery(q) = c
      BY <2>1, <2>2, <3>2 DEF LastSubquery, subquery_after_filters, r, c
    <3>4. Agrees(q, c, o, T)
      BY <1>0, <2>3, <3>1, BooleanAgrees
    <3> QED BY <3>3, <3>4
  <2>4. CASE ~(q.proj = "cmp" /\ ~q.grouped /\ ~q.distinct)
    <3>1. rewrite_boolean_scalar_subquery_to_exists(q) = q
      BY <2>4 DEF rewrite_boolean_scalar_subquery_to_exists, is_boolean_comparison
    <3>2. rewrite_exists_to_count(q) = q /\ rewrite_tuple_in_subquery_to_exists(q) = q
      BY UntouchedForms
    <3>3. LastSubquery(q) = q
      BY <2>1, <2>2, <3>1, <3>2 DEF LastSubquery, subquery_after_filters, r
    <3> QED BY <3>3, AgreesWithItself
  <2> QED BY <2>3, <2>4
<1> QED BY <1>1, <1>2

(* The stages keep the rows a predicate keeps. *)
LEMMA PredicateStages == StageInv => PredicatesKeepTheirRows
<1> DEFINE q == asked.sub
<1> SUFFICES ASSUME StageInv, outcome = "answered", ClaimedPredicate(q)
             PROVE  IF q.form = "tuplein" /\ (q.neg <=> q.pos = "filter")
                    THEN FaithfulWithoutNulls(q, stmt.sub) ELSE Faithful(q, stmt.sub)
  BY DEF PredicatesKeepTheirRows
<1>1. IsSubquery(q) /\ stmt.sub = LastSubquery(q)
  BY SubqueryStages
<1>2. HasFields(q) /\ q.form \in {"scalar", "exists", "tuplein"} /\ q.pos # "projection"
  BY <1>1 DEF IsSubquery, ClaimedPredicate
<1>3. q.form # "scalar" => subquery_in_filters(subquery_before_filters(q)) = q
  <2>1. q.form # "lateral"
    BY <1>2
  <2> QED BY <2>1, UntouchedForms DEF subquery_in_filters, subquery_before_filters
<1>4. CASE q.form = "exists"
  <2> DEFINE r == rewrite_exists_to_count(q)
  <2>1. r.form # "tuplein"
    <3>1. r = q \/ r = [q EXCEPT !.form = "count", !.proj = "count", !.distinct = FALSE]
      BY DEF rewrite_exists_to_count
    <3>2. [q EXCEPT !.form = "count", !.proj = "count", !.distinct = FALSE].form = "count"
      BY <1>2 DEF HasFields
    <3> QED BY <1>4, <3>1, <3>2
  <2>2. LastSubquery(q) = r
    BY <1>3, <1>4, <2>1, UntouchedForms DEF LastSubquery, subquery_after_filters
  <2>3. q.proj = "one"
    BY <1>4 DEF ClaimedPredicate
  <2>4. \A o \in OuterRows, T \in Relations : Agrees(q, r, o, T)
    BY <1>2, <1>4, <2>3, ExistsAgrees
  <2> QED BY <1>1, <1>4, <2>2, <2>4 DEF Faithful
<1>5. CASE q.form = "tuplein"
  <2> DEFINE r == rewrite_tuple_in_subquery_to_exists(q)
  <2>1. LastSubquery(q) = r
    BY <1>3, <1>5, UntouchedForms DEF LastSubquery, subquery_after_filters
  <2>2. \A o \in OuterRows, T \in Relations :
          ~(q.neg <=> q.pos = "filter") \/ NullFree(o, T) => Agrees(q, r, o, T)
    BY <1>1, <1>2, <1>5, TupleAgrees
  <2> HIDE DEF r
  <2> QED BY <1>1, <1>5, <2>1, <2>2 DEF Faithful, FaithfulWithoutNulls
<1>6. CASE q.form = "scalar"
  <2>1. q.pos = "filter"
    BY <1>6 DEF ClaimedPredicate
  <2>2. \A o \in OuterRows, T \in Relations : Agrees(q, LastSubquery(q), o, T)
    BY <1>1, <1>6, <2>1, FilterAgrees
  <2> QED BY <1>1, <1>6, <2>2 DEF Faithful
<1> QED BY <1>2, <1>4, <1>5, <1>6

(***************************************************************************)
(* A predicate keeps exactly the outer rows it kept: EXISTS as a count, a  *)
(* boolean scalar as EXISTS, a tuple IN as EXISTS                          *)
(* (rewrite_boolean_scalar_subquery_to_exists, rewrite_exists_to_count,    *)
(* rewrite_tuple_in_subquery_to_exists).                                   *)
(***************************************************************************)
THEOREM PredicatesSameRows == Spec => []PredicatesKeepTheirRows
BY Stages, PredicateStages, PTL

---------------------------------------------------------------------------
(* Lifted scalars.                                                         *)

(* A scalar of the SELECT list as it reaches rewrite_scalar_subqueries_to_   *)
(* ctes, its outer columns qualified: a LIMIT is left on aggregates and on   *)
(* sub-queries that read nothing of the outer row.                           *)
OfOuter == {"k=k", "v=w", "w=1"}
Joins(s) == s.preds \cap OfOuter

Liftable(s) ==
    /\ HasFields(s) /\ s.form = "scalar" /\ s.pos = "projection"
    /\ s.qualified /\ ~s.named /\ s.limit \in BOOLEAN /\ s.ordered \in BOOLEAN
    /\ s.proj \in {"col", "cmp", "outer", "max", "maxcmp", "maxouter", "count"}
    /\ s.preds \subseteq OfOuter \cup {"v=1"}
    /\ s.limit => ~s.ordered /\ (s.proj \in Aggregates \/ Joins(s) = {})

Moved(s) == IF "k=k" \notin s.preds THEN s.proj
            ELSE IF s.proj = "outer" THEN "key"
            ELSE IF s.proj = "maxouter" THEN "maxkey" ELSE s.proj

(* What is lifted: the conjuncts about the outer row join it. *)
LEMMA LiftedFields ==
  ASSUME NEW s, Liftable(s), analyse_scalar(s)
  PROVE  LET c == cleaned_subquery(s)
         IN  /\ c.form = "cte" /\ c.on = Joins(s) /\ c.preds = s.preds \ Joins(s)
             /\ c.proj = Moved(s) /\ Moved(s) \notin {"outer", "maxouter"}
             /\ c.limit = s.limit /\ c.named = s.named /\ c.ordered = s.ordered
<1> DEFINE J == collect_corr_preds(s) \cup outer_only(s)
           B == strip_corr_filters(s)
           p == replace_outer_refs(s)
           cte == "cte"
           a == [s EXCEPT !.form = cte]
           b == [a EXCEPT !.on = J]
           d == [b EXCEPT !.preds = B]
           c == [d EXCEPT !.proj = p]
<1>1. cleaned_subquery(s) = c
  BY DEF cleaned_subquery
<1>2. J = Joins(s) /\ B = s.preds \ Joins(s)
  <2>1. collect_corr_preds(s) = s.preds \cap {"k=k", "v=w"} /\ outer_only(s) = s.preds \cap {"w=1"}
    BY DEF collect_corr_preds, outer_only, Liftable, OfOuter, Correlations
  <2> QED BY <2>1 DEF strip_corr_filters, Joins, OfOuter
<1>3. p = Moved(s)
  <2>1. collect_corr_preds(s) \cap {"k=k", "k<k"} = {} <=> "k=k" \notin s.preds
    BY DEF collect_corr_preds, Liftable, OfOuter, Correlations
  <2> QED BY <2>1 DEF replace_outer_refs, Moved, Liftable
<1>4. HasFields(s)
  BY DEF Liftable
<1> HIDE DEF J, B, p, cte
<1>5. HasFields(a) /\ a.form = cte /\ a.limit = s.limit /\ a.named = s.named /\ a.ordered = s.ordered
  BY <1>4, ReplaceForm
<1> HIDE DEF a
<1>6. /\ HasFields(b) /\ b.form = cte /\ b.limit = s.limit /\ b.named = s.named
      /\ b.ordered = s.ordered /\ b.on = J
  BY <1>5, ReplaceOn
<1> HIDE DEF b
<1>7. /\ HasFields(d) /\ d.form = cte /\ d.limit = s.limit /\ d.named = s.named
      /\ d.ordered = s.ordered /\ d.on = J /\ d.preds = B
  BY <1>6, ReplacePreds
<1> HIDE DEF d
<1>8. /\ c.form = cte /\ c.limit = s.limit /\ c.named = s.named
      /\ c.ordered = s.ordered /\ c.on = J /\ c.preds = B /\ c.proj = p
  BY <1>7, ReplaceProj
<1> HIDE DEF c
<1>9. p \notin {"outer", "maxouter"}
  BY <1>1, <1>8 DEF analyse_scalar, unresolved_outer_aliases, Liftable
<1> QED BY <1>1, <1>2, <1>3, <1>8, <1>9 DEF cte

(* The body and the join condition match together what the sub-query did. *)
LEMMA LiftedRows ==
  ASSUME NEW s, NEW o, NEW T
  PROVE  /\ Matching(s.preds \ Joins(s), o, T) \cap Matching(Joins(s), o, T)
              = Matching(s.preds, o, T)
         /\ Matching(s.preds, o, T) \subseteq DOMAIN T
BY DEF Matching, Joins

(* A row that matches has the outer row's key, where they are compared. *)
LEMMA JoinedRow ==
  ASSUME NEW o \in OuterRows, NEW T \in Relations, NEW P, NEW i \in DOMAIN T
  PROVE  /\ "k=k" \in P /\ i \in Matching(P, o, T) => T[i].k = o.k
         /\ "v=w" \in P /\ i \in Matching(P, o, T) => T[i].v = o.w /\ o.w # 0
         /\ T[i].k = o.k => Holds("k=k", o, T[i])
         /\ T[i].v = o.w /\ o.w # 0 => Holds("v=w", o, T[i])
<1>1. /\ T[i].k \in 1 .. 2 /\ o.k \in 1 .. 2 /\ T[i].v \in 0 .. 2 /\ o.w \in 0 .. 2
  BY SmallRows
<1>2. /\ T[i].k \in Nat /\ o.k \in Nat /\ T[i].v \in Nat /\ o.w \in Nat /\ o.k # 0
  BY <1>1
<1>3. /\ Holds("k=k", o, T[i]) <=> Eq(T[i].k, o.k) = True
      /\ Holds("v=w", o, T[i]) <=> Eq(T[i].v, o.w) = True
  BY DEF Holds
<1>4. /\ Eq(T[i].k, o.k) = True <=> T[i].k = o.k /\ T[i].k # 0
      /\ Eq(T[i].v, o.w) = True <=> T[i].v = o.w /\ T[i].v # 0
  BY <1>2, Equality
<1>5. ASSUME NEW p \in P, i \in Matching(P, o, T) PROVE Holds(p, o, T[i])
  BY <1>5 DEF Matching
<1> QED BY <1>2, <1>3, <1>4, <1>5

(* Moving a reference from the outer key to the inner one changes nothing. *)
LEMMA MovedValues ==
  ASSUME NEW s, Liftable(s), NEW o \in OuterRows, NEW T \in Relations
  PROVE  LET rows == Matching(s.preds, o, T)
         IN  Projected(Moved(s), o, T, rows) = Projected(s.proj, o, T, rows)
<1> DEFINE rows == Matching(s.preds, o, T)
<1>1. CASE Moved(s) = s.proj
  BY <1>1
<1>2. CASE Moved(s) # s.proj
  <2>1. "k=k" \in s.preds
    BY <1>2 DEF Moved
  <2>2. ASSUME NEW i \in rows PROVE T[i].k = o.k
    <3>1. i \in DOMAIN T
      BY LiftedRows
    <3> QED BY <2>1, <3>1, JoinedRow
  <2> HIDE DEF rows
  <2>3. CASE s.proj = "outer"
    <3>1. Moved(s) = "key"
      BY <2>1, <2>3 DEF Moved
    <3>2. [i \in rows |-> T[i].k] = [i \in rows |-> o.k]
      BY <2>2
    <3>3. /\ Projected("key", o, T, rows) = [i \in rows |-> T[i].k]
          /\ Projected("outer", o, T, rows) = [i \in rows |-> o.k]
      BY DEF Projected
    <3> QED BY <2>3, <3>1, <3>2, <3>3 DEF rows
  <2>4. CASE s.proj = "maxouter"
    <3>1. Moved(s) = "maxkey"
      BY <2>1, <2>4 DEF Moved
    <3> DEFINE ks == {T[i].k : i \in rows}
    <3>2. /\ Projected("maxkey", o, T, rows) = <<MaxOf(ks)>>
          /\ Projected("maxouter", o, T, rows) = <<IF rows = {} THEN Null ELSE o.k>>
      BY DEF Projected
    <3>3. MaxOf(ks) = IF rows = {} THEN Null ELSE o.k
      <4>1. CASE rows = {}
        <5>1. ks \subseteq {Null}
          BY <4>1
        <5> QED BY <4>1, <5>1 DEF MaxOf
      <4>2. CASE rows # {}
        <5>1. ks = {o.k}
          BY <2>2, <4>2
        <5>2. ks \subseteq 0 .. 2
          <6>1. o.k \in 1 .. 2
            BY SmallRows
          <6> QED BY <5>1, <6>1
        <5> HIDE DEF ks
        <5>3. MaxOf(ks) \in ks
          BY <5>1, <5>2, GreatestIsThere
        <5> QED BY <4>2, <5>1, <5>3
      <4> QED BY <4>1, <4>2
    <3> HIDE DEF ks
    <3> QED BY <2>4, <3>1, <3>2, <3>3 DEF rows
  <2> QED BY <1>2, <2>3, <2>4 DEF Moved
<1> QED BY <1>1, <1>2

(* An aggregate is one value; over no rows it is NULL, or zero for a count. *)
LEMMA AggregateValue ==
  ASSUME NEW p \in Aggregates \ {"count+1"}, NEW o, NEW T, NEW rows
  PROVE  \E x : /\ Projected(p, o, T, rows) = <<x>>
                /\ rows = {} => x = IF p = "count" THEN 0 ELSE Null
<1>1. CASE p = "count"
  <2>1. Projected(p, o, T, rows) = <<Cardinality(rows)>>
    BY <1>1 DEF Projected
  <2>2. rows = {} => Cardinality(rows) = 0
    BY FS_EmptySet
  <2> QED BY <1>1, <2>1, <2>2
<1>2. CASE p # "count"
  <2>1. \E x : Projected(p, o, T, rows) = <<x>>
    BY <1>2 DEF Projected, Aggregates
  <2>2. rows = {} => Projected(p, o, T, rows) = <<Null>>
    BY <1>2, AggregateOfNothing
  <2>3. PICK x : Projected(p, o, T, rows) = <<x>>
    BY <2>1
  <2>4. rows = {} => x = Null
    BY <2>2, <2>3
  <2> QED BY <1>2, <2>3, <2>4
<1> QED BY <1>1, <1>2

(* What a scalar of the SELECT list answers. *)
LEMMA ScalarAnswers ==
  ASSUME NEW s, s.form = "scalar", s.pos = "projection", NEW o, NEW T
  PROVE  Answers(s, o, T)
           = {<<b>> : b \in Single(s, Projected(s.proj, o, T, Matching(s.preds, o, T)))}
<1> DEFINE S == Single(s, Projected(s.proj, o, T, Matching(s.preds, o, T)))
<1>1. Answers(s, o, T) = {Placed("projection", b) : b \in S}
  BY DEF Answers
<1>2. \A b : Placed("projection", b) = <<b>>
  BY DEF Placed
<1> HIDE DEF S
<1>3. Answers(s, o, T) = {<<b>> : b \in S}
  BY <1>1, <1>2
<1> QED BY <1>3 DEF S

(* A scalar of one value answers it, with LIMIT 1 or without. *)
LEMMA ScalarOfOne ==
  ASSUME NEW s, Liftable(s), NEW x
  PROVE  Single(s, <<x>>) = {x}
<1> DEFINE values == <<x>>
<1>1. DOMAIN values = {1} /\ Range(values) = {x}
  BY DEF Range
<1>2. s.limit => ~s.ordered
  BY DEF Liftable
<1> HIDE DEF values
<1>3. ~IsEmpty(values) /\ IsSingle(values)
  BY <1>1 DEF IsEmpty, IsSingle
<1>4. Single(s, values) = {x}
  <2>1. CASE s.limit
    BY <1>1, <1>2, <1>3, <2>1 DEF Single
  <2>2. CASE ~s.limit
    BY <1>1, <1>3, <2>2 DEF Single
  <2> QED BY <2>1, <2>2
<1> QED BY <1>4 DEF values

(* What is in scope of the lifted body, and its answers by their number. *)
LEMMA LiftedAnswers ==
  ASSUME NEW s, Liftable(s), analyse_scalar(s), NEW o, NEW U
  PROVE  LET c == cleaned_subquery(s)
             rows == CteRows(c, o, U)
         IN  /\ IsEmpty(rows) => CteAnswers(c, o, U) = {<<IF s.proj = "count" THEN 0 ELSE Null>>}
             /\ IsSingle(rows) => CteAnswers(c, o, U) = {<<v>> : v \in Range(rows)}
<1> DEFINE c == cleaned_subquery(s)
           rows == CteRows(c, o, U)
<1>1. /\ c.preds = s.preds \ Joins(s) /\ c.proj = Moved(s) /\ c.named = s.named
      /\ Moved(s) \notin {"outer", "maxouter"}
  BY LiftedFields
<1>2. c.preds \cap (Correlations \cup {"w=1"}) = {}
  BY <1>1 DEF Liftable, Joins, OfOuter, Correlations
<1>3. ~(c.preds \cap (Correlations \cup {"w=1"}) # {} \/ c.named \/ c.proj \in {"outer", "maxouter"})
  BY <1>1, <1>2 DEF Liftable
<1>4. c.proj = "count" <=> s.proj = "count"
  BY <1>1 DEF Moved
<1> HIDE DEF c
<1>5. IsSingle(rows) => ~IsEmpty(rows)
  BY DEF IsSingle
<1>6. IsEmpty(rows) => CteAnswers(c, o, U) = {<<IF c.proj = "count" THEN 0 ELSE Null>>}
  BY <1>3 DEF CteAnswers, IsSingle
<1>7. IsSingle(rows) => CteAnswers(c, o, U) = {<<v>> : v \in Range(rows)}
  BY <1>3, <1>5 DEF CteAnswers
<1> QED BY <1>4, <1>6, <1>7 DEF c

(* A lifted sub-query that does not aggregate, without a LIMIT. *)
LEMMA PlainLiftAgrees ==
  ASSUME NEW s, Liftable(s), analyse_scalar(s), s.proj \notin Aggregates, ~s.limit,
         NEW o \in OuterRows, NEW T \in Relations
  PROVE  Agrees(s, cleaned_subquery(s), o, T)
<1> DEFINE c == cleaned_subquery(s)
           rows == Matching(s.preds, o, T)
           values == Projected(s.proj, o, T, rows)
<1>1. /\ c.form = "cte" /\ c.on = Joins(s) /\ c.preds = s.preds \ Joins(s)
      /\ c.proj = Moved(s) /\ c.limit = s.limit
  BY LiftedFields
<1>2. Moved(s) \notin Aggregates
  BY DEF Moved, Aggregates, Liftable
<1>3. /\ IsEmpty(CteRows(c, o, T)) =>
           CteAnswers(c, o, T) = {<<IF s.proj = "count" THEN 0 ELSE Null>>}
      /\ IsSingle(CteRows(c, o, T)) =>
           CteAnswers(c, o, T) = {<<v>> : v \in Range(CteRows(c, o, T))}
  BY LiftedAnswers
<1> HIDE DEF c
<1>4. CteRows(c, o, T) = values
  <2>1. CteRows(c, o, T) = Projected(Moved(s), o, T, Matching(s.preds \ Joins(s), o, T)
                                                       \cap Matching(Joins(s), o, T))
    BY <1>1, <1>2 DEF CteRows
  <2> QED BY <2>1, LiftedRows, MovedValues
<1>5. Answers(c, o, T) = CteAnswers(c, o, T)
  <2>1. CteInputs(c, o, T) = {T}
    BY <1>1 DEF CteInputs
  <2>2. Answers(c, o, T) = UNION {CteAnswers(c, o, body) : body \in CteInputs(c, o, T)}
    BY <1>1 DEF Answers
  <2> QED BY <2>1, <2>2
<1>6. Answers(s, o, T) = {<<b>> : b \in Single(s, values)}
  BY ScalarAnswers DEF Liftable
<1> HIDE DEF values
<1>7. CASE IsEmpty(values)
  <2>1. Single(s, values) = {Null}
    BY <1>7 DEF Single, IsSingle
  <2>2. s.proj # "count"
    BY DEF Aggregates
  <2>3. CteAnswers(c, o, T) = {<<Null>>}
    BY <1>3, <1>4, <1>7, <2>2
  <2> QED BY <1>5, <1>6, <2>1, <2>3 DEF Agrees, c
<1>8. CASE IsSingle(values)
  <2>1. Single(s, values) = Range(values)
    BY <1>8 DEF Single, IsSingle
  <2>2. CteAnswers(c, o, T) = {<<v>> : v \in Range(values)}
    BY <1>3, <1>4, <1>8
  <2> QED BY <1>5, <1>6, <2>1, <2>2 DEF Agrees, c
<1>9. CASE ~IsEmpty(values) /\ ~IsSingle(values)
  <2>1. Single(s, values) = {Error}
    BY <1>9 DEF Single
  <2>2. <<Error>> \in Answers(s, o, T)
    BY <1>6, <2>1
  <2> QED BY <2>2 DEF Agrees
<1> QED BY <1>7, <1>8, <1>9

(* A group of the lifted body that joins the outer row is the rows of it. *)
LEMMA JoinedGroup ==
  ASSUME NEW s, Liftable(s), NEW o \in OuterRows, NEW T \in Relations,
         NEW i \in Matching(s.preds, o, T)
  PROVE  LET J == Joins(s)
             body == Matching(s.preds \ J, o, T)
             key(j) == <<IF J \cap {"k=k", "k<k"} # {} THEN T[j].k ELSE 0,
                         IF "v=w" \in J THEN T[j].v ELSE 0>>
         IN  {j \in body : key(j) = key(i)} = Matching(s.preds, o, T)
<1> DEFINE J == Joins(s)
           body == Matching(s.preds \ J, o, T)
           rows == Matching(s.preds, o, T)
           K(j) == IF J \cap {"k=k", "k<k"} # {} THEN T[j].k ELSE 0
           W(j) == IF "v=w" \in J THEN T[j].v ELSE 0
<1>1. J \cap {"k=k", "k<k"} # {} <=> "k=k" \in J
  BY DEF Joins, OfOuter
<1>2. J \subseteq {"k=k", "v=w", "w=1"} /\ J \subseteq s.preds
  BY DEF Joins, OfOuter
<1>3. ASSUME NEW j \in rows PROVE K(j) = K(i) /\ W(j) = W(i) /\ j \in body
  <2>1. i \in DOMAIN T /\ j \in DOMAIN T /\ j \in body
    BY LiftedRows
  <2>2. "k=k" \in J => T[j].k = o.k /\ T[i].k = o.k
    BY <1>2, <2>1, JoinedRow
  <2>3. "v=w" \in J => T[j].v = o.w /\ T[i].v = o.w
    BY <1>2, <2>1, JoinedRow
  <2> QED BY <1>1, <2>1, <2>2, <2>3
<1>4. ASSUME NEW j \in body, K(j) = K(i), W(j) = W(i) PROVE j \in rows
  <2>1. j \in DOMAIN T /\ i \in DOMAIN T
    BY LiftedRows DEF Matching
  <2>2. "k=k" \in J => Holds("k=k", o, T[j])
    <3> SUFFICES ASSUME "k=k" \in J PROVE Holds("k=k", o, T[j])
      OBVIOUS
    <3>1. T[i].k = o.k
      BY <1>2, <2>1, JoinedRow
    <3>2. T[j].k = o.k
      BY <1>1, <1>4, <3>1
    <3> QED BY <2>1, <3>2, JoinedRow
  <2>3. "v=w" \in J => Holds("v=w", o, T[j])
    <3> SUFFICES ASSUME "v=w" \in J PROVE Holds("v=w", o, T[j])
      OBVIOUS
    <3>1. T[i].v = o.w /\ o.w # 0
      BY <1>2, <2>1, JoinedRow
    <3>2. T[j].v = o.w
      BY <1>4, <3>1
    <3> QED BY <2>1, <3>1, <3>2, JoinedRow
  <2>4. "w=1" \in J => Holds("w=1", o, T[j])
    <3> SUFFICES ASSUME "w=1" \in J PROVE Holds("w=1", o, T[j])
      OBVIOUS
    <3>1. Holds("w=1", o, T[i])
      BY <1>2 DEF Matching
    <3> QED BY <3>1 DEF Holds
  <2>5. \A p \in J : Holds(p, o, T[j])
    BY <1>2, <2>2, <2>3, <2>4
  <2>6. j \in Matching(J, o, T)
    BY <2>1, <2>5 DEF Matching
  <2> QED BY <2>6, LiftedRows
<1> HIDE DEF J, body, rows, K, W
<1>5. {j \in body : <<K(j), W(j)>> = <<K(i), W(i)>>} = rows
  BY <1>3, <1>4
<1> QED BY <1>5 DEF J, body, rows, K, W

(* A lifted aggregate. *)
LEMMA AggregateLiftAgrees ==
  ASSUME NEW s, Liftable(s), analyse_scalar(s), s.proj \in Aggregates,
         NEW o \in OuterRows, NEW T \in Relations
  PROVE  Agrees(s, cleaned_subquery(s), o, T)
<1> DEFINE c == cleaned_subquery(s)
           J == Joins(s)
           rows == Matching(s.preds, o, T)
           body == Matching(s.preds \ J, o, T)
           nil == IF s.proj = "count" THEN 0 ELSE Null
<1>1. /\ c.form = "cte" /\ c.on = J /\ c.preds = s.preds \ J /\ c.proj = Moved(s)
      /\ c.limit = s.limit
  BY LiftedFields
<1>2. /\ Moved(s) \in Aggregates \ {"count+1"} /\ s.proj \in Aggregates \ {"count+1"}
  BY DEF Moved, Aggregates, Liftable
<1>3. /\ IsEmpty(CteRows(c, o, T)) => CteAnswers(c, o, T) = {<<nil>>}
      /\ IsSingle(CteRows(c, o, T)) =>
           CteAnswers(c, o, T) = {<<v>> : v \in Range(CteRows(c, o, T))}
  BY LiftedAnswers
<1> HIDE DEF c
<1>4. PICK x : Projected(s.proj, o, T, rows) = <<x>> /\ (rows = {} => x = nil)
  BY <1>2, AggregateValue
<1>5. Answers(c, o, T) = CteAnswers(c, o, T)
  <2>1. CteInputs(c, o, T) = {T}
    BY <1>1, <1>2 DEF CteInputs
  <2>2. Answers(c, o, T) = UNION {CteAnswers(c, o, b) : b \in CteInputs(c, o, T)}
    BY <1>1 DEF Answers
  <2> QED BY <2>1, <2>2
<1>6. Answers(s, o, T) = {<<x>>}
  <2>1. Answers(s, o, T) = {<<b>> : b \in Single(s, <<x>>)}
    BY <1>4, ScalarAnswers DEF Liftable
  <2> QED BY <2>1, ScalarOfOne
<1>7. SUFFICES CteAnswers(c, o, T) = {<<x>>}
  BY <1>5, <1>6 DEF Agrees, c
<1>8. Projected(Moved(s), o, T, rows) = <<x>>
  BY <1>4, MovedValues
<1>9. body \cap Matching(J, o, T) = rows
  BY LiftedRows
<1>10. CASE J \cap Correlations # {}
  <2> DEFINE key(j) == <<IF J \cap {"k=k", "k<k"} # {} THEN T[j].k ELSE 0,
                         IF "v=w" \in J THEN T[j].v ELSE 0>>
             G == {key(j) : j \in rows}
             own(g) == {j \in body : key(j) = g}
             f == [g \in G |-> Projected(Moved(s), o, T, own(g))[1]]
  <2>1. CteRows(c, o, T) = f
    BY <1>1, <1>2, <1>9, <1>10 DEF CteRows
  <2>2. CASE rows = {}
    <3>1. G = {}
      BY <2>2
    <3>2. DOMAIN f = {}
      BY <3>1
    <3> HIDE DEF f
    <3> QED BY <1>3, <1>4, <2>1, <2>2, <3>2 DEF IsEmpty
  <2>3. CASE rows # {}
    <3>1. PICK i \in rows : TRUE
      BY <2>3
    <3>2. \A j \in rows : own(key(j)) = rows
      BY JoinedGroup
    <3> HIDE DEF own
    <3>3. \A j \in rows : key(j) = key(i)
      <4> SUFFICES ASSUME NEW j \in rows PROVE key(j) = key(i)
        OBVIOUS
      <4>1. j \in own(key(i))
        BY <3>1, <3>2
      <4> HIDE DEF key
      <4> QED BY <4>1 DEF own
    <3> HIDE DEF key
    <3>4. G = {key(i)}
      BY <3>1, <3>3
    <3>5. f[key(i)] = x
      <4>1. own(key(i)) = rows
        BY <3>1, <3>2
      <4>2. f[key(i)] = Projected(Moved(s), o, T, rows)[1]
        BY <3>4, <4>1
      <4> QED BY <1>8, <4>2
    <3>6. DOMAIN f = {key(i)}
      BY <3>4
    <3> HIDE DEF f
    <3>7. IsSingle(f) /\ Range(f) = {x}
      BY <3>5, <3>6 DEF IsSingle, IsEmpty, Range
    <3> QED BY <1>3, <2>1, <3>7
  <2> QED BY <2>2, <2>3
<1>11. CASE J \cap Correlations = {}
  <2>1. J \subseteq {"w=1"}
    BY <1>11 DEF Joins, OfOuter, Correlations
  <2>2. CteRows(c, o, T) = IF J # {} /\ o.w # 1 THEN <<>> ELSE Projected(Moved(s), o, T, body)
    BY <1>1, <1>2, <1>11 DEF CteRows
  <2>3. CASE J # {} /\ o.w # 1
    <3>1. rows = {}
      BY <2>1, <2>3 DEF Matching, Joins, Holds
    <3>2. IsEmpty(CteRows(c, o, T))
      BY <2>2, <2>3 DEF IsEmpty
    <3> QED BY <1>3, <1>4, <3>1, <3>2
  <2>4. CASE ~(J # {} /\ o.w # 1)
    <3>1. body = rows
      <4>1. \A j \in DOMAIN T : \A p \in J : Holds(p, o, T[j])
        BY <2>1, <2>4 DEF Holds
      <4>2. Matching(J, o, T) = DOMAIN T
        BY <4>1 DEF Matching
      <4>3. body \subseteq DOMAIN T
        BY DEF Matching
      <4> QED BY <1>9, <4>2, <4>3
    <3>2. CteRows(c, o, T) = <<x>>
      BY <1>8, <2>2, <2>4, <3>1
    <3>3. IsSingle(<<x>>) /\ Range(<<x>>) = {x}
      <4> DEFINE values == <<x>>
      <4>1. DOMAIN values = {1} /\ Range(values) = {x}
        BY DEF Range
      <4> HIDE DEF values
      <4>2. IsSingle(values)
        BY <4>1 DEF IsSingle, IsEmpty
      <4> QED BY <4>1, <4>2 DEF values
    <3> QED BY <1>3, <3>2, <3>3
  <2> QED BY <2>3, <2>4
<1> QED BY <1>10, <1>11

(* A lifted sub-query that reads nothing of the outer row keeps its LIMIT. *)
LEMMA LimitedLiftAgrees ==
  ASSUME NEW s, Liftable(s), analyse_scalar(s), s.proj \notin Aggregates, s.limit,
         NEW o \in OuterRows, NEW T \in Relations
  PROVE  Agrees(s, cleaned_subquery(s), o, T)
<1> DEFINE c == cleaned_subquery(s)
           rows == Matching(s.preds, o, T)
           values == Projected(s.proj, o, T, rows)
<1>0. Joins(s) = {} /\ ~s.ordered /\ "k=k" \notin s.preds
  BY DEF Liftable, Joins, OfOuter
<1>1. /\ c.form = "cte" /\ c.on = {} /\ c.preds = s.preds /\ c.proj = s.proj
      /\ c.limit = s.limit /\ c.ordered = s.ordered
      /\ s.proj \in {"col", "cmp"}
  <2>1. /\ c.form = "cte" /\ c.on = Joins(s) /\ c.preds = s.preds \ Joins(s)
        /\ c.proj = Moved(s) /\ c.limit = s.limit /\ c.ordered = s.ordered
        /\ Moved(s) \notin {"outer", "maxouter"}
    BY LiftedFields
  <2>2. Moved(s) = s.proj
    BY <1>0 DEF Moved
  <2>3. s.proj \in {"col", "cmp"}
    BY <2>1, <2>2 DEF Liftable, Aggregates
  <2> HIDE DEF c
  <2> QED BY <1>0, <2>1, <2>2, <2>3
<1>2. ASSUME NEW U
      PROVE  /\ IsEmpty(CteRows(c, o, U)) => CteAnswers(c, o, U) = {<<Null>>}
             /\ IsSingle(CteRows(c, o, U)) =>
                  CteAnswers(c, o, U) = {<<v>> : v \in Range(CteRows(c, o, U))}
  <2>1. s.proj # "count"
    BY <1>1
  <2> QED BY <2>1, LiftedAnswers
<1> HIDE DEF c
<1>3. ASSUME NEW U
      PROVE  CteRows(c, o, U) = Projected(s.proj, o, U, Matching(s.preds, o, U))
  <2>1. Matching({}, o, U) = DOMAIN U /\ Matching(s.preds, o, U) \subseteq DOMAIN U
    BY DEF Matching
  <2>2. Matching(s.preds, o, U) \cap Matching({}, o, U) = Matching(s.preds, o, U)
    BY <2>1
  <2>3. CteRows(c, o, U)
          = Projected(s.proj, o, U, Matching(s.preds, o, U) \cap Matching({}, o, U))
    BY <1>1 DEF CteRows, Aggregates
  <2> QED BY <2>2, <2>3
<1>4. Answers(c, o, T) = UNION {CteAnswers(c, o, b) : b \in CteInputs(c, o, T)}
  BY <1>1 DEF Answers
<1>5. Answers(s, o, T) = {<<b>> : b \in Single(s, values)}
  BY ScalarAnswers DEF Liftable
<1>6. DOMAIN values = rows
  BY <1>1 DEF Projected
<1>7. CASE rows = {}
  <2>1. CteInputs(c, o, T) = {T}
    BY <1>1, <1>7 DEF CteInputs
  <2>2. IsEmpty(values)
    BY <1>6, <1>7 DEF IsEmpty
  <2>3. CteRows(c, o, T) = values
    BY <1>3
  <2> HIDE DEF values
  <2>4. CteAnswers(c, o, T) = {<<Null>>}
    BY <1>2, <2>2, <2>3
  <2>5. Single(s, values) = {Null}
    BY <2>2 DEF Single, IsSingle
  <2>6. Answers(c, o, T) = CteAnswers(c, o, T)
    BY <1>4, <2>1
  <2> QED BY <1>5, <2>4, <2>5, <2>6 DEF Agrees, c
<1>8. CASE rows # {}
  <2>1. Single(s, values) = Range(values)
    <3>1. ~IsEmpty(values)
      BY <1>6, <1>8 DEF IsEmpty
    <3> HIDE DEF values
    <3> QED BY <1>0, <3>1 DEF Single
  <2>2. CteInputs(c, o, T) = {<<T[i]>> : i \in rows}
    <3>1. {j \in rows : c.ordered => T[j].v = MinOf({T[i].v : i \in rows})} = rows
      BY <1>0, <1>1
    <3> QED BY <1>1, <1>8, <3>1 DEF CteInputs, Aggregates
  <2>3. ASSUME NEW i \in rows PROVE CteAnswers(c, o, <<T[i]>>) = {<<values[i]>>}
    <3> DEFINE U == <<T[i]>>
               vs == Projected(s.proj, o, U, {1})
    <3>1. DOMAIN U = {1} /\ U[1] = T[i]
      OBVIOUS
    <3>2. \A p \in s.preds : Holds(p, o, T[i])
      BY DEF Matching
    <3>3. Matching(s.preds, o, U) = {1}
      <4> HIDE DEF U
      <4> QED BY <3>1, <3>2 DEF Matching
    <3>4. DOMAIN vs = {1} /\ vs[1] = values[i]
      <4> HIDE DEF U
      <4>1. CASE s.proj = "col"
        BY <3>1, <4>1 DEF Projected
      <4>2. CASE s.proj = "cmp"
        BY <3>1, <4>2 DEF Projected
      <4> QED BY <1>1, <4>1, <4>2
    <3>5. CteRows(c, o, U) = vs
      BY <1>3, <3>3
    <3> HIDE DEF U, vs, values
    <3>6. IsSingle(vs) /\ Range(vs) = {values[i]}
      BY <3>4 DEF IsSingle, IsEmpty, Range
    <3>7. CteAnswers(c, o, U) = {<<v>> : v \in Range(vs)}
      BY <1>2, <3>5, <3>6
    <3> QED BY <3>6, <3>7 DEF U
  <2>4. Range(values) = {values[i] : i \in rows}
    BY <1>6 DEF Range
  <2> HIDE DEF values, rows
  <2>5. ASSUME NEW a \in Answers(c, o, T) PROVE a \in Answers(s, o, T)
    <3>1. PICK b \in CteInputs(c, o, T) : a \in CteAnswers(c, o, b)
      BY <1>4
    <3>2. PICK i \in rows : b = <<T[i]>>
      BY <2>2, <3>1
    <3>3. a = <<values[i]>>
      BY <2>3, <3>1, <3>2
    <3> QED BY <1>5, <2>1, <2>4, <3>3
  <2> QED BY <2>5 DEF Agrees, c
<1> QED BY <1>7, <1>8

(* A lifted scalar answers as it did in place. *)
LEMMA LiftAgrees ==
  ASSUME NEW s, Liftable(s), analyse_scalar(s), NEW o \in OuterRows, NEW T \in Relations
  PROVE  Agrees(s, cleaned_subquery(s), o, T)
<1>1. s.limit \in BOOLEAN
  BY DEF Liftable
<1> QED BY <1>1, PlainLiftAgrees, AggregateLiftAgrees, LimitedLiftAgrees

(* What the pass has before it: outer columns qualified, LIMIT 1 rewritten. *)
Qualified(q) == qualify_outer_columns_in_projection_subqueries(subquery_before_filters(q))

(* A claimed scalar is liftable, and answers as the client's. *)
LEMMA QualifiedScalar ==
  ASSUME NEW q, IsSubquery(q), ClaimedScalar(q)
  PROVE  /\ Liftable(Qualified(q))
         /\ Qualified(q).proj = "cmp" => q.proj = "cmp"
         /\ \A o \in OuterRows, T \in Relations :
              Answers(Qualified(q), o, T) \subseteq Answers(q, o, T)
<1> DEFINE r == subquery_before_filters(q)
           s == Qualified(q)
<1>1. /\ HasFields(q) /\ q.form = "scalar" /\ q.pos = "projection" /\ ~q.named
      /\ q.preds \subseteq OfOuter \cup {"v=1"}
      /\ q.proj \in {"col", "cmp", "outer", "max", "count"}
      /\ q.qualified \in BOOLEAN /\ q.known \in BOOLEAN /\ (q.qualified \/ q.known)
      /\ q.limit \in BOOLEAN /\ q.ordered \in BOOLEAN
      /\ q.distinct \in BOOLEAN /\ q.grouped \in BOOLEAN
  BY DEF IsSubquery, ClaimedScalar, OfOuter, Correlations
<1>2. /\ HasFields(r) /\ r.form = "scalar" /\ r.pos = "projection" /\ ~r.named
      /\ r.preds = q.preds /\ r.qualified = q.qualified /\ r.known = q.known
      /\ r.limit \in BOOLEAN /\ r.ordered \in BOOLEAN
      /\ r.proj \in {"col", "cmp", "outer", "max", "maxcmp", "maxouter", "count"}
      /\ r.proj = "cmp" => q.proj = "cmp"
      /\ r.limit => ~r.ordered /\ (r.proj \in Aggregates \/ Joins(q) = {})
      /\ \A o \in OuterRows, T \in Relations : Answers(r, o, T) \subseteq Answers(q, o, T)
  <2>1. CASE correlated_limit_one_projection(q)
    <3>1. r = rewrite_correlated_limit_one_subquery_to_max(q)
      BY DEF subquery_before_filters
    <3>0. HasFields(q) /\ q.form = "scalar"
      BY <1>1
    <3> HIDE DEF r
    <3>2. /\ HasFields(r) /\ r.form = "scalar" /\ r.pos = q.pos /\ r.preds = q.preds
          /\ r.qualified = q.qualified /\ r.known = q.known /\ r.ordered = q.ordered
          /\ r.proj = wrap_in_max(q.proj) /\ r.limit = FALSE /\ r.named = FALSE
      BY <2>1, <3>0, <3>1, LimitOneFields
    <3>3. q.proj \in {"col", "cmp", "outer"}
      BY <1>1, <2>1 DEF correlated_limit_one_projection, contains_aggregate_call, Aggregates
    <3>4. wrap_in_max(q.proj) \in {"max", "maxcmp", "maxouter"}
      BY <3>3 DEF wrap_in_max
    <3>5. \A o \in OuterRows, T \in Relations : Answers(r, o, T) \subseteq Answers(q, o, T)
      BY <1>1, <2>1, <3>1, LimitOneAnswers
    <3> QED BY <1>1, <3>2, <3>4, <3>5
  <2>2. CASE ~correlated_limit_one_projection(q)
    <3>1. r = q
      BY <2>2 DEF subquery_before_filters, rewrite_correlated_limit_one_subquery_to_max
    <3>2. q.limit => ~q.ordered /\ (q.proj \in Aggregates \/ Joins(q) = {})
      <4> SUFFICES ASSUME q.limit, q.proj \notin Aggregates PROVE ~q.ordered /\ Joins(q) = {}
        BY DEF ClaimedScalar
      <4>1. ~q.ordered /\ q.qualified
        BY DEF ClaimedScalar
      <4>2. ~references_outer_column(q)
        BY <2>2, <4>1 DEF ClaimedScalar, correlated_limit_one_projection,
             limits_to_one_row_unordered, contains_aggregate_call
      <4> QED BY <4>1, <4>2 DEF references_outer_column, correlated, Joins, OfOuter, Correlations
    <3> HIDE DEF r
    <3> QED BY <1>1, <3>1, <3>2
  <2> QED BY <2>1, <2>2
<1> HIDE DEF r
<1>3. /\ HasFields(s) /\ s.form = r.form /\ s.pos = r.pos /\ s.named = r.named
      /\ s.preds = r.preds /\ s.limit = r.limit /\ s.ordered = r.ordered /\ s.proj = r.proj
      /\ s.qualified
  <2>1. CASE r.known
    <3> DEFINE yes == TRUE
    <3>1. s = [r EXCEPT !.qualified = yes]
      BY <1>2, <2>1 DEF Qualified, qualify_outer_columns_in_projection_subqueries, r
    <3>2. yes
      OBVIOUS
    <3> HIDE DEF yes, s
    <3> DEFINE t == [r EXCEPT !.qualified = yes]
    <3>3. /\ HasFields(t) /\ t.form = r.form /\ t.pos = r.pos /\ t.named = r.named
          /\ t.preds = r.preds /\ t.limit = r.limit /\ t.ordered = r.ordered
          /\ t.proj = r.proj /\ t.qualified = yes
      BY <1>2, ReplaceQualified
    <3> HIDE DEF t
    <3> QED BY <3>1, <3>2, <3>3 DEF t
  <2>2. CASE ~r.known
    <3>1. s = r
      BY <2>2 DEF Qualified, qualify_outer_columns_in_projection_subqueries, r
    <3> QED BY <1>1, <1>2, <2>2, <3>1
  <2> QED BY <2>1, <2>2
<1> HIDE DEF s
<1>4. Liftable(s)
  BY <1>1, <1>2, <1>3 DEF Liftable, Joins
<1>5. ASSUME NEW o \in OuterRows, NEW T \in Relations
      PROVE  Answers(s, o, T) \subseteq Answers(q, o, T)
  <2> DEFINE values == Projected(r.proj, o, T, Matching(r.preds, o, T))
  <2>1. Answers(s, o, T) = {<<b>> : b \in Single(s, values)}
    BY <1>2, <1>3, ScalarAnswers
  <2>2. Answers(r, o, T) = {<<b>> : b \in Single(r, values)}
    BY <1>2, ScalarAnswers
  <2>3. Single(s, values) = Single(r, values)
    BY <1>3 DEF Single
  <2> HIDE DEF values
  <2> QED BY <1>2, <2>1, <2>2, <2>3
<1> QED BY <1>2, <1>3, <1>4, <1>5 DEF s

(* The stages keep what a claimed scalar yields. *)
LEMMA ScalarStages == StageInv => LiftedScalarsKeepRows
<1> DEFINE q == asked.sub
           s == Qualified(q)
           c == cleaned_subquery(s)
<1> SUFFICES ASSUME StageInv, outcome = "answered", ClaimedScalar(q),
                    q.proj = "cmp" => stmt.sub.form = "cte"
             PROVE  Faithful(q, stmt.sub)
  BY DEF LiftedScalarsKeepRows
<1>1. IsSubquery(q) /\ stmt.sub = LastSubquery(q)
  BY SubqueryStages
<1>2. /\ Liftable(s) /\ (s.proj = "cmp" => q.proj = "cmp")
      /\ \A o \in OuterRows, T \in Relations : Answers(s, o, T) \subseteq Answers(q, o, T)
  BY <1>1, QualifiedScalar
<1>3. HasFields(s) /\ s.form = "scalar"
  BY <1>2 DEF Liftable
<1>4. subquery_in_filters(subquery_before_filters(q)) = IF analyse_scalar(s) THEN c ELSE s
  <2> DEFINE r == subquery_before_filters(q)
  <2>1. r.form = "scalar"
    <3>1. CASE correlated_limit_one_projection(q)
      BY <1>1, <3>1, LimitOneFields DEF subquery_before_filters, IsSubquery, ClaimedScalar
    <3>2. CASE ~correlated_limit_one_projection(q)
      BY <3>2 DEF subquery_before_filters, rewrite_correlated_limit_one_subquery_to_max,
           ClaimedScalar
    <3> QED BY <3>1, <3>2
  <2> HIDE DEF r
  <2>2. decorrelate_lateral_aggregate_join(r) = r
    BY <2>1, UntouchedForms
  <2> QED BY <2>2 DEF subquery_in_filters, rewrite_scalar_subqueries_to_ctes, Qualified, r
<1> HIDE DEF s
<1>5. CASE analyse_scalar(s)
  <2>1. c.form = "cte"
    BY <1>2, <1>5, LiftedFields
  <2> HIDE DEF c
  <2>2. LastSubquery(q) = c
    BY <1>4, <1>5, <2>1, UntouchedForms DEF LastSubquery, subquery_after_filters
  <2>3. ASSUME NEW o \in OuterRows, NEW T \in Relations PROVE Agrees(q, c, o, T)
    <3>1. Agrees(s, c, o, T)
      BY <1>2, <1>5, LiftAgrees DEF c
    <3> QED BY <1>2, <3>1 DEF Agrees
  <2> QED BY <1>1, <2>2, <2>3 DEF Faithful
<1>6. CASE ~analyse_scalar(s)
  <2>1. CASE s.proj = "cmp"
    <3> DEFINE b == rewrite_boolean_scalar_subquery_to_exists(s)
               e == rewrite_exists_to_count(b)
    <3>1. LastSubquery(q) = rewrite_tuple_in_subquery_to_exists(e)
      BY <1>4, <1>6 DEF LastSubquery, subquery_after_filters
    <3>2. CASE ~s.grouped /\ ~s.distinct
      <4>1. e.form = "count"
        BY <1>3, <2>1, <3>2, BooleanFields
      <4> HIDE DEF e
      <4>2. LastSubquery(q) = e
        BY <3>1, <4>1, UntouchedForms
      <4> QED BY <1>1, <1>2, <2>1, <4>1, <4>2
    <3>3. CASE ~(~s.grouped /\ ~s.distinct)
      <4>1. b = s
        BY <3>3 DEF rewrite_boolean_scalar_subquery_to_exists
      <4>2. LastSubquery(q) = s
        BY <1>3, <3>1, <4>1, UntouchedForms
      <4> QED BY <1>1, <1>2, <1>3, <2>1, <4>2
    <3> QED BY <3>2, <3>3
  <2>2. CASE s.proj # "cmp"
    <3>1. LastSubquery(q) = s
      BY <1>3, <1>4, <1>6, <2>2, UntouchedForms DEF LastSubquery, subquery_after_filters
    <3> QED BY <1>1, <1>2, <3>1 DEF Faithful, Agrees
  <2> QED BY <2>1, <2>2
<1> QED BY <1>5, <1>6

(***************************************************************************)
(* A scalar sub-query of the SELECT list yields for every outer row what   *)
(* it yielded in place, lifted into a CTE or rewritten to an aggregate     *)
(* (rewrite_correlated_limit_one_subquery_to_max,                          *)
(* rewrite_scalar_subqueries_to_ctes).                                     *)
(***************************************************************************)
THEOREM LiftedScalarsSameRows == Spec => []LiftedScalarsKeepRows
BY Stages, ScalarStages, PTL

---------------------------------------------------------------------------
(* SELECT lists.                                                           *)

(* Replacing a part of a SELECT leaves the others: its items. *)
LEMMA ReplaceItems ==
  ASSUME NEW s, HasParts(s), NEW x
  PROVE  LET r == [s EXCEPT !.items = x]
         IN  /\ HasParts(r) /\ r.items = x
             /\ r.order = s.order /\ r.group = s.group /\ r.wrap = s.wrap
             /\ r.where = s.where /\ r.aliases = s.aliases
BY DEF HasParts

(* Its sort keys. *)
LEMMA ReplaceOrder ==
  ASSUME NEW s, HasParts(s), NEW x
  PROVE  LET r == [s EXCEPT !.order = x]
         IN  /\ HasParts(r) /\ r.order = x
             /\ r.items = s.items /\ r.group = s.group /\ r.wrap = s.wrap
             /\ r.where = s.where /\ r.aliases = s.aliases
BY DEF HasParts

(* Its grouping. *)
LEMMA ReplaceGroup ==
  ASSUME NEW s, HasParts(s), NEW x
  PROVE  LET r == [s EXCEPT !.group = x]
         IN  /\ HasParts(r) /\ r.group = x
             /\ r.items = s.items /\ r.order = s.order /\ r.wrap = s.wrap
             /\ r.where = s.where /\ r.aliases = s.aliases
BY DEF HasParts

(* Its source. *)
LEMMA ReplaceSource ==
  ASSUME NEW s, HasParts(s), NEW x
  PROVE  LET r == [s EXCEPT !.source = x]
         IN  /\ HasParts(r) /\ r.items = s.items
             /\ r.order = s.order /\ r.group = s.group /\ r.wrap = s.wrap
             /\ r.where = s.where /\ r.aliases = s.aliases
BY DEF HasParts

(* Its aliases. *)
LEMMA ReplaceAliases ==
  ASSUME NEW s, HasParts(s), NEW x
  PROVE  LET r == [s EXCEPT !.aliases = x]
         IN  /\ HasParts(r) /\ r.items = s.items /\ r.aliases = x /\ r.where = s.where
             /\ r.order = s.order /\ r.group = s.group /\ r.wrap = s.wrap
BY DEF HasParts

(* An item by its fields. *)
IsRecord(item) == item = Item(item.k, item.c, item.a, item.s)

(* Replacing the kind of an item leaves its other fields, and so does its alias. *)
LEMMA ReplaceField ==
  ASSUME NEW item, IsRecord(item), NEW x
  PROVE  /\ LET r == [item EXCEPT !.k = x]
            IN  IsRecord(r) /\ r.k = x /\ r.c = item.c /\ r.a = item.a /\ r.s = item.s
         /\ LET r == [item EXCEPT !.a = x]
            IN  IsRecord(r) /\ r.k = item.k /\ r.c = item.c /\ r.a = x /\ r.s = item.s
BY DEF IsRecord, Item

(* What rewrite_srf_to_unnest may make of one item: a set-returning call    *)
(* gets another kind, and nothing else changes.                            *)
Unnesting == {"unnest", "unnested", "field", "subscript"}
Retagged(item, made) ==
    /\ IsRecord(made) /\ made.c = item.c /\ made.a = item.a
    /\ item.k \notin {"srf", "srffield"} => made.k = item.k
    /\ item.k \in {"srf", "srffield"} => made.k \in Unnesting \cup {"srf", "srffield"}

(* Each of the three item rewrites retags. *)
LEMMA ItemRetagged ==
  ASSUME NEW item, IsItem(item), NEW call
  PROVE  /\ Retagged(item, wrap_in_unnest(item))
         /\ Retagged(item, convert_dot_field_to_subscript(item))
         /\ Retagged(item, read_srf_projections_from_unnested_column(item, call))
<1>0. IsRecord(item)
  BY DEF IsItem, IsRecord
<1>1. Retagged(item, item)
  BY <1>0 DEF Retagged
<1>2. ASSUME NEW x \in Unnesting, item.k \in {"srf", "srffield"}
      PROVE  Retagged(item, [item EXCEPT !.k = x])
  <2> DEFINE m == [item EXCEPT !.k = x]
  <2>1. IsRecord(m) /\ m.k = x /\ m.c = item.c /\ m.a = item.a
    BY <1>0, ReplaceField
  <2> HIDE DEF m
  <2>2. Retagged(item, m)
    BY <1>2, <2>1 DEF Retagged
  <2> QED BY <2>2 DEF m
<1>3. Retagged(item, wrap_in_unnest(item))
  <2>1. CASE item.k = "srf"
    BY <1>2, <2>1 DEF wrap_in_unnest, Unnesting
  <2>2. CASE item.k # "srf"
    BY <1>1, <2>2 DEF wrap_in_unnest
  <2> QED BY <2>1, <2>2
<1>4. Retagged(item, convert_dot_field_to_subscript(item))
  <2>1. CASE item.k = "srffield"
    BY <1>2, <2>1 DEF convert_dot_field_to_subscript, Unnesting
  <2>2. CASE item.k # "srffield"
    BY <1>1, <2>2 DEF convert_dot_field_to_subscript
  <2> QED BY <2>1, <2>2
<1>5. Retagged(item, read_srf_projections_from_unnested_column(item, call))
  <2>1. CASE item.s = call /\ item.k = "srf"
    BY <1>2, <2>1 DEF read_srf_projections_from_unnested_column, Unnesting
  <2>2. CASE item.s = call /\ item.k = "srffield"
    BY <1>2, <2>2 DEF read_srf_projections_from_unnested_column, Unnesting
  <2>3. CASE ~(item.s = call /\ item.k = "srf") /\ ~(item.s = call /\ item.k = "srffield")
    BY <1>1, <2>3 DEF read_srf_projections_from_unnested_column
  <2> QED BY <2>1, <2>2, <2>3
<1> QED BY <1>3, <1>4, <1>5

(* What rewrite_srf_to_unnest makes of a SELECT: its items retagged, one of *)
(* them marked if any was set-returning.                                   *)
LEMMA UnnestedSelect ==
  ASSUME NEW s, IsSelect(s)
  PROVE  LET r == rewrite_srf_to_unnest(s)
         IN  /\ HasParts(r) /\ r.order = s.order /\ r.group = s.group /\ r.wrap = s.wrap /\ r.where = s.where
             /\ r.items = [i \in DOMAIN s.items |-> r.items[i]]
             /\ \A i \in DOMAIN s.items : Retagged(s.items[i], r.items[i])
             /\ (\E i \in DOMAIN s.items : s.items[i].k \in {"srf", "srffield"})
                  => \E i \in DOMAIN s.items : has_srf_unnest_marker(r.items[i])
<1> DEFINE r == rewrite_srf_to_unnest(s)
           calls == projection_srf_usage(s)
           call == CHOOSE c \in calls : TRUE
           wrapped == [i \in DOMAIN s.items |-> wrap_in_unnest(s.items[i])]
           converted == [i \in DOMAIN s.items |-> convert_dot_field_to_subscript(s.items[i])]
           moved == [i \in DOMAIN s.items |->
                       read_srf_projections_from_unnested_column(s.items[i], call)]
<1>1. /\ HasParts(s) /\ \A i \in DOMAIN s.items : IsItem(s.items[i])
      /\ \A i \in DOMAIN s.items : IsRecord(s.items[i])
  BY DEF IsSelect, IsItem, IsRecord
<1>2. CASE calls = {}
  <2>0. ~(Cardinality(calls) > 1)
    BY <1>2, FS_EmptySet
  <2>1. r = [s EXCEPT !.items = wrapped]
    BY <1>2, <2>0 DEF rewrite_srf_to_unnest, EachItem
  <2>2. \A i \in DOMAIN s.items : s.items[i].k # "srffield"
    BY <1>2 DEF projection_srf_usage
  <2>3. ASSUME NEW i \in DOMAIN s.items, s.items[i].k \in {"srf", "srffield"}
        PROVE  has_srf_unnest_marker(wrapped[i])
    <3>1. wrapped[i] = [s.items[i] EXCEPT !.k = "unnest"]
      BY <2>2, <2>3 DEF wrap_in_unnest
    <3>2. [s.items[i] EXCEPT !.k = "unnest"].k = "unnest"
      BY <1>1, ReplaceField
    <3> QED BY <3>1, <3>2 DEF has_srf_unnest_marker
  <2>4. \A i \in DOMAIN s.items : Retagged(s.items[i], wrapped[i])
    BY <1>1, ItemRetagged
  <2>5. wrapped = [i \in DOMAIN s.items |-> wrapped[i]]
    OBVIOUS
  <2> HIDE DEF wrapped, r
  <2>6. /\ HasParts(r) /\ r.order = s.order /\ r.group = s.group /\ r.wrap = s.wrap
        /\ r.where = s.where /\ r.items = wrapped
    <3> DEFINE m == [s EXCEPT !.items = wrapped]
    <3>1. /\ HasParts(m) /\ m.order = s.order /\ m.group = s.group /\ m.wrap = s.wrap
          /\ m.where = s.where /\ m.items = wrapped
      BY <1>1, ReplaceItems
    <3> HIDE DEF m
    <3> QED BY <2>1, <3>1 DEF m
  <2> QED BY <2>3, <2>4, <2>5, <2>6 DEF r
<1>3. CASE calls # {} /\ Cardinality(calls) > 1
  <2>1. r = [s EXCEPT !.items = converted]
    BY <1>3 DEF rewrite_srf_to_unnest, EachItem
  <2>2. PICK i \in DOMAIN s.items : s.items[i].k = "srffield"
    BY <1>3 DEF projection_srf_usage
  <2>3. has_srf_unnest_marker(converted[i])
    <3>1. converted[i] = [s.items[i] EXCEPT !.k = "subscript"]
      BY <2>2 DEF convert_dot_field_to_subscript
    <3>2. [s.items[i] EXCEPT !.k = "subscript"].k = "subscript"
      BY <1>1, ReplaceField
    <3> QED BY <3>1, <3>2 DEF has_srf_unnest_marker
  <2>4. \A j \in DOMAIN s.items : Retagged(s.items[j], converted[j])
    BY <1>1, ItemRetagged
  <2>5. converted = [j \in DOMAIN s.items |-> converted[j]]
    OBVIOUS
  <2> HIDE DEF converted, r
  <2>6. /\ HasParts(r) /\ r.order = s.order /\ r.group = s.group /\ r.wrap = s.wrap
        /\ r.where = s.where /\ r.items = converted
    <3> DEFINE m == [s EXCEPT !.items = converted]
    <3>1. /\ HasParts(m) /\ m.order = s.order /\ m.group = s.group /\ m.wrap = s.wrap
          /\ m.where = s.where /\ m.items = converted
      BY <1>1, ReplaceItems
    <3> HIDE DEF m
    <3> QED BY <2>1, <3>1 DEF m
  <2> QED BY <2>3, <2>4, <2>5, <2>6 DEF r
<1>4. CASE calls # {} /\ ~(Cardinality(calls) > 1)
  <2> DEFINE inner == [s EXCEPT !.items = moved]
  <2>1. r = [inner EXCEPT !.source = "__srf_src"]
    BY <1>4 DEF rewrite_srf_to_unnest, EachItem, move_source_into_unnesting_derived_table
  <2>2. PICK i \in DOMAIN s.items : s.items[i].k = "srffield" /\ s.items[i].s = call
    <3>1. call \in calls
      BY <1>4
    <3> QED BY <3>1 DEF projection_srf_usage
  <2> HIDE DEF call
  <2>3. has_srf_unnest_marker(moved[i])
    <3>1. moved[i] = [s.items[i] EXCEPT !.k = "field"]
      BY <2>2 DEF read_srf_projections_from_unnested_column
    <3>2. [s.items[i] EXCEPT !.k = "field"].k = "field"
      BY <1>1, ReplaceField
    <3> QED BY <3>1, <3>2 DEF has_srf_unnest_marker
  <2>4. \A j \in DOMAIN s.items : Retagged(s.items[j], moved[j])
    BY <1>1, ItemRetagged
  <2>5. moved = [j \in DOMAIN s.items |-> moved[j]]
    OBVIOUS
  <2> HIDE DEF moved, r
  <2>6. /\ HasParts(inner) /\ inner.order = s.order /\ inner.group = s.group
        /\ inner.wrap = s.wrap /\ inner.where = s.where /\ inner.items = moved
    BY <1>1, ReplaceItems
  <2> HIDE DEF inner
  <2>7. /\ HasParts(r) /\ r.order = s.order /\ r.group = s.group /\ r.wrap = s.wrap
        /\ r.where = s.where /\ r.items = moved
    BY <2>1, <2>6, ReplaceSource
  <2> QED BY <2>3, <2>4, <2>5, <2>7 DEF r
<1> QED BY <1>2, <1>3, <1>4

(* A retagged item has the output name it had. *)
LEMMA RetaggedName ==
  ASSUME NEW item, IsItem(item), NEW made, Retagged(item, made)
  PROVE  output_column_name(made) = output_column_name(item)
<1>1. made.a = item.a
  BY DEF Retagged
<1>2. made.k \in {"col", "qcol"} <=> item.k \in {"col", "qcol"}
  BY DEF Retagged, Unnesting
<1>3. made.c = item.c
  BY DEF Retagged
<1> QED BY <1>1, <1>2, <1>3 DEF output_column_name

(* A pass that changes aliases only. *)
Renamed(s, made) ==
    /\ HasParts(made) /\ made.order = s.order /\ made.group = s.group /\ made.wrap = s.wrap
    /\ made.where = s.where
    /\ DOMAIN made.items = DOMAIN s.items
    /\ \A i \in DOMAIN s.items : /\ IsRecord(made.items[i])
                                 /\ made.items[i].k = s.items[i].k
                                 /\ made.items[i].c = s.items[i].c

(* disambiguate_duplicate_columns is one. *)
LEMMA DisambiguateRenames ==
  ASSUME NEW s, HasParts(s), \A i \in DOMAIN s.items : IsRecord(s.items[i])
  PROVE  Renamed(s, disambiguate_duplicate_columns(s))
<1>1. CASE s.wrap = "plain"
  BY <1>1 DEF disambiguate_duplicate_columns, Renamed
<1>2. CASE s.wrap # "plain"
  <2> DEFINE name(i) == output_column_name(s.items[i])
             seen(i) == Cardinality({j \in 1..i : name(j) = name(i)})
             suffixed(i) == Name(name(i).n, seen(i))
             renamed(i) == IF name(i) = NoName \/ seen(i) = 1 THEN s.items[i]
                           ELSE [s.items[i] EXCEPT !.a = suffixed(i)]
             items == [i \in DOMAIN s.items |-> renamed(i)]
             r == [s EXCEPT !.items = items]
  <2>1. disambiguate_duplicate_columns(s) = r
    BY <1>2 DEF disambiguate_duplicate_columns, dedup_projection
  <2> HIDE DEF name, seen, suffixed
  <2>2. ASSUME NEW i \in DOMAIN s.items
        PROVE  IsRecord(items[i]) /\ items[i].k = s.items[i].k /\ items[i].c = s.items[i].c
    <3>1. LET m == [s.items[i] EXCEPT !.a = suffixed(i)]
          IN  IsRecord(m) /\ m.k = s.items[i].k /\ m.c = s.items[i].c
      BY ReplaceField
    <3> DEFINE m == [s.items[i] EXCEPT !.a = suffixed(i)]
    <3>2. items[i] = IF name(i) = NoName \/ seen(i) = 1 THEN s.items[i] ELSE m
      OBVIOUS
    <3> HIDE DEF items
    <3>3. IsRecord(m) /\ m.k = s.items[i].k /\ m.c = s.items[i].c
      BY <3>1
    <3> HIDE DEF m
    <3>4. CASE items[i] = m
      BY <3>3, <3>4
    <3>5. CASE items[i] = s.items[i]
      BY <3>5
    <3> QED BY <3>2, <3>4, <3>5
  <2>3. DOMAIN items = DOMAIN s.items
    OBVIOUS
  <2> HIDE DEF items
  <2>4. /\ HasParts(r) /\ r.order = s.order /\ r.group = s.group /\ r.wrap = s.wrap /\ r.where = s.where
        /\ r.items = items
    BY ReplaceItems
  <2> HIDE DEF r
  <2> QED BY <2>1, <2>2, <2>3, <2>4 DEF Renamed
<1> QED BY <1>1, <1>2

(* alias_unnamed_columns is the other. *)
LEMMA AliasRenames ==
  ASSUME NEW s, HasParts(s), \A i \in DOMAIN s.items : IsRecord(s.items[i])
  PROVE  Renamed(s, alias_unnamed_columns(s))
<1>1. CASE s.wrap \notin {"plain", "paren"}
  BY <1>1 DEF alias_unnamed_columns, Renamed
<1>2. CASE s.wrap \in {"plain", "paren"}
  <2> DEFINE numbered(i) == [s.items[i] EXCEPT !.a = Numbered(s, i)]
             items == [i \in DOMAIN s.items |-> IF i \in ToAlias(s) THEN numbered(i) ELSE s.items[i]]
             map == {[from |-> Numbered(s, i), to |-> alias_name(s.items[i])] : i \in ToAlias(s)}
             t == [s EXCEPT !.items = items]
             r == [t EXCEPT !.aliases = map]
  <2>1. alias_unnamed_columns(s) = r
    BY <1>2 DEF alias_unnamed_columns, alias_projection
  <2>2. ASSUME NEW i \in DOMAIN s.items
        PROVE  IsRecord(items[i]) /\ items[i].k = s.items[i].k /\ items[i].c = s.items[i].c
    <3> DEFINE m == numbered(i)
    <3>1. items[i] = IF i \in ToAlias(s) THEN m ELSE s.items[i]
      OBVIOUS
    <3> HIDE DEF items
    <3>2. IsRecord(m) /\ m.k = s.items[i].k /\ m.c = s.items[i].c
      BY ReplaceField
    <3> HIDE DEF m
    <3>3. CASE items[i] = m
      BY <3>2, <3>3
    <3>4. CASE items[i] = s.items[i]
      BY <3>4
    <3> QED BY <3>1, <3>3, <3>4
  <2>3. DOMAIN items = DOMAIN s.items
    OBVIOUS
  <2> HIDE DEF items, map
  <2>4. /\ HasParts(t) /\ t.order = s.order /\ t.group = s.group /\ t.wrap = s.wrap /\ t.where = s.where
        /\ t.items = items
    BY ReplaceItems
  <2> HIDE DEF t
  <2>5. /\ HasParts(r) /\ r.order = t.order /\ r.group = t.group /\ r.wrap = t.wrap /\ r.where = t.where
        /\ r.items = t.items
    BY <2>4, ReplaceAliases
  <2> HIDE DEF r
  <2> QED BY <2>1, <2>2, <2>3, <2>4, <2>5 DEF Renamed
<1> QED BY <1>1, <1>2

(* One renaming after another is a renaming. *)
LEMMA RenamedTwice ==
  ASSUME NEW s, NEW r, NEW t, Renamed(s, r), Renamed(r, t)
  PROVE  Renamed(s, t)
BY DEF Renamed

(* The two grouping passes change the grouping only. *)
LEMMA GroupPasses ==
  ASSUME NEW s, HasParts(s)
  PROVE  LET r == rewrite_group_by_for_any(inject_group_by(s))
         IN  r.items = s.items /\ r.order = s.order /\ r.where = s.where /\ r.aliases = s.aliases
<1> DEFINE g == inject_group_by(s)
           r == rewrite_group_by_for_any(g)
<1>1. PICK x : g = s \/ g = [s EXCEPT !.group = x]
  BY DEF inject_group_by
<1> HIDE DEF g
<1>2. HasParts(g) /\ g.items = s.items /\ g.order = s.order /\ g.where = s.where /\ g.aliases = s.aliases
  <2>1. CASE g = s
    BY <2>1
  <2>2. CASE g = [s EXCEPT !.group = x]
    <3> DEFINE m == [s EXCEPT !.group = x]
    <3>1. HasParts(m) /\ m.items = s.items /\ m.order = s.order /\ m.where = s.where /\ m.aliases = s.aliases
      BY ReplaceGroup
    <3> HIDE DEF m
    <3> QED BY <2>2, <3>1 DEF m
  <2> QED BY <1>1, <2>1, <2>2
<1>3. PICK y : r = g \/ r = [g EXCEPT !.group = y]
  BY DEF rewrite_group_by_for_any
<1> HIDE DEF r
<1>4. r.items = g.items /\ r.order = g.order /\ r.where = g.where /\ r.aliases = g.aliases
  <2>1. CASE r = g
    BY <2>1
  <2>2. CASE r = [g EXCEPT !.group = y]
    <3> DEFINE m == [g EXCEPT !.group = y]
    <3>1. m.items = g.items /\ m.order = g.order /\ m.where = g.where /\ m.aliases = g.aliases
      BY <1>2, ReplaceGroup
    <3> HIDE DEF m
    <3> QED BY <2>2, <3>1 DEF m
  <2> QED BY <1>3, <2>1, <2>2
<1> QED BY <1>2, <1>4 DEF r, g

(* resolve_order_by_names_to_output_positions changes the sort keys only. *)
LEMMA ResolveFields ==
  ASSUME NEW s, HasParts(s)
  PROVE  LET r == resolve_order_by_names_to_output_positions(s)
         IN  /\ HasParts(r) /\ r.items = s.items /\ r.group = s.group /\ r.wrap = s.wrap
             /\ r.where = s.where
<1> DEFINE r == resolve_order_by_names_to_output_positions(s)
<1>1. PICK x : r = s \/ r = [s EXCEPT !.order = x]
  BY DEF resolve_order_by_names_to_output_positions
<1> HIDE DEF r
<1>2. /\ HasParts(r) /\ r.items = s.items /\ r.group = s.group /\ r.wrap = s.wrap
      /\ r.where = s.where
  <2>1. CASE r = s
    BY <2>1
  <2>2. CASE r = [s EXCEPT !.order = x]
    <3> DEFINE m == [s EXCEPT !.order = x]
    <3>1. HasParts(m) /\ m.items = s.items /\ m.group = s.group /\ m.wrap = s.wrap /\ m.where = s.where
      BY ReplaceOrder
    <3> HIDE DEF m
    <3> QED BY <2>2, <3>1 DEF m
  <2> QED BY <1>1, <2>1, <2>2
<1> QED BY <1>2 DEF r

(* A bare name that output columns have becomes the position of the first. *)
LEMMA ResolvedKey ==
  ASSUME NEW s, HasParts(s), ~HasStar(s), s.wrap # "paren", NEW i \in DOMAIN s.order,
         s.order[i].k = "name", Named(s, s.order[i].c) # {}
  PROVE  resolve_order_by_names_to_output_positions(s).order[i]
           = Key("pos", NoColumn, Min(Named(s, s.order[i].c)))
<1> DEFINE pos(j) == Key("pos", NoColumn, Min(Named(s, s.order[j].c)))
           order == [j \in DOMAIN s.order |->
                       IF s.order[j].k = "name" /\ Named(s, s.order[j].c) # {}
                       THEN pos(j) ELSE s.order[j]]
           r == resolve_order_by_names_to_output_positions(s)
<1>1. r = [s EXCEPT !.order = order]
  BY DEF resolve_order_by_names_to_output_positions
<1>2. order[i] = pos(i)
  OBVIOUS
<1> HIDE DEF order, r, pos
<1>3. r.order = order
  BY <1>1, ReplaceOrder
<1> QED BY <1>2, <1>3 DEF r, pos

(* What the passes make of a SELECT, up to the grouping, and to the end. *)
Listed(s) ==
    alias_unnamed_columns(disambiguate_duplicate_columns(
      resolve_order_by_names_to_output_positions(select_before_filters(s))))
LastSelect(s) == select_in_filters(select_before_filters(s))

(* Its items keep their kinds and columns from rewrite_srf_to_unnest on.    *)
LEMMA ListedSelect ==
  ASSUME NEW s, IsSelect(s)
  PROVE  LET u == rewrite_srf_to_unnest(s)
         IN  /\ Renamed(resolve_order_by_names_to_output_positions(u), Listed(s))
             /\ HasParts(Listed(s)) /\ Listed(s).group = s.group /\ Listed(s).wrap = s.wrap
             /\ Listed(s).where = s.where
             /\ DOMAIN Listed(s).items = DOMAIN s.items
             /\ \A i \in DOMAIN s.items : /\ IsRecord(Listed(s).items[i])
                                          /\ Listed(s).items[i].k = u.items[i].k
                                          /\ Listed(s).items[i].c = u.items[i].c
<1> DEFINE u == rewrite_srf_to_unnest(s)
           r == resolve_order_by_names_to_output_positions(u)
           d == disambiguate_duplicate_columns(r)
           l == alias_unnamed_columns(d)
<1>1. l = Listed(s)
  BY DEF Listed, select_before_filters
<1>2. /\ HasParts(u) /\ u.group = s.group /\ u.wrap = s.wrap /\ u.where = s.where
      /\ DOMAIN u.items = DOMAIN s.items
      /\ \A i \in DOMAIN s.items : IsRecord(u.items[i])
  <2>1. u.items = [i \in DOMAIN s.items |-> u.items[i]]
    BY UnnestedSelect
  <2>2. \A i \in DOMAIN s.items : IsRecord(u.items[i])
    BY UnnestedSelect DEF Retagged
  <2>3. HasParts(u) /\ u.group = s.group /\ u.wrap = s.wrap /\ u.where = s.where
    BY UnnestedSelect
  <2> HIDE DEF u
  <2>4. DOMAIN u.items = DOMAIN s.items
    BY <2>1
  <2> QED BY <2>2, <2>3, <2>4
<1> HIDE DEF u
<1>3. HasParts(r) /\ r.items = u.items /\ r.group = u.group /\ r.wrap = u.wrap /\ r.where = u.where
  BY <1>2, ResolveFields
<1> HIDE DEF r
<1>4. Renamed(r, d)
  BY <1>2, <1>3, DisambiguateRenames
<1> HIDE DEF d
<1>5. HasParts(d) /\ \A i \in DOMAIN d.items : IsRecord(d.items[i])
  BY <1>4 DEF Renamed
<1>6. Renamed(d, l)
  BY <1>5, AliasRenames
<1> HIDE DEF l
<1>7. Renamed(r, l)
  BY <1>4, <1>6, RenamedTwice
<1>8. /\ HasParts(l) /\ l.group = r.group /\ l.wrap = r.wrap /\ l.where = r.where
      /\ DOMAIN l.items = DOMAIN r.items
      /\ \A i \in DOMAIN r.items : /\ IsRecord(l.items[i])
                                   /\ l.items[i].k = r.items[i].k
                                   /\ l.items[i].c = r.items[i].c
  BY <1>7 DEF Renamed
<1> QED BY <1>1, <1>2, <1>3, <1>7, <1>8 DEF u, r

(* What the stages make of a SELECT. *)
LEMMA SelectStages ==
  ASSUME StageInv, outcome = "answered"
  PROVE  IsSelect(asked.sel) /\ stmt.sel = LastSelect(asked.sel)
<1>1. IsStatement(asked) /\ stmt = Rewritten(asked)
  BY DEF StageInv, InFlight
<1> QED BY <1>1, StageFields DEF LastSelect, IsStatement

(* A column's name is no missing name. *)
LEMMA NameOfColumn ==
  ASSUME NEW c, c # NoColumn
  PROVE  Name(c, 0) # NoName
<1>1. NoName = Name(NoColumn, 0)
  BY DEF NoName, NoColumn
<1> QED BY <1>1 DEF Name

(* The name the passes read off an item is the one PostgreSQL gives it, if   *)
(* they read one at all.                                                    *)
LEMMA OutputName ==
  ASSUME NEW item, output_column_name(item) # NoName
  PROVE  PostgresName(item) = output_column_name(item)
<1>1. CASE item.a # NoName
  BY <1>1 DEF output_column_name, PostgresName
<1>2. CASE item.a = NoName /\ item.k \in {"col", "qcol"}
  BY <1>2 DEF output_column_name, PostgresName
<1>3. CASE item.a = NoName /\ item.k \notin {"col", "qcol"}
  BY <1>3 DEF output_column_name
<1> QED BY <1>1, <1>2, <1>3

(* The first position the passes find for a sort key is PostgreSQL's.        *)
LEMMA SamePosition ==
  ASSUME NEW s, IsSelect(s), ~HasStar(s), NEW c, c # NoColumn,
         PostgresSort(s, c) > 0,
         output_column_name(s.items[PostgresSort(s, c)]) # NoName
  PROVE  LET u == rewrite_srf_to_unnest(s)
         IN  Named(u, c) # {} /\ Min(Named(u, c)) = PostgresSort(s, c) /\ ~HasStar(u)
<1> DEFINE u == rewrite_srf_to_unnest(s)
           p == PostgresSort(s, c)
           hits == {i \in DOMAIN s.items : s.items[i].k # "star" /\ PostgresName(s.items[i]) = Name(c, 0)}
           found == Named(u, c)
<1>1. /\ DOMAIN u.items = DOMAIN s.items
      /\ \A i \in DOMAIN s.items : Retagged(s.items[i], u.items[i])
  <2>1. u.items = [i \in DOMAIN s.items |-> u.items[i]]
    BY UnnestedSelect
  <2>2. \A i \in DOMAIN s.items : Retagged(s.items[i], u.items[i])
    BY UnnestedSelect
  <2> HIDE DEF u
  <2> QED BY <2>1, <2>2
<1> HIDE DEF u
<1>2. /\ \A i \in DOMAIN s.items : IsItem(s.items[i])
      /\ DOMAIN s.items \subseteq Nat
  <2>1. s.items \in Seq(ToSet(s.items)) /\ \A i \in DOMAIN s.items : IsItem(s.items[i])
    BY DEF IsSelect
  <2> QED BY <2>1, LenProperties
<1>3. \A i \in DOMAIN s.items : output_column_name(u.items[i]) = output_column_name(s.items[i])
  BY <1>1, <1>2, RetaggedName
<1>4. \A i \in DOMAIN s.items : s.items[i].k # "star"
  BY DEF HasStar
<1>5. hits # {} /\ p = Min(hits)
  <2>1. CASE hits = {}
    BY <2>1 DEF PostgresSort
  <2>2. CASE hits # {} /\ Cardinality({OutputAt(s, i) : i \in hits}) > 1
    BY <2>2 DEF PostgresSort
  <2>3. CASE hits # {} /\ ~(Cardinality({OutputAt(s, i) : i \in hits}) > 1)
    BY <2>3 DEF PostgresSort
  <2> QED BY <2>1, <2>2, <2>3
<1> HIDE DEF p
<1>6. p \in hits /\ \A j \in hits : p <= j
  <2>1. hits \subseteq Nat
    BY <1>2
  <2> HIDE DEF hits
  <2> QED BY <1>5, <2>1, LeastPosition
<1>7. found \subseteq hits
  <2> SUFFICES ASSUME NEW i \in found PROVE i \in hits
    OBVIOUS
  <2>1. i \in DOMAIN s.items /\ output_column_name(s.items[i]) = Name(c, 0)
    BY <1>1, <1>3 DEF Named
  <2>2. output_column_name(s.items[i]) # NoName
    BY <2>1, NameOfColumn
  <2> QED BY <1>4, <2>1, <2>2, OutputName
<1>8. p \in found
  <2>1. output_column_name(s.items[p]) # NoName
    BY DEF p
  <2>2. output_column_name(u.items[p]) = Name(c, 0)
    BY <1>3, <1>6, <2>1, OutputName
  <2> QED BY <1>1, <1>6, <2>2 DEF Named
<1>9. Min(found) = p
  <2>1. found \subseteq Int /\ \A j \in found : p <= j
    BY <1>2, <1>6, <1>7
  <2> HIDE DEF found
  <2> QED BY <1>8, <2>1, LeastIs
<1>10. ~HasStar(u)
  BY <1>1, <1>4, Zenon DEF HasStar, Retagged, Unnesting
<1> QED BY <1>8, <1>9, <1>10 DEF u, p

(* The stages keep what a bare name sorts by. *)
LEMMA SortStages == StageInv => SortKeysAreOutputColumns
<1> DEFINE s == asked.sel
           u == rewrite_srf_to_unnest(s)
           r == resolve_order_by_names_to_output_positions(u)
           l == Listed(s)
<1> SUFFICES ASSUME StageInv, outcome = "answered", ~HasStar(s), s.wrap # "paren",
                    NEW i \in DOMAIN s.order, s.order[i].k = "name",
                    PostgresSort(s, s.order[i].c) > 0,
                    output_column_name(s.items[PostgresSort(s, s.order[i].c)]) # NoName
             PROVE  SortsBy(stmt.sel, stmt.sel.order[i])
                      = OutputAt(stmt.sel, PostgresSort(s, s.order[i].c))
  BY DEF SortKeysAreOutputColumns
<1> DEFINE c == s.order[i].c
           p == PostgresSort(s, c)
<1>1. IsSelect(s) /\ stmt.sel = LastSelect(s)
  BY SelectStages
<1>2. c # NoColumn
  BY <1>1 DEF IsSelect
<1>3. Named(u, c) # {} /\ Min(Named(u, c)) = p /\ ~HasStar(u)
  BY <1>1, <1>2, SamePosition
<1>4. HasParts(u) /\ u.order = s.order /\ u.wrap = s.wrap
  BY <1>1, UnnestedSelect
<1> HIDE DEF u
<1>5. r.order[i] = Key("pos", NoColumn, p)
  BY <1>3, <1>4, ResolvedKey
<1>6. l.order = r.order /\ HasParts(l)
  BY <1>1, ListedSelect DEF Renamed, u
<1>7. stmt.sel.order = l.order
  BY <1>1, <1>6, GroupPasses DEF LastSelect, Listed, select_in_filters
<1> HIDE DEF r, l, p
<1>8. stmt.sel.order[i] = Key("pos", NoColumn, p)
  BY <1>5, <1>6, <1>7
<1>9. Key("pos", NoColumn, p).k = "pos" /\ Key("pos", NoColumn, p).p = p
  BY DEF Key
<1> DEFINE key == Key("pos", NoColumn, p)
<1> HIDE DEF key
<1>10. key.k = "pos" => SortsBy(stmt.sel, key) = OutputAt(stmt.sel, key.p)
  BY DEF SortsBy
<1>11. SortsBy(stmt.sel, stmt.sel.order[i]) = OutputAt(stmt.sel, p)
  BY <1>8, <1>9, <1>10 DEF key
<1> QED BY <1>11 DEF p

(***************************************************************************)
(* ORDER BY a bare name sorts by the output column that has it, whatever    *)
(* the passes before and after do to the SELECT list                        *)
(* (resolve_order_by_names_to_output_positions).                           *)
(***************************************************************************)
THEOREM SortKeysAreOutputs == Spec => []SortKeysAreOutputColumns
BY Stages, SortStages, PTL

(* The occurrences inject_group_by counts, and the items that are no constant. *)
Occurrences(s) ==
    UNION {{<<i, j>> : j \in DOMAIN collect_group_by_columns(s.items[i])}
             : i \in {n \in DOMAIN s.items : s.items[n].k # "const"}}
Counted(s) == {i \in DOMAIN s.items : s.items[i].k # "const"}

(* A list in which every item but constants reads a column has an occurrence *)
(* for each, so it never looks like one that mixes in an aggregate.          *)
LEMMA EveryItemOccurs ==
  ASSUME NEW s, NEW n \in Nat, DOMAIN s.items = 1..n,
         \A i \in DOMAIN s.items : s.items[i].k \in {"col", "qcol", "fn", "pair", "const"}
  PROVE  ~(Cardinality(Occurrences(s)) < Cardinality(Counted(s)))
<1> DEFINE found(i) == collect_group_by_columns(s.items[i])
<1>1. ASSUME NEW i \in Counted(s)
      PROVE  1 \in DOMAIN found(i) /\ DOMAIN found(i) \subseteq 1..2
  <2>1. CASE s.items[i].k \in {"col", "qcol", "fn"}
    <3>1. found(i) = <<s.items[i].c>>
      BY <2>1 DEF collect_group_by_columns
    <3>2. DOMAIN <<s.items[i].c>> = 1..1
      OBVIOUS
    <3> QED BY <3>1, <3>2
  <2>2. CASE s.items[i].k = "pair"
    <3>1. found(i) = <<s.items[i].c, s.items[i].c>>
      BY <2>2 DEF collect_group_by_columns
    <3>2. DOMAIN <<s.items[i].c, s.items[i].c>> = 1..2
      OBVIOUS
    <3> QED BY <3>1, <3>2
  <2> QED BY <2>1, <2>2 DEF Counted
<1> DEFINE f == [i \in Counted(s) |-> <<i, 1>>]
           inside == (1..n) \X (1..2)
<1>2. Occurrences(s) \subseteq inside
  <2> SUFFICES ASSUME NEW o \in Occurrences(s) PROVE o \in inside
    OBVIOUS
  <2>1. PICK i \in Counted(s) : o \in {<<i, j>> : j \in DOMAIN found(i)}
    BY DEF Occurrences, Counted
  <2>2. PICK j \in DOMAIN found(i) : o = <<i, j>>
    BY <2>1
  <2>3. i \in 1..n /\ j \in 1..2
    BY <1>1 DEF Counted
  <2> QED BY <2>2, <2>3
<1>3. \A i \in Counted(s) : <<i, 1>> \in Occurrences(s)
  BY <1>1 DEF Occurrences, Counted
<1>4. IsFiniteSet(Occurrences(s))
  <2>0. 1 \in Int /\ 2 \in Int /\ n \in Int
    OBVIOUS
  <2>1. IsFiniteSet(1..n) /\ IsFiniteSet(1..2)
    BY <2>0, FS_Interval, Zenon
  <2>2. IsFiniteSet(inside)
    BY <2>1, FS_Product
  <2> HIDE DEF inside
  <2> QED BY <1>2, <2>2, FS_Subset
<1>5. f \in Injection(Counted(s), Occurrences(s))
  <2>1. f \in [Counted(s) -> Occurrences(s)]
    BY <1>3
  <2>2. \A a, b \in Counted(s) : f[a] = f[b] => a = b
    OBVIOUS
  <2> HIDE DEF f
  <2> QED BY <2>1, <2>2 DEF Injection, IsInjective
<1>6. Cardinality(Counted(s)) <= Cardinality(Occurrences(s)) /\ IsFiniteSet(Counted(s))
  BY <1>4, <1>5, FS_Injection
<1>7. Cardinality(Counted(s)) \in Nat /\ Cardinality(Occurrences(s)) \in Nat
  BY <1>4, <1>6, FS_CardinalityType
<1> QED BY <1>6, <1>7

(* A list that reads no column outside aggregates has no occurrence. *)
LEMMA NothingOccurs ==
  ASSUME NEW s, \A i \in DOMAIN s.items : s.items[i].k \notin {"col", "qcol", "fn", "pair"}
  PROVE  Occurrences(s) = {}
<1>1. ASSUME NEW i \in DOMAIN s.items PROVE DOMAIN collect_group_by_columns(s.items[i]) = {}
  <2>1. collect_group_by_columns(s.items[i]) = << >>
    BY DEF collect_group_by_columns
  <2>2. DOMAIN << >> = {}
    OBVIOUS
  <2> QED BY <2>1, <2>2
<1> QED BY <1>1 DEF Occurrences

(* inject_group_by, in these words. *)
LEMMA Injected ==
  ASSUME NEW s, HasParts(s)
  PROVE  /\ \/ has_user_group_by(s)
            \/ \E i \in DOMAIN s.items : has_srf_unnest_marker(s.items[i])
            \/ HasStar(s)
            \/ /\ ~\E i \in DOMAIN s.items : s.items[i].k = "agg"
               /\ ~(Cardinality(Occurrences(s)) < Cardinality(Counted(s)))
            => inject_group_by(s) = s
         /\ Occurrences(s) = {} /\ s.group = {} => inject_group_by(s).group = {}
<1> DEFINE cols == Occurrences(s)
           found(i) == collect_group_by_columns(s.items[i])
           x == {found(o[1])[o[2]] : o \in cols}
           g == [s EXCEPT !.group = x]
           stays == \/ has_user_group_by(s)
                    \/ \E i \in DOMAIN s.items : has_srf_unnest_marker(s.items[i])
                    \/ HasStar(s)
                    \/ ~(\/ \E i \in DOMAIN s.items : s.items[i].k = "agg"
                         \/ cols # {} /\ Cardinality(cols) < Cardinality(Counted(s)))
<1>1. inject_group_by(s) = IF stays THEN s ELSE g
  BY DEF inject_group_by, Occurrences, Counted
<1>2. cols = {} => x = {}
  OBVIOUS
<1> HIDE DEF x
<1>3. g.group = x
  BY ReplaceGroup
<1> HIDE DEF g, cols
<1> QED BY <1>1, <1>2, <1>3 DEF cols

(* The number of rows depends on the grouping and on which kinds occur. *)
LEMMA SameRowCount ==
  ASSUME NEW s, NEW r, r.group = s.group, Unnests(r) <=> Unnests(s),
         (\E i \in DOMAIN r.items : r.items[i].k = "agg")
           <=> (\E i \in DOMAIN s.items : s.items[i].k = "agg")
  PROVE  RowCount(r) = RowCount(s)
<1>1. CASE s.group # {}
  BY <1>1 DEF RowCount
<1>2. CASE s.group = {} /\ \E i \in DOMAIN s.items : s.items[i].k = "agg"
  BY <1>2 DEF RowCount
<1>3. CASE s.group = {} /\ ~\E i \in DOMAIN s.items : s.items[i].k = "agg"
  BY <1>3 DEF RowCount
<1> QED BY <1>1, <1>2, <1>3

(* The kinds of a listed SELECT, by the client's. *)
LEMMA ListedKinds ==
  ASSUME NEW s, IsSelect(s), NEW i \in DOMAIN s.items
  PROVE  LET k == Listed(s).items[i].k
         IN  /\ s.items[i].k \in ClientKinds
             /\ s.items[i].k \notin {"srf", "srffield"} => k = s.items[i].k
             /\ s.items[i].k \in {"srf", "srffield"} => k \in Unnesting \cup {"srf", "srffield"}
<1> DEFINE u == rewrite_srf_to_unnest(s)
<1>1. Retagged(s.items[i], u.items[i])
  BY UnnestedSelect
<1>2. Listed(s).items[i].k = u.items[i].k
  BY ListedSelect
<1>3. s.items[i].k \in ClientKinds
  BY DEF IsSelect, IsItem
<1> HIDE DEF u
<1> QED BY <1>1, <1>2, <1>3 DEF Retagged

(* Nothing is grouped that PostgreSQL accepts ungrouped. *)
LEMMA GroupingKept ==
  ASSUME NEW s, IsSelect(s), PostgresAccepts(s),
         \A i \in DOMAIN s.items : s.items[i].k \notin {"like", "litcast", "now", "any"}
  PROVE  inject_group_by(Listed(s)).group = s.group
<1> DEFINE l == Listed(s)
           u == rewrite_srf_to_unnest(s)
<1>1. HasParts(l) /\ l.group = s.group /\ DOMAIN l.items = DOMAIN s.items
  BY ListedSelect
<1>2. \A i \in DOMAIN s.items :
        /\ s.items[i].k \in ClientKinds
        /\ s.items[i].k \notin {"srf", "srffield"} => l.items[i].k = s.items[i].k
        /\ s.items[i].k \in {"srf", "srffield"} => l.items[i].k \in Unnesting \cup {"srf", "srffield"}
  BY ListedKinds
<1>3. (\E i \in DOMAIN s.items : s.items[i].k \in {"srf", "srffield"})
        => \E i \in DOMAIN l.items : has_srf_unnest_marker(l.items[i])
  <2>1. \A i \in DOMAIN s.items : l.items[i].k = u.items[i].k
    BY ListedSelect
  <2>2. (\E i \in DOMAIN s.items : s.items[i].k \in {"srf", "srffield"})
          => \E i \in DOMAIN s.items : has_srf_unnest_marker(u.items[i])
    BY UnnestedSelect
  <2> HIDE DEF l, u
  <2> QED BY <1>1, <2>1, <2>2 DEF has_srf_unnest_marker
<1>4. s.items \in Seq(ToSet(s.items))
  BY DEF IsSelect
<1> DEFINE n == Len(s.items)
<1>5. n \in Nat /\ DOMAIN s.items = 1..n
  BY <1>4, LenProperties
<1> HIDE DEF l, n
<1>6. CASE s.group # {}
  BY <1>1, <1>6, Injected DEF has_user_group_by, l
<1>7. CASE s.group = {} /\ \E i \in DOMAIN s.items : s.items[i].k = "agg"
  <2>1. \A i \in DOMAIN s.items : s.items[i].k \notin {"col", "qcol", "fn", "pair"}
    BY <1>7 DEF PostgresAccepts, IsAggregated, PlainColumns
  <2>2. \A i \in DOMAIN l.items : l.items[i].k \notin {"col", "qcol", "fn", "pair"}
    BY <1>1, <1>2, <2>1 DEF Unnesting
  <2>3. Occurrences(l) = {}
    BY <2>2, NothingOccurs
  <2> QED BY <1>1, <1>7, <2>3, Injected DEF l
<1>8. CASE s.group = {} /\ ~\E i \in DOMAIN s.items : s.items[i].k = "agg"
  <2>1. CASE \E i \in DOMAIN l.items : has_srf_unnest_marker(l.items[i])
    BY <1>1, <2>1, Injected DEF l
  <2>2. CASE HasStar(l)
    BY <1>1, <2>2, Injected DEF l
  <2>3. CASE ~HasStar(l) /\ ~\E i \in DOMAIN l.items : has_srf_unnest_marker(l.items[i])
    <3>1. \A i \in DOMAIN s.items : s.items[i].k \notin {"srf", "srffield"}
      BY <1>3, <2>3
    <3>2. \A i \in DOMAIN l.items : l.items[i].k = s.items[i].k /\ l.items[i].k # "star"
      BY <1>1, <1>2, <2>3, <3>1 DEF HasStar
    <3>3. ASSUME NEW i \in DOMAIN l.items
          PROVE  l.items[i].k \in {"col", "qcol", "fn", "pair", "const"}
      <4>1. s.items[i].k \in ClientKinds /\ s.items[i].k \notin {"like", "litcast", "now", "any"}
        BY <1>1, <1>2
      <4>2. s.items[i].k \notin {"srf", "srffield", "star", "agg"}
        BY <1>1, <1>8, <3>1, <3>2
      <4> QED BY <3>2, <4>1, <4>2 DEF ClientKinds
    <3>4. ~(Cardinality(Occurrences(l)) < Cardinality(Counted(l)))
      BY <1>1, <1>5, <3>3, EveryItemOccurs
    <3>5. ~\E i \in DOMAIN l.items : l.items[i].k = "agg"
      BY <3>3
    <3> QED BY <1>1, <3>4, <3>5, Injected DEF l
  <2> QED BY <2>1, <2>2, <2>3
<1> QED BY <1>6, <1>7, <1>8

(* The stages keep the number of rows. *)
LEMMA GroupStages == StageInv => GroupingKeepsRows
<1> DEFINE s == asked.sel
           l == Listed(s)
           g == inject_group_by(l)
           f == rewrite_group_by_for_any(g)
<1> SUFFICES ASSUME StageInv, outcome = "answered", PostgresAccepts(s),
                    \A i \in DOMAIN s.items : s.items[i].k \notin {"like", "litcast", "now", "any"}
             PROVE  RowCount(stmt.sel) = RowCount(s)
  BY DEF GroupingKeepsRows
<1>1. IsSelect(s) /\ stmt.sel = f
  BY SelectStages DEF LastSelect, select_in_filters, Listed
<1>2. HasParts(l) /\ DOMAIN l.items = DOMAIN s.items
  BY <1>1, ListedSelect
<1>3. \A i \in DOMAIN s.items :
        /\ s.items[i].k \in ClientKinds
        /\ s.items[i].k \notin {"srf", "srffield"} => l.items[i].k = s.items[i].k
        /\ s.items[i].k \in {"srf", "srffield"} => l.items[i].k \in Unnesting \cup {"srf", "srffield"}
  BY <1>1, ListedKinds
<1>4. g.group = s.group
  BY <1>1, GroupingKept
<1>5. f.items = l.items
  BY <1>2, GroupPasses
<1>6. HasParts(g) /\ g.items = l.items
  <2>1. PICK x : g = l \/ g = [l EXCEPT !.group = x]
    BY DEF inject_group_by
  <2> HIDE DEF g, l
  <2>2. CASE g = l
    BY <1>2, <2>2
  <2>3. CASE g = [l EXCEPT !.group = x]
    <3> DEFINE m == [l EXCEPT !.group = x]
    <3>1. HasParts(m) /\ m.items = l.items
      BY <1>2, ReplaceGroup
    <3> HIDE DEF m
    <3> QED BY <2>3, <3>1 DEF m
  <2> QED BY <2>1, <2>2, <2>3
<1> HIDE DEF l
<1>7. \A i \in DOMAIN s.items : l.items[i].k # "any"
  BY <1>3 DEF Unnesting
<1> HIDE DEF g
<1>8. extract_any_column_name(g) = {}
  BY <1>2, <1>6, <1>7 DEF extract_any_column_name
<1>9. f.group = s.group
  <2> DEFINE x == g.group \cup extract_any_column_name(g)
             m == [g EXCEPT !.group = x]
  <2>1. f = g \/ f = m
    BY DEF rewrite_group_by_for_any
  <2>2. x = g.group
    BY <1>8
  <2> HIDE DEF x, f
  <2>3. m.group = x
    BY <1>6, ReplaceGroup
  <2> HIDE DEF m
  <2> QED BY <1>4, <2>1, <2>2, <2>3
<1> HIDE DEF f
<1>10. Unnests(f) <=> Unnests(s)
  BY <1>2, <1>3, <1>5 DEF Unnests, Unnesting
<1>11. (\E i \in DOMAIN f.items : f.items[i].k = "agg")
         <=> (\E i \in DOMAIN s.items : s.items[i].k = "agg")
  BY <1>2, <1>3, <1>5 DEF Unnesting
<1> QED BY <1>1, <1>9, <1>10, <1>11, SameRowCount

(***************************************************************************)
(* A SELECT whose items read columns, are constants or aggregates returns   *)
(* as many rows as PostgreSQL's: no GROUP BY is added that collapses them   *)
(* (rewrite_srf_to_unnest, inject_group_by, rewrite_group_by_for_any).      *)
(***************************************************************************)
THEOREM GroupingSameRows == Spec => []GroupingKeepsRows
BY Stages, GroupStages, PTL

---------------------------------------------------------------------------
(* Array constructs.                                                       *)

(* Replacing the form of a construct leaves its other fields. *)
LEMMA ReplaceConstructForm ==
  ASSUME NEW a, Arrays!HasFields(a), NEW x
  PROVE  LET b == [a EXCEPT !.form = x]
         IN  /\ Arrays!HasFields(b) /\ b.form = x /\ b.from = a.from /\ b.proj = a.proj
             /\ b.clause = a.clause /\ b.cmp = a.cmp /\ b.l = a.l /\ b.r = a.r
BY DEF Arrays!HasFields

(* So does replacing the bound of an index walk. *)
LEMMA ReplaceBound ==
  ASSUME NEW a, Arrays!HasFields(a), NEW x
  PROVE  [a EXCEPT !.bound = x].form = a.form
BY DEF Arrays!HasFields

(* So do the elements of a literal. *)
LEMMA ReplaceElements ==
  ASSUME NEW a, Arrays!HasFields(a), NEW x
  PROVE  LET b == [a EXCEPT !.l = x] IN b.form = a.form /\ b.l = x
BY DEF Arrays!HasFields

(* Which constructs each pass leaves alone. *)
LEMMA UntouchedConstructs ==
  ASSUME NEW a
  PROVE  /\ a.form # "array_call" =>
              /\ Arrays!rewrite_available_updates(a) = a
              /\ Arrays!rewrite_array_over_unnest_to_array_expression(a) = a
              /\ Arrays!rewrite_array_subquery(a) = a
         /\ a.form # "index_walk"
              => Arrays!rewrite_array_index_iteration_to_any_comparison(a) = a
         /\ a.form # "brace" => Arrays!rewrite_brace_array_literal(a) = a
         /\ a.form \notin {"array_upper", "index_walk"}
              => Arrays!rewrite_array_upper_to_array_length(a) = a
         /\ a.form # "tuple" => Arrays!rewrite_tuple_equality(a) = a
<1>1. a.form # "array_call" => Arrays!rewrite_available_updates(a) = a
  BY DEF Arrays!rewrite_available_updates
<1>2. a.form # "array_call" => Arrays!rewrite_array_over_unnest_to_array_expression(a) = a
  BY DEF Arrays!rewrite_array_over_unnest_to_array_expression
<1>3. a.form # "array_call" => Arrays!rewrite_array_subquery(a) = a
  BY DEF Arrays!rewrite_array_subquery
<1>4. a.form # "index_walk" => Arrays!rewrite_array_index_iteration_to_any_comparison(a) = a
  BY DEF Arrays!rewrite_array_index_iteration_to_any_comparison,
       Arrays!series_alias_and_indexed_array
<1>5. a.form # "brace" => Arrays!rewrite_brace_array_literal(a) = a
  BY DEF Arrays!rewrite_brace_array_literal
<1>6. a.form \notin {"array_upper", "index_walk"}
        => Arrays!rewrite_array_upper_to_array_length(a) = a
  BY DEF Arrays!rewrite_array_upper_to_array_length
<1>7. a.form # "tuple" => Arrays!rewrite_tuple_equality(a) = a
  BY DEF Arrays!rewrite_tuple_equality
<1> QED BY <1>1, <1>2, <1>3, <1>4, <1>5, <1>6, <1>7

(* What the planner makes of each form. *)
LEMMA PlannedForms ==
  ASSUME NEW a, NEW v
  PROVE  /\ a.form = "array" => Arrays!Planned(a, v) = v
         /\ a.form = "wrap_array_elements_call"
              => Arrays!Planned(a, v) = Arrays!Array(FALSE, Arrays!Mapped(a.proj, v.e))
         /\ a.form = "pg_get_array" /\ a.from = "table"
              => Arrays!Planned(a, v) = Arrays!pg_get_array(Arrays!SubqueryRows(a, v))
         /\ a.form = "any"
              => Arrays!Planned(a, v)
                   = Arrays!Array(FALSE, [x \in Arrays!Values |-> IF x \in Arrays!ToSet(v.e) THEN 1 ELSE 0])
         /\ a.form = "array_literal" => Arrays!Planned(a, v) = Arrays!Array(FALSE, a.l)
         /\ a.form = "conjunction" => Arrays!Planned(a, v) = Arrays!RowEquality(a.l, a.r)
         /\ a.form = "array_length" => Arrays!Planned(a, v) = Arrays!Array(FALSE, <<Len(v.e)>>)
         /\ a.form \in {"index_walk", "tuple", "array_call", "error"}
              => Arrays!Planned(a, v) = Arrays!Failed
         /\ a.form = "pg_get_array" /\ a.from # "table"
              => Arrays!Planned(a, v) = Arrays!Failed
<1> DEFINE wrapped == Arrays!pg_wrap_array_elements(a, v)
           got == Arrays!pg_get_array(Arrays!SubqueryRows(a, v))
           any == Arrays!Array(FALSE, [x \in Arrays!Values |-> IF x \in Arrays!ToSet(v.e) THEN 1 ELSE 0])
           literal == Arrays!Array(FALSE, a.l)
           length == Arrays!Array(FALSE, <<Len(v.e)>>)
           p == Arrays!Planned(a, v)
<1>1. p = CASE a.form = "array" -> v
            [] a.form = "wrap_array_elements_call" -> wrapped
            [] a.form = "pg_get_array" /\ a.from = "table" -> got
            [] a.form = "any" -> any
            [] a.form = "null" -> Arrays!NullArray
            [] a.form = "array_literal" -> literal
            [] a.form = "conjunction" -> Arrays!RowEquality(a.l, a.r)
            [] a.form = "array_length" -> length
            [] OTHER -> Arrays!Failed
  BY DEF Arrays!Planned
<1>2. wrapped = Arrays!Array(FALSE, Arrays!Mapped(a.proj, v.e))
  BY DEF Arrays!pg_wrap_array_elements
<1> HIDE DEF wrapped, got, any, literal, length, p
<1>3. /\ a.form = "array" => p = v
      /\ a.form = "wrap_array_elements_call" => p = wrapped
      /\ a.form = "pg_get_array" /\ a.from = "table" => p = got
      /\ a.form = "any" => p = any
  BY <1>1
<1>4. /\ a.form = "array_literal" => p = literal
      /\ a.form = "conjunction" => p = Arrays!RowEquality(a.l, a.r)
      /\ a.form = "array_length" => p = length
  BY <1>1
<1>5. /\ a.form \in {"index_walk", "tuple", "array_call", "error"} => p = Arrays!Failed
      /\ a.form = "pg_get_array" /\ a.from # "table" => p = Arrays!Failed
  BY <1>1
<1> QED BY <1>2, <1>3, <1>4, <1>5 DEF got, any, literal, length, p

(* What PostgreSQL makes of it. *)
LEMMA ReferenceForms ==
  ASSUME NEW a, NEW v
  PROVE  /\ a.form = "array_call"
              => Arrays!Reference(a, v) = Arrays!Array(FALSE, Arrays!SubqueryRows(a, v))
         /\ a.form = "index_walk"
              => Arrays!Reference(a, v) = Arrays!Array(FALSE, Arrays!IndexWalk(a, v))
         /\ a.form = "brace" => Arrays!Reference(a, v) = Arrays!Array(FALSE, a.l)
         /\ a.form = "tuple" => Arrays!Reference(a, v)
              = IF Len(a.l) = Len(a.r) THEN Arrays!RowEquality(a.l, a.r) ELSE Arrays!Failed
         /\ a.form = "array_upper"
              => Arrays!Reference(a, v) = Arrays!Array(FALSE, <<Len(v.e)>>)
BY DEF Arrays!Reference

(* Refused, or answered as PostgreSQL does. *)
Kept(a, v) ==
    Arrays!Planned(Arrays!rewrite_filters(a), v) \in
      {Arrays!Reference(a, v)} \cup (IF DocumentedArray(a) THEN {} ELSE {Arrays!Failed})

(* Either is enough. *)
LEMMA KeptEither ==
  ASSUME NEW a, NEW v,
         \/ Arrays!Planned(Arrays!rewrite_filters(a), v) = Arrays!Reference(a, v)
         \/ /\ ~DocumentedArray(a)
            /\ Arrays!Planned(Arrays!rewrite_filters(a), v) = Arrays!Failed
  PROVE  Kept(a, v)
BY DEF Kept

(* Literals, lengths and tuples. *)
LEMMA PlainConstructsKept ==
  ASSUME NEW a, Arrays!IsConstruct(a), NEW v, ClaimedArray(a, v),
         a.form \in {"brace", "array_upper", "tuple"}
  PROVE  Kept(a, v)
<1>0. Arrays!HasFields(a)
  BY DEF Arrays!IsConstruct
<1>1. CASE a.form = "brace"
  <2> DEFINE b == [a EXCEPT !.form = "array_literal"]
             same == a.l
             c == [b EXCEPT !.l = same]
  <2>1. a.l # << >>
    BY <1>1 DEF ClaimedArray
  <2>2. Arrays!rewrite_brace_array_literal(a) = c
    BY <1>1, <2>1 DEF Arrays!rewrite_brace_array_literal
  <2>3. Arrays!HasFields(b) /\ b.form = "array_literal"
    BY <1>0, ReplaceConstructForm
  <2> HIDE DEF b, same
  <2>4. c.form = "array_literal" /\ c.l = a.l
    BY <2>3, ReplaceElements DEF same
  <2> HIDE DEF c
  <2>5. Arrays!rewrite_filters(a) = c
    BY <1>1, <2>2, <2>4, UntouchedConstructs DEF Arrays!rewrite_filters
  <2>6. Arrays!Planned(c, v) = Arrays!Array(FALSE, c.l)
    BY <2>4, PlannedForms
  <2>7. Arrays!Reference(a, v) = Arrays!Array(FALSE, a.l)
    BY <1>1, ReferenceForms
  <2> QED BY <2>4, <2>5, <2>6, <2>7, KeptEither
<1>2. CASE a.form = "array_upper"
  <2> DEFINE b == [a EXCEPT !.form = "array_length"]
  <2>1. Arrays!rewrite_array_upper_to_array_length(a) = b
    BY <1>2 DEF Arrays!rewrite_array_upper_to_array_length
  <2>2. b.form = "array_length"
    BY <1>0, ReplaceConstructForm
  <2> HIDE DEF b
  <2>3. Arrays!rewrite_filters(a) = b
    BY <1>2, <2>1, <2>2, UntouchedConstructs DEF Arrays!rewrite_filters
  <2>4. Arrays!Planned(b, v) = Arrays!Array(FALSE, <<Len(v.e)>>)
    BY <2>2, PlannedForms
  <2>5. Arrays!Reference(a, v) = Arrays!Array(FALSE, <<Len(v.e)>>)
    BY <1>2, ReferenceForms
  <2> QED BY <2>3, <2>4, <2>5, KeptEither
<1>3. CASE a.form = "tuple"
  <2>0. Arrays!rewrite_filters(a) = Arrays!rewrite_tuple_equality(a)
    BY <1>3, UntouchedConstructs DEF Arrays!rewrite_filters
  <2>1. CASE Len(a.l) = Len(a.r) /\ a.l # << >>
    <3> DEFINE b == [a EXCEPT !.form = "conjunction"]
    <3>1. Arrays!rewrite_tuple_equality(a) = b
      BY <1>3, <2>1 DEF Arrays!rewrite_tuple_equality
    <3>2. b.form = "conjunction" /\ b.l = a.l /\ b.r = a.r
      BY <1>0, ReplaceConstructForm
    <3> HIDE DEF b
    <3>3. Arrays!Planned(b, v) = Arrays!RowEquality(b.l, b.r)
      BY <3>2, PlannedForms
    <3>4. Arrays!Reference(a, v) = Arrays!RowEquality(a.l, a.r)
      BY <1>3, <2>1, ReferenceForms
    <3> QED BY <2>0, <3>1, <3>2, <3>3, <3>4, KeptEither
  <2>2. CASE ~(Len(a.l) = Len(a.r) /\ a.l # << >>)
    <3>1. Arrays!rewrite_tuple_equality(a) = a
      BY <2>2 DEF Arrays!rewrite_tuple_equality
    <3>2. ~DocumentedArray(a)
      BY <1>3, <2>2 DEF DocumentedArray
    <3>3. Arrays!Planned(a, v) = Arrays!Failed
      BY <1>3, PlannedForms
    <3> QED BY <2>0, <3>1, <3>2, <3>3, KeptEither
  <2> QED BY <2>1, <2>2
<1> QED BY <1>1, <1>2, <1>3

(* A value without duplicates occurs at one position, or at none. *)
LEMMA OneHit ==
  ASSUME NEW e, e \in Seq(Nat), Cardinality(ToSet(e)) = Len(e), NEW x
  PROVE  Cardinality({i \in DOMAIN e : e[i] = x}) = IF x \in ToSet(e) THEN 1 ELSE 0
<1> DEFINE S == {i \in DOMAIN e : e[i] = x}
           n == Len(e)
<1>1. n \in Nat /\ DOMAIN e = 1..n
  BY LenProperties
<1>2. \A i, j \in DOMAIN e : e[i] = e[j] => i = j
  <2> DEFINE T == ToSet(e)
  <2>1. IsFiniteSet(1..n) /\ Cardinality(1..n) = n
    <3>1. 1 \in Int /\ n \in Int
      BY <1>1
    <3>2. IsFiniteSet(1..n) /\ Cardinality(1..n) = IF 1 > n THEN 0 ELSE n - 1 + 1
      BY <3>1, FS_Interval, Zenon
    <3> HIDE DEF n
    <3> QED BY <1>1, <3>2
  <2>2. e \in Surjection(1..n, T)
    <3>1. e \in [1..n -> T] /\ \A t \in T : \E i \in 1..n : e[i] = t
      <4>1. e = [i \in 1..n |-> e[i]]
        <5>1. e \in [1..n -> Nat]
          BY LenProperties
        <5> HIDE DEF n
        <5> QED BY <5>1
      <4>2. T = {e[i] : i \in 1..n}
        BY <1>1, Zenon DEF ToSet
      <4> HIDE DEF T
      <4> QED BY <4>1, <4>2
    <3> HIDE DEF T, n
    <3> QED BY <3>1 DEF Surjection
  <2>3. Cardinality(T) = Cardinality(1..n)
    BY <2>1
  <2> HIDE DEF T, n
  <2>4. e \in Injection(1..n, T)
    BY <2>1, <2>2, <2>3, FS_Surjection, Zenon
  <2> QED BY <1>1, <2>4 DEF Injection, IsInjective
<1>3. ToSet(e) = {e[i] : i \in DOMAIN e}
  BY <1>1, Zenon DEF ToSet
<1>4. CASE x \in ToSet(e)
  <2>1. PICK i \in DOMAIN e : e[i] = x
    BY <1>3, <1>4
  <2>2. S = {i}
    BY <1>2, <2>1
  <2> HIDE DEF S
  <2>3. Cardinality(S) = 1
    BY <2>2, FS_Singleton
  <2> QED BY <1>4, <2>3 DEF S
<1>5. CASE x \notin ToSet(e)
  <2>1. S = {}
    BY <1>3, <1>5
  <2> HIDE DEF S
  <2>2. Cardinality(S) = 0
    BY <2>1, FS_EmptySet
  <2> QED BY <1>5, <2>2 DEF S
<1> QED BY <1>4, <1>5

(* The operators an instance brings are the ones of this module. *)
LEMMA SameLibrary ==
  ASSUME NEW x
  PROVE  Arrays!ToSet(x) = ToSet(x) /\ Arrays!Cardinality(x) = Cardinality(x)
<1>1. Arrays!ToSet(x) = ToSet(x)
  BY DEF ToSet, Arrays!ToSet
<1>2. Arrays!Cardinality(x) = Cardinality(x)
  BY DEF Cardinality, Arrays!Cardinality
<1> QED BY <1>1, <1>2

(* An index walk becomes a comparison with ANY, or is refused. *)
LEMMA WalksKept ==
  ASSUME NEW a, Arrays!IsConstruct(a), NEW v, Arrays!IsArray(v), ClaimedArray(a, v),
         a.form = "index_walk"
  PROVE  Kept(a, v)
<1> DEFINE w == Arrays!rewrite_array_index_iteration_to_any_comparison(a)
           turned == /\ Arrays!series_alias_and_indexed_array(a) /\ a.others
                     /\ a.cmp = "=" /\ ~a.uses
<1>0. Arrays!HasFields(a)
  BY DEF Arrays!IsConstruct
<1>1. w = IF turned THEN [a EXCEPT !.form = "any"] ELSE a
  BY DEF Arrays!rewrite_array_index_iteration_to_any_comparison,
       Arrays!replace_index_comparisons_with_any, Arrays!select_references_identifier
<1>2. Arrays!rewrite_available_updates(a) = a
  BY UntouchedConstructs
<1>3. CASE turned
  <2> DEFINE b == [a EXCEPT !.form = "any"]
  <2>1. b.form = "any"
    BY <1>0, ReplaceConstructForm
  <2>2. w = b
    BY <1>1, <1>3
  <2> HIDE DEF b
  <2>3. Arrays!rewrite_filters(a) = b
    BY <1>2, <2>1, <2>2, UntouchedConstructs DEF Arrays!rewrite_filters
  <2> DEFINE any == [x \in Arrays!Values |-> IF x \in Arrays!ToSet(v.e) THEN 1 ELSE 0]
             walk == Arrays!IndexWalk(a, v)
  <2>4. Arrays!Planned(b, v) = Arrays!Array(FALSE, any)
    BY <2>1, PlannedForms
  <2>5. Arrays!Reference(a, v) = Arrays!Array(FALSE, walk)
    BY ReferenceForms
  <2>6. walk = any
    <3>1. v.e \in Seq(Nat) /\ Cardinality(ToSet(v.e)) = Len(v.e)
      BY DEF Arrays!IsArray, ClaimedArray
    <3>2. ASSUME NEW x \in Arrays!Values
          PROVE  Arrays!Cardinality(Arrays!IndexHits(a, v, x))
                   = IF x \in Arrays!ToSet(v.e) THEN 1 ELSE 0
      <4>1. Arrays!IndexHits(a, v, x) = {i \in DOMAIN v.e : v.e[i] = x}
        BY <1>3 DEF Arrays!IndexHits, Arrays!Values
      <4>2. Cardinality({i \in DOMAIN v.e : v.e[i] = x}) = IF x \in ToSet(v.e) THEN 1 ELSE 0
        BY <3>1, OneHit
      <4> QED BY <4>1, <4>2, SameLibrary
    <3> QED BY <3>2 DEF Arrays!IndexWalk
  <2> QED BY <2>3, <2>4, <2>5, <2>6, KeptEither
<1>4. CASE ~turned
  <2>1. w = a
    BY <1>1, <1>4
  <2>2. ~DocumentedArray(a)
    BY <1>4 DEF DocumentedArray, Arrays!series_alias_and_indexed_array, Arrays!IsConstruct
  <2> DEFINE b == Arrays!rewrite_array_upper_to_array_length(a)
  <2>3. b.form = "index_walk"
    <3>1. CASE a.bound = "array_upper"
      BY <1>0, <3>1, ReplaceBound DEF Arrays!rewrite_array_upper_to_array_length
    <3>2. CASE a.bound # "array_upper"
      BY <3>2 DEF Arrays!rewrite_array_upper_to_array_length
    <3> QED BY <3>1, <3>2
  <2> HIDE DEF b
  <2>4. Arrays!rewrite_filters(a) = b
    BY <1>2, <2>1, <2>3, UntouchedConstructs DEF Arrays!rewrite_filters, b
  <2>5. Arrays!Planned(b, v) = Arrays!Failed
    BY <2>3, PlannedForms
  <2> QED BY <2>2, <2>4, <2>5, KeptEither
<1> QED BY <1>3, <1>4

(* What a call of ARRAY becomes has a form no later pass looks at. *)
LEMMA CallBecomes ==
  ASSUME NEW a, Arrays!HasFields(a), a.form = "array_call", NEW b,
         Arrays!rewrite_array_subquery(
           Arrays!rewrite_array_over_unnest_to_array_expression(
             Arrays!rewrite_available_updates(a))) = b,
         b.form \in {"null", "array", "wrap_array_elements_call", "error", "pg_get_array"}
  PROVE  Arrays!rewrite_filters(a) = b
<1>1. Arrays!rewrite_available_updates(a).form # "index_walk"
  <2>1. CASE Arrays!rewrite_available_updates(a) = a
    BY <2>1
  <2>2. CASE Arrays!rewrite_available_updates(a) # a
    <3> DEFINE c == [a EXCEPT !.form = "null"]
    <3>1. Arrays!rewrite_available_updates(a) = c
      BY <2>2 DEF Arrays!rewrite_available_updates
    <3>2. c.form = "null"
      BY ReplaceConstructForm
    <3> HIDE DEF c
    <3> QED BY <3>1, <3>2
  <2> QED BY <2>1, <2>2
<1>2. Arrays!rewrite_array_index_iteration_to_any_comparison(Arrays!rewrite_available_updates(a))
        = Arrays!rewrite_available_updates(a)
  BY <1>1, UntouchedConstructs
<1> QED BY <1>2, UntouchedConstructs DEF Arrays!rewrite_filters

(* ARRAY(SELECT ...) has the rows of its sub-query, or is refused. *)
LEMMA CallsKept ==
  ASSUME NEW a, Arrays!IsConstruct(a), NEW v, Arrays!IsArray(v), ClaimedArray(a, v),
         a.form = "array_call"
  PROVE  Kept(a, v)
<1> DEFINE u == Arrays!rewrite_array_over_unnest_to_array_expression(a)
           rows == Arrays!SubqueryRows(a, v)
           direct == a.args = 1 /\ a.clause = "none" /\ a.from = "unnest" /\ a.alias
<1>0. /\ Arrays!HasFields(a) /\ a.from \in {"unnest", "table"}
      /\ a.proj \in {"element", "unnest", "lit||x", "x||lit", "null", "f(x)"}
      /\ a.clause \in {"none", "where", "newer", "order", "limit"}
      /\ a.alias \in BOOLEAN /\ a.qualified \in BOOLEAN
  BY DEF Arrays!IsConstruct
<1>1. /\ a.from = "table" => rows # << >>
      /\ a.from = "unnest" => /\ a.proj # "null" /\ a.clause # "newer"
                              /\ a.proj = "unnest" => a.clause \notin {"order", "limit"}
                              /\ a.proj \in {"element", "unnest"} => ~v.null
  BY DEF ClaimedArray
<1>2. Arrays!Reference(a, v) = Arrays!Array(FALSE, rows)
  BY ReferenceForms
<1>3. Arrays!rewrite_available_updates(a) = a
  BY <1>1 DEF Arrays!rewrite_available_updates, Arrays!IsUnnestFactor
<1>4. a.clause = "none" => rows = Arrays!Mapped(a.proj, v.e)
  BY DEF Arrays!SubqueryRows, Arrays!Clause
<1>5. a.clause = "none" /\ a.proj \in {"element", "unnest"} => rows = v.e
  BY <1>4 DEF Arrays!Mapped
<1>6. ~v.null => v = Arrays!Array(FALSE, v.e)
  BY DEF Arrays!IsArray
<1> HIDE DEF rows
<1>7. CASE direct /\ a.proj = "element"
  <2> DEFINE b == [a EXCEPT !.form = "array"]
  <2>1. u = b
    BY <1>7 DEF Arrays!rewrite_array_over_unnest_to_array_expression,
         Arrays!unnested_array_of_from_item, Arrays!array_expression_for_array_over_unnest
  <2>2. b.form = "array"
    BY <1>0, ReplaceConstructForm
  <2> HIDE DEF b, u
  <2>3. Arrays!rewrite_filters(a) = b
    BY <1>0, <1>3, <2>1, <2>2, UntouchedConstructs, CallBecomes DEF u
  <2>4. Arrays!Planned(b, v) = v
    BY <2>2, PlannedForms
  <2>5. v = Arrays!Array(FALSE, rows)
    BY <1>1, <1>5, <1>6, <1>7
  <2> QED BY <1>2, <2>3, <2>4, <2>5, KeptEither
<1>8. CASE direct /\ a.proj \in {"lit||x", "x||lit"}
  <2> DEFINE b == [a EXCEPT !.form = "wrap_array_elements_call"]
  <2>1. u = b
    BY <1>8 DEF Arrays!rewrite_array_over_unnest_to_array_expression,
         Arrays!unnested_array_of_from_item, Arrays!array_expression_for_array_over_unnest
  <2>2. b.form = "wrap_array_elements_call" /\ b.proj = a.proj
    BY <1>0, ReplaceConstructForm
  <2> HIDE DEF b, u
  <2>3. Arrays!rewrite_filters(a) = b
    BY <1>0, <1>3, <2>1, <2>2, UntouchedConstructs, CallBecomes DEF u
  <2>4. Arrays!Planned(b, v) = Arrays!Array(FALSE, Arrays!Mapped(b.proj, v.e))
    BY <2>2, PlannedForms
  <2> QED BY <1>2, <1>4, <1>8, <2>2, <2>3, <2>4, KeptEither
<1>9. CASE ~(direct /\ a.proj \in {"element", "lit||x", "x||lit"})
  <2>1. u = a
    BY <1>9 DEF Arrays!rewrite_array_over_unnest_to_array_expression,
         Arrays!unnested_array_of_from_item, Arrays!array_expression_for_array_over_unnest
  <2>2. CASE a.args # 1
    <3> DEFINE b == [a EXCEPT !.form = "error"]
    <3>1. Arrays!rewrite_array_subquery(a) = b
      BY <2>2 DEF Arrays!rewrite_array_subquery, Arrays!single_array_call_argument
    <3>2. b.form = "error"
      BY <1>0, ReplaceConstructForm
    <3> HIDE DEF b, u
    <3>3. Arrays!rewrite_filters(a) = b
      BY <1>0, <1>3, <2>1, <3>1, <3>2, CallBecomes DEF u
    <3>4. Arrays!Planned(b, v) = Arrays!Failed
      BY <3>2, PlannedForms
    <3>5. ~DocumentedArray(a)
      BY <2>2 DEF DocumentedArray
    <3> QED BY <3>3, <3>4, <3>5, KeptEither
  <2>3. CASE a.args = 1 /\ a.from = "unnest" /\ ~a.qualified /\ a.proj = "unnest"
               /\ a.clause = "none"
    <3> DEFINE b == [a EXCEPT !.form = "array"]
    <3>0. b.form = "array"
      BY <1>0, ReplaceConstructForm
    <3>1. Arrays!unnest_roundtrip_replacement(a) = b
      BY <2>3 DEF Arrays!unnest_roundtrip_replacement, Arrays!IsUnnestFactor
    <3> HIDE DEF b, u
    <3>2. Arrays!rewrite_array_subquery(a) = b
      BY <2>3, <3>0, <3>1 DEF Arrays!rewrite_array_subquery, Arrays!single_array_call_argument
    <3>3. Arrays!rewrite_filters(a) = b
      BY <1>0, <1>3, <2>1, <3>0, <3>2, CallBecomes DEF u
    <3>4. Arrays!Planned(b, v) = v
      BY <3>0, PlannedForms
    <3>5. v = Arrays!Array(FALSE, rows)
      BY <1>1, <1>5, <1>6, <2>3
    <3> QED BY <1>2, <3>3, <3>4, <3>5, KeptEither
  <2>4. CASE a.args = 1 /\ ~(/\ a.from = "unnest" /\ ~a.qualified /\ a.proj = "unnest"
                             /\ a.clause = "none")
    <3> DEFINE b == [a EXCEPT !.form = "pg_get_array"]
    <3>0. /\ b.form = "pg_get_array" /\ b.from = a.from /\ b.proj = a.proj
          /\ b.clause = a.clause
      BY <1>0, ReplaceConstructForm
    <3>1. Arrays!unnest_roundtrip_replacement(a) = a
      BY <1>0, <1>1, <2>4 DEF Arrays!unnest_roundtrip_replacement, Arrays!IsUnnestFactor
    <3>2. Arrays!rewrite_array_subquery(a) = b
      BY <2>4, <3>1 DEF Arrays!rewrite_array_subquery, Arrays!single_array_call_argument
    <3> HIDE DEF b, u
    <3>3. Arrays!rewrite_filters(a) = b
      BY <1>0, <1>3, <2>1, <3>0, <3>2, CallBecomes DEF u
    <3>4. CASE a.from = "table"
      <4>1. Arrays!SubqueryRows(b, v) = rows
        BY <3>0 DEF Arrays!SubqueryRows, rows
      <4>2. Arrays!Planned(b, v) = Arrays!pg_get_array(rows)
        BY <3>0, <3>4, <4>1, PlannedForms
      <4>3. Arrays!pg_get_array(rows) = Arrays!Array(FALSE, rows)
        BY <1>1, <3>4 DEF Arrays!pg_get_array
      <4> QED BY <1>2, <3>3, <4>2, <4>3, KeptEither
    <3>5. CASE a.from = "unnest"
      <4>1. Arrays!Planned(b, v) = Arrays!Failed
        BY <3>0, <3>5, PlannedForms
      <4>2. ~DocumentedArray(a)
        BY <1>9, <2>4, <3>5 DEF DocumentedArray
      <4> QED BY <3>3, <4>1, <4>2, KeptEither
    <3> QED BY <1>0, <3>4, <3>5
  <2> QED BY <2>2, <2>3, <2>4
<1> QED BY <1>7, <1>8, <1>9

(* The stages keep what an array construct evaluates to. *)
LEMMA ArrayStages == StageInv => ArraysKeepTheirElements
<1> SUFFICES ASSUME StageInv, outcome = "answered", NEW v \in RowArrays,
                    ClaimedArray(asked.arr, v)
             PROVE  Arrays!Planned(stmt.arr, v) \in
                      {Arrays!Reference(asked.arr, v)}
                        \cup (IF DocumentedArray(asked.arr) THEN {} ELSE {Arrays!Failed})
  BY DEF ArraysKeepTheirElements
<1>1. IsStatement(asked) /\ stmt = Rewritten(asked)
  BY DEF StageInv, InFlight
<1>2. stmt.arr = Arrays!rewrite_filters(asked.arr) /\ Arrays!IsConstruct(asked.arr)
  BY <1>1, StageFields DEF IsStatement
<1>3. Arrays!IsArray(v)
  BY ArrayAssumption
<1>4. asked.arr.form \in {"array_call", "index_walk", "brace", "tuple", "array_upper"}
  BY <1>2 DEF Arrays!IsConstruct
<1>5. Kept(asked.arr, v)
  BY <1>2, <1>3, <1>4, PlainConstructsKept, WalksKept, CallsKept
<1> QED BY <1>2, <1>5 DEF Kept

(***************************************************************************)
(* An array construct has the elements PostgreSQL gives it, for every      *)
(* array an outer row may hold, and a shape no pass documents is refused   *)
(* rather than answered wrongly (rewrite_array_subquery,                   *)
(* rewrite_array_over_unnest_to_array_expression,                          *)
(* rewrite_array_index_iteration_to_any_comparison and their neighbours).  *)
(***************************************************************************)
THEOREM ArraysSameElements == Spec => []ArraysKeepTheirElements
BY Stages, ArrayStages, PTL

---------------------------------------------------------------------------
(* Column names.                                                           *)

(* Counting along a list: the count grows at every member, from one on. *)
LEMMA Counting ==
  ASSUME NEW n \in Nat, NEW P, P \subseteq 1..n
  PROVE  /\ \A i \in P : Cardinality({m \in P : m <= i}) \in Nat \ {0}
         /\ \A i, j \in P : i < j =>
              Cardinality({m \in P : m <= i}) < Cardinality({m \in P : m <= j})
<1> DEFINE upto(i) == {m \in P : m <= i}
<1>1. IsFiniteSet(P)
  <2>1. 1 \in Int /\ n \in Int
    OBVIOUS
  <2>2. IsFiniteSet(1..n)
    BY <2>1, FS_Interval, Zenon
  <2> QED BY <2>2, FS_Subset
<1>2. ASSUME NEW i \in P
      PROVE  /\ IsFiniteSet(upto(i)) /\ Cardinality(upto(i)) \in Nat
             /\ Cardinality(upto(i)) # 0 /\ i \in upto(i)
  <2>1. upto(i) \in SUBSET P /\ i \in upto(i)
    OBVIOUS
  <2> HIDE DEF upto
  <2>2. IsFiniteSet(upto(i))
    BY <1>1, <2>1, FS_Subset
  <2> QED BY <2>1, <2>2, FS_CardinalityType, FS_EmptySet
<1>3. ASSUME NEW i \in P, NEW j \in P, i < j
      PROVE  Cardinality(upto(i)) < Cardinality(upto(j))
  <2>0. \A m \in P : m \in Int
    OBVIOUS
  <2>1. upto(i) \in SUBSET upto(j) /\ j \notin upto(i) /\ j \in upto(j)
    <3>1. i \in Int /\ j \in Int
      BY <2>0
    <3>2. ~(j <= i) /\ j <= j
      BY <1>3, <3>1
    <3>3. \A m \in P : m <= i => m <= j
      <4> SUFFICES ASSUME NEW m \in P, m <= i PROVE m <= j
        OBVIOUS
      <4>1. m \in Int
        BY <2>0
      <4> HIDE DEF upto
      <4> QED BY <1>3, <3>1, <4>1
    <3> QED BY <3>2, <3>3, Zenon
  <2>2. /\ IsFiniteSet(upto(j)) /\ Cardinality(upto(i)) \in Nat
        /\ Cardinality(upto(j)) \in Nat
    BY <1>2
  <2> HIDE DEF upto
  <2>3. /\ Cardinality(upto(i)) <= Cardinality(upto(j))
        /\ Cardinality(upto(j)) # Cardinality(upto(i))
    BY <2>1, <2>2, FS_Subset
  <2> QED BY <2>2, <2>3
<1> QED BY <1>2, <1>3

(* A list as the client's passes have it: records, numbered from one, their *)
(* aliases as written.                                                     *)
IsList(s, n) ==
    /\ HasParts(s) /\ n \in Nat /\ s.items = [i \in 1..n |-> s.items[i]]
    /\ \A i \in 1..n : /\ IsRecord(s.items[i])
                       /\ s.items[i].a = Name(s.items[i].a.n, 0)

(* Output names of such a list carry no number. *)
LEMMA UnnumberedName ==
  ASSUME NEW s, NEW n, IsList(s, n), NEW i \in 1..n
  PROVE  LET name == output_column_name(s.items[i]) IN name = Name(name.n, 0)
<1> DEFINE a == s.items[i].a
           name == output_column_name(s.items[i])
<1>0. \A x : Name(x, 0) = Name(Name(x, 0).n, 0)
  BY DEF Name
<1>1. a = Name(a.n, 0)
  BY DEF IsList
<1>2. NoName = Name(NoName.n, 0)
  <2>1. NoName = Name(NoColumn, 0)
    BY DEF NoName, NoColumn
  <2> QED BY <2>1 DEF Name
<1>3. name = a \/ name = Name(s.items[i].c, 0) \/ name = NoName
  BY DEF output_column_name
<1> HIDE DEF name, a
<1>4. name = Name(name.n, 0)
  <2>1. CASE name = a
    BY <1>1, <2>1
  <2>2. CASE name = Name(s.items[i].c, 0)
    BY <1>0, <2>2
  <2>3. CASE name = NoName
    BY <1>2, <2>3
  <2> QED BY <1>3, <2>1, <2>2, <2>3
<1> QED BY <1>4 DEF name

(* The occurrences of a name up to a position are counted. *)
LEMMA Seen ==
  ASSUME NEW s, NEW n, IsList(s, n)
  PROVE  LET name(i) == output_column_name(s.items[i])
             seen(i) == Cardinality({j \in 1..i : name(j) = name(i)})
         IN  /\ \A i \in 1..n : seen(i) \in Nat \ {0}
             /\ \A i, j \in 1..n : i < j /\ name(i) = name(j) => seen(i) < seen(j)
<1> DEFINE name(i) == output_column_name(s.items[i])
           seen(i) == Cardinality({j \in 1..i : name(j) = name(i)})
           P(x) == {m \in 1..n : name(m) = x}
<1>0. n \in Nat
  BY DEF IsList
<1> HIDE DEF name
<1>1. ASSUME NEW i \in 1..n
      PROVE  i \in P(name(i)) /\ {j \in 1..i : name(j) = name(i)} = {m \in P(name(i)) : m <= i}
  BY <1>0
<1>2. \A x : P(x) \subseteq 1..n
  OBVIOUS
<1> HIDE DEF P
<1>3. ASSUME NEW i \in 1..n PROVE seen(i) \in Nat \ {0}
  BY <1>0, <1>1, <1>2, Counting
<1>4. ASSUME NEW i \in 1..n, NEW j \in 1..n, i < j, name(i) = name(j) PROVE seen(i) < seen(j)
  <2>1. /\ seen(i) = Cardinality({m \in P(name(i)) : m <= i})
        /\ seen(j) = Cardinality({m \in P(name(i)) : m <= j})
        /\ i \in P(name(i)) /\ j \in P(name(i))
    BY <1>1, <1>4
  <2> HIDE DEF seen
  <2> QED BY <1>0, <1>2, <1>4, <2>1, Counting
<1> HIDE DEF seen
<1>5. /\ \A i \in 1..n : seen(i) \in Nat \ {0}
      /\ \A i, j \in 1..n : i < j /\ name(i) = name(j) => seen(i) < seen(j)
  BY <1>3, <1>4
<1> QED BY <1>5 DEF seen, name

(* An item under another alias. *)
Aliased(item, x) == [item EXCEPT !.a = x]

(* What dedup_projection makes of one item. *)
LEMMA DedupItems ==
  ASSUME NEW s, NEW n, IsList(s, n), NEW i \in 1..n
  PROVE  LET name == output_column_name(s.items[i])
             seen == Cardinality({j \in 1..i : output_column_name(s.items[j]) = name})
             d == dedup_projection(s)
         IN  /\ name = NoName \/ seen = 1 => d.items[i] = s.items[i]
             /\ ~(name = NoName \/ seen = 1)
                  => d.items[i] = Aliased(s.items[i], Name(name.n, seen))
             /\ d.items = [j \in 1..n |-> d.items[j]]
<1> DEFINE name(j) == output_column_name(s.items[j])
           seen(j) == Cardinality({m \in 1..j : name(m) = name(j)})
           suffixed(j) == [s.items[j] EXCEPT !.a = Name(name(j).n, seen(j))]
           items == [j \in DOMAIN s.items |->
                       IF name(j) = NoName \/ seen(j) = 1 THEN s.items[j] ELSE suffixed(j)]
           d == dedup_projection(s)
<1>1. d = [s EXCEPT !.items = items]
  BY DEF dedup_projection
<1>2. HasParts(s) /\ DOMAIN s.items = 1..n
  <2>1. HasParts(s) /\ s.items = [j \in 1..n |-> s.items[j]]
    BY DEF IsList
  <2> QED BY <2>1
<1> HIDE DEF suffixed, seen, name
<1>3. /\ items[i] = IF name(i) = NoName \/ seen(i) = 1 THEN s.items[i] ELSE suffixed(i)
      /\ items = [j \in 1..n |-> items[j]]
  BY <1>2
<1> HIDE DEF items, d
<1>4. d.items = items
  BY <1>1, <1>2, ReplaceItems
<1>5. /\ name(i) = NoName \/ seen(i) = 1 => d.items[i] = s.items[i]
      /\ ~(name(i) = NoName \/ seen(i) = 1) => d.items[i] = suffixed(i)
      /\ d.items = [j \in 1..n |-> d.items[j]]
  BY <1>3, <1>4
<1>6. suffixed(i) = Aliased(s.items[i], Name(name(i).n, seen(i)))
  BY DEF suffixed, Aliased
<1> HIDE DEF suffixed
<1>7. /\ name(i) = NoName \/ seen(i) = 1 => d.items[i] = s.items[i]
      /\ ~(name(i) = NoName \/ seen(i) = 1)
           => d.items[i] = Aliased(s.items[i], Name(name(i).n, seen(i)))
      /\ d.items = [j \in 1..n |-> d.items[j]]
  BY <1>5, <1>6
<1> QED BY <1>7 DEF d, seen, name

(* Names that differ already are left alone. *)
LEMMA DedupNothing ==
  ASSUME NEW s, NEW n, IsList(s, n),
         \A i, j \in 1..n : i # j /\ output_column_name(s.items[i]) # NoName
           => output_column_name(s.items[i]) # output_column_name(s.items[j])
  PROVE  dedup_projection(s).items = s.items
<1> DEFINE name(j) == output_column_name(s.items[j])
           seen(j) == Cardinality({m \in 1..j : name(m) = name(j)})
           d == dedup_projection(s)
<1>1. ASSUME NEW i \in 1..n PROVE d.items[i] = s.items[i]
  <2>1. CASE name(i) = NoName
    BY <2>1, DedupItems
  <2>2. CASE name(i) # NoName
    <3>1. {m \in 1..i : name(m) = name(i)} = {i}
      <4>0. n \in Nat
        BY DEF IsList
      <4>1. \A m \in 1..i : m \in 1..n
        BY <4>0
      <4> QED BY <2>2, <4>0, <4>1
    <3>2. seen(i) = 1
      BY <3>1, FS_Singleton
    <3> QED BY <3>2, DedupItems
  <2> QED BY <2>1, <2>2
<1>2. d.items = [j \in 1..n |-> d.items[j]] \/ 1..n = {}
  BY DedupItems
<1>3. s.items = [j \in 1..n |-> s.items[j]]
  BY DEF IsList
<1>4. CASE 1..n # {}
  <2> HIDE DEF d
  <2>1. d.items = s.items
    BY <1>1, <1>2, <1>3, <1>4
  <2> QED BY <2>1 DEF d
<1>5. CASE 1..n = {}
  <2> DEFINE made(j) == IF name(j) = NoName \/ seen(j) = 1 THEN s.items[j]
                        ELSE [s.items[j] EXCEPT !.a = Name(name(j).n, seen(j))]
             items == [j \in DOMAIN s.items |-> made(j)]
  <2>1. d = [s EXCEPT !.items = items]
    BY DEF dedup_projection
  <2> HIDE DEF made
  <2>2. items = s.items
    BY <1>3, <1>5
  <2>3. HasParts(s)
    BY DEF IsList
  <2> HIDE DEF items, d
  <2>4. d.items = s.items
    BY <2>1, <2>2, <2>3, ReplaceItems
  <2> QED BY <2>4 DEF d
<1> QED BY <1>4, <1>5

(* The output name of an item after dedup_projection. *)
LEMMA DedupNames ==
  ASSUME NEW s, NEW n, IsList(s, n), NEW i \in 1..n
  PROVE  LET name == output_column_name(s.items[i])
             seen == Cardinality({j \in 1..i : output_column_name(s.items[j]) = name})
             made == output_column_name(dedup_projection(s).items[i])
         IN  \/ (name = NoName \/ seen = 1) /\ made = name
             \/ name # NoName /\ seen # 1 /\ made = Name(name.n, seen)
<1> DEFINE name == output_column_name(s.items[i])
           seen == Cardinality({j \in 1..i : output_column_name(s.items[j]) = name})
           item == dedup_projection(s).items[i]
           x == Name(name.n, seen)
<1>0. /\ name = NoName \/ seen = 1 => item = s.items[i]
      /\ ~(name = NoName \/ seen = 1) => item = Aliased(s.items[i], x)
  BY DedupItems, ZenonT(30)
<1>1. seen \in Nat \ {0}
  BY Seen
<1>2. IsRecord(s.items[i])
  BY DEF IsList
<1> HIDE DEF x, item, seen
<1>3. CASE name = NoName \/ seen = 1
  BY <1>0, <1>3 DEF item, seen
<1>4. CASE ~(name = NoName \/ seen = 1)
  <2> DEFINE made == [s.items[i] EXCEPT !.a = x]
  <2>1. item = made
    BY <1>0, <1>4 DEF Aliased
  <2>2. made.a = x
    BY <1>2, ReplaceField
  <2> HIDE DEF made
  <2>3. x # NoName
    <3>1. NoName = Name(NoColumn, 0)
      BY DEF NoName, NoColumn
    <3> QED BY <1>1, <3>1 DEF x, Name
  <2>4. output_column_name(item) = x
    BY <2>1, <2>2, <2>3 DEF output_column_name
  <2> QED BY <1>4, <2>4 DEF x, item, seen
<1> QED BY <1>3, <1>4

(* Below the top level no two named columns share a name. *)
LEMMA DedupDistinct ==
  ASSUME NEW s, NEW n, IsList(s, n), NEW i \in 1..n, NEW j \in 1..n, i < j,
         output_column_name(dedup_projection(s).items[i]) # NoName
           \/ output_column_name(dedup_projection(s).items[j]) # NoName
  PROVE  output_column_name(dedup_projection(s).items[i])
           # output_column_name(dedup_projection(s).items[j])
<1> DEFINE name(m) == output_column_name(s.items[m])
           seen(m) == Cardinality({p \in 1..m : name(p) = name(m)})
           made(m) == output_column_name(dedup_projection(s).items[m])
<1>1. \A m \in 1..n : \/ (name(m) = NoName \/ seen(m) = 1) /\ made(m) = name(m)
                      \/ name(m) # NoName /\ seen(m) # 1 /\ made(m) = Name(name(m).n, seen(m))
  BY DedupNames
<1>2. \A m \in 1..n : name(m) = Name(name(m).n, 0)
  BY UnnumberedName
<1>3. /\ \A m \in 1..n : seen(m) \in Nat \ {0}
      /\ name(i) = name(j) => seen(i) < seen(j)
  BY Seen
<1>4. made(i) # NoName \/ made(j) # NoName
  OBVIOUS
<1> HIDE DEF name, seen, made
<1> DEFINE kept(m) == (name(m) = NoName \/ seen(m) = 1) /\ made(m) = name(m)
           suffixed(m) == name(m) # NoName /\ seen(m) # 1 /\ made(m) = Name(name(m).n, seen(m))
<1>5. ASSUME NEW m \in 1..n
      PROVE  /\ kept(m) => made(m).i = 0
             /\ suffixed(m) => made(m).i = seen(m) /\ made(m).n = name(m).n
  <2>1. kept(m) => made(m).i = 0
    <3>1. Name(name(m).n, 0).i = 0
      BY DEF Name
    <3> QED BY <1>2, <3>1
  <2>2. suffixed(m) => made(m).i = seen(m) /\ made(m).n = name(m).n
    <3>1. Name(name(m).n, seen(m)).i = seen(m) /\ Name(name(m).n, seen(m)).n = name(m).n
      BY DEF Name
    <3> QED BY <3>1
  <2> QED BY <2>1, <2>2
<1>6. made(i) # made(j)
  <2> SUFFICES ASSUME made(i) = made(j) PROVE FALSE
    OBVIOUS
  <2>0. seen(i) # 0 /\ seen(j) # 0
    BY <1>3
  <2>1. CASE kept(i) /\ kept(j)
    <3>1. seen(i) = 1 /\ seen(j) = 1 /\ name(i) = name(j)
      BY <1>4, <2>1
    <3>2. seen(i) < seen(j)
      BY <1>3, <3>1
    <3> QED BY <3>1, <3>2
  <2>2. CASE kept(i) /\ suffixed(j)
    BY <1>5, <2>0, <2>2
  <2>3. CASE suffixed(i) /\ kept(j)
    BY <1>5, <2>0, <2>3
  <2>4. CASE suffixed(i) /\ suffixed(j)
    <3>1. name(i).n = name(j).n /\ seen(i) = seen(j)
      BY <1>5, <2>4
    <3>2. name(i) = name(j)
      BY <1>2, <3>1
    <3>3. seen(i) < seen(j) /\ seen(j) \in Nat
      BY <1>3, <3>2
    <3> QED BY <3>1, <3>3
  <2>5. (kept(i) \/ suffixed(i)) /\ (kept(j) \/ suffixed(j))
    BY <1>1
  <2> HIDE DEF kept, suffixed
  <2> QED BY <2>1, <2>2, <2>3, <2>4, <2>5
<1> QED BY <1>6 DEF made

(* The numbers of the columns to alias differ, and are no missing name's. *)
LEMMA NumbersDiffer ==
  ASSUME NEW s, NEW n, IsList(s, n)
  PROVE  /\ \A i \in ToAlias(s) : /\ Numbered(s, i).i # 0 /\ Numbered(s, i).n = "alias"
                                  /\ Numbered(s, i) # NoName
         /\ \A i, j \in ToAlias(s) : Numbered(s, i) = Numbered(s, j) => i = j
<1> DEFINE count(i) == Cardinality({j \in ToAlias(s) : j <= i})
<1>1. n \in Nat /\ ToAlias(s) \subseteq 1..n
  <2>1. n \in Nat /\ s.items = [i \in 1..n |-> s.items[i]]
    BY DEF IsList
  <2>2. DOMAIN s.items = 1..n
    BY <2>1
  <2> QED BY <2>1, <2>2 DEF ToAlias
<1>2. /\ \A i \in ToAlias(s) : count(i) \in Nat \ {0}
      /\ \A i, j \in ToAlias(s) : i < j => count(i) < count(j)
  BY <1>1, Counting
<1>3. \A i : Numbered(s, i) = Name("alias", count(i))
  BY DEF Numbered
<1> HIDE DEF count
<1>4. \A x, y : Name(x, y).n = x /\ Name(x, y).i = y
  BY DEF Name
<1>5. NoName.i = 0
  <2>1. NoName = Name(NoColumn, 0)
    BY DEF NoName, NoColumn
  <2> QED BY <1>4, <2>1
<1>6. ASSUME NEW i \in ToAlias(s)
      PROVE  Numbered(s, i).i # 0 /\ Numbered(s, i).n = "alias" /\ Numbered(s, i) # NoName
  <2>1. Numbered(s, i).i = count(i) /\ Numbered(s, i).n = "alias" /\ count(i) # 0
    BY <1>2, <1>3, <1>4
  <2> QED BY <1>5, <2>1
<1>7. ASSUME NEW i \in ToAlias(s), NEW j \in ToAlias(s), Numbered(s, i) = Numbered(s, j)
      PROVE  i = j
  <2>1. count(i) = count(j)
    BY <1>3, <1>4, <1>7
  <2>2. count(i) \in Nat /\ count(j) \in Nat /\ i \in Int /\ j \in Int
    BY <1>1, <1>2
  <2> QED BY <1>2, <2>1, <2>2
<1> QED BY <1>6, <1>7

(* What alias_projection makes of a list. *)
LEMMA AliasedItems ==
  ASSUME NEW s, NEW n, IsList(s, n), s.wrap \in {"plain", "paren"}
  PROVE  LET l == alias_unnamed_columns(s)
         IN  /\ \A i \in ToAlias(s) : l.items[i].a = Numbered(s, i)
             /\ \A i \in (1..n) \ ToAlias(s) : l.items[i].a = s.items[i].a
             /\ l.aliases = {[from |-> Numbered(s, i), to |-> alias_name(s.items[i])]
                               : i \in ToAlias(s)}
<1> DEFINE numbered(i) == Aliased(s.items[i], Numbered(s, i))
           items == [i \in DOMAIN s.items |-> IF i \in ToAlias(s) THEN numbered(i) ELSE s.items[i]]
           map == {[from |-> Numbered(s, i), to |-> alias_name(s.items[i])] : i \in ToAlias(s)}
           t == [s EXCEPT !.items = items]
           l == alias_unnamed_columns(s)
<1>1. l = [t EXCEPT !.aliases = map]
  BY DEF alias_unnamed_columns, alias_projection, Aliased
<1>2. HasParts(s) /\ DOMAIN s.items = 1..n /\ \A i \in 1..n : IsRecord(s.items[i])
  <2>1. /\ HasParts(s) /\ s.items = [i \in 1..n |-> s.items[i]]
        /\ \A i \in 1..n : IsRecord(s.items[i])
    BY DEF IsList
  <2> QED BY <2>1
<1>3. ToAlias(s) \subseteq 1..n
  BY <1>2 DEF ToAlias
<1>4. \A i \in 1..n : numbered(i).a = Numbered(s, i)
  BY <1>2, ReplaceField DEF Aliased
<1> HIDE DEF numbered
<1>5. /\ \A i \in ToAlias(s) : items[i] = numbered(i)
      /\ \A i \in (1..n) \ ToAlias(s) : items[i] = s.items[i]
  BY <1>2, <1>3
<1> HIDE DEF items, map
<1>6. HasParts(t) /\ t.items = items
  <2>1. HasParts(s)
    BY <1>2
  <2> QED BY <2>1, ReplaceItems
<1> HIDE DEF t, l
<1>7. l.items = items /\ l.aliases = map
  BY <1>1, <1>6, ReplaceAliases
<1>8. /\ \A i \in ToAlias(s) : l.items[i].a = Numbered(s, i)
      /\ \A i \in (1..n) \ ToAlias(s) : l.items[i].a = s.items[i].a
      /\ l.aliases = map
  BY <1>3, <1>4, <1>5, <1>7
<1> QED BY <1>8 DEF l, map

(* A column whose name no map entry has keeps it. *)
LEMMA NotRenamed ==
  ASSUME NEW names, NEW aliases, \A m \in aliases : \A x \in names : m.from # x
  PROVE  rename_columns(names, aliases) = names
<1>1. \A x \in names : ~\E m \in aliases : m.from = x
  OBVIOUS
<1> QED BY <1>1 DEF rename_columns

(* A numbered column is called what the map says. *)
LEMMA RenamedBack ==
  ASSUME NEW s, NEW n, IsList(s, n), NEW i \in ToAlias(s)
  PROVE  rename_columns({Numbered(s, i)},
           {[from |-> Numbered(s, j), to |-> alias_name(s.items[j])] : j \in ToAlias(s)})
             = {alias_name(s.items[i])}
<1> DEFINE map == {[from |-> Numbered(s, j), to |-> alias_name(s.items[j])] : j \in ToAlias(s)}
           x == Numbered(s, i)
           y == alias_name(s.items[i])
           m == CHOOSE e \in map : e.from = x
<1>1. [from |-> x, to |-> y] \in map
  OBVIOUS
<1>2. ASSUME NEW e \in map, e.from = x PROVE e.to = y
  <2>1. PICK j \in ToAlias(s) : e = [from |-> Numbered(s, j), to |-> alias_name(s.items[j])]
    OBVIOUS
  <2>2. e.from = Numbered(s, j) /\ e.to = alias_name(s.items[j])
    BY <2>1
  <2>3. i = j
    BY <1>2, <2>2, NumbersDiffer
  <2> QED BY <2>2, <2>3
<1>3. \E e \in map : e.from = x
  <2>1. [from |-> x, to |-> y].from = x
    OBVIOUS
  <2> HIDE DEF map, x, y
  <2> QED BY <1>1, <2>1
<1> HIDE DEF map, x, y
<1>4. m \in map /\ m.from = x
  BY <1>3
<1>5. m.to = y
  BY <1>2, <1>4
<1>6. rename_columns({x}, map) = {m.to}
  BY <1>3 DEF rename_columns
<1> QED BY <1>5, <1>6 DEF map, x, y

(* The list the passes name the columns of, before any is named. *)
Resolved(s) == resolve_order_by_names_to_output_positions(rewrite_srf_to_unnest(s))

(* It is such a list, item by item the client's. *)
LEMMA ResolvedList ==
  ASSUME NEW s, IsSelect(s), WrittenAliases(s)
  PROVE  /\ IsList(Resolved(s), Len(s.items)) /\ DOMAIN s.items = 1..Len(s.items)
         /\ Resolved(s).wrap = s.wrap
         /\ \A i \in DOMAIN s.items : /\ IsItem(s.items[i])
                                      /\ Retagged(s.items[i], Resolved(s).items[i])
<1> DEFINE u == rewrite_srf_to_unnest(s)
           r == Resolved(s)
           n == Len(s.items)
<1>1. /\ n \in Nat /\ DOMAIN s.items = 1..n
      /\ \A i \in DOMAIN s.items : IsItem(s.items[i])
  <2>1. s.items \in Seq(ToSet(s.items)) /\ \A i \in DOMAIN s.items : IsItem(s.items[i])
    BY DEF IsSelect
  <2> QED BY <2>1, LenProperties
<1>2. /\ HasParts(u) /\ u.wrap = s.wrap /\ u.items = [i \in DOMAIN s.items |-> u.items[i]]
      /\ \A i \in DOMAIN s.items : Retagged(s.items[i], u.items[i])
  BY UnnestedSelect
<1> HIDE DEF u
<1>3. HasParts(r) /\ r.items = u.items /\ r.wrap = s.wrap
  BY <1>2, ResolveFields DEF Resolved, u
<1> HIDE DEF r
<1>4. \A i \in DOMAIN s.items : Retagged(s.items[i], r.items[i])
  BY <1>2, <1>3
<1>5. ASSUME NEW i \in DOMAIN s.items
      PROVE  IsRecord(r.items[i]) /\ r.items[i].a = Name(r.items[i].a.n, 0)
  <2>1. IsRecord(r.items[i]) /\ r.items[i].a = s.items[i].a
    BY <1>4 DEF Retagged
  <2>2. s.items[i].a = Name(s.items[i].a.n, s.items[i].a.i) /\ s.items[i].a.i = 0
    BY <1>1 DEF IsItem, WrittenAliases
  <2> QED BY <2>1, <2>2
<1>6. r.items = [i \in 1..n |-> r.items[i]]
  BY <1>1, <1>2, <1>3
<1>7. IsList(r, n)
  BY <1>1, <1>3, <1>5, <1>6 DEF IsList
<1> QED BY <1>1, <1>3, <1>4, <1>7 DEF r

(* No column of a claimed list is suffixed. *)
LEMMA NothingSuffixed ==
  ASSUME NEW s, IsSelect(s), ClaimedList(s)
  PROVE  LET d == disambiguate_duplicate_columns(Resolved(s))
         IN  IsList(d, Len(s.items)) /\ d.items = Resolved(s).items /\ d.wrap = s.wrap
<1> DEFINE r == Resolved(s)
           n == Len(s.items)
           d == disambiguate_duplicate_columns(r)
<1>0. WrittenAliases(s) /\ s.wrap \in {"plain", "paren"}
  BY DEF ClaimedList
<1>1. /\ IsList(r, n) /\ DOMAIN s.items = 1..n /\ r.wrap = s.wrap
      /\ \A i \in DOMAIN s.items : IsItem(s.items[i]) /\ Retagged(s.items[i], r.items[i])
  BY <1>0, ResolvedList
<1> HIDE DEF r, n
<1>2. CASE s.wrap = "plain"
  <2>1. d = r
    BY <1>1, <1>2 DEF disambiguate_duplicate_columns
  <2> QED BY <1>1, <2>1 DEF r, n
<1>3. CASE s.wrap = "paren"
  <2> DEFINE name(i) == output_column_name(r.items[i])
  <2>1. ASSUME NEW i \in 1..n
        PROVE  /\ name(i) = output_column_name(s.items[i])
               /\ name(i) # NoName => PostgresColumns(s)[i] = {name(i)}
    <3>1. name(i) = output_column_name(s.items[i])
      BY <1>1, RetaggedName
    <3> HIDE DEF name
    <3>2. ASSUME name(i) # NoName PROVE PostgresColumns(s)[i] = {name(i)}
      <4>1. PostgresName(s.items[i]) = name(i)
        BY <3>1, <3>2, OutputName
      <4>2. s.items[i].k # "star"
        <5> SUFFICES ASSUME s.items[i].k = "star" PROVE FALSE
          OBVIOUS
        <5>1. s.items[i].a = NoName
          BY <1>1 DEF IsItem
        <5> QED BY <3>1, <3>2, <5>1 DEF output_column_name
      <4> QED BY <1>1, <4>1, <4>2 DEF PostgresColumns
    <3> QED BY <3>1, <3>2
  <2> HIDE DEF name
  <2>2. \A i, j \in 1..n : i # j => PostgresColumns(s)[i] \cap PostgresColumns(s)[j] = {}
    BY <1>1, <1>3 DEF ClaimedList
  <2>3. \A i, j \in 1..n : i # j /\ name(i) # NoName => name(i) # name(j)
    <3> SUFFICES ASSUME NEW i \in 1..n, NEW j \in 1..n, i # j, name(i) # NoName, name(i) = name(j)
                 PROVE  FALSE
      OBVIOUS
    <3>1. PostgresColumns(s)[i] = {name(i)} /\ PostgresColumns(s)[j] = {name(i)}
      BY <2>1
    <3> QED BY <2>2, <3>1
  <2>4. dedup_projection(r).items = r.items
    BY <1>1, <2>3, DedupNothing DEF name
  <2>5. d = dedup_projection(r)
    BY <1>1, <1>3 DEF disambiguate_duplicate_columns
  <2>6. HasParts(d) /\ d.wrap = r.wrap
    <3>1. HasParts(r) /\ \A i \in DOMAIN r.items : IsRecord(r.items[i])
      <4>1. /\ HasParts(r) /\ r.items = [i \in 1..n |-> r.items[i]]
            /\ \A i \in 1..n : IsRecord(r.items[i])
        BY <1>1 DEF IsList
      <4> QED BY <4>1
    <3> QED BY <3>1, DisambiguateRenames DEF Renamed
  <2> HIDE DEF d
  <2>7. d.items = r.items
    BY <2>4, <2>5
  <2>8. IsList(d, n)
    BY <1>1, <2>6, <2>7 DEF IsList
  <2> QED BY <1>1, <2>6, <2>7, <2>8 DEF d, r, n
<1> QED BY <1>0, <1>2, <1>3

(* The columns of a claimed list once they are named: the ones without a    *)
(* name are numbered, and the map takes each number to PostgreSQL's name.   *)
LEMMA NamedList ==
  ASSUME NEW s, IsSelect(s), ClaimedList(s)
  PROVE  LET d == disambiguate_duplicate_columns(Resolved(s))
             l == Listed(s)
         IN  /\ IsList(d, Len(s.items)) /\ DOMAIN s.items = 1..Len(s.items)
             /\ DOMAIN l.items = DOMAIN s.items /\ l.where = s.where
             /\ l.aliases = {[from |-> Numbered(d, i), to |-> alias_name(d.items[i])]
                               : i \in ToAlias(d)}
             /\ \A i \in DOMAIN s.items :
                  /\ l.items[i].c = s.items[i].c /\ l.items[i].k = d.items[i].k
                  /\ l.items[i].k = "star" <=> s.items[i].k = "star"
                  /\ i \in ToAlias(d) <=> s.items[i].a = NoName /\ s.items[i].k # "star"
                  /\ i \notin ToAlias(d) => l.items[i].a = s.items[i].a
                  /\ i \in ToAlias(d) => /\ l.items[i].a = Numbered(d, i)
                                         /\ alias_name(d.items[i]) = PostgresName(s.items[i])
<1> DEFINE r == Resolved(s)
           n == Len(s.items)
           d == disambiguate_duplicate_columns(r)
           l == Listed(s)
<1>0. WrittenAliases(s) /\ s.wrap \in {"plain", "paren"}
  BY DEF ClaimedList
<1>1. /\ DOMAIN s.items = 1..n
      /\ \A i \in DOMAIN s.items : IsItem(s.items[i]) /\ Retagged(s.items[i], r.items[i])
  BY <1>0, ResolvedList
<1>2. IsList(d, n) /\ d.items = r.items /\ d.wrap = s.wrap
  BY NothingSuffixed
<1>3. l = alias_unnamed_columns(d)
  BY DEF Listed, Resolved, select_before_filters
<1>4. DOMAIN l.items = DOMAIN s.items /\ l.where = s.where
  BY ListedSelect
<1> HIDE DEF r, n, d
<1>5. /\ \A i \in ToAlias(d) : l.items[i].a = Numbered(d, i)
      /\ \A i \in (1..n) \ ToAlias(d) : l.items[i].a = d.items[i].a
      /\ l.aliases = {[from |-> Numbered(d, i), to |-> alias_name(d.items[i])] : i \in ToAlias(d)}
  BY <1>0, <1>2, <1>3, AliasedItems
<1>6. /\ DOMAIN d.items = 1..n
      /\ \A i \in 1..n : l.items[i].k = d.items[i].k /\ l.items[i].c = d.items[i].c
  <2>1. /\ HasParts(d) /\ d.items = [i \in 1..n |-> d.items[i]]
        /\ \A i \in 1..n : IsRecord(d.items[i])
    BY <1>2 DEF IsList
  <2>2. DOMAIN d.items = 1..n
    BY <2>1
  <2>3. Renamed(d, l)
    BY <1>3, <2>1, <2>2, AliasRenames
  <2> QED BY <2>2, <2>3 DEF Renamed
<1> HIDE DEF l
<1>7. ASSUME NEW i \in DOMAIN s.items
      PROVE  /\ l.items[i].c = s.items[i].c /\ l.items[i].k = d.items[i].k
             /\ l.items[i].k = "star" <=> s.items[i].k = "star"
             /\ i \in ToAlias(d) <=> s.items[i].a = NoName /\ s.items[i].k # "star"
             /\ i \notin ToAlias(d) => l.items[i].a = s.items[i].a
             /\ i \in ToAlias(d) => /\ l.items[i].a = Numbered(d, i)
                                    /\ alias_name(d.items[i]) = PostgresName(s.items[i])
  <2>1. IsItem(s.items[i]) /\ Retagged(s.items[i], d.items[i]) /\ i \in 1..n
    BY <1>1, <1>2
  <2>2. /\ d.items[i].c = s.items[i].c /\ d.items[i].a = s.items[i].a
        /\ s.items[i].k \notin {"srf", "srffield"} => d.items[i].k = s.items[i].k
    BY <2>1 DEF Retagged
  <2>3. d.items[i].k = "star" <=> s.items[i].k = "star"
    BY <2>1 DEF Retagged, Unnesting
  <2>4. i \in ToAlias(d) <=> s.items[i].a = NoName /\ s.items[i].k # "star"
    BY <1>6, <2>1, <2>2, <2>3 DEF ToAlias
  <2>5. ASSUME i \in ToAlias(d) PROVE alias_name(d.items[i]) = PostgresName(s.items[i])
    <3>1. /\ s.items[i].a = NoName /\ s.items[i].k \notin {"srf", "srffield"}
          /\ s.items[i].k \in ClientKinds
      BY <2>1, <2>4, <2>5 DEF ClaimedList, IsItem
    <3>2. d.items[i].k = s.items[i].k /\ d.items[i].c = s.items[i].c
      BY <2>2, <3>1
    <3>3. CASE s.items[i].k \in {"col", "qcol"}
      BY <3>1, <3>2, <3>3 DEF alias_name, PostgresName
    <3>4. CASE s.items[i].k \in {"fn", "agg", "now"}
      BY <3>1, <3>2, <3>4 DEF alias_name, PostgresName
    <3>5. CASE s.items[i].k = "litcast"
      BY <3>1, <3>2, <3>5 DEF alias_name, PostgresName
    <3>6. CASE s.items[i].k \notin {"col", "qcol", "fn", "agg", "now", "litcast"}
      BY <3>1, <3>2, <3>6 DEF alias_name, PostgresName, ClientKinds
    <3> QED BY <3>3, <3>4, <3>5, <3>6
  <2> QED BY <1>5, <1>6, <2>1, <2>2, <2>3, <2>4, <2>5
<1> QED BY <1>1, <1>2, <1>4, <1>5, <1>7 DEF d, r, n, l

(* Such names of one item, none of them a system column's the text does not *)
(* mention, reach the client as they are.                                  *)
LEMMA NotRemoved ==
  ASSUME NEW s, NEW names, \A c \in SystemColumns : Name(c, 0) \in names => Mentions(s, c)
  PROVE  remove_virtual_system_columns(s, names) = names
BY DEF remove_virtual_system_columns

(* A column the client named, or one that has its name from PostgreSQL.      *)
LEMMA OneColumn ==
  ASSUME NEW s, IsSelect(s), ClaimedList(s), NEW i \in DOMAIN s.items, s.items[i].k # "star"
  PROVE  plan_collect_and_rename(Listed(s))[i] = PostgresColumns(s)[i]
<1> DEFINE d == disambiguate_duplicate_columns(Resolved(s))
           l == Listed(s)
           map == {[from |-> Numbered(d, j), to |-> alias_name(d.items[j])] : j \in ToAlias(d)}
           x == PostgresName(s.items[i])
           planned == PlannedColumns(l)[i]
<1>1. /\ IsList(d, Len(s.items)) /\ DOMAIN l.items = DOMAIN s.items /\ l.aliases = map
      /\ l.items[i].c = s.items[i].c /\ l.items[i].k # "star"
      /\ i \in ToAlias(d) <=> s.items[i].a = NoName
      /\ i \notin ToAlias(d) => l.items[i].a = s.items[i].a
      /\ i \in ToAlias(d) => /\ l.items[i].a = Numbered(d, i)
                             /\ alias_name(d.items[i]) = x
  BY NamedList, Zenon
<1>2. \A m \in map : m.from.i # 0
  <2> SUFFICES ASSUME NEW j \in ToAlias(d)
               PROVE  [from |-> Numbered(d, j), to |-> alias_name(d.items[j])].from.i # 0
    OBVIOUS
  <2>1. Numbered(d, j).i # 0
    BY <1>1, NumbersDiffer
  <2> HIDE DEF d
  <2> QED BY <2>1
<1>3. planned = {l.items[i].a} \/ l.items[i].a = NoName
  <2> HIDE DEF l
  <2> QED BY <1>1 DEF PlannedColumns
<1>4. rename_columns(planned, map) = {x}
  <2>1. CASE i \in ToAlias(d)
    <3>1. l.items[i].a = Numbered(d, i) /\ Numbered(d, i) # NoName
      BY <1>1, <2>1, NumbersDiffer
    <3>2. planned = {Numbered(d, i)}
      BY <1>3, <3>1
    <3>3. rename_columns({Numbered(d, i)}, map) = {alias_name(d.items[i])}
      BY <1>1, <2>1, RenamedBack
    <3> HIDE DEF map, d, l, planned, x
    <3> QED BY <1>1, <2>1, <3>2, <3>3
  <2>2. CASE i \notin ToAlias(d)
    <3>1. l.items[i].a = s.items[i].a /\ s.items[i].a # NoName
      BY <1>1, <2>2
    <3>2. planned = {s.items[i].a} /\ x = s.items[i].a
      BY <1>3, <3>1 DEF PostgresName
    <3>3. s.items[i].a.i = 0
      BY DEF ClaimedList, WrittenAliases
    <3>4. \A m \in map : m.from # s.items[i].a
      BY <1>2, <3>3
    <3> HIDE DEF map, planned
    <3>5. rename_columns({s.items[i].a}, map) = {s.items[i].a}
      BY <3>4, NotRenamed
    <3> QED BY <3>2, <3>5
  <2> QED BY <2>1, <2>2
<1>5. ASSUME NEW c \in SystemColumns, Name(c, 0) = x PROVE Mentions(l, c)
  <2>1. c = "xmin" /\ x.n = c
    BY <1>5 DEF SystemColumns, Name
  <2>2. c \in {l.items[i].c, l.items[i].a.n}
    <3>1. CASE s.items[i].a # NoName
      BY <1>1, <2>1, <3>1 DEF PostgresName
    <3>2. CASE s.items[i].a = NoName
      <4>1. s.items[i].k \notin {"srf", "srffield"}
        BY <3>2 DEF ClaimedList
      <4>2. x \in {Name(s.items[i].c, 0), Name("fn", 0), Name("agg", 0), Name("now", 0),
                   Name("text", 0), Unnamed}
        BY <3>2, <4>1 DEF PostgresName
      <4>3. x.n \in {s.items[i].c, "fn", "agg", "now", "text", "?column?"}
        <5> HIDE DEF x
        <5> QED BY <4>2 DEF Name, Unnamed
      <4> QED BY <1>1, <2>1, <4>3
    <3> QED BY <3>1, <3>2
  <2> HIDE DEF l
  <2> QED BY <1>1, <2>2 DEF Mentions
<1>6. PostgresColumns(s)[i] = {x}
  BY DEF PostgresColumns
<1>7. remove_virtual_system_columns(l, {x}) = {x}
  <2> HIDE DEF x, l
  <2> QED BY <1>5, NotRemoved
<1>8. plan_collect_and_rename(l)[i]
        = remove_virtual_system_columns(l, rename_columns(planned, l.aliases))
  <2> HIDE DEF l
  <2> QED BY <1>1 DEF plan_collect_and_rename
<1> HIDE DEF l, planned, map, x
<1>9. plan_collect_and_rename(l)[i] = PostgresColumns(s)[i]
  BY <1>1, <1>4, <1>6, <1>7, <1>8
<1> QED BY <1>9 DEF l

(* The text of a claimed list with a star mentions no system column, and     *)
(* naming its columns adds no mention.                                      *)
LEMMA NoNewMention ==
  ASSUME NEW s, IsSelect(s), ClaimedList(s), HasStar(s), NEW c \in SystemColumns
  PROVE  ~Mentions(Listed(s), c)
<1> DEFINE d == disambiguate_duplicate_columns(Resolved(s))
           l == Listed(s)
<1>1. /\ IsList(d, Len(s.items)) /\ DOMAIN l.items = DOMAIN s.items /\ l.where = s.where
      /\ \A i \in DOMAIN s.items :
           /\ l.items[i].c = s.items[i].c
           /\ l.items[i].k = "star" <=> s.items[i].k = "star"
           /\ i \notin ToAlias(d) => l.items[i].a = s.items[i].a
           /\ i \in ToAlias(d) => l.items[i].a = Numbered(d, i)
  BY NamedList, Zenon
<1>2. ~Mentions(s, c)
  BY DEF ClaimedList
<1>3. c # "alias"
  BY DEF SystemColumns
<1>4. \A i \in ToAlias(d) : Numbered(d, i).n = "alias"
  BY <1>1, NumbersDiffer
<1> HIDE DEF d, l
<1>5. ~Mentions(l, c)
  <2> SUFFICES ASSUME Mentions(l, c) PROVE FALSE
    OBVIOUS
  <2>1. ~s.where
    BY <1>2 DEF Mentions
  <2>2. PICK i \in DOMAIN l.items : l.items[i].k # "star" /\ c \in {l.items[i].c, l.items[i].a.n}
    BY <1>1, <2>1 DEF Mentions
  <2>3. i \in DOMAIN s.items /\ s.items[i].k # "star" /\ l.items[i].c = s.items[i].c
    BY <1>1, <2>2
  <2>4. c \in {s.items[i].c, s.items[i].a.n}
    <3>1. CASE i \in ToAlias(d)
      BY <1>1, <1>3, <1>4, <2>2, <2>3, <3>1
    <3>2. CASE i \notin ToAlias(d)
      BY <1>1, <2>2, <2>3, <3>2
    <3> QED BY <3>1, <3>2
  <2> QED BY <1>2, <2>3, <2>4 DEF Mentions
<1> QED BY <1>5 DEF l

(* A star yields the columns of the relation that are not the system's. *)
LEMMA StarColumn ==
  ASSUME NEW s, IsSelect(s), ClaimedList(s), NEW i \in DOMAIN s.items, s.items[i].k = "star"
  PROVE  plan_collect_and_rename(Listed(s))[i] = PostgresColumns(s)[i]
<1> DEFINE d == disambiguate_duplicate_columns(Resolved(s))
           l == Listed(s)
           map == {[from |-> Numbered(d, j), to |-> alias_name(d.items[j])] : j \in ToAlias(d)}
           names == {Name(c, 0) : c \in StarColumns}
<1>1. /\ IsList(d, Len(s.items)) /\ DOMAIN l.items = DOMAIN s.items /\ l.aliases = map
      /\ l.items[i].k = "star"
  BY NamedList, Zenon
<1>2. \A m \in map : \A x \in names : m.from # x
  <2>1. ASSUME NEW j \in ToAlias(d), NEW x \in names
        PROVE  [from |-> Numbered(d, j), to |-> alias_name(d.items[j])].from # x
    <3>1. Numbered(d, j).i # 0
      BY <1>1, NumbersDiffer
    <3>2. x.i = 0
      BY DEF Name
    <3> HIDE DEF names, d
    <3> QED BY <3>1, <3>2
  <2> HIDE DEF names, d
  <2> QED BY <2>1
<1>3. HasStar(s)
  BY DEF HasStar
<1>4. \A c \in SystemColumns : ~Mentions(l, c)
  BY <1>3, NoNewMention
<1> HIDE DEF l, map
<1>5. PlannedColumns(l)[i] = names
  BY <1>1 DEF PlannedColumns
<1>6. rename_columns(names, map) = names
  <2> HIDE DEF names
  <2> QED BY <1>2, NotRenamed
<1>7. plan_collect_and_rename(l)[i] = remove_virtual_system_columns(l, names)
  <2> HIDE DEF names
  <2> QED BY <1>1, <1>5, <1>6 DEF plan_collect_and_rename
<1>8. remove_virtual_system_columns(l, names) = {Name(c, 0) : c \in StarColumns \ SystemColumns}
  <2>1. remove_virtual_system_columns(l, names)
          = {x \in names : \A c \in SystemColumns : x # Name(c, 0)}
    <3> HIDE DEF names
    <3> QED BY <1>4 DEF remove_virtual_system_columns
  <2>2. \A b, c : Name(b, 0) = Name(c, 0) => b = c
    BY DEF Name
  <2> QED BY <2>1, <2>2
<1>9. PostgresColumns(s)[i] = {Name(c, 0) : c \in StarColumns \ SystemColumns}
  BY DEF PostgresColumns
<1> QED BY <1>7, <1>8, <1>9 DEF l

(* What the client receives depends on no other part than these. *)
LEMMA SameColumns ==
  ASSUME NEW f, NEW l, f.items = l.items, f.where = l.where, f.aliases = l.aliases
  PROVE  plan_collect_and_rename(f) = plan_collect_and_rename(l)
<1>1. PlannedColumns(f) = PlannedColumns(l)
  BY DEF PlannedColumns
<1>2. \A c : Mentions(f, c) <=> Mentions(l, c)
  BY DEF Mentions
<1>3. \A names : remove_virtual_system_columns(f, names) = remove_virtual_system_columns(l, names)
  BY <1>2 DEF remove_virtual_system_columns
<1> QED BY <1>1, <1>3 DEF plan_collect_and_rename

(* The stages keep the columns' names. *)
LEMMA ColumnStages == StageInv => ClientColumnsKeepTheirNames
<1> SUFFICES ASSUME StageInv, outcome = "answered"
             PROVE  ClientColumnsKeepTheirNames
  BY DEF ClientColumnsKeepTheirNames
<1> DEFINE s == asked.sel
           f == stmt.sel
           l == Listed(s)
<1>1. IsSelect(s) /\ f = LastSelect(s)
  BY SelectStages
<1>2. HasParts(l) /\ DOMAIN l.items = DOMAIN s.items
  BY <1>1, ListedSelect
<1>3. f.items = l.items /\ f.where = l.where /\ f.aliases = l.aliases
  BY <1>1, <1>2, GroupPasses DEF LastSelect, Listed, select_in_filters
<1>4. ASSUME ClaimedList(s) PROVE plan_collect_and_rename(f) = PostgresColumns(s)
  <2>1. \A i \in DOMAIN s.items : plan_collect_and_rename(l)[i] = PostgresColumns(s)[i]
    BY <1>1, <1>4, OneColumn, StarColumn
  <2>2. /\ plan_collect_and_rename(l) = [i \in DOMAIN s.items |-> plan_collect_and_rename(l)[i]]
        /\ PostgresColumns(s) = [i \in DOMAIN s.items |-> PostgresColumns(s)[i]]
    <3> HIDE DEF l
    <3> QED BY <1>2 DEF plan_collect_and_rename, PostgresColumns
  <2>3. plan_collect_and_rename(l) = PostgresColumns(s)
    <3> HIDE DEF l, s
    <3> QED BY <2>1, <2>2
  <2> QED BY <1>3, <2>3, SameColumns
<1>5. ASSUME s.wrap = "derived", WrittenAliases(s),
             NEW i \in DOMAIN f.items, NEW j \in DOMAIN f.items, i # j,
             output_column_name(f.items[i]) # NoName
      PROVE  output_column_name(f.items[i]) # output_column_name(f.items[j])
  <2> DEFINE r == Resolved(s)
             n == Len(s.items)
  <2>1. IsList(r, n) /\ DOMAIN s.items = 1..n /\ r.wrap = s.wrap
    BY <1>1, <1>5, ResolvedList
  <2>2. i \in 1..n /\ j \in 1..n
    BY <1>2, <1>3, <2>1
  <2>3. disambiguate_duplicate_columns(r) = dedup_projection(r)
    BY <1>5, <2>1 DEF disambiguate_duplicate_columns
  <2>4. dedup_projection(r).wrap = s.wrap
    <3>1. HasParts(r) /\ \A m \in DOMAIN r.items : IsRecord(r.items[m])
      <4>1. /\ HasParts(r) /\ r.items = [m \in 1..n |-> r.items[m]]
            /\ \A m \in 1..n : IsRecord(r.items[m])
        BY <2>1 DEF IsList
      <4> HIDE DEF r, n
      <4> QED BY <4>1
    <3>2. Renamed(r, dedup_projection(r))
      BY <2>3, <3>1, DisambiguateRenames
    <3> QED BY <2>1, <3>2 DEF Renamed
  <2>5. l = dedup_projection(r)
    <3>1. l = alias_unnamed_columns(dedup_projection(r))
      BY <2>3 DEF Listed, Resolved, select_before_filters
    <3> HIDE DEF l, r
    <3> QED BY <1>5, <2>4, <3>1 DEF alias_unnamed_columns
  <2>6. f.items = dedup_projection(r).items
    BY <1>3, <2>5
  <2> HIDE DEF f, r, n
  <2>7. CASE i < j
    BY <1>5, <2>1, <2>2, <2>6, <2>7, DedupDistinct
  <2>8. CASE j < i
    BY <1>5, <2>1, <2>2, <2>6, <2>8, DedupDistinct
  <2>9. i < j \/ j < i
    <3>1. n \in Nat
      BY <2>1 DEF IsList
    <3> QED BY <1>5, <2>2, <3>1
  <2> QED BY <2>7, <2>8, <2>9
<1> QED BY <1>4, <1>5 DEF ClientColumnsKeepTheirNames

(***************************************************************************)
(* However many passes rename a column on its way to the planner, the       *)
(* client sees the name PostgreSQL gives it, and no two named columns of a   *)
(* derived table share a name (disambiguate_duplicate_columns,              *)
(* alias_unnamed_columns, rename_columns).                                  *)
(***************************************************************************)
THEOREM ClientColumnsSameNames == Spec => []ClientColumnsKeepTheirNames
BY Stages, ColumnStages, PTL
=============================================================================
