----------------------- MODULE CatalogFunctionsProofs -----------------------
(***************************************************************************)
(* Proofs about CatalogFunctions for any calls, catalogs and resolvers,    *)
(* any number of workers, of changes to the slots and of nested queries.   *)
(***************************************************************************)
EXTENDS CatalogFunctions, SequenceTheorems, WellFoundedInduction, TLAPS

QueryPhases == {"plan", "scan", "slot", "ask", "reply"}
Places == QueryPhases \cup {"start", "rows", "nested"}

Frame ==
  [rt : {"host", "fallback"}, polled : BOOLEAN, core : BOOLEAN, pc : Places]

(* Where a function goes on when its catalog query has answered. *)
Back(fn) == IF fn \in DefinitionFns THEN "ask" ELSE "rows"

(***************************************************************************)
(* The tasks of a call: the function itself, or the function blocked on    *)
(* its catalog query; above the one that asks a resolver, the queries of   *)
(* the callback.                                                           *)
(***************************************************************************)
Alone(c) ==
  /\ stack[c][1].pc \in {"start", "ask", "rows"}
  /\ \A i \in 2 .. Len(stack[c]) : stack[c][i].pc = "nested"
  /\ Len(stack[c]) > 1 => stack[c][1].pc = "ask"

Querying(c) ==
  /\ Len(stack[c]) >= 2 /\ stack[c][1].pc = Back(call[c].fn)
  /\ stack[c][2].pc \in QueryPhases
  /\ \A i \in 3 .. Len(stack[c]) : stack[c][i].pc = "nested"
  /\ Len(stack[c]) > 2 => stack[c][2].pc = "ask"

StackInv(c) ==
  /\ stack[c] \in Seq(Frame)
  /\ stack[c] # <<>> => Alone(c) \/ Querying(c)

(* Where the call is, leaving the callback's queries aside. *)
Phase(c) ==
  IF stack[c] = <<>> THEN "none"
  ELSE IF Len(stack[c]) >= 2 /\ stack[c][2].pc # "nested" THEN stack[c][2].pc
  ELSE stack[c][1].pc

InQuery(c) == Len(stack[c]) >= 2 /\ stack[c][2].pc # "nested"

PhaseInv(c) ==
  /\ call[c].fn \in RuntimeFns =>
       Phase(c) \in {"none", "start", "ask", "rows"} /\ (Phase(c) # "none" => ~InQuery(c))
  /\ call[c].fn \in LookupFns =>
       Phase(c) \in {"none", "start", "plan", "scan", "reply", "rows"}
  /\ call[c].fn = "format_type" => Phase(c) \in {"none", "start", "rows"}
  /\ call[c].fn \in DefinitionFns =>
       Phase(c) \in {"none", "start", "plan", "scan", "reply", "ask", "rows"}
  /\ call[c].fn = "pg_get_indexdef" /\ Phase(c) = "ask" => InQuery(c)

IsCall(k) ==
  k = [fn |-> k.fn, args |-> k.args, scans |-> k.scans, bound |-> k.bound, reads |-> k.reads,
       resolver |-> k.resolver, found |-> k.found, parsed |-> k.parsed, todo |-> k.todo,
       text |-> k.text, failed |-> k.failed, nested |-> k.nested]

CallInv(c) ==
  /\ IsCall(call[c])
  /\ call[c].fn \in Fns
  /\ \A j \in DOMAIN call[c].args : \A x, y \in call[c].args[j] : x = y

(* A slot holds one resolver at most. *)
OneAtMost(s) == \A x, y \in s : x = y

(* The slot a call reads; functions over catalog rows alone read none. *)
SlotOf(c) == SlotShown(call[c].fn)

(* What the host has in place now is among what a running call has seen.   *)
SeenInv(c) ==
  /\ \A s \in seen[c].slots : OneAtMost(s)
  /\ stack[c] # <<>> => /\ SlotOf(c) \in seen[c].slots
                        /\ TablesShown(call[c].fn) \subseteq seen[c].shown
                        /\ SomeMissing(call[c].fn) => seen[c].missing
  /\ ~Invoked(c) => stack[c] = <<>> /\ ~call[c].failed /\ seen[c].shown = {}

(* A table was found in a state that was shown, and so was every part of   *)
(* it that was read; only a lazy table is asked of the source, and the     *)
(* second query of pg_get_indexdef finds the first one done.               *)
ReadsInv(c) ==
  /\ \/ call[c].scans = FirstQuery(call[c].fn)
     \/ call[c].fn = "pg_get_indexdef" /\ call[c].scans = FirstQuery(call[c].fn) \cup {"a"}
  /\ DOMAIN call[c].bound = Tables
  /\ \A t \in Tables :
       /\ call[c].bound[t] \in {"no", "builtin", "lazy"}
       /\ call[c].bound[t] # "no" => \E a \in call[c].scans : TableOf(a) = t
       /\ call[c].bound[t] = "lazy" => provider[t] = "lazy"
  /\ DOMAIN call[c].reads = Aliases
  /\ \A a \in Aliases :
       /\ call[c].reads[a] \in Seq(DOMAIN Catalogs)
       /\ call[c].bound[TableOf(a)] # "lazy" => call[c].reads[a] = <<>>
  /\ \A a \in call[c].scans :
       /\ call[c].bound[TableOf(a)] = "builtin" => <<TableOf(a), 0>> \in seen[c].shown
       /\ \A n \in DOMAIN call[c].reads[a] :
            <<TableOf(a), call[c].reads[a][n]>> \in seen[c].shown
  /\ DOMAIN call[c].reads["c"] \subseteq DOMAIN Catalogs[1]["pg_class"]
  /\ "a" \in call[c].scans => Unbound(c) \subseteq {"pg_attribute"} /\ Unscanned(c) \subseteq {"a"}

(* A query that is answered has read all of its tables, and without one    *)
(* nothing is read.                                                        *)
NothingRead(c) == \A a \in call[c].scans : call[c].bound[TableOf(a)] = "no"
AllRead(c) == Unbound(c) = {} /\ Unscanned(c) = {}

RefusedScan(c) == \E a \in call[c].scans : Refused(TableOf(a), call[c].reads[a])

(* A catalog query has something to look up, and fails only when a table   *)
(* is missing or a scan refused.                                           *)
FailInv(c) ==
  /\ Phase(c) \in {"plan", "scan"} => Keys(c) # {}
  /\ Phase(c) \in {"start", "plan", "scan", "slot"} => ~call[c].failed
  /\ call[c].failed => seen[c].missing \/ RefusedScan(c)
  /\ ~Invoked(c) \/ Phase(c) = "start" => NothingRead(c)
  /\ Phase(c) = "scan" => Unbound(c) = {}
  /\ Invoked(c) /\ Phase(c) \in {"slot", "ask", "reply", "rows", "none"} =>
       call[c].failed \/ NothingRead(c) \/ AllRead(c)

HostInv ==
  /\ DOMAIN stack = Calls /\ DOMAIN call = Calls /\ DOMAIN seen = Calls
  /\ DOMAIN slot = SlotFns /\ \A fn \in SlotFns : OneAtMost(slot[fn])
  /\ DOMAIN provider = Tables
  /\ \A t \in Tables : provider[t] \in {"builtin", "missing", "lazy"}
  /\ version \in DOMAIN Catalogs

(* The parts of the control invariant that are about one call. *)
OneInv(c) ==
  StackInv(c) /\ PhaseInv(c) /\ CallInv(c) /\ SeenInv(c) /\ ReadsInv(c) /\ FailInv(c)

ControlInv == HostInv /\ \A c \in Calls : OneInv(c)

-----------------------------------------------------------------------------
(* The row that is built for argument a. *)
RowOf(c, a) ==
  LET of(k) == IF k \in DOMAIN call[c].text THEN call[c].text[k] ELSE None
  IN IF call[c].fn # "oid" THEN of(a)
     ELSE IF parse_catalog_object_reference(a) = "-" THEN {Text("catalog", 0, "", <<>>)}
          ELSE of(parse_catalog_object_reference(a))

Expected(c, s, a) == Reference(call[c].fn, s, Got(c), a)

(* The rows no resolver has still to be asked for are those PostgreSQL     *)
(* would answer with resolver s over the rows that were read; and asking s *)
(* for the others, by the identity that was found, would give these.       *)
Explained(c, s) ==
  /\ \A a \in Distinct(c) : a \notin call[c].todo => RowOf(c, a) = Expected(c, s, a)
  /\ call[c].todo # {} =>
       /\ call[c].resolver = s /\ call[c].fn # "oid"
       /\ call[c].todo \subseteq Distinct(c) \cap DOMAIN call[c].text
       /\ \A k \in call[c].todo : \A r \in s :
            resolve(r, k, call[c].found[k]) = Expected(c, s, k)

(* What the first query of pg_get_indexdef finds in the rows tabs. *)
FoundIn(c, tabs) ==
  LET found == On(tabs, "pg_get_indexdef") \cap Distinct(c)
      plain == {o \in found : IsPlain(tabs, o)}
  IN /\ call[c].found = [o \in found |-> Identity(tabs, "pg_get_indexdef", o)]
     /\ call[c].parsed = [o \in plain |-> IndexParts(tabs, o)]

(* An index has its text from the rows exactly if it is plain and its      *)
(* columns have names.                                                     *)
FromRows(tabs, k) ==
  LET ks == IndexParts(tabs, k).keys
      columns == ColumnNames(tabs, IndexParts(tabs, k))
  IN IF /\ k \in On(tabs, "pg_get_indexdef") /\ IsPlain(tabs, k)
        /\ \A i \in DOMAIN ks : ks[i] # 0 /\ columns[ks[i]] # None
     THEN {Text("catalog", k, Identity(tabs, "pg_get_indexdef", k),
                [i \in DOMAIN ks |-> CHOOSE n \in columns[ks[i]] : TRUE])}
     ELSE None

RenderedFrom(c, tabs) ==
  /\ FoundIn(c, tabs)
  /\ DOMAIN call[c].text = Distinct(c)
  /\ \A k \in Distinct(c) : call[c].text[k] = FromRows(tabs, k)

Settled(c) == \E s \in seen[c].slots : Explained(c, s)

WorkInv(c) ==
  /\ ~Invoked(c) \/ Phase(c) = "start" => call[c].text = <<>> /\ "a" \notin call[c].scans
  /\ ~Invoked(c) \/ Phase(c) \in {"start", "plan", "scan", "slot"} => call[c].todo = {}
  /\ Invoked(c) /\ ~call[c].failed =>
       /\ Phase(c) \in {"plan", "scan"} /\ call[c].fn \in DefinitionFns =>
            call[c].resolver \in seen[c].slots
       /\ Phase(c) = "slot" => call[c].fn = "pg_get_indexdef"
       /\ Phase(c) \in {"plan", "scan"} /\ "a" \in call[c].scans => FoundIn(c, Got(c))
       /\ Phase(c) = "slot" => RenderedFrom(c, Got(c))
       /\ Phase(c) \in {"ask", "reply", "rows", "none"} /\ call[c].fn # "format_type" =>
            Settled(c)
       /\ Phase(c) \in {"rows", "none"} => call[c].todo = {}
       /\ Phase(c) = "reply" /\ call[c].fn \notin DefinitionFns => call[c].todo = {}

IInv == ControlInv /\ \A c \in Calls : WorkInv(c)

-----------------------------------------------------------------------------
(* A nonempty set of numbers has a least one. *)
LEMMA LeastOid ==
  ASSUME NEW T, T \subseteq Nat, T # {}
  PROVE  \E x \in T : \A y \in T : x <= y
<1> DEFINE R == {p \in Nat \X Nat : p[1] < p[2]}
<1>1. IsWellFoundedOn(R, Nat)
  BY NatLessThanWellFounded DEF OpToRel
<1>2. PICK x \in T : \A y \in T : <<y, x>> \notin R
  BY <1>1, WFMin
<1>3. ASSUME NEW y \in T PROVE x <= y
  <2>1. x \in Nat /\ y \in Nat /\ <<y, x>> \notin R
    BY <1>2
  <2>2. ~(y < x)
    BY <2>1
  <2> QED BY <2>1, <2>2
<1> QED BY <1>2, <1>3

(***************************************************************************)
(* What the operations on a stack of tasks do to its places.               *)
(***************************************************************************)
LEMMA TopFrame ==
  ASSUME NEW c \in Calls, stack[c] \in Seq(Frame), stack[c] # <<>>
  PROVE  /\ Len(stack[c]) \in Nat \ {0} /\ Top(c) = stack[c][Len(stack[c])]
         /\ Top(c) \in Frame
         /\ DOMAIN stack[c] = 1 .. Len(stack[c])
<1>1. Len(stack[c]) \in Nat /\ Len(stack[c]) # 0 /\ DOMAIN stack[c] = 1 .. Len(stack[c])
  BY EmptySeq, LenProperties
<1> QED BY <1>1, ElementOfSeq DEF Top, Last

(* Goto moves the task on top. *)
LEMMA AfterGoto ==
  ASSUME DOMAIN stack = Calls, NEW c \in Calls, stack[c] \in Seq(Frame), stack[c] # <<>>,
         NEW p \in Places, stack' = Goto(c, p)
  PROVE  /\ DOMAIN stack' = Calls /\ \A d \in Calls : d # c => stack'[d] = stack[d]
         /\ stack'[c] \in Seq(Frame) /\ Len(stack'[c]) = Len(stack[c]) /\ stack'[c] # <<>>
         /\ stack'[c][Len(stack[c])].pc = p
         /\ \A i \in 1 .. Len(stack[c]) - 1 : stack'[c][i] = stack[c][i]
<1> DEFINE n == Len(stack[c])
           e == [stack[c][n] EXCEPT !.pc = p]
<1>1. n \in Nat \ {0} /\ n \in 1 .. n /\ stack[c][n] \in Frame /\ DOMAIN stack[c] = 1 .. n
  BY TopFrame
<1>2. stack' = [stack EXCEPT ![c] = [stack[c] EXCEPT ![n] = e]]
  BY <1>1 DEF Goto
<1>3. e \in Frame /\ e.pc = p
  BY <1>1 DEF Frame
<1> HIDE DEF n, e
<1>4. stack'[c] = [stack[c] EXCEPT ![n] = e]
  BY <1>2
<1>5. stack'[c] \in Seq(Frame) /\ Len(stack'[c]) = n /\ stack'[c] # <<>>
  BY <1>1, <1>3, <1>4, ExceptSeq, EmptySeq DEF n
<1>6. stack'[c][n] = e /\ \A i \in 1 .. n - 1 : stack'[c][i] = stack[c][i]
  BY <1>1, <1>4
<1> QED BY <1>2, <1>3, <1>5, <1>6 DEF n

(* A catalog query puts its task on top of the one that waits for it. *)
LEMMA AfterQuery ==
  ASSUME DOMAIN stack = Calls, NEW c \in Calls, stack[c] \in Seq(Frame), stack[c] # <<>>,
         NEW p \in Places, NEW back \in Places, run_catalog_query(c, p, back)
  PROVE  /\ DOMAIN stack' = Calls /\ \A d \in Calls : d # c => stack'[d] = stack[d]
         /\ stack'[c] \in Seq(Frame) /\ Len(stack'[c]) = Len(stack[c]) + 1 /\ stack'[c] # <<>>
         /\ stack'[c][Len(stack[c])].pc = back /\ stack'[c][Len(stack[c]) + 1].pc = p
         /\ \A i \in 1 .. Len(stack[c]) - 1 : stack'[c][i] = stack[c][i]
<1> DEFINE n == Len(stack[c])
           rt == IF on_multi_thread(Top(c).rt) THEN Top(c).rt ELSE "fallback"
           b == [Top(c) EXCEPT !.pc = back, !.core = Top(c).core /\ ~on_multi_thread(Top(c).rt)]
           t == Task(rt, p)
<1>1. n \in Nat \ {0} /\ Top(c) \in Frame /\ stack[c] # <<>>
  BY TopFrame
<1>2. stack' = [stack EXCEPT ![c] = Front(stack[c]) \o <<b, t>>]
  BY DEF run_catalog_query
<1>3. b \in Frame /\ b.pc = back
  BY <1>1 DEF Frame, on_multi_thread
<1>4. t \in Frame /\ t.pc = p
  <2>1. Top(c).rt \in {"host", "fallback"}
    BY <1>1 DEF Frame
  <2>2. CASE on_multi_thread(Top(c).rt)
    BY <2>1, <2>2 DEF Frame, Task
  <2>3. CASE ~on_multi_thread(Top(c).rt)
    BY <2>3 DEF Frame, Task
  <2> QED BY <2>2, <2>3
<1> HIDE DEF n, rt, b, t
<1>5. Front(stack[c]) = SubSeq(stack[c], 1, n - 1)
  BY DEF Front, n
<1>6. /\ Front(stack[c]) \in Seq(Frame) /\ Len(Front(stack[c])) = n - 1
      /\ \A i \in 1 .. n - 1 : Front(stack[c])[i] = stack[c][i]
  <2> DEFINE q == stack[c]
  <2>1. q \in Seq(Frame) /\ n - 1 \in Nat /\ n = Len(q)
    BY <1>1 DEF n
  <2> HIDE DEF q
  <2>2. /\ SubSeq(q, 1, n - 1) \in Seq(Frame) /\ Len(SubSeq(q, 1, n - 1)) = n - 1
        /\ \A i \in 1 .. n - 1 : SubSeq(q, 1, n - 1)[i] = q[i]
    BY <1>1, <2>1
  <2> QED BY <1>5, <2>2 DEF q
<1>7. stack'[c] = Front(stack[c]) \o <<b, t>> /\ <<b, t>> \in Seq(Frame)
  BY <1>2, <1>3, <1>4
<1>8. /\ stack'[c] \in Seq(Frame) /\ Len(stack'[c]) = n + 1
      /\ stack'[c][n] = b /\ stack'[c][n + 1] = t
      /\ \A i \in 1 .. n - 1 : stack'[c][i] = stack[c][i]
  <2> DEFINE q == Front(stack[c])
             u == <<b, t>>
  <2>1. u \in Seq(Frame) /\ Len(u) = 2 /\ u[1] = b /\ u[2] = t
    BY <1>3, <1>4
  <2>2. q \in Seq(Frame) /\ Len(q) = n - 1 /\ \A i \in 1 .. n - 1 : q[i] = stack[c][i]
    BY <1>6
  <2> HIDE DEF q, u
  <2>3. /\ q \o u \in Seq(Frame) /\ Len(q \o u) = Len(q) + Len(u)
        /\ \A i \in 1 .. Len(q) + Len(u) :
             (q \o u)[i] = IF i <= Len(q) THEN q[i] ELSE u[i - Len(q)]
    BY <2>1, <2>2, ConcatProperties
  <2> DEFINE x == q \o u
  <2> HIDE DEF x
  <2>4. /\ x \in Seq(Frame) /\ Len(x) = n - 1 + 2
        /\ \A i \in 1 .. n - 1 + 2 : x[i] = IF i <= n - 1 THEN q[i] ELSE u[i - (n - 1)]
    BY <2>1, <2>2, <2>3 DEF x
  <2>5. x[n] = u[1] /\ x[n + 1] = u[2] /\ \A i \in 1 .. n - 1 : x[i] = q[i]
    BY <1>1, <2>4
  <2>6. Len(x) = n + 1
    BY <1>1, <2>4
  <2> QED BY <1>7, <2>1, <2>2, <2>4, <2>5, <2>6 DEF x, q, u
<1>9. stack'[c] # <<>>
  BY <1>1, <1>8, EmptySeq
<1> QED BY <1>2, <1>3, <1>4, <1>8, <1>9 DEF n

(* The task on top ends. *)
LEMMA AfterPop ==
  ASSUME DOMAIN stack = Calls, NEW c \in Calls, stack[c] \in Seq(Frame), Len(stack[c]) > 1,
         stack' = [stack EXCEPT ![c] = Front(@)]
  PROVE  /\ DOMAIN stack' = Calls /\ \A d \in Calls : d # c => stack'[d] = stack[d]
         /\ stack'[c] \in Seq(Frame) /\ Len(stack'[c]) = Len(stack[c]) - 1 /\ stack'[c] # <<>>
         /\ \A i \in 1 .. Len(stack[c]) - 1 : stack'[c][i] = stack[c][i]
<1> DEFINE n == Len(stack[c])
<1>1. n \in Nat /\ n > 1
  BY LenProperties
<1>2. stack'[c] = SubSeq(stack[c], 1, n - 1)
  BY DEF Front
<1>3. /\ stack'[c] \in Seq(Frame) /\ Len(stack'[c]) = n - 1
      /\ \A i \in 1 .. n - 1 : stack'[c][i] = stack[c][i]
  BY <1>1, <1>2
<1>4. stack'[c] # <<>>
  BY <1>1, <1>3, EmptySeq
<1> QED BY <1>3, <1>4

(* Taking a task up leaves every place as it is. *)
LEMMA AfterPoll ==
  ASSUME DOMAIN stack = Calls, NEW c \in Calls, stack[c] \in Seq(Frame), Poll(c)
  PROVE  /\ DOMAIN stack' = Calls /\ \A d \in Calls : d # c => stack'[d] = stack[d]
         /\ stack'[c] \in Seq(Frame) /\ Len(stack'[c]) = Len(stack[c])
         /\ stack[c] # <<>> /\ stack'[c] # <<>>
         /\ \A i \in 1 .. Len(stack[c]) : stack'[c][i].pc = stack[c][i].pc
<1> DEFINE n == Len(stack[c])
           e == [stack[c][n] EXCEPT !.polled = TRUE, !.core = TRUE]
<1>1. stack[c] # <<>>
  BY DEF Poll, Running
<1>2. n \in Nat \ {0} /\ n \in 1 .. n /\ stack[c][n] \in Frame /\ DOMAIN stack[c] = 1 .. n
  BY <1>1, TopFrame
<1>3. stack' = [stack EXCEPT ![c] = [stack[c] EXCEPT ![n] = e]]
  BY <1>2 DEF Poll
<1>4. e \in Frame /\ e.pc = stack[c][n].pc
  BY <1>2 DEF Frame
<1> HIDE DEF n, e
<1>5. stack'[c] = [stack[c] EXCEPT ![n] = e]
  BY <1>3
<1>6. stack'[c] \in Seq(Frame) /\ Len(stack'[c]) = n /\ stack'[c] # <<>>
  BY <1>2, <1>4, <1>5, ExceptSeq, EmptySeq DEF n
<1>7. stack'[c][n] = e /\ \A i \in 1 .. n : i # n => stack'[c][i] = stack[c][i]
  BY <1>2, <1>5
<1> QED BY <1>1, <1>3, <1>4, <1>6, <1>7 DEF n

(***************************************************************************)
(* The same operations, as moves of the call from one place to another.    *)
(***************************************************************************)
Ended(c) == stack' = [stack EXCEPT ![c] = Front(@)]

Moved(c, q) ==
  /\ StackInv(c)' /\ Phase(c)' = q
  /\ DOMAIN stack' = Calls /\ \A d \in Calls : d # c => stack'[d] = stack[d]

(* The task on top, unless it is a callback's, is where the call is. *)
LEMMA TopPlace ==
  ASSUME NEW c \in Calls, StackInv(c), NEW p, p # "nested", At(c, p)
  PROVE  /\ Phase(c) = p /\ stack[c] # <<>>
         /\ \/ Len(stack[c]) = 1 /\ p \in {"start", "ask", "rows"} /\ Alone(c)
            \/ Len(stack[c]) = 2 /\ p \in QueryPhases /\ Querying(c)
<1>1. /\ stack[c] # <<>> /\ Len(stack[c]) \in Nat \ {0}
      /\ stack[c][Len(stack[c])].pc = p
  BY TopFrame DEF At, StackInv
<1> DEFINE n == Len(stack[c])
<1> HIDE DEF n
<1>2. CASE Alone(c)
  <2>1. Len(stack[c]) = 1
    <3>1. \A i \in 2 .. n : stack[c][i].pc = "nested"
      BY <1>2 DEF Alone, n
    <3>2. n \in Nat \ {0} /\ stack[c][n].pc # "nested"
      BY <1>1 DEF n
    <3>3. n = 1
      BY <3>1, <3>2
    <3> QED BY <3>3 DEF n
  <2> QED BY <1>1, <1>2, <2>1 DEF Alone, Phase
<1>3. CASE Querying(c)
  <2>1. Len(stack[c]) = 2
    <3>1. n >= 2 /\ \A i \in 3 .. n : stack[c][i].pc = "nested"
      BY <1>3 DEF Querying, n
    <3>2. n \in Nat \ {0} /\ stack[c][n].pc # "nested"
      BY <1>1 DEF n
    <3>3. n = 2
      BY <3>1, <3>2
    <3> QED BY <3>3 DEF n
  <2> QED BY <1>1, <1>3, <2>1 DEF Querying, Phase, QueryPhases
<1> QED BY <1>1, <1>2, <1>3 DEF StackInv

(* Goto moves the call to another place of the same task. *)
LEMMA GotoMoves ==
  ASSUME DOMAIN stack = Calls, NEW c \in Calls, StackInv(c), NEW p, p # "nested", At(c, p),
         NEW q \in Places, stack' = Goto(c, q), call'[c].fn = call[c].fn,
         Len(stack[c]) = 1 => q \in {"start", "ask", "rows"},
         Len(stack[c]) = 2 => q \in QueryPhases
  PROVE  Moved(c, q) /\ Len(stack'[c]) = Len(stack[c]) /\ (InQuery(c)' <=> InQuery(c))
<1>1. stack[c] \in Seq(Frame) /\ stack[c] # <<>>
  BY TopPlace DEF StackInv
<1>2. /\ DOMAIN stack' = Calls /\ \A d \in Calls : d # c => stack'[d] = stack[d]
      /\ stack'[c] \in Seq(Frame) /\ Len(stack'[c]) = Len(stack[c]) /\ stack'[c] # <<>>
      /\ stack'[c][Len(stack[c])].pc = q
      /\ \A i \in 1 .. Len(stack[c]) - 1 : stack'[c][i] = stack[c][i]
  BY <1>1, AfterGoto
<1>3. CASE Len(stack[c]) = 1
  BY <1>2, <1>3 DEF Moved, StackInv, Phase, Alone, InQuery
<1>4. CASE Len(stack[c]) = 2
  <2>1. Querying(c)
    <3>1. Len(stack[c]) = 1 \/ Querying(c)
      BY TopPlace
    <3> QED BY <1>4, <3>1
  <2>2. stack'[c][1].pc = stack[c][1].pc /\ stack'[c][2].pc = q
    BY <1>2, <1>4
  <2>3. q # "nested" /\ q \in QueryPhases /\ stack[c][2].pc \in QueryPhases
    BY <1>4, <2>1 DEF QueryPhases, Querying
  <2> QED BY <1>2, <1>4, <2>1, <2>2, <2>3 DEF Moved, StackInv, Phase, Querying, InQuery, QueryPhases
<1> QED BY <1>3, <1>4, TopPlace

(* The function blocks on its catalog query. *)
LEMMA QueryMoves ==
  ASSUME DOMAIN stack = Calls, NEW c \in Calls, StackInv(c), At(c, "start"),
         run_catalog_query(c, "plan", Back(call[c].fn)), call'[c].fn = call[c].fn
  PROVE  Moved(c, "plan") /\ InQuery(c)'
<1>1. stack[c] \in Seq(Frame) /\ stack[c] # <<>> /\ Len(stack[c]) = 1
  BY TopPlace DEF StackInv, QueryPhases
<1>2. "plan" \in Places /\ Back(call[c].fn) \in Places
  BY DEF Places, QueryPhases, Back
<1>3. /\ DOMAIN stack' = Calls /\ \A d \in Calls : d # c => stack'[d] = stack[d]
      /\ stack'[c] \in Seq(Frame) /\ Len(stack'[c]) = 2 /\ stack'[c] # <<>>
      /\ stack'[c][1].pc = Back(call[c].fn) /\ stack'[c][2].pc = "plan"
  <2> DEFINE back == Back(call[c].fn)
             first == "plan"
  <2>1. first \in Places /\ back \in Places /\ run_catalog_query(c, first, back)
    BY <1>2
  <2> HIDE DEF back, first
  <2>2. /\ DOMAIN stack' = Calls /\ \A d \in Calls : d # c => stack'[d] = stack[d]
        /\ stack'[c] \in Seq(Frame) /\ Len(stack'[c]) = Len(stack[c]) + 1 /\ stack'[c] # <<>>
        /\ stack'[c][Len(stack[c])].pc = back /\ stack'[c][Len(stack[c]) + 1].pc = first
    <3>1. stack[c] \in Seq(Frame) /\ stack[c] # <<>>
      BY <1>1
    <3> QED BY <2>1, <3>1, AfterQuery
  <2> QED BY <1>1, <2>2 DEF back, first
<1>4. Querying(c)'
  BY <1>3 DEF Querying, QueryPhases
<1> QED BY <1>3, <1>4 DEF Moved, StackInv, Phase, InQuery

(* A callback's query, and its end, leave the call where it is. *)
LEMMA NestedStays ==
  ASSUME DOMAIN stack = Calls, NEW c \in Calls, StackInv(c), At(c, "nested") \/ At(c, "ask"),
         run_catalog_query(c, "nested", Top(c).pc), call'[c].fn = call[c].fn
  PROVE  Moved(c, Phase(c)) /\ stack[c] # <<>> /\ (InQuery(c)' <=> InQuery(c))
<1> DEFINE n == Len(stack[c])
<1>1. stack[c] \in Seq(Frame) /\ stack[c] # <<>>
  BY DEF StackInv, At
<1>2. /\ n \in Nat \ {0} /\ Top(c) = stack[c][n] /\ Top(c).pc \in {"nested", "ask"}
      /\ Top(c).pc \in Places /\ "nested" \in Places
  BY <1>1, TopFrame DEF At, Places, QueryPhases
<1>3. /\ DOMAIN stack' = Calls /\ \A d \in Calls : d # c => stack'[d] = stack[d]
      /\ stack'[c] \in Seq(Frame) /\ Len(stack'[c]) = n + 1 /\ stack'[c] # <<>>
      /\ stack'[c][n].pc = Top(c).pc /\ stack'[c][n + 1].pc = "nested"
      /\ \A i \in 1 .. n - 1 : stack'[c][i] = stack[c][i]
  BY <1>1, <1>2, AfterQuery
<1> HIDE DEF n
<1>4. \A i \in 1 .. n : stack'[c][i].pc = stack[c][i].pc
  <2> SUFFICES ASSUME NEW i \in 1 .. n PROVE stack'[c][i].pc = stack[c][i].pc
    OBVIOUS
  <2>1. CASE i = n
    BY <1>2, <1>3, <2>1
  <2>2. CASE i # n
    BY <1>2, <1>3, <2>2
  <2> QED BY <2>1, <2>2
<1>5. \A i \in 1 .. n + 1 : i # n + 1 => stack'[c][i].pc = stack[c][i].pc
  BY <1>2, <1>4
<1>6. CASE Alone(c)
  <2>1. stack'[c][1].pc = stack[c][1].pc
    BY <1>2, <1>4
  <2>2. stack[c][1].pc = "ask"
    BY <1>2, <1>6 DEF Alone, n
  <2>3. \A i \in 2 .. n + 1 : stack'[c][i].pc = "nested"
    BY <1>2, <1>3, <1>5, <1>6 DEF Alone, n
  <2>4. Alone(c)'
    BY <1>3, <2>1, <2>2, <2>3 DEF Alone
  <2>5. stack'[c][2].pc = "nested" /\ (n >= 2 => stack[c][2].pc = "nested")
    BY <1>2, <1>6, <2>3 DEF Alone, n
  <2> QED BY <1>1, <1>2, <1>3, <2>1, <2>4, <2>5 DEF Moved, StackInv, Phase, InQuery, n
<1>7. CASE Querying(c)
  <2>1. n >= 2 /\ stack'[c][1].pc = stack[c][1].pc /\ stack'[c][2].pc = stack[c][2].pc
    BY <1>2, <1>4, <1>7 DEF Querying, n
  <2>2. stack[c][2].pc = "ask"
    BY <1>2, <1>7 DEF Querying, QueryPhases, n
  <2>3. \A i \in 3 .. n + 1 : stack'[c][i].pc = "nested"
    BY <1>2, <1>3, <1>5, <1>7 DEF Querying, n
  <2>4. Querying(c)'
    BY <1>2, <1>3, <1>7, <2>1, <2>2, <2>3 DEF Querying, QueryPhases
  <2> QED BY <1>1, <1>2, <1>3, <2>1, <2>2, <2>4 DEF Moved, StackInv, Phase, InQuery, n
<1> QED BY <1>1, <1>6, <1>7 DEF StackInv

(* The end of a callback's query leaves the call where it is. *)
LEMMA EndNestedStays ==
  ASSUME DOMAIN stack = Calls, NEW c \in Calls, StackInv(c), At(c, "nested"),
         Ended(c), call'[c].fn = call[c].fn
  PROVE  Moved(c, Phase(c)) /\ stack[c] # <<>> /\ (InQuery(c)' <=> InQuery(c))
<1> DEFINE n == Len(stack[c])
<1>1. stack[c] \in Seq(Frame) /\ stack[c] # <<>>
  BY DEF StackInv, At
<1>2. n \in Nat \ {0} /\ stack[c][n].pc = "nested"
  BY <1>1, TopFrame DEF At
<1>3. n > 1
  BY <1>1, <1>2 DEF StackInv, Alone, Querying, QueryPhases
<1>4. /\ DOMAIN stack' = Calls /\ \A d \in Calls : d # c => stack'[d] = stack[d]
      /\ stack'[c] \in Seq(Frame) /\ Len(stack'[c]) = n - 1 /\ stack'[c] # <<>>
      /\ \A i \in 1 .. n - 1 : stack'[c][i] = stack[c][i]
  BY <1>1, <1>3, AfterPop DEF Ended
<1> HIDE DEF n
<1>5. CASE Alone(c)
  <2>1. stack'[c][1] = stack[c][1] /\ stack[c][2].pc = "nested"
    BY <1>2, <1>3, <1>4, <1>5 DEF Alone, n
  <2>2. \A i \in 2 .. n - 1 : stack'[c][i].pc = "nested"
    BY <1>2, <1>3, <1>4, <1>5 DEF Alone, n
  <2>3. Alone(c)'
    BY <1>2, <1>3, <1>4, <1>5, <2>1, <2>2 DEF Alone, n
  <2>4. n - 1 >= 2 => stack'[c][2].pc = "nested"
    BY <1>2, <2>2
  <2> QED BY <1>1, <1>2, <1>4, <2>1, <2>3, <2>4 DEF Moved, StackInv, Phase, InQuery, n
<1>6. CASE Querying(c)
  <2>1. n > 2
    BY <1>2, <1>3, <1>6 DEF Querying, QueryPhases, n
  <2>2. stack'[c][1] = stack[c][1] /\ stack'[c][2] = stack[c][2]
    BY <1>2, <1>4, <2>1
  <2>3. \A i \in 3 .. n - 1 : stack'[c][i].pc = "nested"
    BY <1>2, <1>4, <1>6 DEF Querying, n
  <2>4. Querying(c)'
    BY <1>2, <1>4, <1>6, <2>1, <2>2, <2>3 DEF Querying, n
  <2>5. stack[c][2].pc # "nested"
    BY <1>6 DEF Querying, QueryPhases
  <2> QED BY <1>1, <1>2, <1>4, <2>1, <2>2, <2>4, <2>5 DEF Moved, StackInv, Phase, InQuery, n
<1> QED BY <1>1, <1>5, <1>6 DEF StackInv

(* The catalog query answers. *)
LEMMA ReplyMoves ==
  ASSUME DOMAIN stack = Calls, NEW c \in Calls, StackInv(c), At(c, "reply"),
         Ended(c), call'[c].fn = call[c].fn
  PROVE  Moved(c, Back(call[c].fn)) /\ Phase(c) = "reply" /\ ~InQuery(c)'
<1>1. /\ stack[c] \in Seq(Frame) /\ Len(stack[c]) = 2 /\ Phase(c) = "reply"
      /\ stack[c][1].pc = Back(call[c].fn)
  BY TopPlace DEF StackInv, QueryPhases, Querying
<1>2. /\ DOMAIN stack' = Calls /\ \A d \in Calls : d # c => stack'[d] = stack[d]
      /\ stack'[c] \in Seq(Frame) /\ Len(stack'[c]) = 1 /\ stack'[c] # <<>>
      /\ stack'[c][1] = stack[c][1]
  <2>1. Len(stack[c]) > 1
    BY <1>1
  <2>2. /\ DOMAIN stack' = Calls /\ \A d \in Calls : d # c => stack'[d] = stack[d]
        /\ stack'[c] \in Seq(Frame) /\ Len(stack'[c]) = Len(stack[c]) - 1 /\ stack'[c] # <<>>
        /\ \A i \in 1 .. Len(stack[c]) - 1 : stack'[c][i] = stack[c][i]
    BY <1>1, <2>1, AfterPop DEF Ended
  <2> QED BY <1>1, <2>2
<1>3. stack'[c][1].pc \in {"ask", "rows"}
  BY <1>1, <1>2 DEF Back
<1>4. Len(stack'[c]) = 1 /\ stack'[c] # <<>>
  BY <1>2
<1>5. Alone(c)'
  BY <1>3, <1>4 DEF Alone
<1>6. Phase(c)' = stack'[c][1].pc /\ ~InQuery(c)'
  BY <1>4 DEF Phase, InQuery
<1> QED BY <1>1, <1>2, <1>5, <1>6 DEF Moved, StackInv

(* A worker takes a task up. *)
LEMMA PollStays ==
  ASSUME DOMAIN stack = Calls, NEW c \in Calls, StackInv(c), Poll(c)
  PROVE  Moved(c, Phase(c)) /\ stack[c] # <<>> /\ (InQuery(c)' <=> InQuery(c))
<1>1. stack[c] \in Seq(Frame)
  BY DEF StackInv
<1>2. /\ DOMAIN stack' = Calls /\ \A d \in Calls : d # c => stack'[d] = stack[d]
      /\ stack'[c] \in Seq(Frame) /\ Len(stack'[c]) = Len(stack[c])
      /\ stack[c] # <<>> /\ stack'[c] # <<>>
      /\ \A i \in 1 .. Len(stack[c]) : stack'[c][i].pc = stack[c][i].pc
  BY <1>1, AfterPoll
<1>3. call' = call
  BY DEF Poll
<1>4. Len(stack[c]) \in Nat \ {0}
  BY <1>1, <1>2, TopFrame
<1>5. stack'[c][1].pc = stack[c][1].pc
      /\ (Len(stack[c]) >= 2 => stack'[c][2].pc = stack[c][2].pc)
  BY <1>2, <1>4
<1>6. Alone(c) => Alone(c)'
  BY <1>2, <1>4, <1>5 DEF Alone
<1>7. Querying(c) => Querying(c)'
  BY <1>2, <1>3, <1>4, <1>5 DEF Querying
<1> QED BY <1>2, <1>4, <1>5, <1>6, <1>7 DEF Moved, StackInv, Phase, InQuery

-----------------------------------------------------------------------------
(***************************************************************************)
(* A step of one call: the host and the other calls stay as they are, and  *)
(* the call keeps its function and its arguments.                          *)
(***************************************************************************)
OnlyCall(c) ==
  /\ provider' = provider /\ version' = version /\ slot' = slot /\ seen' = seen
  /\ DOMAIN stack' = Calls /\ DOMAIN call' = Calls
  /\ \A d \in Calls : d # c => stack'[d] = stack[d] /\ call'[d] = call[d]

SameRequest(c) == call'[c].fn = call[c].fn /\ call'[c].args = call[c].args

(* The tables of the query, and what was read of them.                     *)
SameReads(c) ==
  /\ call'[c].scans = call[c].scans /\ call'[c].bound = call[c].bound
  /\ call'[c].reads = call[c].reads

(* What a call was asked does not change. *)
LEMMA SameKeys ==
  ASSUME NEW c \in Calls, SameRequest(c)
  PROVE  Distinct(c)' = Distinct(c) /\ Keys(c)' = Keys(c)
BY DEF SameRequest, Distinct, Keys, NamesAsked

(* What the host has in place for a function, while it stands still. *)
LEMMA SameShown ==
  ASSUME provider' = provider, version' = version, slot' = slot, NEW fn
  PROVE  /\ SlotShown(fn)' = SlotShown(fn) /\ TablesShown(fn)' = TablesShown(fn)
         /\ SomeMissing(fn)' <=> SomeMissing(fn)
BY DEF SlotShown, TablesShown, SomeMissing

(* What is read stays read. *)
LEMMA ReadsStay ==
  ASSUME NEW c \in Calls, SameReads(c)
  PROVE  /\ Unbound(c)' = Unbound(c) /\ Unscanned(c)' = Unscanned(c) /\ Got(c)' = Got(c)
         /\ NothingRead(c)' <=> NothingRead(c)
         /\ AllRead(c)' <=> AllRead(c)
         /\ RefusedScan(c)' <=> RefusedScan(c)
<1>1. Unbound(c)' = Unbound(c)
  BY DEF SameReads, Unbound
<1>2. Unscanned(c)' = Unscanned(c)
  BY DEF SameReads, Unscanned
<1>3. Got(c)' = Got(c)
  BY DEF SameReads, Got
<1>4. (NothingRead(c)' <=> NothingRead(c)) /\ (RefusedScan(c)' <=> RefusedScan(c))
  BY DEF SameReads, NothingRead, RefusedScan
<1> QED BY <1>1, <1>2, <1>3, <1>4 DEF AllRead

(* And what was shown when it was read. *)
LEMMA ReadsKept ==
  ASSUME NEW c \in Calls, ReadsInv(c), SameRequest(c), SameReads(c),
         seen[c].shown \subseteq seen'[c].shown,
         \A t \in Tables : provider[t] = "lazy" => provider'[t] = "lazy"
  PROVE  ReadsInv(c)'
<1>1. Unbound(c)' = Unbound(c) /\ Unscanned(c)' = Unscanned(c)
  BY ReadsStay
<1>2. /\ call'[c].scans = call[c].scans /\ call'[c].bound = call[c].bound
      /\ call'[c].reads = call[c].reads /\ call'[c].fn = call[c].fn
  BY DEF SameRequest, SameReads
<1>3. \A t \in Tables :
        /\ call[c].bound[t] \in {"no", "builtin", "lazy"}
        /\ call[c].bound[t] # "no" => \E a \in call[c].scans : TableOf(a) = t
        /\ call[c].bound[t] = "lazy" => provider'[t] = "lazy"
  BY DEF ReadsInv
<1>4. \A a \in call[c].scans :
        /\ call[c].bound[TableOf(a)] = "builtin" => <<TableOf(a), 0>> \in seen'[c].shown
        /\ \A n \in DOMAIN call[c].reads[a] :
             <<TableOf(a), call[c].reads[a][n]>> \in seen'[c].shown
  BY DEF ReadsInv
<1>5. /\ \/ call[c].scans = FirstQuery(call[c].fn)
         \/ call[c].fn = "pg_get_indexdef" /\ call[c].scans = FirstQuery(call[c].fn) \cup {"a"}
      /\ DOMAIN call[c].bound = Tables /\ DOMAIN call[c].reads = Aliases
      /\ \A a \in Aliases :
           /\ call[c].reads[a] \in Seq(DOMAIN Catalogs)
           /\ call[c].bound[TableOf(a)] # "lazy" => call[c].reads[a] = <<>>
      /\ DOMAIN call[c].reads["c"] \subseteq DOMAIN Catalogs[1]["pg_class"]
      /\ "a" \in call[c].scans =>
           Unbound(c) \subseteq {"pg_attribute"} /\ Unscanned(c) \subseteq {"a"}
  BY DEF ReadsInv
<1>6. \A t \in Tables :
        /\ call'[c].bound[t] \in {"no", "builtin", "lazy"}
        /\ call'[c].bound[t] # "no" => \E a \in call'[c].scans : TableOf(a) = t
        /\ call'[c].bound[t] = "lazy" => provider'[t] = "lazy"
  BY <1>2, <1>3
<1>7. \A a \in call'[c].scans :
        /\ call'[c].bound[TableOf(a)] = "builtin" => <<TableOf(a), 0>> \in seen'[c].shown
        /\ \A n \in DOMAIN call'[c].reads[a] :
             <<TableOf(a), call'[c].reads[a][n]>> \in seen'[c].shown
  BY <1>2, <1>4
<1>8. /\ \/ call'[c].scans = FirstQuery(call'[c].fn)
         \/ call'[c].fn = "pg_get_indexdef" /\ call'[c].scans = FirstQuery(call'[c].fn) \cup {"a"}
      /\ DOMAIN call'[c].bound = Tables /\ DOMAIN call'[c].reads = Aliases
      /\ \A a \in Aliases :
           /\ call'[c].reads[a] \in Seq(DOMAIN Catalogs)
           /\ call'[c].bound[TableOf(a)] # "lazy" => call'[c].reads[a] = <<>>
      /\ DOMAIN call'[c].reads["c"] \subseteq DOMAIN Catalogs[1]["pg_class"]
      /\ "a" \in call'[c].scans =>
           Unbound(c)' \subseteq {"pg_attribute"} /\ Unscanned(c)' \subseteq {"a"}
  BY <1>1, <1>2, <1>5
<1> QED BY <1>6, <1>7, <1>8 DEF ReadsInv

(* A call that does not move, while the host may show it more. *)
LEMMA StillInv ==
  ASSUME NEW d \in Calls, OneInv(d), stack'[d] = stack[d], call'[d] = call[d],
         SeenInv(d)', seen[d].shown \subseteq seen'[d].shown,
         seen[d].missing => seen'[d].missing, Invoked(d)' <=> Invoked(d),
         \A t \in Tables : provider[t] = "lazy" => provider'[t] = "lazy"
  PROVE  OneInv(d)'
<1>1. StackInv(d) /\ PhaseInv(d) /\ CallInv(d) /\ ReadsInv(d) /\ FailInv(d)
  BY DEF OneInv
<1>2. SameRequest(d) /\ SameReads(d)
  BY DEF SameRequest, SameReads
<1>3. StackInv(d)'
  BY <1>1 DEF StackInv, Alone, Querying
<1>4. Phase(d)' = Phase(d) /\ (InQuery(d)' <=> InQuery(d))
  BY DEF Phase, InQuery
<1>5. PhaseInv(d)' /\ CallInv(d)'
  BY <1>1, <1>4 DEF PhaseInv, CallInv
<1>6. ReadsInv(d)'
  BY <1>1, <1>2, ReadsKept
<1>7. FailInv(d)'
  <2>1. Keys(d)' = Keys(d) /\ call'[d].failed = call[d].failed
    BY <1>2, SameKeys
  <2> QED BY <1>1, <1>2, <1>4, <2>1, ReadsStay DEF FailInv
<1> QED BY <1>3, <1>5, <1>6, <1>7 DEF OneInv

(* A step of one call leaves the others their part of the invariant. *)
LEMMA OthersKeepControl ==
  ASSUME ControlInv, NEW c \in Calls, OnlyCall(c), OneInv(c)'
  PROVE  ControlInv'
<1>1. HostInv'
  BY DEF ControlInv, HostInv, OnlyCall
<1>2. ASSUME NEW d \in Calls, d # c PROVE OneInv(d)'
  <2>1. stack'[d] = stack[d] /\ call'[d] = call[d] /\ seen' = seen /\ slot' = slot
        /\ provider' = provider /\ version' = version
    BY <1>2 DEF OnlyCall
  <2>2. OneInv(d) /\ SeenInv(d)
    BY DEF ControlInv, OneInv
  <2>3. SeenInv(d)'
    BY <2>1, <2>2, SameShown DEF SeenInv, SlotOf, Invoked, OneAtMost
  <2> QED BY <2>1, <2>2, <2>3, StillInv DEF Invoked
<1> QED BY <1>1, <1>2 DEF ControlInv

(* A step of a call that keeps to its path and fails only by the host. *)
LEMMA CallKeepsControl ==
  ASSUME ControlInv, NEW c \in Calls, OnlyCall(c), stack[c] # <<>>, SameRequest(c),
         StackInv(c)', PhaseInv(c)', CallInv(c)', ReadsInv(c)', FailInv(c)'
  PROVE  ControlInv'
<1>1. SeenInv(c) /\ Invoked(c)
  BY DEF ControlInv, OneInv, SeenInv
<1>2. seen' = seen /\ slot' = slot /\ provider' = provider /\ version' = version
      /\ call'[c].fn = call[c].fn
  BY DEF OnlyCall, SameRequest
<1>3. SeenInv(c)'
  BY <1>1, <1>2, SameShown DEF SeenInv, SlotOf, Invoked, OneAtMost
<1> QED BY <1>3, OthersKeepControl DEF OneInv

-----------------------------------------------------------------------------
(***************************************************************************)
(* The steps of a call, one by one: where they start, where they lead and  *)
(* what they do to the variables of the function.                          *)
(***************************************************************************)
CallChange(c) ==
  /\ DOMAIN call' = Calls /\ \A d \in Calls : d # c => call'[d] = call[d]
  /\ SameRequest(c) /\ CallInv(c)'

Assigned(c, scans, bound, reads, resolver, found, parsed, todo, text, failed) ==
  /\ call'[c].scans = scans /\ call'[c].bound = bound /\ call'[c].reads = reads
  /\ call'[c].resolver = resolver /\ call'[c].found = found /\ call'[c].parsed = parsed
  /\ call'[c].todo = todo /\ call'[c].text = text /\ call'[c].failed = failed

(* Nothing was read. *)
Variables(c, resolver, found, parsed, todo, text, failed) ==
  Assigned(c, call[c].scans, call[c].bound, call[c].reads,
           resolver, found, parsed, todo, text, failed)

(* An assignment to the variables of one call. *)
LEMMA RecordChange ==
  ASSUME ControlInv, NEW c \in Calls, NEW scans, NEW bound, NEW reads, NEW resolver, NEW found,
         NEW parsed, NEW todo, NEW text, NEW failed, NEW nested,
         call' = [call EXCEPT ![c] =
           [fn |-> call[c].fn, args |-> call[c].args, scans |-> scans, bound |-> bound,
            reads |-> reads, resolver |-> resolver, found |-> found, parsed |-> parsed,
            todo |-> todo, text |-> text, failed |-> failed, nested |-> nested]]
  PROVE  /\ CallChange(c)
         /\ Assigned(c, scans, bound, reads, resolver, found, parsed, todo, text, failed)
<1>1. DOMAIN call = Calls /\ CallInv(c)
  BY DEF ControlInv, HostInv, OneInv
<1>2. call'[c] = [fn |-> call[c].fn, args |-> call[c].args, scans |-> scans, bound |-> bound,
                  reads |-> reads, resolver |-> resolver, found |-> found, parsed |-> parsed,
                  todo |-> todo, text |-> text, failed |-> failed, nested |-> nested]
  BY <1>1
<1>3. CallInv(c)'
  BY <1>1, <1>2 DEF CallInv, IsCall
<1> QED BY <1>1, <1>2, <1>3 DEF CallChange, Assigned, SameRequest

(* The resolver is read. *)
LEMMA ResolverChange ==
  ASSUME ControlInv, NEW c \in Calls, NEW r,
         call' = [call EXCEPT ![c].resolver = r]
  PROVE  CallChange(c)
         /\ Variables(c, r, call[c].found, call[c].parsed, call[c].todo, call[c].text,
                         call[c].failed)
<1> DEFINE k == call[c]
<1>1. IsCall(k) /\ DOMAIN call = Calls
  BY DEF ControlInv, HostInv, OneInv, CallInv, IsCall
<1>2. call' = [call EXCEPT ![c] = [k EXCEPT !.resolver = r]]
  OBVIOUS
<1> HIDE DEF k
<1> DEFINE k1 == [fn |-> k.fn, args |-> k.args, scans |-> k.scans, bound |-> k.bound,
                 reads |-> k.reads, resolver |-> r, found |-> k.found,
                 parsed |-> k.parsed, todo |-> k.todo, text |-> k.text,
                 failed |-> k.failed, nested |-> k.nested]
<1>3. [k EXCEPT !.resolver = r] = k1
  BY <1>1 DEF IsCall
<1>4. call' = [call EXCEPT ![c] = k1]
  BY <1>2, <1>3
<1> QED BY <1>4, RecordChange DEF k, Variables

(* The texts are set. *)
LEMMA TextChange ==
  ASSUME ControlInv, NEW c \in Calls, NEW t,
         call' = [call EXCEPT ![c].text = t]
  PROVE  CallChange(c)
         /\ Variables(c, call[c].resolver, call[c].found, call[c].parsed, call[c].todo, t,
                         call[c].failed)
<1> DEFINE k == call[c]
<1>1. IsCall(k) /\ DOMAIN call = Calls
  BY DEF ControlInv, HostInv, OneInv, CallInv, IsCall
<1>2. call' = [call EXCEPT ![c] = [k EXCEPT !.text = t]]
  OBVIOUS
<1> HIDE DEF k
<1> DEFINE k1 == [fn |-> k.fn, args |-> k.args, scans |-> k.scans, bound |-> k.bound,
                 reads |-> k.reads, resolver |-> k.resolver, found |-> k.found,
                 parsed |-> k.parsed, todo |-> k.todo, text |-> t,
                 failed |-> k.failed, nested |-> k.nested]
<1>3. [k EXCEPT !.text = t] = k1
  BY <1>1 DEF IsCall
<1>4. call' = [call EXCEPT ![c] = k1]
  BY <1>2, <1>3
<1> QED BY <1>4, RecordChange DEF k, Variables

(* The query failed. *)
LEMMA FailedChange ==
  ASSUME ControlInv, NEW c \in Calls, NEW b,
         call' = [call EXCEPT ![c].failed = b]
  PROVE  CallChange(c)
         /\ Variables(c, call[c].resolver, call[c].found, call[c].parsed, call[c].todo,
                         call[c].text, b)
<1> DEFINE k == call[c]
<1>1. IsCall(k) /\ DOMAIN call = Calls
  BY DEF ControlInv, HostInv, OneInv, CallInv, IsCall
<1>2. call' = [call EXCEPT ![c] = [k EXCEPT !.failed = b]]
  OBVIOUS
<1> HIDE DEF k
<1> DEFINE k1 == [fn |-> k.fn, args |-> k.args, scans |-> k.scans, bound |-> k.bound,
                 reads |-> k.reads, resolver |-> k.resolver, found |-> k.found,
                 parsed |-> k.parsed, todo |-> k.todo, text |-> k.text,
                 failed |-> b, nested |-> k.nested]
<1>3. [k EXCEPT !.failed = b] = k1
  BY <1>1 DEF IsCall
<1>4. call' = [call EXCEPT ![c] = k1]
  BY <1>2, <1>3
<1> QED BY <1>4, RecordChange DEF k, Variables

(* A table is looked up. *)
LEMMA BoundChange ==
  ASSUME ControlInv, NEW c \in Calls, NEW i, NEW x,
         call' = [call EXCEPT ![c].bound[i] = x]
  PROVE  CallChange(c)
         /\ Assigned(c, call[c].scans, [call[c].bound EXCEPT ![i] = x], call[c].reads,
                        call[c].resolver, call[c].found, call[c].parsed, call[c].todo,
                        call[c].text, call[c].failed)
<1> DEFINE k == call[c]
<1>1. IsCall(k) /\ DOMAIN call = Calls
  BY DEF ControlInv, HostInv, OneInv, CallInv, IsCall
<1>2. call' = [call EXCEPT ![c] = [k EXCEPT !.bound[i] = x]]
  OBVIOUS
<1> HIDE DEF k
<1> DEFINE k1 == [fn |-> k.fn, args |-> k.args, scans |-> k.scans,
                 bound |-> [k.bound EXCEPT ![i] = x], reads |-> k.reads,
                 resolver |-> k.resolver, found |-> k.found, parsed |-> k.parsed,
                 todo |-> k.todo, text |-> k.text, failed |-> k.failed,
                 nested |-> k.nested]
<1>3. [k EXCEPT !.bound[i] = x] = k1
  BY <1>1 DEF IsCall
<1>4. call' = [call EXCEPT ![c] = k1]
  BY <1>2, <1>3
<1> QED BY <1>4, RecordChange DEF k

(* The source has answered one call of a scan. *)
LEMMA ReadChange ==
  ASSUME ControlInv, NEW c \in Calls, NEW i, NEW x, NEW b,
         call' = [call EXCEPT ![c].reads[i] = x, ![c].failed = b]
  PROVE  CallChange(c)
         /\ Assigned(c, call[c].scans, call[c].bound, [call[c].reads EXCEPT ![i] = x],
                        call[c].resolver, call[c].found, call[c].parsed, call[c].todo,
                        call[c].text, b)
<1> DEFINE k == call[c]
<1>1. IsCall(k) /\ DOMAIN call = Calls
  BY DEF ControlInv, HostInv, OneInv, CallInv, IsCall
<1>2. call' = [call EXCEPT ![c] = [k EXCEPT !.reads[i] = x, !.failed = b]]
  OBVIOUS
<1> HIDE DEF k
<1> DEFINE rs == [k.reads EXCEPT ![i] = x]
           bb == b
<1> DEFINE k1 == [fn |-> k.fn, args |-> k.args, scans |-> k.scans, bound |-> k.bound,
                 reads |-> rs, resolver |-> k.resolver, found |-> k.found,
                 parsed |-> k.parsed, todo |-> k.todo, text |-> k.text,
                 failed |-> k.failed, nested |-> k.nested]
           k2 == [fn |-> k.fn, args |-> k.args, scans |-> k.scans, bound |-> k.bound,
                 reads |-> rs, resolver |-> k.resolver, found |-> k.found,
                 parsed |-> k.parsed, todo |-> k.todo, text |-> k.text,
                 failed |-> bb, nested |-> k.nested]
<1>3. [k EXCEPT !.reads[i] = x] = k1
  BY <1>1 DEF IsCall
<1>4. [k EXCEPT !.reads[i] = x, !.failed = b] = k2
  <2>1. [k EXCEPT !.reads[i] = x, !.failed = b] = [k1 EXCEPT !.failed = b]
    BY <1>3
  <2> HIDE DEF rs, bb
  <2>2. [k1 EXCEPT !.failed = bb] = k2
    OBVIOUS
  <2> QED BY <2>1, <2>2 DEF rs, bb
<1>5. call' = [call EXCEPT ![c] = k2]
  BY <1>2, <1>4
<1> QED BY <1>5, RecordChange DEF k, rs, bb

(* A callback starts a query. *)
LEMMA NestedChange ==
  ASSUME ControlInv, NEW c \in Calls, 
         call' = [call EXCEPT ![c].nested = call[c].nested + 1]
  PROVE  CallChange(c)
         /\ Variables(c, call[c].resolver, call[c].found, call[c].parsed, call[c].todo,
                         call[c].text, call[c].failed)
<1> DEFINE k == call[c]
<1>1. IsCall(k) /\ DOMAIN call = Calls
  BY DEF ControlInv, HostInv, OneInv, CallInv, IsCall
<1>2. call' = [call EXCEPT ![c] = [k EXCEPT !.nested = k.nested + 1]]
  OBVIOUS
<1> HIDE DEF k
<1> DEFINE k1 == [fn |-> k.fn, args |-> k.args, scans |-> k.scans, bound |-> k.bound,
                 reads |-> k.reads, resolver |-> k.resolver, found |-> k.found,
                 parsed |-> k.parsed, todo |-> k.todo, text |-> k.text,
                 failed |-> k.failed, nested |-> k.nested + 1]
<1>3. [k EXCEPT !.nested = k.nested + 1] = k1
  BY <1>1 DEF IsCall
<1>4. call' = [call EXCEPT ![c] = k1]
  BY <1>2, <1>3
<1> QED BY <1>4, RecordChange DEF k, Variables

(* The resolver is read and will be asked for every argument. *)
LEMMA AskEachChange ==
  ASSUME ControlInv, NEW c \in Calls, NEW r, NEW f, NEW t, NEW o,
         call' = [call EXCEPT ![c].resolver = r, ![c].found = f, ![c].text = t, ![c].todo = o]
  PROVE  CallChange(c)
         /\ Variables(c, r, f, call[c].parsed, o, t, call[c].failed)
<1> DEFINE k == call[c]
<1>1. IsCall(k) /\ DOMAIN call = Calls
  BY DEF ControlInv, HostInv, OneInv, CallInv, IsCall
<1>2. call' = [call EXCEPT ![c] = [k EXCEPT !.resolver = r, !.found = f, !.text = t, !.todo = o]]
  OBVIOUS
<1> HIDE DEF k
<1> DEFINE k1 == [fn |-> k.fn, args |-> k.args, scans |-> k.scans, bound |-> k.bound,
                 reads |-> k.reads, resolver |-> r, found |-> k.found,
                 parsed |-> k.parsed, todo |-> k.todo, text |-> k.text,
                 failed |-> k.failed, nested |-> k.nested]
           k2 == [fn |-> k.fn, args |-> k.args, scans |-> k.scans, bound |-> k.bound,
                 reads |-> k.reads, resolver |-> r, found |-> f,
                 parsed |-> k.parsed, todo |-> k.todo, text |-> k.text,
                 failed |-> k.failed, nested |-> k.nested]
           k3 == [fn |-> k.fn, args |-> k.args, scans |-> k.scans, bound |-> k.bound,
                 reads |-> k.reads, resolver |-> r, found |-> f,
                 parsed |-> k.parsed, todo |-> k.todo, text |-> t,
                 failed |-> k.failed, nested |-> k.nested]
           k4 == [fn |-> k.fn, args |-> k.args, scans |-> k.scans, bound |-> k.bound,
                 reads |-> k.reads, resolver |-> r, found |-> f,
                 parsed |-> k.parsed, todo |-> o, text |-> t, failed |-> k.failed,
                 nested |-> k.nested]
<1>3. [k EXCEPT !.resolver = r] = k1
  BY <1>1 DEF IsCall
<1>4. [k EXCEPT !.resolver = r, !.found = f] = k2
  <2>1. [k EXCEPT !.resolver = r, !.found = f] = [k1 EXCEPT !.found = f]
    BY <1>3
  <2> QED BY <2>1
<1>5. [k EXCEPT !.resolver = r, !.found = f, !.text = t] = k3
  <2>1. [k EXCEPT !.resolver = r, !.found = f, !.text = t] = [k2 EXCEPT !.text = t]
    BY <1>4
  <2> QED BY <2>1
<1>6. [k EXCEPT !.resolver = r, !.found = f, !.text = t, !.todo = o] = k4
  <2>1. [k EXCEPT !.resolver = r, !.found = f, !.text = t, !.todo = o] = [k3 EXCEPT !.todo = o]
    BY <1>5
  <2> QED BY <2>1
<1>7. call' = [call EXCEPT ![c] = k4]
  BY <1>2, <1>6
<1> QED BY <1>7, RecordChange DEF k, Variables

(* The query has answered. *)
LEMMA JoinChange ==
  ASSUME ControlInv, NEW c \in Calls, NEW f, NEW o, NEW t,
         call' = [call EXCEPT ![c].found = f, ![c].todo = o, ![c].text = t]
  PROVE  CallChange(c)
         /\ Variables(c, call[c].resolver, f, call[c].parsed, o, t, call[c].failed)
<1> DEFINE k == call[c]
<1>1. IsCall(k) /\ DOMAIN call = Calls
  BY DEF ControlInv, HostInv, OneInv, CallInv, IsCall
<1>2. call' = [call EXCEPT ![c] = [k EXCEPT !.found = f, !.todo = o, !.text = t]]
  OBVIOUS
<1> HIDE DEF k
<1> DEFINE k1 == [fn |-> k.fn, args |-> k.args, scans |-> k.scans, bound |-> k.bound,
                 reads |-> k.reads, resolver |-> k.resolver, found |-> f,
                 parsed |-> k.parsed, todo |-> k.todo, text |-> k.text,
                 failed |-> k.failed, nested |-> k.nested]
           k2 == [fn |-> k.fn, args |-> k.args, scans |-> k.scans, bound |-> k.bound,
                 reads |-> k.reads, resolver |-> k.resolver, found |-> f,
                 parsed |-> k.parsed, todo |-> o, text |-> k.text,
                 failed |-> k.failed, nested |-> k.nested]
           k3 == [fn |-> k.fn, args |-> k.args, scans |-> k.scans, bound |-> k.bound,
                 reads |-> k.reads, resolver |-> k.resolver, found |-> f,
                 parsed |-> k.parsed, todo |-> o, text |-> t, failed |-> k.failed,
                 nested |-> k.nested]
<1>3. [k EXCEPT !.found = f] = k1
  BY <1>1 DEF IsCall
<1>4. [k EXCEPT !.found = f, !.todo = o] = k2
  <2>1. [k EXCEPT !.found = f, !.todo = o] = [k1 EXCEPT !.todo = o]
    BY <1>3
  <2> QED BY <2>1
<1>5. [k EXCEPT !.found = f, !.todo = o, !.text = t] = k3
  <2>1. [k EXCEPT !.found = f, !.todo = o, !.text = t] = [k2 EXCEPT !.text = t]
    BY <1>4
  <2> QED BY <2>1
<1>6. call' = [call EXCEPT ![c] = k3]
  BY <1>2, <1>5
<1> QED BY <1>6, RecordChange DEF k, Variables

(* The first query for index definitions has answered. *)
LEMMA IndexPartsChange ==
  ASSUME ControlInv, NEW c \in Calls, NEW f, NEW p, NEW t, NEW q,
         call' = [call EXCEPT ![c].found = f, ![c].parsed = p, ![c].text = t, ![c].scans = q]
  PROVE  CallChange(c)
         /\ Assigned(c, q, call[c].bound, call[c].reads, call[c].resolver, f, p,
                        call[c].todo, t, call[c].failed)
<1> DEFINE k == call[c]
<1>1. IsCall(k) /\ DOMAIN call = Calls
  BY DEF ControlInv, HostInv, OneInv, CallInv, IsCall
<1>2. call' = [call EXCEPT ![c] = [k EXCEPT !.found = f, !.parsed = p, !.text = t, !.scans = q]]
  OBVIOUS
<1> HIDE DEF k
<1> DEFINE k1 == [fn |-> k.fn, args |-> k.args, scans |-> k.scans, bound |-> k.bound,
                 reads |-> k.reads, resolver |-> k.resolver, found |-> f,
                 parsed |-> k.parsed, todo |-> k.todo, text |-> k.text,
                 failed |-> k.failed, nested |-> k.nested]
           k2 == [fn |-> k.fn, args |-> k.args, scans |-> k.scans, bound |-> k.bound,
                 reads |-> k.reads, resolver |-> k.resolver, found |-> f,
                 parsed |-> p, todo |-> k.todo, text |-> k.text,
                 failed |-> k.failed, nested |-> k.nested]
           k3 == [fn |-> k.fn, args |-> k.args, scans |-> k.scans, bound |-> k.bound,
                 reads |-> k.reads, resolver |-> k.resolver, found |-> f,
                 parsed |-> p, todo |-> k.todo, text |-> t, failed |-> k.failed,
                 nested |-> k.nested]
           k4 == [fn |-> k.fn, args |-> k.args, scans |-> q, bound |-> k.bound,
                 reads |-> k.reads, resolver |-> k.resolver, found |-> f,
                 parsed |-> p, todo |-> k.todo, text |-> t, failed |-> k.failed,
                 nested |-> k.nested]
<1>3. [k EXCEPT !.found = f] = k1
  BY <1>1 DEF IsCall
<1>4. [k EXCEPT !.found = f, !.parsed = p] = k2
  <2>1. [k EXCEPT !.found = f, !.parsed = p] = [k1 EXCEPT !.parsed = p]
    BY <1>3
  <2> QED BY <2>1
<1>5. [k EXCEPT !.found = f, !.parsed = p, !.text = t] = k3
  <2>1. [k EXCEPT !.found = f, !.parsed = p, !.text = t] = [k2 EXCEPT !.text = t]
    BY <1>4
  <2> QED BY <2>1
<1>6. [k EXCEPT !.found = f, !.parsed = p, !.text = t, !.scans = q] = k4
  <2>1. [k EXCEPT !.found = f, !.parsed = p, !.text = t, !.scans = q] = [k3 EXCEPT !.scans = q]
    BY <1>5
  <2> QED BY <2>1
<1>7. call' = [call EXCEPT ![c] = k4]
  BY <1>2, <1>6
<1> QED BY <1>7, RecordChange DEF k

(* The resolver is read for the indexes without a text. *)
LEMMA IndexResolverChange ==
  ASSUME ControlInv, NEW c \in Calls, NEW r, NEW o,
         call' = [call EXCEPT ![c].resolver = r, ![c].todo = o]
  PROVE  CallChange(c)
         /\ Variables(c, r, call[c].found, call[c].parsed, o, call[c].text, call[c].failed)
<1> DEFINE k == call[c]
<1>1. IsCall(k) /\ DOMAIN call = Calls
  BY DEF ControlInv, HostInv, OneInv, CallInv, IsCall
<1>2. call' = [call EXCEPT ![c] = [k EXCEPT !.resolver = r, !.todo = o]]
  OBVIOUS
<1> HIDE DEF k
<1> DEFINE k1 == [fn |-> k.fn, args |-> k.args, scans |-> k.scans, bound |-> k.bound,
                 reads |-> k.reads, resolver |-> r, found |-> k.found,
                 parsed |-> k.parsed, todo |-> k.todo, text |-> k.text,
                 failed |-> k.failed, nested |-> k.nested]
           k2 == [fn |-> k.fn, args |-> k.args, scans |-> k.scans, bound |-> k.bound,
                 reads |-> k.reads, resolver |-> r, found |-> k.found,
                 parsed |-> k.parsed, todo |-> o, text |-> k.text,
                 failed |-> k.failed, nested |-> k.nested]
<1>3. [k EXCEPT !.resolver = r] = k1
  BY <1>1 DEF IsCall
<1>4. [k EXCEPT !.resolver = r, !.todo = o] = k2
  <2>1. [k EXCEPT !.resolver = r, !.todo = o] = [k1 EXCEPT !.todo = o]
    BY <1>3
  <2> QED BY <2>1
<1>5. call' = [call EXCEPT ![c] = k2]
  BY <1>2, <1>4
<1> QED BY <1>5, RecordChange DEF k, Variables

(* The resolver answers for one object. *)
LEMMA AskChange ==
  ASSUME ControlInv, NEW c \in Calls, NEW j, NEW x,
         call' = [call EXCEPT ![c].text[j] = x, ![c].todo = call[c].todo \ {j}]
  PROVE  CallChange(c)
         /\ Variables(c, call[c].resolver, call[c].found, call[c].parsed,
                         call[c].todo \ {j}, [call[c].text EXCEPT ![j] = x], call[c].failed)
<1> DEFINE k == call[c]
<1>1. IsCall(k) /\ DOMAIN call = Calls
  BY DEF ControlInv, HostInv, OneInv, CallInv, IsCall
<1>2. call' = [call EXCEPT ![c] = [k EXCEPT !.text[j] = x, !.todo = k.todo \ {j}]]
  OBVIOUS
<1> HIDE DEF k
<1> DEFINE tt == [k.text EXCEPT ![j] = x]
           oo == k.todo \ {j}
<1> DEFINE k1 == [fn |-> k.fn, args |-> k.args, scans |-> k.scans, bound |-> k.bound,
                 reads |-> k.reads, resolver |-> k.resolver, found |-> k.found,
                 parsed |-> k.parsed, todo |-> k.todo, text |-> tt,
                 failed |-> k.failed, nested |-> k.nested]
           k2 == [fn |-> k.fn, args |-> k.args, scans |-> k.scans, bound |-> k.bound,
                 reads |-> k.reads, resolver |-> k.resolver, found |-> k.found,
                 parsed |-> k.parsed, todo |-> oo, text |-> tt, failed |-> k.failed,
                 nested |-> k.nested]
<1>3. [k EXCEPT !.text[j] = x] = k1
  BY <1>1 DEF IsCall
<1>4. [k EXCEPT !.text[j] = x, !.todo = k.todo \ {j}] = k2
  <2>1. [k EXCEPT !.text[j] = x, !.todo = k.todo \ {j}] = [k1 EXCEPT !.todo = k.todo \ {j}]
    BY <1>3
  <2> HIDE DEF tt, oo
  <2>2. [k1 EXCEPT !.todo = oo] = k2
    OBVIOUS
  <2> QED BY <2>1, <2>2 DEF tt, oo
<1>5. call' = [call EXCEPT ![c] = k2]
  BY <1>2, <1>4
<1> QED BY <1>5, RecordChange DEF k, tt, oo, Variables
(* A step from place p to place q of the function. *)
Effect(c, p, q) ==
  /\ Phase(c) = p /\ Phase(c)' = q /\ stack[c] # <<>> /\ OnlyCall(c) /\ SameRequest(c)
  /\ StackInv(c)' /\ PhaseInv(c)' /\ CallInv(c)'

(* A step that goes on in the same task. *)
LEMMA GotoEffect ==
  ASSUME ControlInv, NEW c \in Calls, NEW p \in {"start", "plan", "scan", "slot"}, At(c, p),
         NEW q \in (IF p = "start" THEN {"ask", "rows"} ELSE QueryPhases),
         stack' = Goto(c, q), CallChange(c), Unchanged,
         q = "ask" => call[c].fn \in RuntimeFns \cup {"pg_get_indexdef"},
         q = "ask" /\ p = "start" => call[c].fn \in RuntimeFns,
         q = "slot" => call[c].fn = "pg_get_indexdef"
  PROVE  Effect(c, p, q)
<1>1. DOMAIN stack = Calls /\ StackInv(c) /\ PhaseInv(c) /\ call[c].fn \in Fns
  BY DEF ControlInv, HostInv, OneInv, CallInv
<1>2. call'[c].fn = call[c].fn /\ q \in Places /\ p # "nested"
  BY DEF CallChange, SameRequest, Places, QueryPhases
<1>3. /\ Phase(c) = p /\ stack[c] # <<>>
      /\ \/ Len(stack[c]) = 1 /\ p \in {"start", "ask", "rows"} /\ Alone(c)
         \/ Len(stack[c]) = 2 /\ p \in QueryPhases /\ Querying(c)
  BY <1>1, <1>2, TopPlace
<1>4. /\ Len(stack[c]) = 1 => q \in {"start", "ask", "rows"}
      /\ Len(stack[c]) = 2 => q \in QueryPhases
  <2>1. p = "start" => q \in {"ask", "rows"}
    OBVIOUS
  <2>2. p # "start" => q \in QueryPhases
    OBVIOUS
  <2>3. Len(stack[c]) = 1 => p = "start"
    BY <1>3
  <2>4. Len(stack[c]) = 2 => p # "start"
    BY <1>3 DEF QueryPhases
  <2> QED BY <2>1, <2>2, <2>3, <2>4
<1>5. Moved(c, q) /\ Len(stack'[c]) = Len(stack[c]) /\ (InQuery(c)' <=> InQuery(c))
  BY <1>1, <1>2, <1>4, GotoMoves
<1>6. InQuery(c) <=> p # "start"
  BY <1>3 DEF InQuery, Querying, QueryPhases
<1>7. PhaseInv(c)'
  BY <1>1, <1>2, <1>3, <1>5, <1>6
     DEF PhaseInv, Moved, QueryPhases, Fns, SlotFns, DefinitionFns, RuntimeFns, LookupFns
<1>8. OnlyCall(c)
  BY <1>5 DEF OnlyCall, Moved, CallChange, Unchanged
<1> QED BY <1>3, <1>5, <1>7, <1>8 DEF Effect, Moved, CallChange

(* A step that starts the catalog query. *)
LEMMA QueryEffect ==
  ASSUME ControlInv, NEW c \in Calls, At(c, "start"),
         run_catalog_query(c, "plan", Back(call[c].fn)), CallChange(c), Unchanged,
         call[c].fn \in DefinitionFns \cup LookupFns \cup {"pg_get_indexdef"}
  PROVE  Effect(c, "start", "plan")
<1>1. DOMAIN stack = Calls /\ StackInv(c) /\ call'[c].fn = call[c].fn
  BY DEF ControlInv, HostInv, OneInv, CallChange, SameRequest
<1>2. Phase(c) = "start" /\ stack[c] # <<>>
  BY <1>1, TopPlace
<1>3. Moved(c, "plan")
  BY <1>1, QueryMoves
<1>4. PhaseInv(c)'
  BY <1>1, <1>3 DEF PhaseInv, Moved, DefinitionFns, RuntimeFns, LookupFns
<1>5. OnlyCall(c)
  BY <1>3 DEF OnlyCall, Moved, CallChange, Unchanged
<1> QED BY <1>2, <1>3, <1>4, <1>5 DEF Effect, Moved, CallChange

(* The slot is read, and a query made when it is needed. *)
LEMMA GetResolverEffect ==
  ASSUME ControlInv, NEW c \in Calls, GetResolver(c)
  PROVE  /\ call[c].fn \in DefinitionFns
         /\ Variables(c, slot[call[c].fn], call[c].found, call[c].parsed, call[c].todo,
                      call[c].text, call[c].failed)
         /\ \/ Effect(c, "start", "rows") /\ (slot[call[c].fn] = None \/ Distinct(c) = {})
            \/ Effect(c, "start", "plan") /\ Distinct(c) # {}
<1>1. At(c, "start") /\ call[c].fn \in DefinitionFns /\ Unchanged
  BY DEF GetResolver
<1>3. CallChange(c) /\ Variables(c, slot[call[c].fn], call[c].found, call[c].parsed, call[c].todo,
                                 call[c].text, call[c].failed)
  BY ResolverChange DEF GetResolver
<1>4. CASE slot[call[c].fn] = None \/ Distinct(c) = {}
  <2>1. stack' = Goto(c, "rows")
    BY <1>4 DEF GetResolver
  <2> QED BY <1>1, <1>3, <1>4, <2>1, GotoEffect
<1>5. CASE ~(slot[call[c].fn] = None \/ Distinct(c) = {})
  <2>1. run_catalog_query(c, "plan", Back(call[c].fn))
    BY <1>1, <1>5 DEF GetResolver, Back
  <2> QED BY <1>1, <1>3, <1>5, <2>1, QueryEffect
<1> QED BY <1>1, <1>3, <1>4, <1>5

(* Nothing is assigned. *)
Untouched(c) ==
  Variables(c, call[c].resolver, call[c].found, call[c].parsed, call[c].todo, call[c].text,
            call[c].failed)

(* A step that assigns nothing. *)
LEMMA NoChange ==
  ASSUME ControlInv, NEW c \in Calls, UNCHANGED call
  PROVE  CallChange(c) /\ Untouched(c)
<1>1. DOMAIN call = Calls /\ CallInv(c)
  BY DEF ControlInv, HostInv, OneInv
<1> QED BY <1>1 DEF CallChange, Untouched, Variables, Assigned, SameRequest, CallInv

(* The functions that need no query go on to ask their resolver. *)
LEMMA AskEachEffect ==
  ASSUME ControlInv, NEW c \in Calls, ScalarValues(c) \/ RowSecurityActive(c) \/ TableRows(c)
  PROVE  /\ call[c].fn \in RuntimeFns /\ Effect(c, "start", "ask")
         /\ Variables(c, slot[call[c].fn], [o \in Distinct(c) |-> ""], call[c].parsed,
                      IF slot[call[c].fn] = None THEN {} ELSE Distinct(c),
                      [o \in Distinct(c) |-> Default(call[c].fn, FALSE)], call[c].failed)
<1>1. /\ At(c, "start") /\ call[c].fn \in RuntimeFns /\ AskEach(c)
  BY DEF ScalarValues, RowSecurityActive, TableRows, RuntimeFns
<1>2. /\ stack' = Goto(c, "ask") /\ Unchanged
      /\ call' = [call EXCEPT
            ![c].resolver = slot[call[c].fn],
            ![c].found = [o \in Distinct(c) |-> ""],
            ![c].text = [o \in Distinct(c) |-> Default(call[c].fn, FALSE)],
            ![c].todo = IF slot[call[c].fn] = None THEN {} ELSE Distinct(c)]
  BY <1>1 DEF AskEach
<1>3. CallChange(c) /\ Variables(c, slot[call[c].fn], [o \in Distinct(c) |-> ""], call[c].parsed,
                      IF slot[call[c].fn] = None THEN {} ELSE Distinct(c),
                      [o \in Distinct(c) |-> Default(call[c].fn, FALSE)], call[c].failed)
  BY <1>2, AskEachChange
<1>4. Effect(c, "start", "ask")
  BY <1>1, <1>2, <1>3, GotoEffect
<1> QED BY <1>1, <1>3, <1>4

(* format_type has its rows at once. *)
LEMMA FormatTypeEffect ==
  ASSUME ControlInv, NEW c \in Calls, FormatType(c)
  PROVE  /\ call[c].fn = "format_type" /\ Effect(c, "start", "rows")
         /\ Variables(c, call[c].resolver, call[c].found, call[c].parsed, call[c].todo,
              [o \in Distinct(c) |->
                 IF o \in Oids(Loaded["pg_type"])
                 THEN {Text("catalog", o, RowAt(Loaded["pg_type"], o).name, <<>>)}
                 ELSE {Text("unknown", o, "", <<>>)}], call[c].failed)
<1> DEFINE t == [o \in Distinct(c) |->
                   IF o \in Oids(Loaded["pg_type"])
                   THEN {Text("catalog", o, RowAt(Loaded["pg_type"], o).name, <<>>)}
                   ELSE {Text("unknown", o, "", <<>>)}]
<1>1. /\ At(c, "start") /\ call[c].fn = "format_type" /\ stack' = Goto(c, "rows") /\ Unchanged
      /\ call' = [call EXCEPT ![c].text = t]
  BY DEF FormatType
<1> HIDE DEF t
<1>2. CallChange(c) /\ Variables(c, call[c].resolver, call[c].found, call[c].parsed, call[c].todo,
                                 t, call[c].failed)
  BY <1>1, TextChange
<1>3. Effect(c, "start", "rows")
  BY <1>1, <1>2, GotoEffect
<1> QED BY <1>1, <1>2, <1>3 DEF t

(* A lookup makes a query when there is something to look up. *)
LEMMA LookupEffect ==
  ASSUME ControlInv, NEW c \in Calls, Lookup(c)
  PROVE  /\ call[c].fn \in LookupFns \cup {"pg_get_indexdef"} /\ Untouched(c)
         /\ \/ Effect(c, "start", "rows") /\ Keys(c) = {}
            \/ Effect(c, "start", "plan") /\ Keys(c) # {}
<1>1. /\ At(c, "start") /\ call[c].fn \in LookupFns \cup {"pg_get_indexdef"}
      /\ UNCHANGED call /\ Unchanged
      /\ Keys(c) = {} => stack' = Goto(c, "rows")
      /\ Keys(c) # {} => run_catalog_query(c, "plan", "rows")
  BY DEF Lookup
<1>2. CallChange(c) /\ Untouched(c)
  BY <1>1, NoChange
<1>3. CASE Keys(c) = {}
  BY <1>1, <1>2, <1>3, GotoEffect
<1>4. CASE Keys(c) # {}
  <2>1. Back(call[c].fn) = "rows"
    BY <1>1 DEF Back, DefinitionFns, LookupFns
  <2>2. run_catalog_query(c, "plan", Back(call[c].fn))
    BY <1>1, <1>4, <2>1
  <2> QED BY <1>1, <1>2, <1>4, <2>2, QueryEffect
<1> QED BY <1>1, <1>2, <1>3, <1>4

(* A step that moves within its place, or between the callback's queries. *)
LEMMA StayEffect ==
  ASSUME ControlInv, NEW c \in Calls, Moved(c, Phase(c)), stack[c] # <<>>,
         InQuery(c)' <=> InQuery(c), CallChange(c), Unchanged
  PROVE  Effect(c, Phase(c), Phase(c))
<1>1. PhaseInv(c) /\ call'[c].fn = call[c].fn /\ Phase(c)' = Phase(c)
  BY DEF ControlInv, OneInv, CallChange, SameRequest, Moved
<1>2. PhaseInv(c)'
  BY <1>1 DEF PhaseInv
<1>3. OnlyCall(c)
  BY DEF OnlyCall, Moved, CallChange, Unchanged
<1> QED BY <1>1, <1>2, <1>3 DEF Effect, Moved, CallChange

(* A step that leaves the stack alone. *)
LEMMA SameStack ==
  ASSUME ControlInv, NEW c \in Calls, NEW p, p # "nested", At(c, p), UNCHANGED stack,
         CallChange(c), Unchanged
  PROVE  Effect(c, p, p)
<1>1. DOMAIN stack = Calls /\ StackInv(c) /\ call'[c].fn = call[c].fn
  BY DEF ControlInv, HostInv, OneInv, CallChange, SameRequest
<1>2. Phase(c) = p /\ stack[c] # <<>>
  BY <1>1, TopPlace
<1>3. Moved(c, Phase(c)) /\ (InQuery(c)' <=> InQuery(c))
  BY <1>1 DEF Moved, StackInv, Alone, Querying, Phase, InQuery
<1> QED BY <1>2, <1>3, StayEffect

(* A catalog query is made for a function over catalog rows. *)
LEMMA QueryingFn ==
  ASSUME ControlInv, NEW c \in Calls, NEW p \in {"plan", "scan", "slot"}, At(c, p)
  PROVE  /\ Phase(c) = p /\ stack[c] # <<>>
         /\ call[c].fn \in DefinitionFns \cup LookupFns \cup {"pg_get_indexdef"}
         /\ p = "slot" => call[c].fn = "pg_get_indexdef"
         /\ p # "slot" => Keys(c) # {}
<1>1. StackInv(c) /\ PhaseInv(c) /\ call[c].fn \in Fns /\ FailInv(c)
  BY DEF ControlInv, OneInv, CallInv
<1>2. Phase(c) = p /\ stack[c] # <<>>
  BY <1>1, TopPlace
<1> QED BY <1>1, <1>2 DEF PhaseInv, Fns, SlotFns, FailInv

(* The query ends with an error. *)
Failed(c) ==
  Variables(c, call[c].resolver, call[c].found, call[c].parsed, call[c].todo, call[c].text, TRUE)

(* The tables a call reads are among those its answer is about. *)
LEMMA TablesRead ==
  ASSUME NEW c \in Calls, ReadsInv(c), NEW a \in call[c].scans
  PROVE  TableOf(a) \in TablesOf(call[c].fn) /\ TableOf(a) \in Tables /\ a \in Aliases
<1>1. call[c].scans \subseteq Aliases
  BY DEF ReadsInv, FirstQuery, Aliases
<1>2. TableOf(a) \in TablesOf(call[c].fn)
  <2>1. CASE a \in FirstQuery(call[c].fn)
    BY <2>1 DEF TablesOf
  <2>2. CASE a \notin FirstQuery(call[c].fn)
    <3>1. a = "a" /\ call[c].fn = "pg_get_indexdef"
      BY <2>2 DEF ReadsInv
    <3> QED BY <3>1 DEF TablesOf, TableOf
  <2> QED BY <2>1, <2>2
<1>3. TableOf(a) \in Tables
  BY <1>1 DEF TableOf, Tables, LazyTables, Aliases
<1> QED BY <1>1, <1>2, <1>3

(* Another table of the query is found, or one is missing. *)
LEMMA PlanEffect ==
  ASSUME ControlInv, NEW c \in Calls, Plan(c)
  PROVE  /\ At(c, "plan")
         /\ \/ Effect(c, "plan", "reply") /\ Failed(c) /\ SomeMissing(call[c].fn)
            \/ \E t \in Unbound(c) :
                 /\ t \in Tables /\ provider[t] # "missing"
                 /\ Assigned(c, call[c].scans, [call[c].bound EXCEPT ![t] = provider[t]],
                             call[c].reads, call[c].resolver, call[c].found, call[c].parsed,
                             call[c].todo, call[c].text, call[c].failed)
                 /\ IF Unbound(c) = {t} THEN Effect(c, "plan", "scan")
                    ELSE Effect(c, "plan", "plan")
<1>1. At(c, "plan") /\ Unchanged
  BY DEF Plan
<1>2. Keys(c) # {} /\ ReadsInv(c)
  BY <1>1, QueryingFn DEF ControlInv, OneInv
<1>3. PICK t \in Unbound(c) :
        \/ provider[t] = "missing" /\ Fail(c)
        \/ /\ provider[t] # "missing"
           /\ call' = [call EXCEPT ![c].bound[t] = provider[t]]
           /\ stack' = IF Unbound(c) = {t} THEN Goto(c, "scan") ELSE stack
  BY <1>2 DEF Plan
<1>4. t \in TablesOf(call[c].fn) /\ t \in Tables
  BY <1>2, TablesRead DEF Unbound
<1>5. CASE provider[t] = "missing" /\ Fail(c)
  <2>1. stack' = Goto(c, "reply") /\ call' = [call EXCEPT ![c].failed = TRUE]
    BY <1>5 DEF Fail
  <2>2. CallChange(c) /\ Failed(c)
    BY <2>1, FailedChange DEF Failed
  <2>3. Effect(c, "plan", "reply")
    BY <1>1, <2>1, <2>2, GotoEffect DEF QueryPhases
  <2> QED BY <1>1, <1>4, <1>5, <2>2, <2>3 DEF SomeMissing
<1>6. CASE /\ provider[t] # "missing"
           /\ call' = [call EXCEPT ![c].bound[t] = provider[t]]
           /\ stack' = IF Unbound(c) = {t} THEN Goto(c, "scan") ELSE stack
  <2>1. CallChange(c)
        /\ Assigned(c, call[c].scans, [call[c].bound EXCEPT ![t] = provider[t]],
                    call[c].reads, call[c].resolver, call[c].found, call[c].parsed,
                    call[c].todo, call[c].text, call[c].failed)
    BY <1>6, BoundChange
  <2>2. CASE Unbound(c) = {t}
    <3>1. stack' = Goto(c, "scan")
      BY <1>6, <2>2
    <3>2. Effect(c, "plan", "scan")
      BY <1>1, <2>1, <3>1, GotoEffect DEF QueryPhases
    <3> QED BY <1>1, <1>4, <1>6, <2>1, <2>2, <3>2
  <2>3. CASE Unbound(c) # {t}
    <3>1. Effect(c, "plan", "plan")
      BY <1>1, <1>6, <2>1, <2>3, SameStack
    <3> QED BY <1>1, <1>4, <1>6, <2>1, <2>3, <3>1
  <2> QED BY <2>2, <2>3
<1> QED BY <1>3, <1>5, <1>6

(* The source answers one more call of a scan. *)
LEMMA AskSourceEffect ==
  ASSUME ControlInv, NEW c \in Calls, AskSource(c)
  PROVE  /\ At(c, "scan")
         /\ \E a \in Unscanned(c) :
              LET read == Append(call[c].reads[a], version)
                  refused == Refused(TableOf(a), read)
              IN /\ Assigned(c, call[c].scans, call[c].bound,
                             [call[c].reads EXCEPT ![a] = read], call[c].resolver,
                             call[c].found, call[c].parsed, call[c].todo, call[c].text, refused)
                 /\ IF refused THEN Effect(c, "scan", "reply") ELSE Effect(c, "scan", "scan")
<1>1. At(c, "scan") /\ Unchanged
  BY DEF AskSource
<1>2. PICK a \in Unscanned(c) :
        LET read == Append(call[c].reads[a], version)
            refused == Refused(TableOf(a), read)
        IN /\ call' = [call EXCEPT ![c].reads[a] = read, ![c].failed = refused]
           /\ stack' = IF refused THEN Goto(c, "reply") ELSE stack
  BY DEF AskSource
<1> DEFINE read == Append(call[c].reads[a], version)
           refused == Refused(TableOf(a), read)
<1> HIDE DEF read, refused
<1>3. /\ call' = [call EXCEPT ![c].reads[a] = read, ![c].failed = refused]
      /\ stack' = IF refused THEN Goto(c, "reply") ELSE stack
  BY <1>2 DEF read, refused
<1>4. CallChange(c)
      /\ Assigned(c, call[c].scans, call[c].bound, [call[c].reads EXCEPT ![a] = read],
                  call[c].resolver, call[c].found, call[c].parsed, call[c].todo, call[c].text,
                  refused)
  BY <1>3, ReadChange
<1>5. CASE refused
  <2>1. Effect(c, "scan", "reply")
    BY <1>1, <1>3, <1>4, <1>5, GotoEffect DEF QueryPhases
  <2> QED BY <1>1, <1>4, <1>5, <2>1 DEF read, refused
<1>6. CASE ~refused
  <2>1. Effect(c, "scan", "scan")
    BY <1>1, <1>3, <1>4, <1>6, SameStack
  <2> QED BY <1>1, <1>4, <1>6, <2>1 DEF read, refused
<1> QED BY <1>5, <1>6

(* The identities and the texts that the query of fn gives. *)
FoundBy(tabs, fn, keys) ==
  CASE fn = "pg_get_viewdef" -> fetch_view_identities(tabs, keys)
    [] fn = "pg_get_constraintdef" -> fetch_constraint_identities(tabs, keys)
    [] fn = "pg_get_userbyid" -> fetch_users_by_oids(tabs, keys)
    [] fn = "oid" -> fetch_oids_by_names(tabs, keys)

TextBy(fn, found, k) ==
  CASE fn \in DefinitionFns -> None
    [] fn = "pg_get_userbyid" ->
         {IF k \in DOMAIN found THEN Text("catalog", k, found[k], <<>>)
          ELSE Text("unknown", k, "", <<>>)}
    [] fn = "oid" ->
         IF k \in DOMAIN found THEN {Text("catalog", found[k], "", <<>>)} ELSE None

(* A query replies with what it found. *)
LEMMA JoinEffect ==
  ASSUME ControlInv, NEW c \in Calls, Join(c)
  PROVE  LET found == FoundBy(Got(c), call[c].fn, Keys(c))
         IN /\ Effect(c, "scan", "reply") /\ Unscanned(c) = {}
            /\ call[c].fn \in DefinitionFns \cup LookupFns
            /\ Variables(c, call[c].resolver, found, call[c].parsed,
                  IF call[c].fn \in DefinitionFns THEN DOMAIN found ELSE {},
                  [k \in Keys(c) |-> TextBy(call[c].fn, found, k)],
                  call[c].failed)
<1> DEFINE found == FoundBy(Got(c), call[c].fn, Keys(c))
           todo == IF call[c].fn \in DefinitionFns THEN DOMAIN found ELSE {}
           text == [k \in Keys(c) |-> TextBy(call[c].fn, found, k)]
<1>1. /\ At(c, "scan") /\ call[c].fn # "pg_get_indexdef" /\ Unchanged /\ Unscanned(c) = {}
      /\ stack' = Goto(c, "reply")
  BY DEF Join, Scanned
<1>2. call[c].fn \in DefinitionFns \cup LookupFns
  BY <1>1, QueryingFn
<1>3. call' = [call EXCEPT ![c].found = found, ![c].todo = todo, ![c].text = text]
  BY DEF Join, FoundBy, TextBy
<1> HIDE DEF found, todo, text
<1>4. CallChange(c) /\ Variables(c, call[c].resolver, found, call[c].parsed, todo, text,
                                 call[c].failed)
  BY <1>3, JoinChange
<1>5. Effect(c, "scan", "reply")
  BY <1>1, <1>4, GotoEffect DEF QueryPhases
<1> QED BY <1>1, <1>2, <1>4, <1>5 DEF found, todo, text

(* The first query for indexes, with or without a second. *)
LEMMA IndexPartsEffect ==
  ASSUME ControlInv, NEW c \in Calls, JoinIndexParts(c)
  PROVE  LET found == On(Got(c), "pg_get_indexdef") \cap Keys(c)
             parsed == {o \in found : IsPlain(Got(c), o)}
         IN /\ At(c, "scan") /\ call[c].fn = "pg_get_indexdef" /\ Unscanned(c) = {}
            /\ "a" \notin call[c].scans
            /\ Assigned(c, IF parsed = {} THEN call[c].scans ELSE call[c].scans \cup {"a"},
                 call[c].bound, call[c].reads, call[c].resolver,
                 [o \in found |-> Identity(Got(c), "pg_get_indexdef", o)],
                 [o \in parsed |-> IndexParts(Got(c), o)], call[c].todo,
                 [k \in Keys(c) |-> None], call[c].failed)
            /\ IF parsed = {} THEN Effect(c, "scan", "slot") ELSE Effect(c, "scan", "plan")
<1> DEFINE found == On(Got(c), "pg_get_indexdef") \cap Keys(c)
           parsed == {o \in found : IsPlain(Got(c), o)}
           names == [o \in found |-> Identity(Got(c), "pg_get_indexdef", o)]
           parts == [o \in parsed |-> IndexParts(Got(c), o)]
           text == [k \in Keys(c) |-> None]
           scans == IF parsed = {} THEN call[c].scans ELSE call[c].scans \cup {"a"}
<1>1. /\ At(c, "scan") /\ call[c].fn = "pg_get_indexdef" /\ Unchanged /\ Unscanned(c) = {}
      /\ "a" \notin call[c].scans
  BY DEF JoinIndexParts, Scanned
<1>2. call' = [call EXCEPT ![c].found = names, ![c].parsed = parts, ![c].text = text,
                           ![c].scans = scans]
  BY DEF JoinIndexParts
<1>3. stack' = Goto(c, IF parsed = {} THEN "slot" ELSE "plan")
  BY DEF JoinIndexParts
<1> HIDE DEF names, parts, text, parsed, scans
<1>4. CallChange(c)
      /\ Assigned(c, scans, call[c].bound, call[c].reads, call[c].resolver, names, parts,
                  call[c].todo, text, call[c].failed)
  BY <1>2, IndexPartsChange
<1>5. CASE parsed = {}
  <2>1. stack' = Goto(c, "slot")
    BY <1>3, <1>5
  <2>2. Effect(c, "scan", "slot")
    BY <1>1, <1>4, <2>1, GotoEffect DEF QueryPhases
  <2> QED BY <1>1, <1>4, <1>5, <2>2 DEF names, parts, text, parsed, scans
<1>6. CASE parsed # {}
  <2>1. stack' = Goto(c, "plan")
    BY <1>3, <1>6
  <2>2. Effect(c, "scan", "plan")
    BY <1>1, <1>4, <2>1, GotoEffect DEF QueryPhases
  <2> QED BY <1>1, <1>4, <1>6, <2>2 DEF names, parts, text, parsed, scans
<1> QED BY <1>5, <1>6

(* The texts after the second query for index definitions. *)
Rendered(c) ==
  [k \in Keys(c) |->
     IF k \in DOMAIN call[c].parsed
     THEN render_create_index_statement(k, call[c].found[k], call[c].parsed[k].keys,
                                        ColumnNames(Got(c), call[c].parsed[k]))
     ELSE None]

(* The second query for indexes. *)
LEMMA AttributesEffect ==
  ASSUME ControlInv, NEW c \in Calls, JoinAttributes(c)
  PROVE  /\ call[c].fn = "pg_get_indexdef" /\ "a" \in call[c].scans /\ Unscanned(c) = {}
         /\ Effect(c, "scan", "slot")
         /\ Variables(c, call[c].resolver, call[c].found, call[c].parsed, call[c].todo,
                      Rendered(c), call[c].failed)
<1>1. /\ At(c, "scan") /\ call[c].fn = "pg_get_indexdef" /\ Unchanged /\ Unscanned(c) = {}
      /\ "a" \in call[c].scans
      /\ call' = [call EXCEPT ![c].text = Rendered(c)] /\ stack' = Goto(c, "slot")
  BY DEF JoinAttributes, Scanned, Rendered
<1>2. CallChange(c) /\ Variables(c, call[c].resolver, call[c].found, call[c].parsed,
                                 call[c].todo, Rendered(c), call[c].failed)
  BY <1>1, TextChange
<1>3. Effect(c, "scan", "slot")
  BY <1>1, <1>2, GotoEffect DEF QueryPhases
<1> QED BY <1>1, <1>2, <1>3

(* The slot of pg_get_indexdef is read on the query's task. *)
LEMMA IndexResolverEffect ==
  ASSUME ControlInv, NEW c \in Calls, GetIndexResolver(c)
  PROVE  /\ call[c].fn = "pg_get_indexdef" /\ Effect(c, "slot", "ask")
         /\ Variables(c, slot["pg_get_indexdef"], call[c].found, call[c].parsed,
              IF slot["pg_get_indexdef"] = None THEN {}
              ELSE {k \in DOMAIN call[c].found : call[c].text[k] = None},
              call[c].text, call[c].failed)
<1> DEFINE todo == IF slot["pg_get_indexdef"] = None THEN {}
                   ELSE {k \in DOMAIN call[c].found : call[c].text[k] = None}
<1>1. /\ At(c, "slot") /\ stack' = Goto(c, "ask") /\ Unchanged
      /\ call' = [call EXCEPT ![c].resolver = slot["pg_get_indexdef"], ![c].todo = todo]
  BY DEF GetIndexResolver
<1> HIDE DEF todo
<1>2. call[c].fn = "pg_get_indexdef"
  BY <1>1, QueryingFn
<1>3. CallChange(c) /\ Variables(c, slot["pg_get_indexdef"], call[c].found, call[c].parsed, todo,
                                 call[c].text, call[c].failed)
  BY <1>1, IndexResolverChange
<1>4. Effect(c, "slot", "ask")
  BY <1>1, <1>2, <1>3, GotoEffect DEF QueryPhases
<1> QED BY <1>2, <1>3, <1>4 DEF todo

(* One call of the resolver. *)
LEMMA AskEffect ==
  ASSUME ControlInv, NEW c \in Calls, Ask(c)
  PROVE  /\ Effect(c, "ask", "ask")
         /\ \E k \in call[c].todo, r \in call[c].resolver :
              Variables(c, call[c].resolver, call[c].found, call[c].parsed, call[c].todo \ {k},
                        [call[c].text EXCEPT ![k] = resolve(r, k, call[c].found[k])],
                        call[c].failed)
<1>1. At(c, "ask") /\ UNCHANGED stack /\ Unchanged
  BY DEF Ask
<1>2. PICK k \in call[c].todo, r \in call[c].resolver :
        call' = [call EXCEPT ![c].text[k] = resolve(r, k, call[c].found[k]),
                             ![c].todo = @ \ {k}]
  BY DEF Ask
<1>3. CallChange(c) /\ Variables(c, call[c].resolver, call[c].found, call[c].parsed,
                                 call[c].todo \ {k},
                                 [call[c].text EXCEPT ![k] = resolve(r, k, call[c].found[k])],
                                 call[c].failed)
  <2>1. call' = [call EXCEPT ![c].text[k] = resolve(r, k, call[c].found[k]),
                             ![c].todo = call[c].todo \ {k}]
    BY <1>2
  <2> QED BY <2>1, AskChange
<1>4. Effect(c, "ask", "ask")
  BY <1>1, <1>3, SameStack
<1> QED BY <1>3, <1>4

(* Nothing is left to ask: the rows are built, or the reply is sent. *)
LEMMA AskedEffect ==
  ASSUME ControlInv, NEW c \in Calls, Asked(c)
  PROVE  /\ Untouched(c) /\ call[c].todo = {}
         /\ Effect(c, "ask", "rows") \/ Effect(c, "ask", "reply")
<1> DEFINE q == IF Len(stack[c]) = 1 THEN "rows" ELSE "reply"
<1>1. At(c, "ask") /\ call[c].todo = {} /\ stack' = Goto(c, q) /\ UNCHANGED call /\ Unchanged
  BY DEF Asked
<1>2. CallChange(c) /\ Untouched(c)
  BY <1>1, NoChange
<1>3. DOMAIN stack = Calls /\ StackInv(c) /\ PhaseInv(c) /\ call'[c].fn = call[c].fn
      /\ call[c].fn \in Fns
  BY <1>2 DEF ControlInv, HostInv, OneInv, CallInv, CallChange, SameRequest
<1>4. /\ Phase(c) = "ask" /\ stack[c] # <<>>
      /\ \/ Len(stack[c]) = 1 /\ Alone(c)
         \/ Len(stack[c]) = 2 /\ Querying(c)
  BY <1>1, <1>3, TopPlace
<1>5. /\ q \in Places /\ (Len(stack[c]) = 1 => q \in {"start", "ask", "rows"})
      /\ (Len(stack[c]) = 2 => q \in QueryPhases) /\ q \in {"rows", "reply"}
  BY DEF Places, QueryPhases
<1>6. q = "reply" => InQuery(c)
  BY <1>4 DEF InQuery, Querying, QueryPhases
<1> HIDE DEF q
<1>7. Moved(c, q) /\ (InQuery(c)' <=> InQuery(c))
  BY <1>1, <1>3, <1>5, GotoMoves
<1>8. PhaseInv(c)'
  BY <1>3, <1>4, <1>5, <1>6, <1>7
     DEF PhaseInv, Moved, Fns, SlotFns, DefinitionFns, RuntimeFns, LookupFns
<1>9. OnlyCall(c)
  BY <1>1, <1>2, <1>7 DEF OnlyCall, Moved, CallChange, Unchanged
<1>10. Effect(c, "ask", q)
  BY <1>2, <1>4, <1>7, <1>8, <1>9 DEF Effect, Moved, CallChange
<1> QED BY <1>1, <1>2, <1>5, <1>10

(* A callback's queries, and taking up a task, move nothing. *)
LEMMA NestedEffect ==
  ASSUME ControlInv, NEW c \in Calls, NestedQuery(c) \/ EndNested(c) \/ Poll(c)
  PROVE  Untouched(c) /\ Effect(c, Phase(c), Phase(c))
<1>1. DOMAIN stack = Calls /\ StackInv(c)
  BY DEF ControlInv, HostInv, OneInv
<1>2. CASE NestedQuery(c)
  <2>1. /\ At(c, "nested") \/ At(c, "ask")
        /\ Unchanged
        /\ call' = [call EXCEPT ![c].nested = call[c].nested + 1]
        /\ run_catalog_query(c, "nested", Top(c).pc)
    BY <1>2 DEF NestedQuery
  <2>2. CallChange(c) /\ Untouched(c)
    BY <2>1, NestedChange DEF Untouched
  <2>3. Moved(c, Phase(c)) /\ stack[c] # <<>> /\ (InQuery(c)' <=> InQuery(c))
    BY <1>1, <2>1, <2>2, NestedStays DEF CallChange, SameRequest
  <2>4. Unchanged
    BY <1>2 DEF NestedQuery
  <2> QED BY <2>2, <2>3, <2>4, StayEffect
<1>3. CASE EndNested(c)
  <2>1. At(c, "nested") /\ Ended(c) /\ UNCHANGED call /\ Unchanged
    BY <1>3 DEF EndNested, Ended
  <2>2. CallChange(c) /\ Untouched(c)
    BY <2>1, NoChange
  <2>3. Moved(c, Phase(c)) /\ stack[c] # <<>> /\ (InQuery(c)' <=> InQuery(c))
    BY <1>1, <2>1, <2>2, EndNestedStays DEF CallChange, SameRequest
  <2> QED BY <2>1, <2>2, <2>3, StayEffect
<1>4. CASE Poll(c)
  <2>1. UNCHANGED call /\ Unchanged
    BY <1>4 DEF Poll, Unchanged
  <2>2. CallChange(c) /\ Untouched(c)
    BY <2>1, NoChange
  <2>3. Moved(c, Phase(c)) /\ stack[c] # <<>> /\ (InQuery(c)' <=> InQuery(c))
    BY <1>1, <1>4, PollStays
  <2> QED BY <2>1, <2>2, <2>3, StayEffect
<1> QED BY <1>2, <1>3, <1>4

(* A reply brings the function back to where it goes on. *)
LEMMA ReplyEffect ==
  ASSUME ControlInv, NEW c \in Calls, Reply(c)
  PROVE  Untouched(c) /\ Effect(c, "reply", Back(call[c].fn))
<1>1. At(c, "reply") /\ Ended(c) /\ UNCHANGED call /\ Unchanged
  BY DEF Reply, Ended
<1>2. CallChange(c) /\ Untouched(c)
  BY <1>1, NoChange
<1>3. DOMAIN stack = Calls /\ StackInv(c) /\ call'[c].fn = call[c].fn
      /\ call[c].fn \in Fns /\ PhaseInv(c)
  BY <1>2 DEF ControlInv, HostInv, OneInv, CallInv, CallChange, SameRequest
<1>4. Moved(c, Back(call[c].fn)) /\ Phase(c) = "reply" /\ ~InQuery(c)'
  BY <1>1, <1>3, ReplyMoves
<1>5. PhaseInv(c)'
  BY <1>3, <1>4 DEF PhaseInv, Moved, Back, Fns, SlotFns, DefinitionFns, RuntimeFns, LookupFns
<1>6. stack[c] # <<>>
  BY <1>1 DEF At
<1>7. OnlyCall(c)
  BY <1>1, <1>2, <1>4 DEF OnlyCall, Moved, CallChange, Unchanged
<1> QED BY <1>2, <1>4, <1>5, <1>6, <1>7 DEF Effect, Moved, CallChange

(* The call ends. *)
LEMMA ReturnEffect ==
  ASSUME ControlInv, NEW c \in Calls, Return(c)
  PROVE  Untouched(c) /\ Effect(c, "rows", "none")
<1>1. /\ At(c, "rows") /\ stack' = [stack EXCEPT ![c] = <<>>] /\ UNCHANGED call /\ Unchanged
  BY DEF Return
<1>2. CallChange(c) /\ Untouched(c)
  BY <1>1, NoChange
<1>3. DOMAIN stack = Calls /\ StackInv(c) /\ call'[c].fn = call[c].fn
  BY <1>2 DEF ControlInv, HostInv, OneInv, CallChange, SameRequest
<1>4. Phase(c) = "rows" /\ stack[c] # <<>>
  BY <1>1, <1>3, TopPlace
<1>5. stack'[c] = <<>> /\ StackInv(c)' /\ Phase(c)' = "none"
  BY <1>1, <1>3 DEF StackInv, Phase
<1>6. PhaseInv(c)'
  BY <1>5 DEF PhaseInv
<1>7. OnlyCall(c)
  BY <1>1, <1>2, <1>3 DEF OnlyCall, CallChange, Unchanged
<1> QED BY <1>2, <1>4, <1>5, <1>6, <1>7 DEF Effect, CallChange

-----------------------------------------------------------------------------
(* The control invariant holds before the first call. *)
LEMMA InitControl == Init => ControlInv
<1> SUFFICES ASSUME Init PROVE ControlInv
  OBVIOUS
<1>1. PICK i \in [Calls -> UNION {DOMAIN Requests[c] : c \in Calls}] :
        /\ \A c \in Calls : i[c] \in DOMAIN Requests[c]
        /\ call = [c \in Calls |->
             [fn |-> Requests[c][i[c]].fn, args |-> Requests[c][i[c]].args,
              scans |-> FirstQuery(Requests[c][i[c]].fn), bound |-> [t \in Tables |-> "no"],
              reads |-> [a \in Aliases |-> <<>>],
              resolver |-> None, found |-> <<>>, parsed |-> <<>>,
              todo |-> {}, text |-> <<>>, failed |-> FALSE, nested |-> 0]]
  BY DEF Init
<1>2. PICK r \in {None} \cup {{x} : x \in AtStartup} :
        slot = [fn \in SlotFns |-> IF \E c \in Calls : call[c].fn = fn THEN r ELSE None]
  BY DEF Init
<1>3. stack = [c \in Calls |-> <<>>] /\ version = 1
      /\ provider = [t \in Tables |-> IF t \in LazyAtStart THEN "lazy" ELSE "builtin"]
      /\ seen = [c \in Calls |-> [slots |-> {}, shown |-> {}, missing |-> FALSE]]
  BY DEF Init
<1>4. HostInv
  <2>1. OneAtMost(r) /\ OneAtMost(None)
    BY <1>2 DEF OneAtMost, None
  <2>2. version \in DOMAIN Catalogs
    BY <1>3, CatalogsAssumption
  <2> QED BY <1>1, <1>2, <1>3, <2>1, <2>2 DEF HostInv
<1>5. ASSUME NEW c \in Calls PROVE OneInv(c)
  <2>1. stack[c] = <<>> /\ Phase(c) = "none"
    BY <1>3 DEF Phase
  <2>2. StackInv(c) /\ PhaseInv(c)
    BY <2>1 DEF StackInv, PhaseInv
  <2> DEFINE q == Requests[c][i[c]]
  <2>3. call[c] = [fn |-> q.fn, args |-> q.args,
                   scans |-> FirstQuery(q.fn), bound |-> [t \in Tables |-> "no"],
                   reads |-> [a \in Aliases |-> <<>>],
                   resolver |-> None, found |-> <<>>, parsed |-> <<>>,
                   todo |-> {}, text |-> <<>>, failed |-> FALSE, nested |-> 0]
    BY <1>1
  <2>4. /\ q.fn \in Fns
        /\ \A j \in DOMAIN q.args : \A x, y \in q.args[j] : x = y
    BY <1>1, RequestsAssumption
  <2> HIDE DEF q
  <2>5. call[c].fn = q.fn /\ call[c].args = q.args /\ ~call[c].failed
        /\ call[c].scans = FirstQuery(call[c].fn) /\ call[c].bound = [t \in Tables |-> "no"]
        /\ call[c].reads = [a \in Aliases |-> <<>>]
    BY <2>3
  <2>6. CallInv(c)
    <3>1. IsCall(call[c])
      BY <2>3 DEF IsCall
    <3> QED BY <2>4, <2>5, <3>1 DEF CallInv
  <2>7. seen[c].shown = {} /\ seen[c].slots = {} /\ ~Invoked(c)
    BY <1>3 DEF Invoked
  <2>8. SeenInv(c)
    BY <2>1, <2>5, <2>7 DEF SeenInv
  <2>9. call[c].scans \subseteq Aliases /\ "a" \notin call[c].scans
        /\ \A a \in Aliases : TableOf(a) \in Tables
    BY <2>5 DEF FirstQuery, Aliases, TableOf, Tables, LazyTables
  <2>10. \A a \in call[c].scans : call[c].bound[TableOf(a)] = "no" /\ call[c].reads[a] = <<>>
    BY <2>5, <2>9
  <2>11. ReadsInv(c)
    <3>1. <<>> \in Seq(DOMAIN Catalogs) /\ \A n \in DOMAIN <<>> : FALSE
      OBVIOUS
    <3>2. "c" \in Aliases
      BY DEF Aliases
    <3> QED BY <2>5, <2>9, <2>10, <3>1, <3>2 DEF ReadsInv
  <2>12. FailInv(c)
    BY <2>1, <2>5, <2>7, <2>10 DEF FailInv, NothingRead
  <2> QED BY <2>2, <2>6, <2>8, <2>11, <2>12 DEF OneInv
<1> QED BY <1>4, <1>5 DEF ControlInv

(* The host's steps are seen by the calls that run. *)
Witnessed(c) ==
  /\ seen[c].shown \subseteq seen'[c].shown /\ seen[c].slots \subseteq seen'[c].slots
  /\ seen[c].missing => seen'[c].missing
  /\ Invoked(c)' <=> Invoked(c)

(* A step of the host moves no call, and a lazy table stays one. *)
LEMMA HostStep ==
  ASSUME ControlInv, Host
  PROVE  /\ stack' = stack /\ call' = call /\ Witness /\ HostInv'
         /\ \A t \in Tables : provider[t] = "lazy" => provider'[t] = "lazy"
<1>1. HostInv /\ stack' = stack /\ call' = call /\ Witness
  BY DEF ControlInv, Host, ClearResolver, SetResolver, ChangeCatalog, DeregisterTable, RegisterTable
<1>2. DOMAIN seen' = Calls
  BY <1>1 DEF Witness
<1>3. DOMAIN slot' = SlotFns /\ \A fn \in SlotFns : OneAtMost(slot'[fn])
  <2>1. ASSUME NEW fn \in SlotFns, NEW r, SetResolver(fn, r)
        PROVE  DOMAIN slot' = SlotFns /\ \A g \in SlotFns : OneAtMost(slot'[g])
    BY <1>1, <2>1 DEF SetResolver, HostInv, OneAtMost
  <2>2. ASSUME NEW fn \in SlotFns, ClearResolver(fn)
        PROVE  DOMAIN slot' = SlotFns /\ \A g \in SlotFns : OneAtMost(slot'[g])
    BY <1>1, <2>2 DEF ClearResolver, HostInv, OneAtMost, None
  <2>3. CASE slot' = slot
    BY <1>1, <2>3 DEF HostInv
  <2>4. \/ \E fn \in SlotFns : ClearResolver(fn) \/ \E r \in Resolvers : SetResolver(fn, r)
        \/ slot' = slot
    BY DEF Host, ChangeCatalog, DeregisterTable, RegisterTable
  <2> QED BY <2>1, <2>2, <2>3, <2>4
<1>4. version' \in DOMAIN Catalogs
  <2>1. version' = version \/ (version < Len(Catalogs) /\ version' = version + 1)
    BY DEF Host, ClearResolver, SetResolver, ChangeCatalog, DeregisterTable, RegisterTable
  <2>2. version \in 1 .. Len(Catalogs) /\ Len(Catalogs) \in Nat /\ DOMAIN Catalogs = 1 .. Len(Catalogs)
    BY <1>1, CatalogsAssumption DEF HostInv
  <2> QED BY <2>1, <2>2
<1>5. /\ DOMAIN provider' = Tables
      /\ \A t \in Tables : provider'[t] \in {"builtin", "missing", "lazy"}
      /\ \A t \in Tables : provider[t] = "lazy" => provider'[t] = "lazy"
  <2>1. DOMAIN provider = Tables /\ \A t \in Tables : provider[t] \in {"builtin", "missing", "lazy"}
    BY <1>1 DEF HostInv
  <2>2. CASE provider' = provider
    BY <2>1, <2>2
  <2>3. CASE DeregisterTable
    <3>1. PICK k \in DOMAIN Installed :
            /\ \A j \in DOMAIN Installed : j < k <=> provider[Installed[j]] = "lazy"
            /\ provider' = [provider EXCEPT ![Installed[k]] = "missing"]
      BY <2>3 DEF DeregisterTable
    <3>2. provider[Installed[k]] # "lazy"
      <4>1. k < k <=> provider[Installed[k]] = "lazy"
        BY <3>1
      <4>2. ~(k < k)
        <5>1. DOMAIN Installed \subseteq Nat
          BY CatalogsAssumption
        <5> QED BY <5>1
      <4> QED BY <4>1, <4>2
    <3> QED BY <2>1, <3>1, <3>2
  <2>4. CASE RegisterTable
    BY <2>1, <2>4 DEF RegisterTable
  <2> QED BY <2>2, <2>3, <2>4 DEF Host, ClearResolver, SetResolver, ChangeCatalog
<1> QED BY <1>1, <1>2, <1>3, <1>4, <1>5 DEF HostInv

(* Running calls see what the host puts in place. *)
LEMMA HostKeepsControl ==
  ASSUME ControlInv, Host
  PROVE  ControlInv' /\ \A c \in Calls : Witnessed(c)
<1>1. /\ stack' = stack /\ call' = call /\ Witness /\ HostInv'
      /\ \A t \in Tables : provider[t] = "lazy" => provider'[t] = "lazy"
  BY HostStep
<1>2. ASSUME NEW c \in Calls PROVE OneInv(c)' /\ Witnessed(c)
  <2>1. OneInv(c) /\ SeenInv(c) /\ call[c].fn \in Fns
    BY DEF ControlInv, OneInv, CallInv
  <2>2. stack'[c] = stack[c] /\ call'[c] = call[c]
    BY <1>1
  <2>3. CASE ~Running(c)
    <3>1. seen'[c] = seen[c] /\ stack[c] = <<>>
      BY <1>1, <2>3 DEF Witness, Running
    <3>2. Witnessed(c)
      BY <3>1 DEF Witnessed, Invoked
    <3>3. SeenInv(c)'
      BY <1>1, <2>1, <3>1 DEF SeenInv, Invoked, OneAtMost
    <3> QED BY <1>1, <2>1, <2>2, <3>2, <3>3, StillInv DEF Witnessed
  <2>4. CASE Running(c)
    <3> DEFINE now == SlotShown(call[c].fn)'
               tables == TablesShown(call[c].fn)'
               gone == SomeMissing(call[c].fn)'
    <3>1. seen'[c] = [slots |-> seen[c].slots \cup {now}, shown |-> seen[c].shown \cup tables,
                      missing |-> seen[c].missing \/ gone]
      BY <1>1, <2>4 DEF Witness
    <3> HIDE DEF now, tables, gone
    <3>2. /\ seen'[c].slots = seen[c].slots \cup {now}
          /\ seen'[c].shown = seen[c].shown \cup tables
          /\ seen'[c].missing = (seen[c].missing \/ gone)
      BY <3>1
    <3>3. stack[c] # <<>> /\ SlotOf(c) \in seen[c].slots /\ Invoked(c)
      BY <2>1, <2>4 DEF Running, SeenInv
    <3>4. Witnessed(c)
      BY <3>2, <3>3 DEF Witnessed, Invoked
    <3>5. SlotOf(c)' = now /\ OneAtMost(now)
      BY <1>1 DEF SlotOf, SlotShown, HostInv, OneAtMost, None, now
    <3>6. SeenInv(c)'
      <4>1. \A s \in seen'[c].slots : OneAtMost(s)
        BY <2>1, <3>2, <3>5 DEF SeenInv
      <4>2. TablesShown(call[c].fn)' = tables /\ SomeMissing(call[c].fn)' = gone
        BY DEF tables, gone
      <4> QED BY <1>1, <3>2, <3>3, <3>4, <3>5, <4>1, <4>2 DEF SeenInv, Witnessed, OneAtMost
    <3> QED BY <1>1, <2>1, <2>2, <3>4, <3>6, StillInv DEF Witnessed
  <2> QED BY <2>3, <2>4
<1> QED BY <1>1, <1>2 DEF ControlInv

(* A call starts, and sees what is in place. *)
LEMMA InvokeKeepsControl ==
  ASSUME ControlInv, NEW c \in Calls, Invoke(c)
  PROVE  /\ ControlInv' /\ Phase(c)' = "start" /\ Invoked(c)' /\ ~Invoked(c)
         /\ call' = call /\ slot' = slot
         /\ \A d \in Calls : d # c => stack'[d] = stack[d] /\ seen'[d] = seen[d]
<1> DEFINE now == SlotShown(call[c].fn)
           tables == TablesShown(call[c].fn)
           gone == SomeMissing(call[c].fn)
<1>1. /\ ~Invoked(c) /\ stack' = [stack EXCEPT ![c] = <<Task("host", "start")>>]
      /\ seen' = [seen EXCEPT ![c] = [slots |-> {now}, shown |-> tables, missing |-> gone]]
      /\ UNCHANGED <<provider, version, slot, call>>
  BY DEF Invoke
<1> HIDE DEF now, tables, gone
<1>2. HostInv /\ HostInv' /\ OneInv(c)
  BY <1>1 DEF ControlInv, HostInv
<1>3. /\ stack'[c] = <<Task("host", "start")>>
      /\ seen'[c].slots = {now} /\ seen'[c].shown = tables /\ seen'[c].missing = gone
      /\ \A d \in Calls : d # c => stack'[d] = stack[d] /\ seen'[d] = seen[d]
  BY <1>1, <1>2 DEF HostInv
<1>4. /\ stack'[c] \in Seq(Frame) /\ stack'[c] # <<>> /\ Len(stack'[c]) = 1
      /\ stack'[c][1].pc = "start"
  <2>1. Task("host", "start") \in Frame /\ Task("host", "start").pc = "start"
    BY DEF Task, Frame, Places
  <2> QED BY <1>3, <2>1
<1>5. StackInv(c)' /\ Phase(c)' = "start" /\ ~InQuery(c)' /\ Invoked(c)'
  BY <1>3, <1>4 DEF StackInv, Alone, Phase, InQuery, Invoked
<1>6. CallInv(c) /\ SeenInv(c) /\ ReadsInv(c) /\ FailInv(c) /\ ~call[c].failed /\ NothingRead(c)
  BY <1>1, <1>2 DEF OneInv, SeenInv, FailInv
<1>7. SameRequest(c) /\ SameReads(c)
  BY <1>1 DEF SameRequest, SameReads
<1>8. PhaseInv(c)' /\ CallInv(c)' /\ FailInv(c)'
  <2>1. NothingRead(c)'
    BY <1>6, <1>7, ReadsStay
  <2> QED BY <1>1, <1>5, <1>6, <2>1 DEF PhaseInv, CallInv, FailInv
<1>9. SlotOf(c)' = now /\ OneAtMost(now) /\ TablesShown(call[c].fn)' = tables
      /\ SomeMissing(call[c].fn)' = gone
  BY <1>1, <1>2 DEF SlotOf, SlotShown, TablesShown, SomeMissing, HostInv, OneAtMost, None,
                    now, tables, gone
<1>10. SeenInv(c)'
  <2>1. \A s \in seen'[c].slots : OneAtMost(s)
    BY <1>3, <1>9
  <2> QED BY <1>1, <1>3, <1>5, <1>9, <2>1 DEF SeenInv
<1>11. ReadsInv(c)'
  <2>1. seen[c].shown \subseteq seen'[c].shown
    BY <1>1, <1>6 DEF SeenInv
  <2> QED BY <1>1, <1>6, <1>7, <2>1, ReadsKept
<1>12. ASSUME NEW d \in Calls, d # c PROVE OneInv(d)'
  <2>1. stack'[d] = stack[d] /\ call'[d] = call[d] /\ seen'[d] = seen[d] /\ slot' = slot
        /\ provider' = provider /\ version' = version
    BY <1>1, <1>3, <1>12
  <2>2. OneInv(d) /\ SeenInv(d)
    BY DEF ControlInv, OneInv
  <2>3. SeenInv(d)'
    BY <2>1, <2>2, SameShown DEF SeenInv, SlotOf, Invoked, OneAtMost
  <2> QED BY <2>1, <2>2, <2>3, StillInv DEF Invoked
<1>13. ControlInv'
  BY <1>2, <1>5, <1>8, <1>10, <1>11, <1>12 DEF ControlInv, OneInv
<1> QED BY <1>1, <1>3, <1>5, <1>13

(* The places a call can be at. *)
LEMMA PhasesKnown ==
  ASSUME NEW c \in Calls, StackInv(c)
  PROVE  Phase(c) \in QueryPhases \cup {"none", "start", "rows"}
<1>1. CASE stack[c] = <<>>
  BY <1>1 DEF Phase
<1>2. CASE stack[c] # <<>> /\ Alone(c)
  <2>1. Len(stack[c]) >= 2 => stack[c][2].pc = "nested"
    <3>1. Len(stack[c]) \in Nat
      BY <1>2, TopFrame DEF StackInv
    <3> QED BY <1>2, <3>1 DEF Alone
  <2> QED BY <1>2, <2>1 DEF Phase, Alone, QueryPhases
<1>3. CASE stack[c] # <<>> /\ Querying(c)
  BY <1>3 DEF Phase, Querying, QueryPhases
<1> QED BY <1>1, <1>2, <1>3 DEF StackInv

(* What a step has read keeps the conditions on its reads. *)
Kept(c, q) ==
  /\ ReadsInv(c)'
  /\ q \in {"plan", "scan"} => Keys(c) # {}
  /\ q \in {"plan", "scan", "slot"} => ~call'[c].failed
  /\ call'[c].failed => seen[c].missing \/ RefusedScan(c)'
  /\ q = "scan" => (Unbound(c) = {})'
  /\ q \in {"slot", "ask", "reply", "rows", "none"} =>
       call'[c].failed \/ NothingRead(c)' \/ AllRead(c)'

(* The invariant follows from the effect of a step. *)
LEMMA EffectKeepsControl ==
  ASSUME ControlInv, NEW c \in Calls, NEW p, NEW q, q # "start", Effect(c, p, q), Kept(c, q)
  PROVE  ControlInv'
<1>1. /\ Phase(c)' = q /\ stack[c] # <<>> /\ OnlyCall(c) /\ SameRequest(c)
      /\ StackInv(c)' /\ PhaseInv(c)' /\ CallInv(c)'
  BY DEF Effect
<1>2. Keys(c)' = Keys(c) /\ seen' = seen
  BY <1>1, SameKeys DEF OnlyCall
<1>3. Invoked(c)'
  BY <1>1, <1>2 DEF ControlInv, OneInv, SeenInv, Invoked
<1>4. FailInv(c)'
  BY <1>1, <1>2, <1>3 DEF FailInv, Kept
<1> QED BY <1>1, <1>4, CallKeepsControl DEF Kept

(* A step that reads nothing and does not fail. *)
LEMMA ReadingNothingKeepsControl ==
  ASSUME ControlInv, NEW c \in Calls, NEW p, NEW q, q # "start" \/ p = "start",
         Effect(c, p, q), SameReads(c), call'[c].failed = call[c].failed,
         q \in {"plan", "scan"} => Keys(c) # {},
         q \in {"plan", "scan", "slot"} => p \in {"start", "plan", "scan", "slot"},
         q = "scan" => Unbound(c) = {},
         p \in {"plan", "scan"} /\ q \notin {"plan", "scan"} => AllRead(c)
  PROVE  ControlInv'
<1>1. /\ Phase(c) = p /\ Phase(c)' = q /\ OnlyCall(c) /\ SameRequest(c) /\ stack[c] # <<>>
      /\ StackInv(c)' /\ PhaseInv(c)' /\ CallInv(c)'
  BY DEF Effect
<1>2. ReadsInv(c) /\ FailInv(c) /\ SeenInv(c)
  BY DEF ControlInv, OneInv
<1>3. ReadsInv(c)'
  BY <1>1, <1>2, ReadsKept DEF OnlyCall
<1>4. /\ Unbound(c)' = Unbound(c) /\ (NothingRead(c)' <=> NothingRead(c))
      /\ (AllRead(c)' <=> AllRead(c)) /\ (RefusedScan(c)' <=> RefusedScan(c))
  BY ReadsStay
<1>5. q \in {"start", "plan", "scan", "slot"} => ~call[c].failed
  BY <1>1, <1>2 DEF FailInv
<1>6. Invoked(c) /\ (call[c].failed => seen[c].missing \/ RefusedScan(c))
  BY <1>1, <1>2 DEF SeenInv, FailInv
<1>7. CASE q \in {"slot", "ask", "reply", "rows", "none"}
  <2>1. p \in QueryPhases \cup {"start", "rows", "none"}
    BY <1>1, PhasesKnown DEF ControlInv, OneInv
  <2>2. call[c].failed \/ NothingRead(c) \/ AllRead(c)
    BY <1>1, <1>2, <1>6, <1>7, <2>1 DEF FailInv, QueryPhases
  <2>3. Kept(c, q)
    BY <1>3, <1>4, <1>5, <1>6, <1>7, <2>2 DEF Kept
  <2> QED BY <1>7, <2>3, EffectKeepsControl
<1>8. CASE q = "start"
  <2>1. Keys(c)' = Keys(c) /\ seen' = seen /\ NothingRead(c)
    BY <1>1, <1>2, <1>8, SameKeys DEF OnlyCall, FailInv
  <2>2. FailInv(c)'
    BY <1>1, <1>4, <1>5, <1>8, <2>1 DEF FailInv
  <2> QED BY <1>1, <1>3, <2>2, CallKeepsControl
<1>9. CASE q \notin {"start", "slot", "ask", "reply", "rows", "none"}
  <2>1. Kept(c, q)
    BY <1>3, <1>4, <1>5, <1>6, <1>9 DEF Kept
  <2> QED BY <1>9, <2>1, EffectKeepsControl
<1> QED BY <1>7, <1>8, <1>9

(* A table that is looked up is shown at that moment. *)
LEMMA PlanKeepsControl ==
  ASSUME ControlInv, NEW c \in Calls, Plan(c)
  PROVE  ControlInv'
<1>1. At(c, "plan") /\ ReadsInv(c) /\ FailInv(c) /\ SeenInv(c) /\ HostInv
  BY PlanEffect DEF ControlInv, OneInv
<1>2. Phase(c) = "plan" /\ stack[c] # <<>> /\ Keys(c) # {}
  BY <1>1, QueryingFn
<1>3. ~call[c].failed
  BY <1>1, <1>2 DEF FailInv
<1>4. CASE Effect(c, "plan", "reply") /\ Failed(c) /\ SomeMissing(call[c].fn)
  <2>1. SameReads(c) /\ call'[c].failed
    BY <1>4 DEF SameReads, Failed, Variables, Assigned
  <2>2. ReadsInv(c)'
    BY <1>1, <1>4, <2>1, ReadsKept DEF Effect, OnlyCall
  <2>3. seen[c].missing
    BY <1>1, <1>2, <1>4 DEF SeenInv
  <2>4. Kept(c, "reply")
    BY <2>1, <2>2, <2>3 DEF Kept
  <2> QED BY <1>4, <2>4, EffectKeepsControl
<1>5. ASSUME NEW t \in Unbound(c), t \in Tables, provider[t] # "missing",
             Assigned(c, call[c].scans, [call[c].bound EXCEPT ![t] = provider[t]],
                      call[c].reads, call[c].resolver, call[c].found, call[c].parsed,
                      call[c].todo, call[c].text, call[c].failed),
             IF Unbound(c) = {t} THEN Effect(c, "plan", "scan") ELSE Effect(c, "plan", "plan")
      PROVE  ControlInv'
  <2> DEFINE q == IF Unbound(c) = {t} THEN "scan" ELSE "plan"
  <2>1. Effect(c, "plan", q)
    BY <1>5
  <2>2. q \in {"plan", "scan"} /\ (q = "scan" => Unbound(c) = {t})
    OBVIOUS
  <2> HIDE DEF q
  <2>3. SameRequest(c) /\ OnlyCall(c)
    BY <2>1 DEF Effect
  <2>4. /\ call'[c].scans = call[c].scans /\ call'[c].reads = call[c].reads
        /\ call'[c].bound = [call[c].bound EXCEPT ![t] = provider[t]]
        /\ call'[c].failed = call[c].failed /\ call'[c].fn = call[c].fn
    BY <1>5, <2>3 DEF Assigned, SameRequest
  <2>5. /\ DOMAIN call'[c].bound = Tables /\ call'[c].bound[t] = provider[t]
        /\ \A u \in Tables \ {t} : call'[c].bound[u] = call[c].bound[u]
        /\ provider[t] \in {"builtin", "lazy"} /\ call[c].bound[t] = "no"
        /\ \E a \in call[c].scans : TableOf(a) = t
    BY <1>1, <1>5, <2>4 DEF ReadsInv, HostInv, Unbound
  <2>6. Unbound(c)' = Unbound(c) \ {t}
    <3>1. \A a \in call[c].scans : TableOf(a) \in Tables
      BY <1>1, TablesRead
    <3> QED BY <2>4, <2>5, <3>1 DEF Unbound
  <2>7. ReadsInv(c)'
    <3>1. provider' = provider /\ seen' = seen /\ version' = version
      BY <2>3 DEF OnlyCall
    <3>2. \A u \in Tables :
            /\ call'[c].bound[u] \in {"no", "builtin", "lazy"}
            /\ call'[c].bound[u] # "no" => \E a \in call'[c].scans : TableOf(a) = u
            /\ call'[c].bound[u] = "lazy" => provider'[u] = "lazy"
      BY <1>1, <2>4, <2>5, <3>1 DEF ReadsInv
    <3>3. \A a \in call'[c].scans :
            /\ call'[c].bound[TableOf(a)] = "builtin" => <<TableOf(a), 0>> \in seen'[c].shown
            /\ \A n \in DOMAIN call'[c].reads[a] :
                 <<TableOf(a), call'[c].reads[a][n]>> \in seen'[c].shown
      <4> SUFFICES ASSUME NEW a \in call[c].scans
                   PROVE  /\ call'[c].bound[TableOf(a)] = "builtin" =>
                               <<TableOf(a), 0>> \in seen[c].shown
                          /\ \A n \in DOMAIN call[c].reads[a] :
                               <<TableOf(a), call[c].reads[a][n]>> \in seen[c].shown
        BY <2>4, <3>1
      <4>1. TableOf(a) \in TablesOf(call[c].fn) /\ TableOf(a) \in Tables
        BY <1>1, TablesRead
      <4>2. CASE TableOf(a) = t /\ provider[t] = "builtin"
        <5>1. <<t, 0>> \in TablesShown(call[c].fn)
          BY <4>1, <4>2 DEF TablesShown
        <5> QED BY <1>1, <1>2, <4>2, <5>1 DEF SeenInv, ReadsInv
      <4>3. CASE TableOf(a) = t /\ provider[t] # "builtin"
        BY <1>1, <2>5, <4>3 DEF ReadsInv
      <4>4. CASE TableOf(a) # t
        BY <1>1, <2>5, <4>1, <4>4 DEF ReadsInv
      <4> QED BY <4>2, <4>3, <4>4
    <3>4. \A a \in Aliases :
            /\ call'[c].reads[a] \in Seq(DOMAIN Catalogs)
            /\ call'[c].bound[TableOf(a)] # "lazy" => call'[c].reads[a] = <<>>
      <4> SUFFICES ASSUME NEW a \in Aliases
                   PROVE  /\ call[c].reads[a] \in Seq(DOMAIN Catalogs)
                          /\ call'[c].bound[TableOf(a)] # "lazy" => call[c].reads[a] = <<>>
        BY <2>4
      <4>1. TableOf(a) \in Tables
        BY DEF Aliases, TableOf, Tables, LazyTables
      <4>2. /\ call[c].reads[a] \in Seq(DOMAIN Catalogs)
            /\ call[c].bound[TableOf(a)] # "lazy" => call[c].reads[a] = <<>>
        BY <1>1 DEF ReadsInv
      <4> QED BY <2>5, <4>1, <4>2
    <3>5. "a" \in call'[c].scans =>
            Unbound(c)' \subseteq {"pg_attribute"} /\ Unscanned(c)' \subseteq {"a"}
      <4> SUFFICES ASSUME "a" \in call[c].scans
                   PROVE  Unbound(c)' \subseteq {"pg_attribute"} /\ Unscanned(c)' \subseteq {"a"}
        BY <2>4
      <4>1. t = "pg_attribute" /\ Unbound(c)' \subseteq {"pg_attribute"}
            /\ Unscanned(c) \subseteq {"a"}
        BY <1>1, <1>5, <2>6 DEF ReadsInv
      <4>2. ASSUME NEW a \in Unscanned(c)', a # "a" PROVE FALSE
        <5>1. a \in call[c].scans /\ call'[c].bound[TableOf(a)] = "lazy"
              /\ ~Whole(TableOf(a), call[c].reads[a])
          BY <2>4, <4>2 DEF Unscanned
        <5>2. TableOf(a) \in Tables /\ a \in Aliases
          BY <1>1, <5>1, TablesRead
        <5>3. TableOf(a) # "pg_attribute"
          BY <4>2, <5>2 DEF Aliases, TableOf
        <5>4. call[c].bound[TableOf(a)] = "lazy"
          BY <2>5, <4>1, <5>1, <5>2, <5>3
        <5>5. a \in Unscanned(c)
          BY <5>1, <5>4 DEF Unscanned
        <5> QED BY <4>1, <4>2, <5>5
      <4> QED BY <4>1, <4>2
    <3>6. /\ \/ call'[c].scans = FirstQuery(call'[c].fn)
             \/ call'[c].fn = "pg_get_indexdef"
                /\ call'[c].scans = FirstQuery(call'[c].fn) \cup {"a"}
          /\ DOMAIN call'[c].bound = Tables /\ DOMAIN call'[c].reads = Aliases
          /\ DOMAIN call'[c].reads["c"] \subseteq DOMAIN Catalogs[1]["pg_class"]
      BY <1>1, <2>4, <2>5 DEF ReadsInv
    <3> QED BY <3>2, <3>3, <3>4, <3>5, <3>6 DEF ReadsInv
  <2>8. Kept(c, q)
    <3>1. q = "scan" => (Unbound(c) = {})'
      BY <2>2, <2>6
    <3> QED BY <1>2, <1>3, <2>2, <2>4, <2>7, <3>1 DEF Kept
  <2> QED BY <2>1, <2>2, <2>8, EffectKeepsControl
<1> QED BY <1>4, <1>5, PlanEffect

(* The source is asked once more: its state is shown at that moment. *)
LEMMA AskSourceKeepsControl ==
  ASSUME ControlInv, NEW c \in Calls, AskSource(c)
  PROVE  ControlInv'
<1>1. At(c, "scan") /\ ReadsInv(c) /\ FailInv(c) /\ SeenInv(c) /\ HostInv
  BY AskSourceEffect DEF ControlInv, OneInv
<1>2. Phase(c) = "scan" /\ stack[c] # <<>> /\ Keys(c) # {} /\ Unbound(c) = {}
  BY <1>1, QueryingFn DEF FailInv
<1>3. PICK a \in Unscanned(c) :
        LET read == Append(call[c].reads[a], version)
            refused == Refused(TableOf(a), read)
        IN /\ Assigned(c, call[c].scans, call[c].bound,
                       [call[c].reads EXCEPT ![a] = read], call[c].resolver,
                       call[c].found, call[c].parsed, call[c].todo, call[c].text, refused)
           /\ IF refused THEN Effect(c, "scan", "reply") ELSE Effect(c, "scan", "scan")
  BY AskSourceEffect
<1> DEFINE t == TableOf(a)
           old == call[c].reads[a]
           read == Append(old, version)
           refused == Refused(t, read)
           q == IF refused THEN "reply" ELSE "scan"
<1>4. /\ call'[c].scans = call[c].scans /\ call'[c].bound = call[c].bound
      /\ call'[c].reads = [call[c].reads EXCEPT ![a] = read] /\ call'[c].failed = refused
      /\ Effect(c, "scan", q) /\ q \in {"reply", "scan"} /\ (q = "reply" <=> refused)
  BY <1>3 DEF Assigned
<1> HIDE DEF q, refused
<1>5. SameRequest(c) /\ OnlyCall(c) /\ call'[c].fn = call[c].fn
  BY <1>4 DEF Effect, SameRequest
<1>6. /\ a \in call[c].scans /\ a \in Aliases /\ t \in TablesOf(call[c].fn) /\ t \in Tables
      /\ call[c].bound[t] = "lazy" /\ ~Whole(t, old)
  BY <1>1, TablesRead DEF Unscanned
<1>7. old \in Seq(DOMAIN Catalogs) /\ version \in DOMAIN Catalogs /\ provider[t] = "lazy"
  BY <1>1, <1>6 DEF ReadsInv, HostInv
<1>8. /\ read \in Seq(DOMAIN Catalogs) /\ Len(read) = Len(old) + 1 /\ Len(old) \in Nat
      /\ DOMAIN read = 1 .. Len(old) + 1 /\ DOMAIN old = 1 .. Len(old)
      /\ read[Len(old) + 1] = version /\ \A n \in 1 .. Len(old) : read[n] = old[n]
  BY <1>7
<1>9. <<t, version>> \in seen[c].shown
  <2>1. <<t, version>> \in TablesShown(call[c].fn)
    BY <1>6, <1>7 DEF TablesShown
  <2> QED BY <1>1, <1>2, <2>1 DEF SeenInv
<1> HIDE DEF read, t, old
<1>10. /\ DOMAIN call'[c].reads = Aliases /\ call'[c].reads[a] = read
       /\ \A b \in Aliases \ {a} : call'[c].reads[b] = call[c].reads[b]
  BY <1>1, <1>4, <1>6 DEF ReadsInv
<1>11. Unbound(c)' = Unbound(c)
  BY <1>4 DEF Unbound
<1>12. Unscanned(c)' \subseteq Unscanned(c)
  <2> SUFFICES ASSUME NEW b \in Unscanned(c)' PROVE b \in Unscanned(c)
    OBVIOUS
  <2>1. /\ b \in call[c].scans /\ call[c].bound[TableOf(b)] = "lazy"
        /\ ~Whole(TableOf(b), call'[c].reads[b])
    BY <1>4 DEF Unscanned
  <2>2. b \in Aliases
    BY <1>1, <2>1, TablesRead
  <2>3. CASE b = a
    BY <2>3
  <2>4. CASE b # a
    BY <1>10, <2>1, <2>2, <2>4 DEF Unscanned
  <2> QED BY <2>3, <2>4
<1>13. ReadsInv(c)'
  <2>1. provider' = provider /\ seen' = seen
    BY <1>5 DEF OnlyCall
  <2>2. \A u \in Tables :
          /\ call'[c].bound[u] \in {"no", "builtin", "lazy"}
          /\ call'[c].bound[u] # "no" => \E b \in call'[c].scans : TableOf(b) = u
          /\ call'[c].bound[u] = "lazy" => provider'[u] = "lazy"
    BY <1>1, <1>4, <2>1 DEF ReadsInv
  <2>3. \A b \in call'[c].scans :
          /\ call'[c].bound[TableOf(b)] = "builtin" => <<TableOf(b), 0>> \in seen'[c].shown
          /\ \A n \in DOMAIN call'[c].reads[b] :
               <<TableOf(b), call'[c].reads[b][n]>> \in seen'[c].shown
    <3> SUFFICES ASSUME NEW b \in call[c].scans
                 PROVE  /\ call[c].bound[TableOf(b)] = "builtin" =>
                             <<TableOf(b), 0>> \in seen[c].shown
                        /\ \A n \in DOMAIN call'[c].reads[b] :
                             <<TableOf(b), call'[c].reads[b][n]>> \in seen[c].shown
      BY <1>4, <2>1
    <3>1. b \in Aliases
      BY <1>1, TablesRead
    <3>2. /\ call[c].bound[TableOf(b)] = "builtin" => <<TableOf(b), 0>> \in seen[c].shown
          /\ \A n \in DOMAIN call[c].reads[b] :
               <<TableOf(b), call[c].reads[b][n]>> \in seen[c].shown
      BY <1>1 DEF ReadsInv
    <3>3. CASE b = a
      <4> SUFFICES ASSUME NEW n \in 1 .. Len(old) + 1 PROVE <<t, read[n]>> \in seen[c].shown
        BY <1>8, <1>10, <3>2, <3>3 DEF t
      <4>1. CASE n = Len(old) + 1
        BY <1>8, <1>9, <4>1
      <4>2. CASE n # Len(old) + 1
        <5>1. n \in 1 .. Len(old)
          BY <1>8, <4>2
        <5> QED BY <1>8, <3>2, <3>3, <5>1 DEF t, old
      <4> QED BY <4>1, <4>2
    <3>4. CASE b # a
      BY <1>10, <3>1, <3>2, <3>4
    <3> QED BY <3>3, <3>4
  <2>4. \A b \in Aliases :
          /\ call'[c].reads[b] \in Seq(DOMAIN Catalogs)
          /\ call'[c].bound[TableOf(b)] # "lazy" => call'[c].reads[b] = <<>>
    <3> SUFFICES ASSUME NEW b \in Aliases
                 PROVE  /\ call'[c].reads[b] \in Seq(DOMAIN Catalogs)
                        /\ call[c].bound[TableOf(b)] # "lazy" => call'[c].reads[b] = <<>>
      BY <1>4
    <3>1. CASE b = a
      BY <1>6, <1>8, <1>10, <3>1 DEF t
    <3>2. CASE b # a
      BY <1>1, <1>10, <3>2 DEF ReadsInv
    <3> QED BY <3>1, <3>2
  <2>5. DOMAIN call'[c].reads["c"] \subseteq DOMAIN Catalogs[1]["pg_class"]
    <3>1. DOMAIN call[c].reads["c"] \subseteq DOMAIN Catalogs[1]["pg_class"] /\ "c" \in Aliases
      BY <1>1 DEF ReadsInv, Aliases
    <3>2. CASE a # "c"
      BY <1>10, <3>1, <3>2
    <3>3. CASE a = "c"
      <4> DEFINE all == Catalogs[1]["pg_class"]
      <4>1. t = "pg_class" /\ 1 \in DOMAIN Catalogs
        BY <3>3, CatalogsAssumption DEF t, TableOf
      <4>2. Len(all) \in Nat /\ DOMAIN all = 1 .. Len(all)
        BY <4>1, CatalogsAssumption DEF LazyTables
      <4>3. Len(old) # Len(all) /\ 1 .. Len(old) \subseteq 1 .. Len(all)
        BY <1>6, <1>8, <3>1, <3>3, <4>1, <4>2 DEF Whole, old
      <4> HIDE DEF all
      <4>4. Len(old) <= Len(all)
        <5>1. CASE Len(old) = 0
          BY <4>2, <5>1
        <5>2. CASE Len(old) # 0
          <6>1. Len(old) \in 1 .. Len(old)
            BY <1>8, <5>2
          <6> QED BY <4>2, <4>3, <6>1
        <5> QED BY <5>1, <5>2
      <4>5. 1 .. Len(old) + 1 \subseteq 1 .. Len(all)
        <5> DEFINE m == Len(old)
                   n == Len(all)
        <5>1. m \in Nat /\ n \in Nat /\ m # n /\ m <= n
          BY <1>8, <4>2, <4>3, <4>4
        <5> HIDE DEF m, n
        <5>2. m + 1 <= n
          BY <5>1
        <5>3. 1 .. m + 1 \subseteq 1 .. n
          BY <5>1, <5>2
        <5> QED BY <5>3 DEF m, n
      <4> QED BY <1>8, <1>10, <3>3, <4>2, <4>5 DEF all
    <3> QED BY <3>2, <3>3
  <2>6. /\ \/ call'[c].scans = FirstQuery(call'[c].fn)
           \/ call'[c].fn = "pg_get_indexdef"
              /\ call'[c].scans = FirstQuery(call'[c].fn) \cup {"a"}
        /\ DOMAIN call'[c].bound = Tables /\ DOMAIN call'[c].reads = Aliases
    BY <1>1, <1>4, <1>5, <1>10 DEF ReadsInv
  <2>7. "a" \in call'[c].scans =>
          Unbound(c)' \subseteq {"pg_attribute"} /\ Unscanned(c)' \subseteq {"a"}
    BY <1>1, <1>4, <1>11, <1>12 DEF ReadsInv
  <2> QED BY <2>2, <2>3, <2>4, <2>5, <2>6, <2>7 DEF ReadsInv
<1>14. Kept(c, q)
  <2>1. refused => RefusedScan(c)'
    BY <1>4, <1>6, <1>10 DEF RefusedScan, refused, t
  <2> QED BY <1>2, <1>4, <1>11, <1>13, <2>1 DEF Kept
<1> QED BY <1>4, <1>14, EffectKeepsControl

(* The second query of pg_get_indexdef reads one table more, from the start. *)
LEMMA IndexPartsKeepsControl ==
  ASSUME ControlInv, NEW c \in Calls, JoinIndexParts(c)
  PROVE  ControlInv'
<1> DEFINE found == On(Got(c), "pg_get_indexdef") \cap Keys(c)
           parsed == {o \in found : IsPlain(Got(c), o)}
           q == IF parsed = {} THEN "slot" ELSE "plan"
<1>1. /\ At(c, "scan") /\ call[c].fn = "pg_get_indexdef" /\ Unscanned(c) = {}
      /\ "a" \notin call[c].scans /\ Effect(c, "scan", q) /\ q \in {"slot", "plan"}
      /\ call'[c].scans = IF q = "slot" THEN call[c].scans ELSE call[c].scans \cup {"a"}
      /\ call'[c].bound = call[c].bound /\ call'[c].reads = call[c].reads
      /\ call'[c].failed = call[c].failed
  BY IndexPartsEffect DEF Assigned
<1> HIDE DEF q, parsed, found
<1>2. ReadsInv(c) /\ FailInv(c)
  BY DEF ControlInv, OneInv
<1>3. Phase(c) = "scan" /\ Keys(c) # {} /\ Unbound(c) = {} /\ ~call[c].failed
  BY <1>1, <1>2, QueryingFn DEF FailInv
<1>4. SameRequest(c) /\ OnlyCall(c) /\ call'[c].fn = call[c].fn
  BY <1>1 DEF Effect, SameRequest
<1>5. CASE q = "slot"
  <2>1. SameReads(c)
    BY <1>1, <1>5 DEF SameReads
  <2>2. AllRead(c)
    BY <1>1, <1>3 DEF AllRead
  <2> QED BY <1>1, <1>3, <1>5, <2>1, <2>2, ReadingNothingKeepsControl
<1>6. CASE q = "plan"
  <2>1. /\ call'[c].scans = call[c].scans \cup {"a"}
        /\ call[c].scans = FirstQuery(call[c].fn)
    BY <1>1, <1>2, <1>6 DEF ReadsInv
  <2>2. TableOf("a") = "pg_attribute" /\ "a" \in Aliases /\ "pg_attribute" \in Tables
    BY DEF TableOf, Aliases, Tables, LazyTables
  <2>3. call[c].bound["pg_attribute"] = "no" /\ call[c].reads["a"] = <<>>
    <3>1. \A b \in call[c].scans : TableOf(b) # "pg_attribute"
      BY <1>1, <2>1 DEF FirstQuery, TableOf
    <3> QED BY <1>2, <2>2, <3>1 DEF ReadsInv
  <2>4. ReadsInv(c)'
    <3>1. provider' = provider /\ seen' = seen
      BY <1>4 DEF OnlyCall
    <3>2. \A u \in Tables :
            /\ call'[c].bound[u] \in {"no", "builtin", "lazy"}
            /\ call'[c].bound[u] # "no" => \E b \in call'[c].scans : TableOf(b) = u
            /\ call'[c].bound[u] = "lazy" => provider'[u] = "lazy"
      BY <1>1, <1>2, <2>1, <3>1 DEF ReadsInv
    <3>3. \A b \in call'[c].scans :
            /\ call'[c].bound[TableOf(b)] = "builtin" => <<TableOf(b), 0>> \in seen'[c].shown
            /\ \A n \in DOMAIN call'[c].reads[b] :
                 <<TableOf(b), call'[c].reads[b][n]>> \in seen'[c].shown
      <4>1. ASSUME NEW b \in call[c].scans
            PROVE  /\ call[c].bound[TableOf(b)] = "builtin" =>
                        <<TableOf(b), 0>> \in seen[c].shown
                   /\ \A n \in DOMAIN call[c].reads[b] :
                        <<TableOf(b), call[c].reads[b][n]>> \in seen[c].shown
        BY <1>2 DEF ReadsInv
      <4>2. call[c].bound[TableOf("a")] # "builtin" /\ \A n \in DOMAIN call[c].reads["a"] : FALSE
        <5>1. DOMAIN <<>> = {}
          OBVIOUS
        <5> QED BY <2>2, <2>3, <5>1
      <4> QED BY <1>1, <2>1, <3>1, <4>1, <4>2
    <3>4. Unbound(c)' \subseteq {"pg_attribute"} /\ Unscanned(c)' \subseteq {"a"}
      <4>1. Unbound(c)' \subseteq {"pg_attribute"}
        BY <1>1, <1>3, <2>1, <2>2 DEF Unbound
      <4>2. Unscanned(c)' \subseteq {"a"}
        BY <1>1, <2>1 DEF Unscanned
      <4> QED BY <4>1, <4>2
    <3>5. /\ call'[c].fn = "pg_get_indexdef"
          /\ call'[c].scans = FirstQuery(call'[c].fn) \cup {"a"}
          /\ DOMAIN call'[c].bound = Tables /\ DOMAIN call'[c].reads = Aliases
          /\ DOMAIN call'[c].reads["c"] \subseteq DOMAIN Catalogs[1]["pg_class"]
          /\ \A b \in Aliases :
               /\ call'[c].reads[b] \in Seq(DOMAIN Catalogs)
               /\ call'[c].bound[TableOf(b)] # "lazy" => call'[c].reads[b] = <<>>
      BY <1>1, <1>2, <1>4, <2>1 DEF ReadsInv
    <3> QED BY <3>2, <3>3, <3>4, <3>5 DEF ReadsInv
  <2>5. Kept(c, q)
    BY <1>1, <1>3, <1>6, <2>4 DEF Kept
  <2> QED BY <1>1, <1>6, <2>5, EffectKeepsControl
<1> QED BY <1>1, <1>5, <1>6

(* Every step of a call keeps the invariant, action by action. *)
LEMMA StepKeepsControl ==
  ASSUME ControlInv, NEW c \in Calls, Step(c) \/ NestedQuery(c)
  PROVE  ControlInv'
<1>1. FailInv(c) /\ StackInv(c) /\ PhaseInv(c)
  BY DEF ControlInv, OneInv
<1>2. Untouched(c) => SameReads(c) /\ call'[c].failed = call[c].failed
  BY DEF Untouched, Variables, Assigned, SameReads
<1>3. CASE Poll(c) \/ NestedQuery(c) \/ EndNested(c)
  <2>1. Untouched(c) /\ Effect(c, Phase(c), Phase(c))
    BY <1>3, NestedEffect
  <2>2. /\ Phase(c) \in {"plan", "scan"} => Keys(c) # {}
        /\ Phase(c) = "scan" => Unbound(c) = {}
    BY <1>1 DEF FailInv
  <2> QED BY <1>2, <2>1, <2>2, ReadingNothingKeepsControl
<1>4. CASE GetResolver(c)
  <2>1. SameReads(c) /\ call'[c].failed = call[c].failed
    BY <1>4, GetResolverEffect DEF Variables, Assigned, SameReads
  <2>2. Keys(c) = Distinct(c)
    BY <1>4, GetResolverEffect DEF Keys, DefinitionFns
  <2>3. \/ Effect(c, "start", "rows")
        \/ Effect(c, "start", "plan") /\ Keys(c) # {}
    BY <1>4, <2>2, GetResolverEffect
  <2> QED BY <2>1, <2>3, ReadingNothingKeepsControl
<1>5. CASE ScalarValues(c) \/ RowSecurityActive(c) \/ TableRows(c)
  <2>1. Effect(c, "start", "ask") /\ SameReads(c) /\ call'[c].failed = call[c].failed
    BY <1>5, AskEachEffect DEF Variables, Assigned, SameReads
  <2> QED BY <2>1, ReadingNothingKeepsControl
<1>6. CASE FormatType(c)
  <2>1. Effect(c, "start", "rows") /\ SameReads(c) /\ call'[c].failed = call[c].failed
    BY <1>6, FormatTypeEffect DEF Variables, Assigned, SameReads
  <2> QED BY <2>1, ReadingNothingKeepsControl
<1>7. CASE Lookup(c)
  <2>1. Untouched(c) /\ (Effect(c, "start", "rows") \/ (Effect(c, "start", "plan") /\ Keys(c) # {}))
    BY <1>7, LookupEffect
  <2> QED BY <1>2, <2>1, ReadingNothingKeepsControl
<1>8. CASE Join(c)
  <2>1. Effect(c, "scan", "reply") /\ Unscanned(c) = {}
        /\ SameReads(c) /\ call'[c].failed = call[c].failed
    BY <1>8, JoinEffect DEF Variables, Assigned, SameReads
  <2>2. AllRead(c)
    BY <1>1, <2>1 DEF Effect, FailInv, AllRead
  <2> QED BY <2>1, <2>2, ReadingNothingKeepsControl
<1>9. CASE JoinAttributes(c)
  <2>1. Effect(c, "scan", "slot") /\ Unscanned(c) = {}
        /\ SameReads(c) /\ call'[c].failed = call[c].failed
    BY <1>9, AttributesEffect DEF Variables, Assigned, SameReads
  <2>2. AllRead(c)
    BY <1>1, <2>1 DEF Effect, FailInv, AllRead
  <2> QED BY <2>1, <2>2, ReadingNothingKeepsControl
<1>10. CASE GetIndexResolver(c)
  <2>1. Effect(c, "slot", "ask") /\ SameReads(c) /\ call'[c].failed = call[c].failed
    BY <1>10, IndexResolverEffect DEF Variables, Assigned, SameReads
  <2> QED BY <2>1, ReadingNothingKeepsControl
<1>11. CASE Ask(c)
  <2>1. Effect(c, "ask", "ask") /\ SameReads(c) /\ call'[c].failed = call[c].failed
    BY <1>11, AskEffect DEF Variables, Assigned, SameReads
  <2> QED BY <2>1, ReadingNothingKeepsControl
<1>12. CASE Asked(c)
  <2>1. Untouched(c) /\ (Effect(c, "ask", "rows") \/ Effect(c, "ask", "reply"))
    BY <1>12, AskedEffect
  <2> QED BY <1>2, <2>1, ReadingNothingKeepsControl
<1>13. CASE Reply(c)
  <2>1. Untouched(c) /\ Effect(c, "reply", Back(call[c].fn))
    BY <1>13, ReplyEffect
  <2>2. Back(call[c].fn) \in {"ask", "rows"}
    BY DEF Back
  <2> QED BY <1>2, <2>1, <2>2, ReadingNothingKeepsControl
<1>14. CASE Return(c)
  <2>1. Untouched(c) /\ Effect(c, "rows", "none")
    BY <1>14, ReturnEffect
  <2> QED BY <1>2, <2>1, ReadingNothingKeepsControl
<1> QED BY <1>3, <1>4, <1>5, <1>6, <1>7, <1>8, <1>9, <1>10, <1>11, <1>12, <1>13, <1>14,
           PlanKeepsControl, AskSourceKeepsControl, IndexPartsKeepsControl DEF Step

(* So does every step of the system. *)
LEMMA NextControl == ControlInv /\ [Next]_vars => ControlInv'
<1> SUFFICES ASSUME ControlInv, [Next]_vars PROVE ControlInv'
  OBVIOUS
<1>1. ASSUME NEW c \in Calls, Invoke(c) PROVE ControlInv'
  BY <1>1, InvokeKeepsControl
<1>2. ASSUME NEW c \in Calls, Step(c) \/ NestedQuery(c) PROVE ControlInv'
  BY <1>2, StepKeepsControl
<1>3. CASE Host
  BY <1>3, HostKeepsControl
<1>4. CASE UNCHANGED vars
  <2>1. HostInv'
    BY <1>4 DEF vars, ControlInv, HostInv
  <2>2. ASSUME NEW c \in Calls PROVE OneInv(c)'
    <3>1. stack' = stack /\ call' = call /\ seen' = seen /\ slot' = slot
          /\ provider' = provider /\ version' = version
      BY <1>4 DEF vars
    <3>2. OneInv(c) /\ SeenInv(c)
      BY DEF ControlInv, OneInv
    <3>3. SeenInv(c)'
      BY <3>1, <3>2, SameShown DEF SeenInv, SlotOf, Invoked, OneAtMost
    <3> QED BY <3>1, <3>2, <3>3, StillInv DEF Invoked
  <2> QED BY <2>1, <2>2 DEF ControlInv
<1> QED BY <1>1, <1>2, <1>3, <1>4 DEF Next

(* The calls keep to the paths of their functions, and read what was shown. *)
LEMMA ControlIsInvariant == Spec => []ControlInv
BY InitControl, NextControl, PTL DEF Spec

(***************************************************************************)
(* A call fails only when one of its tables was unregistered while it ran, *)
(* or when the source refused one of its scans, by an error or a repeated  *)
(* key, in a state it was in meanwhile: whatever its arguments, a query    *)
(* with nothing to look up is never made (the short-circuits of the        *)
(* fetch_* functions).                                                     *)
(***************************************************************************)
THEOREM OnlyHostsFailCalls == Spec => []FailuresAreTheHosts
<1>1. ControlInv => FailuresAreTheHosts
  <2> SUFFICES ASSUME ControlInv, NEW c \in Calls, call[c].failed, ~seen[c].missing
               PROVE  \E a \in call[c].scans :
                        /\ Refused(TableOf(a), call[c].reads[a])
                        /\ \A n \in DOMAIN call[c].reads[a] :
                             <<TableOf(a), call[c].reads[a][n]>> \in seen[c].shown
    BY DEF FailuresAreTheHosts
  <2>1. PICK a \in call[c].scans : Refused(TableOf(a), call[c].reads[a])
    BY DEF ControlInv, OneInv, FailInv, RefusedScan
  <2>2. \A n \in DOMAIN call[c].reads[a] :
          <<TableOf(a), call[c].reads[a][n]>> \in seen[c].shown
    BY DEF ControlInv, OneInv, ReadsInv
  <2> QED BY <2>1, <2>2
<1> QED BY <1>1, ControlIsInvariant, PTL

-----------------------------------------------------------------------------
(***************************************************************************)
(* What PostgreSQL would answer, function by function.                     *)
(***************************************************************************)
Told(s, a, name) == UNION {resolve(r, a, name) : r \in s}

(* One resolver tells what it resolves. *)
LEMMA OneTells ==
  ASSUME NEW s, OneAtMost(s), NEW r \in s, NEW a, NEW name
  PROVE  Told(s, a, name) = resolve(r, a, name)
<1>1. s = {r}
  BY DEF OneAtMost
<1> QED BY <1>1 DEF Told

(* Without a resolver nothing is told. *)
LEMMA NobodyTells ==
  ASSUME NEW a, NEW name
  PROVE  Told(None, a, name) = None
BY DEF Told, None

OidText(found, n) ==
  IF n \in DOMAIN found THEN {Text("catalog", found[n], "", <<>>)} ELSE None

(* The relations a call has read have numbers. *)
LEMMA GotOids ==
  ASSUME NEW c \in Calls, ReadsInv(c)
  PROVE  Oids(Got(c)["c"]) \subseteq Nat
<1> DEFINE vs == call[c].reads["c"]
<1>1. Got(c)["c"] = Served("pg_class", vs) /\ "c" \in Aliases
  BY DEF Got, Aliases, TableOf
<1>2. vs \in Seq(DOMAIN Catalogs) /\ DOMAIN vs \subseteq DOMAIN Catalogs[1]["pg_class"]
  BY <1>1 DEF ReadsInv
<1>3. \A n \in DOMAIN vs : vs[n] \in DOMAIN Catalogs
  BY <1>2
<1> HIDE DEF vs
<1>4. ASSUME NEW n \in DOMAIN vs PROVE Oids(RowsIn(vs[n], "pg_class", n)) \subseteq Nat
  <2> DEFINE v == vs[n]
  <2>1. v \in DOMAIN Catalogs /\ 1 \in DOMAIN Catalogs /\ "pg_class" \in LazyTables
    BY <1>3, CatalogsAssumption DEF LazyTables
  <2> HIDE DEF v
  <2>2. DOMAIN Catalogs[1]["pg_class"] = DOMAIN Catalogs[v]["pg_class"]
    BY <2>1, CatalogsAssumption
  <2>3. n \in DOMAIN Catalogs[v]["pg_class"]
    BY <1>2, <2>2
  <2>4. Oids(RowsIn(v, "pg_class", n)) \subseteq Nat
    BY <2>1, <2>3, CatalogsAssumption
  <2> QED BY <2>4 DEF v
<1>5. ASSUME NEW r \in Served("pg_class", vs) PROVE r.oid \in Nat
  <2>1. CASE r \in Loaded["pg_class"]
    <3>1. Oids(Loaded["pg_class"]) \subseteq Nat
      BY CatalogsAssumption
    <3> QED BY <2>1, <3>1 DEF Oids
  <2>2. CASE r \in UserRows("pg_class", vs)
    BY <1>4, <2>2 DEF UserRows, Oids
  <2> QED BY <1>5, <2>1, <2>2 DEF Served
<1> QED BY <1>1, <1>5 DEF Oids

(* The lowest OID of a name is the one fetch_oids_by_names finds. *)
LEMMA OidReference ==
  ASSUME NEW s, NEW tabs, Oids(tabs["c"]) \subseteq Nat, NEW a, a.name # "-",
         NEW keys, a.name \in keys
  PROVE  Reference("oid", s, tabs, a) = OidText(fetch_oids_by_names(tabs, keys), a.name)
<1> DEFINE of(n) == {o \in On(tabs, "oid") : Identity(tabs, "oid", o) = n}
           found == fetch_oids_by_names(tabs, keys)
           lowest == {x \in On(tabs, "oid") : Identity(tabs, "oid", x) = a.name
                       /\ \A y \in On(tabs, "oid") : Identity(tabs, "oid", y) = a.name => x <= y}
           T == of(a.name)
<1>1. Reference("oid", s, tabs, a) = {Text("catalog", o, "", <<>>) : o \in lowest}
  BY DEF Reference, DefinitionFns, RuntimeFns
<1>2. found = [n \in {m \in keys : of(m) # {}} |-> Min(of(n))]
  BY DEF fetch_oids_by_names, None
<1>3. T \subseteq Nat
  BY DEF On
<1>4. lowest = {x \in T : \A y \in T : x <= y}
  OBVIOUS
<1>5. (a.name \in DOMAIN found <=> T # {}) /\ (T # {} => found[a.name] = Min(T))
  BY <1>2
<1> HIDE DEF T, found, lowest
<1>6. CASE T = {}
  BY <1>1, <1>4, <1>5, <1>6 DEF found, None, OidText
<1>7. CASE T # {}
  <2>1. \E x \in T : \A y \in T : x <= y
    BY <1>3, <1>7, LeastOid
  <2> DEFINE m == Min(T)
  <2>2. m \in T /\ \A y \in T : m <= y
    BY <2>1 DEF Min
  <2> HIDE DEF m
  <2>3. ASSUME NEW x \in T, \A y \in T : x <= y PROVE x = m
    <3>1. x <= m /\ m <= x /\ x \in Nat /\ m \in Nat
      BY <1>3, <2>2, <2>3
    <3> QED BY <3>1
  <2>4. lowest = {Min(T)}
    BY <1>4, <2>2, <2>3 DEF m
  <2> QED BY <1>1, <1>5, <1>7, <2>4 DEF found, OidText
<1> QED BY <1>6, <1>7

(* "-" is no object. *)
LEMMA NoObjectReference ==
  ASSUME NEW s, NEW tabs, NEW a, a.name = "-"
  PROVE  Reference("oid", s, tabs, a) = {Text("catalog", 0, "", <<>>)}
BY DEF Reference, DefinitionFns, RuntimeFns

(* An index: the text of the rows, or what the resolver tells. *)
LEMMA IndexReference ==
  ASSUME NEW s, NEW tabs, NEW a
  PROVE  Reference("pg_get_indexdef", s, tabs, a) =
           IF a \notin On(tabs, "pg_get_indexdef") \/ FromRows(tabs, a) # None
           THEN FromRows(tabs, a)
           ELSE Told(s, a, Identity(tabs, "pg_get_indexdef", a))
<1> DEFINE fn == "pg_get_indexdef"
           ks == IndexParts(tabs, a).keys
           columns == ColumnNames(tabs, IndexParts(tabs, a))
           named == \A i \in DOMAIN ks : ks[i] # 0 /\ columns[ks[i]] # None
           text == Text("catalog", a, Identity(tabs, "pg_get_indexdef", a),
                        [i \in DOMAIN ks |-> CHOOSE n \in columns[ks[i]] : TRUE])
           is == a \in On(tabs, "pg_get_indexdef")
           plain == IsPlain(tabs, a)
           told == Told(s, a, Identity(tabs, "pg_get_indexdef", a))
<1>1. Reference("pg_get_indexdef", s, tabs, a) =
        IF ~is THEN None ELSE IF plain /\ named THEN {text} ELSE told
  <2>1. "pg_get_indexdef" \notin DefinitionFns /\ "pg_get_indexdef" \notin RuntimeFns
    BY DEF DefinitionFns, RuntimeFns
  <2> QED BY <2>1 DEF Reference, Told
<1>2. FromRows(tabs, a) = IF is /\ plain /\ named THEN {text} ELSE None
  BY DEF FromRows
<1>3. {text} # None
  BY DEF None
<1> HIDE DEF named, text, is, plain, told
<1>4. CASE ~is
  BY <1>1, <1>2, <1>4 DEF is
<1>5. CASE is /\ plain /\ named
  BY <1>1, <1>2, <1>3, <1>5
<1>6. CASE is /\ ~(plain /\ named)
  BY <1>1, <1>2, <1>6 DEF is, told
<1> QED BY <1>4, <1>5, <1>6
-----------------------------------------------------------------------------
(***************************************************************************)
(* The work of a call: every step keeps its rows explained.                *)
(***************************************************************************)
(* Rows that hold no reg* reference are looked up as they are. *)
LEMMA RowAfter ==
  ASSUME NEW c \in Calls, SameRequest(c), call[c].fn # "oid", NEW a
  PROVE  RowOf(c, a)' = IF a \in DOMAIN call'[c].text THEN call'[c].text[a] ELSE None
BY DEF RowOf, SameRequest

(* What is explained, in terms of the request before the step. *)
LEMMA ExplainedAfter ==
  ASSUME NEW c \in Calls, SameRequest(c), SameReads(c), NEW s,
         \A a \in Distinct(c) : a \notin call'[c].todo => RowOf(c, a)' = Expected(c, s, a),
         call'[c].todo # {} =>
           /\ call'[c].resolver = s /\ call[c].fn # "oid"
           /\ call'[c].todo \subseteq Distinct(c) \cap DOMAIN call'[c].text
           /\ \A k \in call'[c].todo : \A r \in s :
                resolve(r, k, call'[c].found[k]) = Expected(c, s, k)
  PROVE  Explained(c, s)'
<1>1. Distinct(c)' = Distinct(c) /\ call'[c].fn = call[c].fn /\ Got(c)' = Got(c)
  BY SameKeys, ReadsStay DEF SameRequest
<1>2. \A a : Expected(c, s, a)' = Expected(c, s, a)
  BY <1>1 DEF Expected
<1> QED BY <1>1, <1>2 DEF Explained

(* A function that has its rows, or waits for a resolver or a reply. *)
LEMMA SettledWork ==
  ASSUME ControlInv, NEW c \in Calls, NEW p, NEW q \in {"ask", "reply", "rows", "none"},
         Effect(c, p, q),
         ~call'[c].failed =>
           /\ call[c].fn # "format_type" => Settled(c)'
           /\ q \in {"rows", "none"} \/ (q = "reply" /\ call[c].fn \notin DefinitionFns)
                => call'[c].todo = {}
  PROVE  WorkInv(c)'
<1>1. Invoked(c)' /\ Phase(c)' = q /\ call'[c].fn = call[c].fn
  BY DEF Effect, OnlyCall, SameRequest, ControlInv, OneInv, SeenInv, Invoked
<1> QED BY <1>1 DEF WorkInv

(* A resolver the call has seen explains its rows. *)
LEMMA SeenSettles ==
  ASSUME NEW c \in Calls, OnlyCall(c), NEW s \in seen[c].slots, Explained(c, s)'
  PROVE  Settled(c)'
<1>1. seen' = seen
  BY DEF OnlyCall
<1> QED BY <1>1 DEF Settled

(* Rows stay explained while the function's variables stay as they are. *)
LEMMA UntouchedExplained ==
  ASSUME NEW c \in Calls, SameRequest(c), Untouched(c), NEW s, Explained(c, s)
  PROVE  Explained(c, s)'
<1>1. /\ call'[c].resolver = call[c].resolver /\ call'[c].found = call[c].found
      /\ call'[c].todo = call[c].todo /\ call'[c].text = call[c].text
      /\ call'[c].fn = call[c].fn /\ SameReads(c)
  BY DEF Untouched, Variables, Assigned, SameRequest, SameReads
<1>2. \A a : RowOf(c, a)' = RowOf(c, a)
  BY <1>1 DEF RowOf
<1>3. \A a \in Distinct(c) : a \notin call'[c].todo => RowOf(c, a)' = Expected(c, s, a)
  BY <1>1, <1>2 DEF Explained
<1>4. call'[c].todo # {} =>
        /\ call'[c].resolver = s /\ call[c].fn # "oid"
        /\ call'[c].todo \subseteq Distinct(c) \cap DOMAIN call'[c].text
        /\ \A k \in call'[c].todo : \A r \in s :
             resolve(r, k, call'[c].found[k]) = Expected(c, s, k)
  BY <1>1 DEF Explained
<1> QED BY <1>1, <1>3, <1>4, ExplainedAfter

(* What has explained the rows still does. *)
LEMMA UntouchedSettled ==
  ASSUME NEW c \in Calls, SameRequest(c), Untouched(c), Witnessed(c), Settled(c)
  PROVE  Settled(c)'
<1>1. PICK s \in seen[c].slots : Explained(c, s)
  BY DEF Settled
<1>2. Explained(c, s)'
  BY <1>1, UntouchedExplained
<1>3. s \in seen'[c].slots
  BY DEF Witnessed
<1> QED BY <1>2, <1>3 DEF Settled

(* A step of the host or of another call. *)
LEMMA UntouchedWork ==
  ASSUME NEW c \in Calls, WorkInv(c), SameRequest(c), Untouched(c), Witnessed(c),
         Phase(c)' = Phase(c)
  PROVE  WorkInv(c)'
<1>1. /\ call'[c].resolver = call[c].resolver /\ call'[c].found = call[c].found
      /\ call'[c].todo = call[c].todo /\ call'[c].text = call[c].text
      /\ call'[c].fn = call[c].fn /\ call'[c].failed = call[c].failed
      /\ call'[c].parsed = call[c].parsed /\ call'[c].scans = call[c].scans
  BY DEF Untouched, Variables, Assigned, SameRequest
<1>2. Distinct(c)' = Distinct(c) /\ (Invoked(c)' <=> Invoked(c)) /\ Got(c)' = Got(c)
  <2>1. SameReads(c)
    BY DEF Untouched, Variables, Assigned, SameReads
  <2> QED BY <2>1, SameKeys, ReadsStay DEF Witnessed
<1>3. FoundIn(c, Got(c))' <=> FoundIn(c, Got(c))
  BY <1>1, <1>2 DEF FoundIn
<1>4. RenderedFrom(c, Got(c))' <=> RenderedFrom(c, Got(c))
  BY <1>1, <1>2, <1>3 DEF RenderedFrom
<1>5. Settled(c) => Settled(c)'
  BY UntouchedSettled
<1>6. call[c].resolver \in seen[c].slots => call'[c].resolver \in seen'[c].slots
  BY <1>1 DEF Witnessed
<1> QED BY <1>1, <1>2, <1>3, <1>4, <1>5, <1>6 DEF WorkInv

(* What the host has in place now is a resolver the call has seen. *)
LEMMA SeenNow ==
  ASSUME ControlInv, NEW c \in Calls, stack[c] # <<>>
  PROVE  /\ Invoked(c)
         /\ \E s \in seen[c].slots : s = SlotOf(c)
         /\ \A s \in seen[c].slots : OneAtMost(s)
BY DEF ControlInv, OneInv, SeenInv, Invoked

(* A step that leaves the variables and the place of the function alone. *)
LEMMA StayWork ==
  ASSUME NEW c \in Calls, WorkInv(c), Untouched(c), Effect(c, Phase(c), Phase(c))
  PROVE  WorkInv(c)'
<1>1. Witnessed(c)
  BY DEF Effect, OnlyCall, Witnessed, Invoked
<1> QED BY <1>1, UntouchedWork DEF Effect

(* A step that moves on with the rows it has. *)
LEMMA OnwardWork ==
  ASSUME ControlInv, NEW c \in Calls, WorkInv(c), Untouched(c),
         NEW p \in {"ask", "reply", "rows"}, NEW q \in {"ask", "reply", "rows", "none"},
         Effect(c, p, q),
         ~call[c].failed /\ (q \in {"rows", "none"} \/ (q = "reply" /\ call[c].fn \notin DefinitionFns))
           => call[c].todo = {}
  PROVE  WorkInv(c)'
<1>1. Witnessed(c) /\ SameRequest(c) /\ Phase(c) = p /\ stack[c] # <<>>
  BY DEF Effect, OnlyCall, Witnessed, Invoked
<1>2. call'[c].failed = call[c].failed /\ call'[c].todo = call[c].todo
  BY DEF Untouched, Variables, Assigned
<1>3. ~call[c].failed /\ call[c].fn # "format_type" => Settled(c)
  BY <1>1, SeenNow DEF WorkInv
<1>4. ~call[c].failed /\ call[c].fn # "format_type" => Settled(c)'
  BY <1>1, <1>3, UntouchedSettled
<1> QED BY <1>2, <1>4, SettledWork

(* With nothing left to ask, the rows are all explained. *)
LEMMA AskedWork ==
  ASSUME ControlInv, NEW c \in Calls, WorkInv(c), Asked(c)
  PROVE  WorkInv(c)'
<1>1. /\ Untouched(c) /\ call[c].todo = {}
      /\ Effect(c, "ask", "rows") \/ Effect(c, "ask", "reply")
  BY AskedEffect
<1> QED BY <1>1, OnwardWork

(* A reply hands over rows that are explained. *)
LEMMA ReplyWork ==
  ASSUME ControlInv, NEW c \in Calls, WorkInv(c), Reply(c)
  PROVE  WorkInv(c)'
<1>1. Untouched(c) /\ Effect(c, "reply", Back(call[c].fn))
  BY ReplyEffect
<1>2. CASE call[c].fn \in DefinitionFns
  <2>1. Effect(c, "reply", "ask")
    BY <1>1, <1>2 DEF Back
  <2> QED BY <1>1, <2>1, OnwardWork
<1>3. CASE call[c].fn \notin DefinitionFns
  <2>1. Effect(c, "reply", "rows")
    BY <1>1, <1>3 DEF Back
  <2>2. Invoked(c)
    BY <2>1, SeenNow DEF Effect
  <2>3. ~call[c].failed => call[c].todo = {}
    BY <1>3, <2>1, <2>2 DEF WorkInv, Effect
  <2> QED BY <1>1, <2>1, <2>3, OnwardWork
<1> QED BY <1>2, <1>3

(* The rows a call ends with are explained. *)
LEMMA ReturnWork ==
  ASSUME ControlInv, NEW c \in Calls, WorkInv(c), Return(c)
  PROVE  WorkInv(c)'
<1>1. Untouched(c) /\ Effect(c, "rows", "none")
  BY ReturnEffect
<1>2. Invoked(c)
  BY <1>1, SeenNow DEF Effect
<1>3. ~call[c].failed => call[c].todo = {}
  BY <1>1, <1>2 DEF WorkInv, Effect
<1> QED BY <1>1, <1>3, OnwardWork

(* What PostgreSQL would answer for the two families that ask a resolver   *)
(* for every row.                                                          *)
ToldOf(fn, s, tabs, a) == IF a \in On(tabs, fn) THEN Told(s, a, Identity(tabs, fn, a)) ELSE None
ToldOrDefault(fn, s, a) == IF s = None THEN Default(fn, FALSE) ELSE Told(s, a, "")

(* A definition is what the resolver tells about an object of the kind. *)
LEMMA DefinitionReference ==
  ASSUME NEW fn \in DefinitionFns, NEW s, NEW tabs, NEW a
  PROVE  Reference(fn, s, tabs, a) = ToldOf(fn, s, tabs, a)
<1>1. /\ fn \notin RuntimeFns /\ fn # "pg_get_indexdef" /\ fn # "oid"
      /\ fn # "pg_get_userbyid"
  BY DEF DefinitionFns, RuntimeFns
<1>2. Reference(fn, s, tabs, a) =
        IF a \in On(tabs, fn) THEN UNION {resolve(r, a, Identity(tabs, fn, a)) : r \in s}
        ELSE None
  BY <1>1 DEF Reference
<1> QED BY <1>2 DEF ToldOf, Told

(* A run-time value is what the resolver tells, or the default. *)
LEMMA RuntimeReference ==
  ASSUME NEW fn \in RuntimeFns, NEW s, NEW tabs, NEW a
  PROVE  Reference(fn, s, tabs, a) = ToldOrDefault(fn, s, a)
<1>1. ASSUME NEW f \in RuntimeFns PROVE f \notin DefinitionFns
  BY DEF RuntimeFns, DefinitionFns
<1>2. "pg_type_is_visible" \in RuntimeFns /\ "row_security_active" \in RuntimeFns
      /\ "pg_lock_status" \in RuntimeFns
  BY DEF RuntimeFns
<1>3. Reference("pg_type_is_visible", s, tabs, a) = ToldOrDefault("pg_type_is_visible", s, a)
  BY <1>1, <1>2 DEF Reference, Told, ToldOrDefault
<1>4. Reference("row_security_active", s, tabs, a) = ToldOrDefault("row_security_active", s, a)
  BY <1>1, <1>2 DEF Reference, Told, ToldOrDefault
<1>5. Reference("pg_lock_status", s, tabs, a) = ToldOrDefault("pg_lock_status", s, a)
  BY <1>1, <1>2 DEF Reference, Told, ToldOrDefault
<1> QED BY <1>3, <1>4, <1>5 DEF RuntimeFns

(* The function waits for its catalog query. *)
LEMMA PlanningWork ==
  ASSUME ControlInv, NEW c \in Calls, WorkInv(c), Effect(c, "start", "plan"),
         call'[c].todo = {},
         SameReads(c), call[c].fn \in DefinitionFns => call'[c].resolver \in seen[c].slots
  PROVE  WorkInv(c)'
<1>1. Phase(c)' = "plan" /\ seen' = seen /\ call'[c].fn = call[c].fn /\ stack[c] # <<>>
      /\ Phase(c) = "start"
  BY DEF Effect, OnlyCall, SameRequest
<1>2. Invoked(c)'
  BY <1>1, SeenNow DEF Invoked
<1>3. "a" \notin call'[c].scans
  BY <1>1 DEF WorkInv, SameReads
<1> QED BY <1>1, <1>2, <1>3 DEF WorkInv

(* The resolver that was read is one the call has seen; without one, or    *)
(* without an object, every row is NULL.                                   *)
LEMMA GetResolverWork ==
  ASSUME ControlInv, NEW c \in Calls, WorkInv(c), GetResolver(c)
  PROVE  WorkInv(c)'
<1>1. /\ call[c].fn \in DefinitionFns
      /\ Variables(c, slot[call[c].fn], call[c].found, call[c].parsed, call[c].todo,
                   call[c].text, call[c].failed)
      /\ \/ Effect(c, "start", "rows") /\ (slot[call[c].fn] = None \/ Distinct(c) = {})
         \/ Effect(c, "start", "plan") /\ Distinct(c) # {}
  BY GetResolverEffect
<1>2. Phase(c) = "start" /\ stack[c] # <<>> /\ SameRequest(c) /\ OnlyCall(c)
  BY <1>1 DEF Effect
<1>3. Invoked(c) /\ call[c].text = <<>> /\ call[c].todo = {}
  BY <1>2, SeenNow DEF WorkInv
<1>4. /\ call'[c].text = <<>> /\ call'[c].todo = {} /\ call'[c].failed = call[c].failed
      /\ call'[c].resolver = SlotOf(c) /\ SameReads(c)
  BY <1>1, <1>3 DEF Variables, Assigned, SlotOf, SlotShown, SlotFns, SameReads
<1>5. PICK s \in seen[c].slots : s = SlotOf(c)
  BY <1>2, SeenNow
<1>6. CASE Effect(c, "start", "rows") /\ (slot[call[c].fn] = None \/ Distinct(c) = {})
  <2>1. s = None \/ Distinct(c) = {}
    BY <1>1, <1>5, <1>6 DEF SlotOf, SlotShown, SlotFns
  <2>2. ASSUME NEW a \in Distinct(c) PROVE RowOf(c, a)' = Expected(c, s, a)
    <3>1. s = None /\ call[c].fn # "oid"
      BY <1>1, <2>1, <2>2 DEF DefinitionFns
    <3>2. RowOf(c, a)' = None
      <4>1. DOMAIN call'[c].text = {}
        BY <1>4
      <4> QED BY <1>2, <3>1, <4>1, RowAfter
    <3>3. Expected(c, s, a) = None
      <4>1. Told(s, a, Identity(Got(c), call[c].fn, a)) = None
        BY <3>1, NobodyTells
      <4>2. Expected(c, s, a) = ToldOf(call[c].fn, s, Got(c), a)
        BY <1>1, DefinitionReference DEF Expected
      <4> QED BY <4>1, <4>2 DEF ToldOf
    <3> QED BY <3>2, <3>3
  <2>3. Explained(c, s)'
    BY <1>2, <1>4, <2>2, ExplainedAfter
  <2>4. Settled(c)'
    BY <1>2, <2>3, SeenSettles
  <2> QED BY <1>4, <1>6, <2>4, SettledWork
<1>7. CASE Effect(c, "start", "plan") /\ Distinct(c) # {}
  <2>1. call'[c].resolver \in seen[c].slots
    BY <1>4, <1>5
  <2> QED BY <1>4, <1>7, <2>1, PlanningWork
<1> QED BY <1>1, <1>6, <1>7

(* Defaults without a resolver; otherwise every row is left to it. *)
LEMMA AskEachWork ==
  ASSUME ControlInv, NEW c \in Calls, WorkInv(c),
         ScalarValues(c) \/ RowSecurityActive(c) \/ TableRows(c)
  PROVE  WorkInv(c)'
<1>1. /\ call[c].fn \in RuntimeFns /\ Effect(c, "start", "ask")
      /\ Variables(c, slot[call[c].fn], [o \in Distinct(c) |-> ""], call[c].parsed,
                   IF slot[call[c].fn] = None THEN {} ELSE Distinct(c),
                   [o \in Distinct(c) |-> Default(call[c].fn, FALSE)], call[c].failed)
  BY AskEachEffect
<1>2. Phase(c) = "start" /\ stack[c] # <<>> /\ SameRequest(c) /\ OnlyCall(c)
  BY <1>1 DEF Effect
<1>3. PICK s \in seen[c].slots : s = SlotOf(c)
  BY <1>2, SeenNow
<1>4. slot[call[c].fn] = s /\ OneAtMost(s)
  BY <1>1, <1>2, <1>3, SeenNow DEF SlotOf, SlotShown, SlotFns
<1>5. /\ call'[c].resolver = s /\ call'[c].found = [o \in Distinct(c) |-> ""]
      /\ call'[c].todo = IF s = None THEN {} ELSE Distinct(c)
      /\ call'[c].text = [o \in Distinct(c) |-> Default(call[c].fn, FALSE)]
      /\ SameReads(c)
  BY <1>1, <1>4 DEF Variables, Assigned, SameReads
<1>6. call[c].fn # "oid"
  BY <1>1 DEF RuntimeFns
<1>7. \A a : Expected(c, s, a) = ToldOrDefault(call[c].fn, s, a)
  BY <1>1, RuntimeReference DEF Expected
<1>8. ASSUME NEW a \in Distinct(c), a \notin call'[c].todo
      PROVE  RowOf(c, a)' = Expected(c, s, a)
  <2>1. s = None
    BY <1>5, <1>8
  <2>2. RowOf(c, a)' = Default(call[c].fn, FALSE)
    BY <1>2, <1>5, <1>6, RowAfter
  <2> QED BY <1>7, <2>1, <2>2 DEF ToldOrDefault
<1>9. ASSUME NEW k \in call'[c].todo, NEW r \in s
      PROVE  resolve(r, k, call'[c].found[k]) = Expected(c, s, k)
  <2>1. s # None /\ k \in Distinct(c)
    BY <1>5 DEF None
  <2>2. call'[c].found[k] = ""
    BY <1>5, <2>1
  <2>3. Told(s, k, "") = resolve(r, k, "")
    BY <1>4, OneTells
  <2> QED BY <1>7, <2>1, <2>2, <2>3 DEF ToldOrDefault
<1>10. call'[c].todo \subseteq Distinct(c) \cap DOMAIN call'[c].text
  BY <1>5
<1>11. Explained(c, s)'
  <2>1. call'[c].resolver = s /\ SameReads(c)
    BY <1>5
  <2> QED BY <1>2, <1>6, <1>8, <1>9, <1>10, <2>1, ExplainedAfter
<1>12. Settled(c)'
  BY <1>2, <1>11, SeenSettles
<1> QED BY <1>1, <1>12, SettledWork

(* format_type leaves nothing to be asked. *)
LEMMA FormatTypeWork ==
  ASSUME ControlInv, NEW c \in Calls, WorkInv(c), FormatType(c)
  PROVE  WorkInv(c)'
<1>1. call[c].fn = "format_type" /\ Effect(c, "start", "rows") /\ call'[c].todo = call[c].todo
  BY FormatTypeEffect DEF Variables, Assigned
<1>2. call[c].todo = {}
  BY <1>1, SeenNow DEF WorkInv, Effect
<1> QED BY <1>1, <1>2, SettledWork

(* A name of the catalog, or the number of an object that is not in it. *)
NameOrNumber(is, a, name) ==
  {IF is THEN Text("catalog", a, name, <<>>) ELSE Text("unknown", a, "", <<>>)}

(* A role is rendered from the catalog. *)
LEMMA UserReference ==
  ASSUME NEW s, NEW tabs, NEW a
  PROVE  Reference("pg_get_userbyid", s, tabs, a) =
           NameOrNumber(a \in On(tabs, "pg_get_userbyid"), a,
                        Identity(tabs, "pg_get_userbyid", a))
<1>1. "pg_get_userbyid" \notin DefinitionFns /\ "pg_get_userbyid" \notin RuntimeFns
  BY DEF DefinitionFns, RuntimeFns
<1> QED BY <1>1 DEF Reference, NameOrNumber

(* The row of a reg* reference. *)
LEMMA OidRowAfter ==
  ASSUME NEW c \in Calls, SameRequest(c), call[c].fn = "oid", NEW a
  PROVE  /\ a.name = "-" => RowOf(c, a)' = {Text("catalog", 0, "", <<>>)}
         /\ a.name # "-" => RowOf(c, a)' =
              IF a.name \in DOMAIN call'[c].text THEN call'[c].text[a.name] ELSE None
BY DEF RowOf, SameRequest, parse_catalog_object_reference

(* Nothing to look up: there is no row with an object. *)
LEMMA LookupWork ==
  ASSUME ControlInv, NEW c \in Calls, WorkInv(c), Lookup(c)
  PROVE  WorkInv(c)'
<1>1. /\ call[c].fn \in LookupFns \cup {"pg_get_indexdef"} /\ Untouched(c)
      /\ \/ Effect(c, "start", "rows") /\ Keys(c) = {}
         \/ Effect(c, "start", "plan") /\ Keys(c) # {}
  BY LookupEffect
<1>2. Phase(c) = "start" /\ stack[c] # <<>> /\ SameRequest(c) /\ OnlyCall(c)
  BY <1>1 DEF Effect
<1>3. call[c].todo = {}
  BY <1>2, SeenNow DEF WorkInv
<1>4. call'[c].todo = {} /\ call[c].fn \notin DefinitionFns /\ SameReads(c)
  BY <1>1, <1>3 DEF Untouched, Variables, Assigned, LookupFns, DefinitionFns, SameReads
<1>5. CASE Effect(c, "start", "rows") /\ Keys(c) = {}
  <2>1. PICK s \in seen[c].slots : s = SlotOf(c)
    BY <1>2, SeenNow
  <2>2. ASSUME NEW a \in Distinct(c) PROVE RowOf(c, a)' = Expected(c, s, a)
    <3>1. call[c].fn = "oid"
      BY <1>5, <2>2 DEF Keys
    <3>2. a.name = "-"
      BY <1>5, <2>2, <3>1 DEF Keys, NamesAsked, parse_catalog_object_reference
    <3>3. RowOf(c, a)' = {Text("catalog", 0, "", <<>>)}
      BY <1>2, <3>1, <3>2, OidRowAfter
    <3>4. Reference("oid", s, Got(c), a) = {Text("catalog", 0, "", <<>>)}
      BY <3>2, NoObjectReference
    <3> QED BY <3>1, <3>3, <3>4 DEF Expected
  <2>3. Explained(c, s)'
    BY <1>2, <1>4, <2>2, ExplainedAfter
  <2>4. Settled(c)'
    BY <1>2, <2>3, SeenSettles
  <2> QED BY <1>4, <1>5, <2>4, SettledWork
<1>6. CASE Effect(c, "start", "plan") /\ Keys(c) # {}
  BY <1>4, <1>6, PlanningWork
<1> QED BY <1>1, <1>5, <1>6

(* The identities of a definition function are those of the joined rows. *)
LEMMA DefinitionsFound ==
  ASSUME NEW fn \in DefinitionFns, NEW tabs, NEW keys
  PROVE  FoundBy(tabs, fn, keys) = [o \in On(tabs, fn) \cap keys |-> Identity(tabs, fn, o)]
<1>1. FoundBy(tabs, "pg_get_viewdef", keys) = fetch_view_identities(tabs, keys)
      /\ FoundBy(tabs, "pg_get_constraintdef", keys) = fetch_constraint_identities(tabs, keys)
  BY DEF FoundBy
<1> QED BY <1>1 DEF DefinitionFns, fetch_view_identities, fetch_constraint_identities

(* A query for definitions leaves the objects it found to the resolver. *)
LEMMA DefinitionJoinWork ==
  ASSUME ControlInv, NEW c \in Calls, WorkInv(c), call[c].fn \in DefinitionFns,
         Effect(c, "scan", "reply"), ~call[c].failed,
         Variables(c, call[c].resolver, FoundBy(Got(c), call[c].fn, Keys(c)), call[c].parsed,
                   DOMAIN FoundBy(Got(c), call[c].fn, Keys(c)),
                   [k \in Keys(c) |-> TextBy(call[c].fn, FoundBy(Got(c), call[c].fn, Keys(c)), k)],
                   call[c].failed)
  PROVE  WorkInv(c)'
<1>1. Phase(c) = "scan" /\ stack[c] # <<>> /\ SameRequest(c) /\ OnlyCall(c)
  BY DEF Effect
<1>2. PICK s \in seen[c].slots : s = call[c].resolver
  BY <1>1, SeenNow DEF WorkInv
<1>3. OneAtMost(s) /\ call[c].fn # "oid"
  BY <1>1, SeenNow DEF DefinitionFns
<1> DEFINE fn == call[c].fn
           tabs == Got(c)
           found == FoundBy(tabs, fn, Keys(c))
<1>4. Keys(c) = Distinct(c)
  BY <1>3 DEF Keys
<1>5. found = [o \in On(tabs, fn) \cap Distinct(c) |-> Identity(tabs, fn, o)]
  <2> DEFINE keys == Distinct(c)
  <2>1. fn \in DefinitionFns /\ found = FoundBy(tabs, fn, keys)
    BY <1>4
  <2> HIDE DEF fn, found, keys, tabs
  <2> QED BY <2>1, DefinitionsFound DEF keys
<1>6. /\ call'[c].resolver = s /\ call'[c].found = found /\ call'[c].todo = DOMAIN found
      /\ call'[c].text = [k \in Distinct(c) |-> TextBy(fn, found, k)] /\ SameReads(c)
  BY <1>2, <1>4 DEF Variables, Assigned, SameReads
<1>7. \A k : TextBy(fn, found, k) = None
  BY DEF TextBy, DefinitionFns
<1> HIDE DEF found
<1>8. \A a : Expected(c, s, a) = ToldOf(fn, s, tabs, a)
  BY DefinitionReference DEF Expected
<1> HIDE DEF fn, tabs
<1>9. ASSUME NEW a \in Distinct(c), a \notin call'[c].todo
      PROVE  RowOf(c, a)' = Expected(c, s, a)
  <2>1. a \notin On(tabs, fn)
    BY <1>5, <1>6, <1>9
  <2>2. RowOf(c, a)' = None
    BY <1>1, <1>3, <1>6, <1>7, RowAfter
  <2> QED BY <1>8, <2>1, <2>2 DEF ToldOf
<1>10. ASSUME NEW k \in call'[c].todo, NEW r \in s
       PROVE  resolve(r, k, call'[c].found[k]) = Expected(c, s, k)
  <2>1. k \in On(tabs, fn) /\ call'[c].found[k] = Identity(tabs, fn, k)
    BY <1>5, <1>6, <1>10
  <2>2. Told(s, k, Identity(tabs, fn, k)) = resolve(r, k, Identity(tabs, fn, k))
    BY <1>3, OneTells
  <2> QED BY <1>8, <2>1, <2>2 DEF ToldOf
<1>11. call'[c].todo \subseteq Distinct(c) \cap DOMAIN call'[c].text
  BY <1>5, <1>6
<1>12. Explained(c, s)'
  BY <1>1, <1>3, <1>6, <1>9, <1>10, <1>11, ExplainedAfter
<1>13. Settled(c)'
  BY <1>1, <1>12, SeenSettles
<1> QED BY <1>13, SettledWork

LookedUp(c) ==
  /\ call'[c].todo = {} /\ SameReads(c)
  /\ call'[c].text =
       [k \in Keys(c) |-> TextBy(call[c].fn, FoundBy(Got(c), call[c].fn, Keys(c)), k)]

(* The roles and the OIDs a query found are those of the rows it read. *)
LEMMA LookupJoinWork ==
  ASSUME ControlInv, NEW c \in Calls, WorkInv(c), call[c].fn \in LookupFns,
         Effect(c, "scan", "reply"), ~call[c].failed, LookedUp(c)
  PROVE  WorkInv(c)'
<1>1. Phase(c) = "scan" /\ stack[c] # <<>> /\ SameRequest(c) /\ OnlyCall(c)
  BY DEF Effect
<1>2. PICK s \in seen[c].slots : s = SlotOf(c)
  BY <1>1, SeenNow
<1> DEFINE tabs == Got(c)
<1>3. ASSUME call[c].fn = "pg_get_userbyid", NEW a \in Distinct(c)
      PROVE  RowOf(c, a)' = Expected(c, s, a)
  <2> DEFINE found == FoundBy(tabs, "pg_get_userbyid", Distinct(c))
             fn == "pg_get_userbyid"
  <2>1. Keys(c) = Distinct(c)
    BY <1>3 DEF Keys
  <2>2. found = [o \in On(tabs, fn) \cap Distinct(c) |-> Identity(tabs, fn, o)]
    BY DEF FoundBy, fetch_users_by_oids
  <2>3. \A k : TextBy("pg_get_userbyid", found, k) =
          {IF k \in DOMAIN found THEN Text("catalog", k, found[k], <<>>)
           ELSE Text("unknown", k, "", <<>>)}
    BY DEF TextBy, DefinitionFns
  <2>4. call'[c].text = [k \in Distinct(c) |-> TextBy("pg_get_userbyid", found, k)]
    BY <1>3, <2>1 DEF LookedUp
  <2>5. Expected(c, s, a) = NameOrNumber(a \in On(tabs, fn), a, Identity(tabs, fn, a))
    BY <1>3, UserReference DEF Expected
  <2> HIDE DEF found, tabs, fn
  <2>6. RowOf(c, a)' = TextBy("pg_get_userbyid", found, a)
    <3>1. call[c].fn # "oid"
      BY <1>3
    <3> QED BY <1>1, <1>3, <2>4, <3>1, RowAfter
  <2>7. TextBy("pg_get_userbyid", found, a) =
          NameOrNumber(a \in On(tabs, fn), a, Identity(tabs, fn, a))
    BY <1>3, <2>2, <2>3 DEF NameOrNumber
  <2> QED BY <2>5, <2>6, <2>7
<1>4. ASSUME call[c].fn = "oid", NEW a \in Distinct(c)
      PROVE  RowOf(c, a)' = Expected(c, s, a)
  <2>1. CASE a.name = "-"
    <3>1. RowOf(c, a)' = {Text("catalog", 0, "", <<>>)}
      BY <1>1, <1>4, <2>1, OidRowAfter
    <3>2. Reference("oid", s, tabs, a) = {Text("catalog", 0, "", <<>>)}
      BY <2>1, NoObjectReference
    <3> QED BY <1>4, <3>1, <3>2 DEF Expected
  <2>2. CASE a.name # "-"
    <3> DEFINE found == fetch_oids_by_names(tabs, Keys(c))
    <3>1. a.name \in Keys(c)
      BY <1>4, <2>2 DEF Keys, NamesAsked, parse_catalog_object_reference
    <3>2. Reference("oid", s, tabs, a) = OidText(found, a.name)
      <4> DEFINE keys == Keys(c)
      <4>1. Oids(tabs["c"]) \subseteq Nat /\ a.name # "-" /\ a.name \in keys
        BY <2>2, <3>1, GotOids DEF ControlInv, OneInv
      <4> HIDE DEF keys, tabs
      <4>2. Reference("oid", s, tabs, a) = OidText(fetch_oids_by_names(tabs, keys), a.name)
        BY <4>1, OidReference
      <4> QED BY <4>2 DEF keys
    <3>3. FoundBy(tabs, "oid", Keys(c)) = found
      BY DEF FoundBy
    <3>4. call'[c].text = [k \in Keys(c) |-> TextBy("oid", found, k)]
      BY <1>4, <3>3 DEF LookedUp
    <3> HIDE DEF found
    <3>5. RowOf(c, a)' = TextBy("oid", found, a.name)
      BY <1>1, <1>4, <2>2, <3>1, <3>4, OidRowAfter
    <3>6. TextBy("oid", found, a.name) = OidText(found, a.name)
      BY DEF TextBy, OidText, DefinitionFns
    <3> QED BY <1>4, <3>2, <3>5, <3>6 DEF Expected
  <2> QED BY <2>1, <2>2
<1>5. \A a \in Distinct(c) : RowOf(c, a)' = Expected(c, s, a)
  BY <1>3, <1>4 DEF LookupFns
<1>6. call'[c].todo = {} /\ SameReads(c)
  BY DEF LookedUp
<1>7. Explained(c, s)'
  BY <1>1, <1>5, <1>6, ExplainedAfter
<1>8. Settled(c)'
  BY <1>1, <1>7, SeenSettles
<1> QED BY <1>6, <1>8, SettledWork

(* What a query found is explained by the rows it read. *)
LEMMA JoinWork ==
  ASSUME ControlInv, NEW c \in Calls, WorkInv(c), Join(c)
  PROVE  WorkInv(c)'
<1> DEFINE fn == call[c].fn
           found == FoundBy(Got(c), fn, Keys(c))
<1>1. /\ Effect(c, "scan", "reply") /\ fn \in DefinitionFns \cup LookupFns
      /\ Variables(c, call[c].resolver, found, call[c].parsed,
                   IF fn \in DefinitionFns THEN DOMAIN found ELSE {},
                   [k \in Keys(c) |-> TextBy(fn, found, k)], call[c].failed)
  BY JoinEffect
<1>2. ~call[c].failed
  BY <1>1 DEF Effect, ControlInv, OneInv, FailInv
<1>3. CASE fn \in DefinitionFns
  <2>1. Variables(c, call[c].resolver, found, call[c].parsed, DOMAIN found,
                  [k \in Keys(c) |-> TextBy(fn, found, k)], call[c].failed)
    BY <1>1, <1>3
  <2> QED BY <1>1, <1>2, <1>3, <2>1, DefinitionJoinWork
<1>4. CASE fn \in LookupFns
  <2>1. fn \notin DefinitionFns
    BY <1>4 DEF LookupFns, DefinitionFns
  <2>2. LookedUp(c)
    BY <1>1, <2>1 DEF Variables, Assigned, LookedUp, SameReads
  <2> QED BY <1>1, <1>2, <1>4, <2>2, LookupJoinWork
<1> QED BY <1>1, <1>3, <1>4

(* A call that failed has no rows to explain. *)
LEMMA FailedWork ==
  ASSUME ControlInv, NEW c \in Calls, NEW p, Effect(c, p, "reply"), call'[c].failed
  PROVE  WorkInv(c)'
BY SettledWork

(* A query under way: what it was made for is kept. *)
LEMMA ReadingWork ==
  ASSUME ControlInv, NEW c \in Calls, WorkInv(c), NEW p \in {"plan", "scan"},
         NEW q \in {"plan", "scan"}, Effect(c, p, q), call'[c].todo = call[c].todo,
         call'[c].resolver = call[c].resolver, call'[c].scans = call[c].scans,
         call'[c].found = call[c].found, call'[c].parsed = call[c].parsed,
         "a" \in call[c].scans /\ FoundIn(c, Got(c)) => FoundIn(c, Got(c)')
  PROVE  WorkInv(c)'
<1>1. /\ Phase(c) = p /\ Phase(c)' = q /\ seen' = seen /\ call'[c].fn = call[c].fn
      /\ stack[c] # <<>> /\ SameRequest(c)
  BY DEF Effect, OnlyCall, SameRequest
<1>2. Invoked(c) /\ Invoked(c)' /\ Distinct(c)' = Distinct(c)
  BY <1>1, SeenNow, SameKeys DEF Invoked
<1>3. ~call[c].failed
  BY <1>1 DEF ControlInv, OneInv, FailInv
<1>4. /\ call[c].todo = {}
      /\ call[c].fn \in DefinitionFns => call[c].resolver \in seen[c].slots
      /\ "a" \in call[c].scans => FoundIn(c, Got(c))
  BY <1>1, <1>2, <1>3 DEF WorkInv
<1>5. "a" \in call[c].scans => FoundIn(c, Got(c))'
  BY <1>2, <1>4 DEF FoundIn
<1> QED BY <1>1, <1>2, <1>4, <1>5 DEF WorkInv

(* Looking up a table reads none of its rows. *)
LEMMA PlanWork ==
  ASSUME ControlInv, NEW c \in Calls, WorkInv(c), Plan(c)
  PROVE  WorkInv(c)'
<1>1. CASE Effect(c, "plan", "reply") /\ Failed(c) /\ SomeMissing(call[c].fn)
  <2>1. call'[c].failed
    BY <1>1 DEF Failed, Variables, Assigned
  <2> QED BY <1>1, <2>1, FailedWork
<1>2. ASSUME NEW t \in Unbound(c),
             Assigned(c, call[c].scans, [call[c].bound EXCEPT ![t] = provider[t]],
                      call[c].reads, call[c].resolver, call[c].found, call[c].parsed,
                      call[c].todo, call[c].text, call[c].failed),
             NEW q \in {"plan", "scan"}, Effect(c, "plan", q)
      PROVE  WorkInv(c)'
  <2>1. /\ call'[c].todo = call[c].todo /\ call'[c].resolver = call[c].resolver
        /\ call'[c].scans = call[c].scans /\ call'[c].reads = call[c].reads
        /\ call'[c].found = call[c].found /\ call'[c].parsed = call[c].parsed
    BY <1>2 DEF Assigned
  <2>2. Got(c)' = Got(c)
    BY <2>1 DEF Got
  <2> QED BY <1>2, <2>1, <2>2, ReadingWork
<1> QED BY <1>1, <1>2, PlanEffect

(* The rows of the index's first query do not depend on its columns. *)
LEMMA IndexIdentities ==
  ASSUME NEW old, NEW new,
         \A a \in {"x", "i", "c", "n"} : new[a] = old[a], NEW o
  PROVE  /\ On(new, "pg_get_indexdef") = On(old, "pg_get_indexdef")
         /\ Identity(new, "pg_get_indexdef", o) = Identity(old, "pg_get_indexdef", o)
         /\ IsPlain(new, o) = IsPlain(old, o) /\ IndexParts(new, o) = IndexParts(old, o)
<1>1. new["x"] = old["x"] /\ new["i"] = old["i"] /\ new["c"] = old["c"] /\ new["n"] = old["n"]
  OBVIOUS
<1>2. \A p : InSchema(new, p) = InSchema(old, p) /\ Qualified(new, p) = Qualified(old, p)
  BY <1>1 DEF InSchema, Qualified
<1>3. On(new, "pg_get_indexdef") = On(old, "pg_get_indexdef")
  BY <1>1, <1>2 DEF On
<1>4. Identity(new, "pg_get_indexdef", o) = Identity(old, "pg_get_indexdef", o)
  BY <1>1, <1>2 DEF Identity
<1> QED BY <1>1, <1>3, <1>4 DEF IsPlain, IndexParts

(* The second query of pg_get_indexdef reads columns only. *)
LEMMA IndexesStay ==
  ASSUME NEW c \in Calls, NEW old, NEW new,
         \A a \in {"x", "i", "c", "n"} : new[a] = old[a], FoundIn(c, old)
  PROVE  FoundIn(c, new)
<1> DEFINE found == On(old, "pg_get_indexdef") \cap Distinct(c)
           plain(tabs) == {o \in found : IsPlain(tabs, o)}
<1>1. On(new, "pg_get_indexdef") \cap Distinct(c) = found
  BY IndexIdentities
<1>2. \A o : /\ Identity(new, "pg_get_indexdef", o) = Identity(old, "pg_get_indexdef", o)
             /\ IsPlain(new, o) = IsPlain(old, o) /\ IndexParts(new, o) = IndexParts(old, o)
  BY IndexIdentities
<1>3. /\ call[c].found = [o \in found |-> Identity(old, "pg_get_indexdef", o)]
      /\ call[c].parsed = [o \in plain(old) |-> IndexParts(old, o)]
  BY DEF FoundIn
<1>4. plain(new) = plain(old)
  BY <1>2
<1> HIDE DEF found, plain
<1>5. /\ call[c].found = [o \in found |-> Identity(new, "pg_get_indexdef", o)]
      /\ call[c].parsed = [o \in plain(new) |-> IndexParts(new, o)]
  BY <1>2, <1>3, <1>4
<1> QED BY <1>1, <1>5 DEF FoundIn, plain

(* One more answer of the source. *)
LEMMA AskSourceWork ==
  ASSUME ControlInv, NEW c \in Calls, WorkInv(c), AskSource(c)
  PROVE  WorkInv(c)'
<1>1. PICK b \in Unscanned(c) :
        LET read == Append(call[c].reads[b], version)
            refused == Refused(TableOf(b), read)
        IN /\ Assigned(c, call[c].scans, call[c].bound, [call[c].reads EXCEPT ![b] = read],
                       call[c].resolver, call[c].found, call[c].parsed, call[c].todo,
                       call[c].text, refused)
           /\ IF refused THEN Effect(c, "scan", "reply") ELSE Effect(c, "scan", "scan")
  BY AskSourceEffect
<1> DEFINE read == Append(call[c].reads[b], version)
           refused == Refused(TableOf(b), read)
<1>2. /\ call'[c].todo = call[c].todo /\ call'[c].resolver = call[c].resolver
      /\ call'[c].scans = call[c].scans /\ call'[c].reads = [call[c].reads EXCEPT ![b] = read]
      /\ call'[c].found = call[c].found /\ call'[c].parsed = call[c].parsed
      /\ call'[c].failed = refused
  BY <1>1 DEF Assigned
<1>3. IF refused THEN Effect(c, "scan", "reply") ELSE Effect(c, "scan", "scan")
  BY <1>1
<1> HIDE DEF read, refused
<1>4. CASE refused
  BY <1>2, <1>3, <1>4, FailedWork
<1>5. CASE ~refused
  <2>1. "a" \in call[c].scans => b = "a"
    BY DEF ControlInv, OneInv, ReadsInv
  <2>2. ASSUME "a" \in call[c].scans, NEW d \in {"x", "i", "c", "n"}
        PROVE  Got(c)'[d] = Got(c)[d]
    <3>1. call'[c].reads[d] = call[c].reads[d]
      BY <1>2, <2>1, <2>2
    <3>2. d \in Aliases
      BY DEF Aliases
    <3> QED BY <3>1, <3>2 DEF Got
  <2>3. ASSUME "a" \in call[c].scans, FoundIn(c, Got(c)) PROVE FoundIn(c, Got(c)')
    BY <2>2, <2>3, IndexesStay
  <2> QED BY <1>2, <1>3, <1>5, <2>3, ReadingWork
<1> QED BY <1>4, <1>5

(* The rows an index call has read, and what its first query makes of them. *)
LEMMA IndexPartsWork ==
  ASSUME ControlInv, NEW c \in Calls, WorkInv(c), JoinIndexParts(c)
  PROVE  WorkInv(c)'
<1> DEFINE tabs == Got(c)
           found == On(tabs, "pg_get_indexdef") \cap Keys(c)
           parsed == {o \in found : IsPlain(tabs, o)}
<1>1. /\ call[c].fn = "pg_get_indexdef"
      /\ Assigned(c, IF parsed = {} THEN call[c].scans ELSE call[c].scans \cup {"a"},
           call[c].bound, call[c].reads, call[c].resolver,
           [o \in found |-> Identity(tabs, "pg_get_indexdef", o)],
           [o \in parsed |-> IndexParts(tabs, o)], call[c].todo,
           [k \in Keys(c) |-> None], call[c].failed)
      /\ IF parsed = {} THEN Effect(c, "scan", "slot") ELSE Effect(c, "scan", "plan")
  BY IndexPartsEffect
<1>2. /\ Phase(c) = "scan" /\ stack[c] # <<>> /\ SameRequest(c) /\ OnlyCall(c)
      /\ call[c].fn \notin DefinitionFns /\ Phase(c)' = IF parsed = {} THEN "slot" ELSE "plan"
  BY <1>1 DEF Effect, DefinitionFns
<1>3. Keys(c) = Distinct(c) /\ Distinct(c)' = Distinct(c) /\ call'[c].fn = call[c].fn
  BY <1>1, <1>2, SameKeys DEF Keys, SameRequest
<1>4. Invoked(c)' /\ call[c].todo = {}
  BY <1>2, SeenNow DEF WorkInv, OnlyCall, Invoked
<1>5. /\ call'[c].found = [o \in found |-> Identity(tabs, "pg_get_indexdef", o)]
      /\ call'[c].parsed = [o \in parsed |-> IndexParts(tabs, o)]
      /\ call'[c].todo = {} /\ call'[c].text = [k \in Distinct(c) |-> None]
      /\ call'[c].reads = call[c].reads
  BY <1>1, <1>3, <1>4 DEF Assigned
<1>6. Got(c)' = tabs
  BY <1>5 DEF Got
<1>7. FoundIn(c, Got(c))'
  BY <1>3, <1>5, <1>6 DEF FoundIn
<1>8. CASE parsed = {}
  <2>1. \A k \in Distinct(c) : FromRows(tabs, k) = None
    BY <1>3, <1>8 DEF FromRows
  <2>2. RenderedFrom(c, Got(c))'
    BY <1>3, <1>5, <1>6, <1>7, <2>1 DEF RenderedFrom
  <2>3. Phase(c)' = "slot"
    BY <1>2, <1>8
  <2> QED BY <1>1, <1>3, <1>4, <1>5, <2>2, <2>3 DEF WorkInv
<1>9. CASE parsed # {}
  <2>1. Phase(c)' = "plan"
    BY <1>2, <1>9
  <2> QED BY <1>2, <1>3, <1>4, <1>5, <1>7, <2>1 DEF WorkInv
<1> QED BY <1>8, <1>9

(* The second query renders what the rows say. *)
LEMMA RenderedText ==
  ASSUME NEW c \in Calls, FoundIn(c, Got(c)), Keys(c) = Distinct(c), NEW k \in Distinct(c)
  PROVE  Rendered(c)[k] = FromRows(Got(c), k)
<1> DEFINE tabs == Got(c)
           parts == IndexParts(tabs, k)
           ks == parts.keys
           columns == ColumnNames(tabs, parts)
           name == Identity(tabs, "pg_get_indexdef", k)
<1>1. Rendered(c)[k] =
        IF k \in DOMAIN call[c].parsed
        THEN render_create_index_statement(k, call[c].found[k], call[c].parsed[k].keys,
                                           ColumnNames(tabs, call[c].parsed[k]))
        ELSE None
  BY DEF Rendered
<1>2. k \in DOMAIN call[c].parsed <=> k \in On(tabs, "pg_get_indexdef") /\ IsPlain(tabs, k)
  BY DEF FoundIn
<1>3. k \in DOMAIN call[c].parsed => call[c].found[k] = name /\ call[c].parsed[k] = parts
  BY DEF FoundIn
<1>4. FromRows(tabs, k) =
        IF /\ k \in On(tabs, "pg_get_indexdef") /\ IsPlain(tabs, k)
           /\ \A i \in DOMAIN ks : ks[i] # 0 /\ columns[ks[i]] # None
        THEN {Text("catalog", k, name, [i \in DOMAIN ks |-> CHOOSE n \in columns[ks[i]] : TRUE])}
        ELSE None
  BY DEF FromRows
<1> HIDE DEF tabs, name
<1>5. CASE k \in DOMAIN call[c].parsed
  <2>1. Rendered(c)[k] = render_create_index_statement(k, name, ks, columns)
    BY <1>1, <1>3, <1>5
  <2> HIDE DEF ks, columns, parts
  <2>2. CASE \E i \in DOMAIN ks : ks[i] = 0 \/ columns[ks[i]] = None
    BY <1>4, <2>1, <2>2 DEF render_create_index_statement, tabs
  <2>3. CASE ~\E i \in DOMAIN ks : ks[i] = 0 \/ columns[ks[i]] = None
    <3>1. Rendered(c)[k] = {Text("catalog", k, name,
                              [i \in DOMAIN ks |-> CHOOSE n \in columns[ks[i]] : TRUE])}
      BY <2>1, <2>3 DEF render_create_index_statement
    <3>2. \A i \in DOMAIN ks : ks[i] # 0 /\ columns[ks[i]] # None
      BY <2>3
    <3> QED BY <1>2, <1>4, <1>5, <3>1, <3>2 DEF tabs
  <2> QED BY <2>2, <2>3
<1>6. CASE k \notin DOMAIN call[c].parsed
  BY <1>1, <1>2, <1>4, <1>6 DEF tabs
<1> QED BY <1>5, <1>6

(* The texts of the indexes are those the rows give. *)
LEMMA AttributesWork ==
  ASSUME ControlInv, NEW c \in Calls, WorkInv(c), JoinAttributes(c)
  PROVE  WorkInv(c)'
<1>1. /\ call[c].fn = "pg_get_indexdef" /\ "a" \in call[c].scans
      /\ Effect(c, "scan", "slot")
      /\ Variables(c, call[c].resolver, call[c].found, call[c].parsed, call[c].todo,
                   Rendered(c), call[c].failed)
  BY AttributesEffect
<1>2. Phase(c) = "scan" /\ Phase(c)' = "slot" /\ stack[c] # <<>> /\ SameRequest(c) /\ OnlyCall(c)
  BY <1>1 DEF Effect
<1>3. /\ call'[c].found = call[c].found /\ call'[c].parsed = call[c].parsed
      /\ call'[c].todo = call[c].todo /\ call'[c].text = Rendered(c) /\ SameReads(c)
  BY <1>1 DEF Variables, Assigned, SameReads
<1>4. Invoked(c) /\ ~call[c].failed
  BY <1>2, SeenNow DEF ControlInv, OneInv, FailInv
<1>5. FoundIn(c, Got(c)) /\ call[c].todo = {}
  BY <1>1, <1>2, <1>4 DEF WorkInv
<1>6. Keys(c) = Distinct(c) /\ Distinct(c)' = Distinct(c) /\ Got(c)' = Got(c)
      /\ call'[c].fn = call[c].fn
  BY <1>1, <1>2, <1>3, SameKeys, ReadsStay DEF Keys, SameRequest
<1>7. FoundIn(c, Got(c))'
  BY <1>3, <1>5, <1>6 DEF FoundIn
<1>8. DOMAIN Rendered(c) = Distinct(c)
  BY <1>6 DEF Rendered
<1>9. \A k \in Distinct(c) : Rendered(c)[k] = FromRows(Got(c), k)
  BY <1>5, <1>6, RenderedText
<1>10. RenderedFrom(c, Got(c))'
  BY <1>3, <1>6, <1>7, <1>8, <1>9 DEF RenderedFrom
<1>11. Invoked(c)'
  BY <1>2, <1>4 DEF OnlyCall, Invoked
<1> QED BY <1>1, <1>2, <1>3, <1>5, <1>6, <1>10, <1>11 DEF WorkInv

(* An index without a text is left to the resolver. *)
LEMMA IndexResolverWork ==
  ASSUME ControlInv, NEW c \in Calls, WorkInv(c), GetIndexResolver(c)
  PROVE  WorkInv(c)'
<1> DEFINE tabs == Got(c)
           fn == "pg_get_indexdef"
<1>1. /\ call[c].fn = "pg_get_indexdef" /\ Effect(c, "slot", "ask")
      /\ Variables(c, slot["pg_get_indexdef"], call[c].found, call[c].parsed,
           IF slot["pg_get_indexdef"] = None THEN {}
           ELSE {k \in DOMAIN call[c].found : call[c].text[k] = None},
           call[c].text, call[c].failed)
  BY IndexResolverEffect
<1>2. Phase(c) = "slot" /\ stack[c] # <<>> /\ SameRequest(c) /\ OnlyCall(c)
  BY <1>1 DEF Effect
<1>3. PICK s \in seen[c].slots : s = SlotOf(c)
  BY <1>2, SeenNow
<1>4. slot["pg_get_indexdef"] = s /\ OneAtMost(s)
  BY <1>1, <1>2, <1>3, SeenNow DEF SlotOf, SlotShown, SlotFns
<1>5. /\ call'[c].resolver = s /\ call'[c].found = call[c].found /\ call'[c].text = call[c].text
      /\ call'[c].todo = IF s = None THEN {}
                         ELSE {k \in DOMAIN call[c].found : call[c].text[k] = None}
      /\ SameReads(c)
  BY <1>1, <1>4 DEF Variables, Assigned, SameReads
<1>6. Invoked(c) /\ ~call[c].failed
  BY <1>2, SeenNow DEF ControlInv, OneInv, FailInv
<1>7. RenderedFrom(c, tabs)
  BY <1>2, <1>6 DEF WorkInv
<1>8. /\ DOMAIN call[c].found = On(tabs, fn) \cap Distinct(c)
      /\ \A k \in DOMAIN call[c].found : call[c].found[k] = Identity(tabs, fn, k)
      /\ DOMAIN call[c].text = Distinct(c)
      /\ \A k \in Distinct(c) : call[c].text[k] = FromRows(tabs, k)
  BY <1>7 DEF RenderedFrom, FoundIn
<1>9. \A a : Expected(c, s, a) = Reference("pg_get_indexdef", s, tabs, a)
  BY <1>1 DEF Expected
<1> HIDE DEF tabs
<1>10. ASSUME NEW a \in Distinct(c), a \notin call'[c].todo
       PROVE  RowOf(c, a)' = Expected(c, s, a)
  <2>1. RowOf(c, a)' = FromRows(tabs, a)
    <3>1. call[c].fn # "oid"
      BY <1>1
    <3> QED BY <1>2, <1>5, <1>8, <1>10, <3>1, RowAfter
  <2>2. CASE a \notin On(tabs, fn) \/ FromRows(tabs, a) # None
    BY <1>9, <2>1, <2>2, IndexReference
  <2>3. CASE a \in On(tabs, fn) /\ FromRows(tabs, a) = None
    <3>1. s = None
      BY <1>5, <1>8, <1>10, <2>3
    <3>2. Told(s, a, Identity(tabs, fn, a)) = None
      BY <3>1, NobodyTells
    <3> QED BY <1>9, <2>1, <2>3, <3>2, IndexReference
  <2> QED BY <2>2, <2>3
<1>11. ASSUME NEW k \in call'[c].todo, NEW r \in s
       PROVE  resolve(r, k, call'[c].found[k]) = Expected(c, s, k)
  <2>1. k \in DOMAIN call[c].found /\ call[c].text[k] = None
    BY <1>5, <1>11 DEF None
  <2>2. /\ k \in On(tabs, fn) /\ FromRows(tabs, k) = None
        /\ call'[c].found[k] = Identity(tabs, fn, k)
    BY <1>5, <1>8, <2>1
  <2>3. Told(s, k, Identity(tabs, fn, k)) = resolve(r, k, Identity(tabs, fn, k))
    BY <1>4, OneTells
  <2> QED BY <1>9, <2>2, <2>3, IndexReference
<1>12. call'[c].todo \subseteq Distinct(c) \cap DOMAIN call'[c].text
  BY <1>5, <1>8
<1>13. call[c].fn # "oid" /\ call'[c].resolver = s /\ SameReads(c)
  BY <1>1, <1>5
<1>14. Explained(c, s)'
  BY <1>2, <1>10, <1>11, <1>12, <1>13, ExplainedAfter
<1>15. Settled(c)'
  BY <1>2, <1>14, SeenSettles
<1> QED BY <1>1, <1>15, SettledWork

(* The resolver tells of one more object. *)
LEMMA AskWork ==
  ASSUME ControlInv, NEW c \in Calls, WorkInv(c), Ask(c)
  PROVE  WorkInv(c)'
<1>1. Effect(c, "ask", "ask")
  BY AskEffect
<1>2. PICK k \in call[c].todo, r \in call[c].resolver :
        Variables(c, call[c].resolver, call[c].found, call[c].parsed, call[c].todo \ {k},
                  [call[c].text EXCEPT ![k] = resolve(r, k, call[c].found[k])], call[c].failed)
  BY AskEffect
<1>3. Phase(c) = "ask" /\ stack[c] # <<>> /\ SameRequest(c) /\ OnlyCall(c)
  BY <1>1 DEF Effect
<1>4. /\ call'[c].resolver = call[c].resolver /\ call'[c].found = call[c].found
      /\ call'[c].todo = call[c].todo \ {k} /\ call'[c].failed = call[c].failed
      /\ call'[c].text = [call[c].text EXCEPT ![k] = resolve(r, k, call[c].found[k])]
      /\ SameReads(c)
  BY <1>2 DEF Variables, Assigned, SameReads
<1>5. ASSUME ~call[c].failed, call[c].fn # "format_type" PROVE Settled(c)'
  <2>1. PICK s \in seen[c].slots : Explained(c, s)
    BY <1>3, <1>5, SeenNow DEF WorkInv, Settled
  <2>2. /\ call[c].resolver = s /\ call[c].fn # "oid"
        /\ call[c].todo \subseteq Distinct(c) \cap DOMAIN call[c].text
        /\ \A x \in call[c].todo : \A y \in s :
             resolve(y, x, call[c].found[x]) = Expected(c, s, x)
        /\ \A a \in Distinct(c) : a \notin call[c].todo => RowOf(c, a) = Expected(c, s, a)
    BY <1>2, <2>1 DEF Explained
  <2>3. DOMAIN call'[c].text = DOMAIN call[c].text
    BY <1>4
  <2>4. ASSUME NEW a \in Distinct(c), a \notin call'[c].todo
        PROVE  RowOf(c, a)' = Expected(c, s, a)
    <3>1. RowOf(c, a)' = IF a \in DOMAIN call'[c].text THEN call'[c].text[a] ELSE None
      BY <1>3, <2>2, RowAfter
    <3>2. CASE a = k
      <4>1. k \in DOMAIN call[c].text
        BY <1>2, <2>2
      <4>2. call'[c].text[a] = resolve(r, k, call[c].found[k])
        BY <1>4, <3>2, <4>1
      <4>3. resolve(r, k, call[c].found[k]) = Expected(c, s, k)
        BY <1>2, <2>2
      <4> QED BY <2>3, <3>1, <3>2, <4>1, <4>2, <4>3
    <3>3. CASE a # k
      <4>1. a \notin call[c].todo
        BY <1>4, <2>4, <3>3
      <4>2. RowOf(c, a) = Expected(c, s, a)
        BY <2>2, <2>4, <4>1
      <4>3. RowOf(c, a) = IF a \in DOMAIN call[c].text THEN call[c].text[a] ELSE None
        BY <2>2 DEF RowOf
      <4>4. a \in DOMAIN call[c].text => call'[c].text[a] = call[c].text[a]
        BY <1>4, <3>3
      <4> QED BY <2>3, <3>1, <4>2, <4>3, <4>4
    <3> QED BY <3>2, <3>3
  <2>5. /\ call'[c].todo \subseteq Distinct(c) \cap DOMAIN call'[c].text
        /\ \A x \in call'[c].todo : \A y \in s :
             resolve(y, x, call'[c].found[x]) = Expected(c, s, x)
    BY <1>4, <2>2, <2>3
  <2>6. call'[c].resolver = s
    BY <1>4, <2>2
  <2>7. Explained(c, s)'
    BY <1>3, <1>4, <2>2, <2>4, <2>5, <2>6, ExplainedAfter
  <2> QED BY <1>3, <2>7, SeenSettles
<1> QED BY <1>1, <1>4, <1>5, SettledWork

-----------------------------------------------------------------------------
(* No call has done any work before the first one. *)
LEMMA InitWork == Init => \A c \in Calls : WorkInv(c)
<1> SUFFICES ASSUME Init, NEW c \in Calls PROVE WorkInv(c)
  OBVIOUS
<1>1. ~Invoked(c) /\ Phase(c) = "none"
  BY DEF Init, Invoked, Phase
<1>2. call[c].text = <<>> /\ call[c].todo = {} /\ "a" \notin call[c].scans
  <2>1. PICK i \in [Calls -> UNION {DOMAIN Requests[d] : d \in Calls}] :
          call = [d \in Calls |->
            [fn |-> Requests[d][i[d]].fn, args |-> Requests[d][i[d]].args,
             scans |-> FirstQuery(Requests[d][i[d]].fn), bound |-> [t \in Tables |-> "no"],
             reads |-> [a \in Aliases |-> <<>>],
             resolver |-> None, found |-> <<>>, parsed |-> <<>>, todo |-> {}, text |-> <<>>,
             failed |-> FALSE, nested |-> 0]]
    BY DEF Init
  <2>2. call[c].text = <<>> /\ call[c].todo = {} /\ call[c].scans = FirstQuery(call[c].fn)
    BY <2>1
  <2> QED BY <2>2 DEF FirstQuery
<1> QED BY <1>1, <1>2 DEF WorkInv

(* A call that does not move keeps its work. *)
LEMMA IdleWork ==
  ASSUME NEW d \in Calls, WorkInv(d), stack'[d] = stack[d], call'[d] = call[d], Witnessed(d)
  PROVE  WorkInv(d)'
<1>1. SameRequest(d) /\ Untouched(d)
  BY DEF SameRequest, Untouched, Variables, Assigned
<1>2. Phase(d)' = Phase(d)
  BY DEF Phase
<1> QED BY <1>1, <1>2, UntouchedWork

(* Every step of a call is a step of that call alone. *)
LEMMA StepAlone ==
  ASSUME ControlInv, NEW c \in Calls, Step(c) \/ NestedQuery(c)
  PROVE  OnlyCall(c)
<1>1. CASE Poll(c) \/ NestedQuery(c) \/ EndNested(c)
  BY <1>1, NestedEffect DEF Effect
<1>2. CASE GetResolver(c)
  BY <1>2, GetResolverEffect DEF Effect
<1>3. CASE ScalarValues(c) \/ RowSecurityActive(c) \/ TableRows(c)
  BY <1>3, AskEachEffect DEF Effect
<1>4. CASE FormatType(c)
  BY <1>4, FormatTypeEffect DEF Effect
<1>5. CASE Lookup(c)
  BY <1>5, LookupEffect DEF Effect
<1>6. CASE Plan(c)
  BY <1>6, PlanEffect DEF Effect
<1>7. CASE AskSource(c)
  BY <1>7, AskSourceEffect DEF Effect
<1>8. CASE Join(c)
  BY <1>8, JoinEffect DEF Effect
<1>9. CASE JoinIndexParts(c)
  BY <1>9, IndexPartsEffect DEF Effect
<1>10. CASE JoinAttributes(c)
  BY <1>10, AttributesEffect DEF Effect
<1>11. CASE GetIndexResolver(c)
  BY <1>11, IndexResolverEffect DEF Effect
<1>12. CASE Ask(c)
  BY <1>12, AskEffect DEF Effect
<1>13. CASE Asked(c)
  BY <1>13, AskedEffect DEF Effect
<1>14. CASE Reply(c)
  BY <1>14, ReplyEffect DEF Effect
<1>15. CASE Return(c)
  BY <1>15, ReturnEffect DEF Effect
<1> QED BY <1>1, <1>2, <1>3, <1>4, <1>5, <1>6, <1>7, <1>8, <1>9, <1>10, <1>11, <1>12, <1>13,
           <1>14, <1>15 DEF Step

(* Every step of a call keeps its rows explained. *)
LEMMA StepWork ==
  ASSUME ControlInv, NEW c \in Calls, WorkInv(c), Step(c) \/ NestedQuery(c)
  PROVE  WorkInv(c)'
<1>1. CASE Poll(c) \/ NestedQuery(c) \/ EndNested(c)
  BY <1>1, NestedEffect, StayWork
<1>2. CASE ScalarValues(c) \/ RowSecurityActive(c) \/ TableRows(c)
  BY <1>2, AskEachWork
<1> QED BY <1>1, <1>2, GetResolverWork, FormatTypeWork, LookupWork, PlanWork, AskSourceWork,
           JoinWork, IndexPartsWork, AttributesWork, IndexResolverWork, AskWork, AskedWork,
           ReplyWork, ReturnWork DEF Step

(* The inductive invariant. *)
LEMMA NextWork == IInv /\ [Next]_vars => IInv'
<1> SUFFICES ASSUME IInv, [Next]_vars PROVE IInv'
  OBVIOUS
<1>1. ControlInv /\ ControlInv' /\ \A c \in Calls : WorkInv(c)
  BY NextControl DEF IInv
<1>2. ASSUME NEW c \in Calls, Step(c) \/ NestedQuery(c) PROVE \A d \in Calls : WorkInv(d)'
  <2>1. WorkInv(c)'
    BY <1>1, <1>2, StepWork
  <2>2. OnlyCall(c)
    BY <1>1, <1>2, StepAlone
  <2>3. ASSUME NEW d \in Calls, d # c PROVE WorkInv(d)'
    <3>1. stack'[d] = stack[d] /\ call'[d] = call[d] /\ Witnessed(d)
      BY <2>2, <2>3 DEF OnlyCall, Witnessed, Invoked
    <3> QED BY <1>1, <3>1, IdleWork
  <2> QED BY <2>1, <2>3
<1>3. ASSUME NEW c \in Calls, Invoke(c) PROVE \A d \in Calls : WorkInv(d)'
  <2>1. /\ Phase(c)' = "start" /\ Invoked(c)' /\ ~Invoked(c) /\ call' = call
        /\ \A d \in Calls : d # c => stack'[d] = stack[d] /\ seen'[d] = seen[d]
    BY <1>1, <1>3, InvokeKeepsControl
  <2>2. call[c].text = <<>> /\ call[c].todo = {} /\ "a" \notin call[c].scans
    BY <1>1, <2>1 DEF WorkInv
  <2>3. WorkInv(c)'
    BY <2>1, <2>2 DEF WorkInv
  <2>4. ASSUME NEW d \in Calls, d # c PROVE WorkInv(d)'
    <3>1. stack'[d] = stack[d] /\ call'[d] = call[d] /\ Witnessed(d)
      BY <2>1, <2>4 DEF Witnessed, Invoked
    <3> QED BY <1>1, <3>1, IdleWork
  <2> QED BY <2>3, <2>4
<1>4. CASE Host
  <2>1. stack' = stack /\ call' = call
    BY <1>1, <1>4, HostStep
  <2>2. \A c \in Calls : Witnessed(c)
    BY <1>1, <1>4, HostKeepsControl
  <2>3. \A d \in Calls : WorkInv(d)'
    BY <1>1, <2>1, <2>2, IdleWork
  <2> QED BY <1>1, <2>3 DEF IInv
<1>5. CASE UNCHANGED vars
  <2>1. stack' = stack /\ call' = call /\ seen' = seen
    BY <1>5 DEF vars
  <2>2. \A c \in Calls : Witnessed(c)
    BY <2>1 DEF Witnessed, Invoked
  <2>3. \A d \in Calls : WorkInv(d)'
    BY <1>1, <2>1, <2>2, IdleWork
  <2> QED BY <1>1, <2>3 DEF IInv
<1> QED BY <1>1, <1>2, <1>3, <1>4, <1>5 DEF Next, IInv

(* The rows of the answer are those PostgreSQL would give. *)
AnsweredFrom(c, s) ==
  \A i \in DOMAIN call[c].args :
    Answer(c)[i] = (UNION {Reference(call[c].fn, s, Got(c), a) : a \in call[c].args[i]})
                   \cup (IF call[c].args[i] = None THEN Default(call[c].fn, TRUE) ELSE {})

(* What a call without an error has read was shown to it. *)
LEMMA ReadWhatWasShown ==
  ASSUME ControlInv, NEW c \in Calls, NothingRead(c) \/ AllRead(c)
  PROVE  ReadsWereShown(c)
<1>1. ReadsInv(c)
  BY DEF ControlInv, OneInv
<1>2. CASE NothingRead(c)
  BY <1>2 DEF NothingRead, ReadsWereShown
<1>3. CASE AllRead(c)
  <2>1. ASSUME NEW a \in call[c].scans
        PROVE  \/ /\ call[c].bound[TableOf(a)] = "builtin" /\ call[c].reads[a] = <<>>
                  /\ <<TableOf(a), 0>> \in seen[c].shown
               \/ /\ call[c].bound[TableOf(a)] = "lazy" /\ Whole(TableOf(a), call[c].reads[a])
                  /\ \A n \in DOMAIN call[c].reads[a] :
                       <<TableOf(a), call[c].reads[a][n]>> \in seen[c].shown
    <3>1. TableOf(a) \in Tables /\ a \in Aliases
      BY <1>1, TablesRead
    <3>2. call[c].bound[TableOf(a)] # "no"
      BY <1>3 DEF AllRead, Unbound
    <3>3. call[c].bound[TableOf(a)] \in {"builtin", "lazy"}
      BY <1>1, <3>1, <3>2 DEF ReadsInv
    <3>4. call[c].bound[TableOf(a)] = "lazy" => Whole(TableOf(a), call[c].reads[a])
      BY <1>3 DEF AllRead, Unscanned
    <3>5. call[c].bound[TableOf(a)] # "lazy" => call[c].reads[a] = <<>>
      BY <1>1, <3>1 DEF ReadsInv
    <3>6. /\ call[c].bound[TableOf(a)] = "builtin" => <<TableOf(a), 0>> \in seen[c].shown
          /\ \A n \in DOMAIN call[c].reads[a] :
               <<TableOf(a), call[c].reads[a][n]>> \in seen[c].shown
      BY <1>1 DEF ReadsInv
    <3> QED BY <3>3, <3>4, <3>5, <3>6
  <2> QED BY <2>1 DEF ReadsWereShown
<1> QED BY <1>2, <1>3

(* The invariant of a call that has returned is the answer's explanation. *)
LEMMA WorkExplainsAnswers == IInv => AnswersAreExplained
<1> SUFFICES ASSUME IInv, NEW c \in Calls, Returned(c), ~call[c].failed,
                    call[c].fn # "format_type"
             PROVE  ReadsWereShown(c) /\ \E s \in seen[c].slots : AnsweredFrom(c, s)
  BY DEF AnswersAreExplained, AnsweredFrom
<1>1. Invoked(c) /\ Phase(c) = "none" /\ WorkInv(c) /\ CallInv(c) /\ FailInv(c) /\ ControlInv
  BY DEF Returned, Running, Invoked, Phase, IInv, ControlInv, OneInv
<1>2. ReadsWereShown(c)
  BY <1>1, ReadWhatWasShown DEF FailInv
<1>3. call[c].todo = {} /\ Settled(c)
  BY <1>1 DEF WorkInv
<1>4. PICK s \in seen[c].slots : Explained(c, s)
  BY <1>3 DEF Settled
<1>5. \A a \in Distinct(c) : RowOf(c, a) = Expected(c, s, a)
  BY <1>3, <1>4 DEF Explained
<1>6. ASSUME NEW i \in DOMAIN call[c].args
      PROVE  Answer(c)[i] =
               (UNION {Reference(call[c].fn, s, Got(c), a) : a \in call[c].args[i]})
               \cup (IF call[c].args[i] = None THEN Default(call[c].fn, TRUE) ELSE {})
  <2> DEFINE row == call[c].args[i]
             ref(a) == Reference(call[c].fn, s, Got(c), a)
  <2>1. Answer(c)[i] = IF row = None THEN Default(call[c].fn, TRUE)
                       ELSE RowOf(c, CHOOSE a \in row : TRUE)
    BY <1>6 DEF Answer, RowOf
  <2>2. \A x, y \in row : x = y
    BY <1>1, <1>6 DEF CallInv
  <2>3. \A a \in row : a \in Distinct(c)
    BY <1>6 DEF Distinct, Range
  <2>4. \A a \in Distinct(c) : RowOf(c, a) = ref(a)
    BY <1>5 DEF Expected
  <2> HIDE DEF row, ref
  <2>5. Answer(c)[i] = (UNION {ref(a) : a \in row})
                       \cup (IF row = None THEN Default(call[c].fn, TRUE) ELSE {})
    <3>1. CASE row = None
      BY <2>1, <3>1 DEF None
    <3>2. CASE row # None
      <4>1. PICK a \in row : a = CHOOSE x \in row : TRUE
        BY <3>2 DEF None
      <4>2. row = {a}
        BY <2>2, <4>1
      <4>3. Answer(c)[i] = ref(a)
        BY <2>1, <2>3, <2>4, <3>2, <4>1
      <4>4. UNION {ref(x) : x \in row} = ref(a)
        BY <4>2
      <4> QED BY <3>2, <4>3, <4>4
    <3> QED BY <3>1, <3>2
  <2> QED BY <2>5 DEF row, ref
<1>7. AnsweredFrom(c, s)
  BY <1>6 DEF AnsweredFrom
<1> QED BY <1>2, <1>7

(***************************************************************************)
(* Every answer comes from one resolver that was installed during the call *)
(* and is what PostgreSQL answers over the catalog rows the call read; and *)
(* these it read whole, from a table that was in place, or part by part    *)
(* from states the source was in, while the call ran: whatever the host    *)
(* replaces between the reading of the slot, the scans and the rows, and   *)
(* in whatever order the resolver is asked (invoke_with_args of the        *)
(* functions, run_catalog_query).                                          *)
(***************************************************************************)
THEOREM AnswersAreAlwaysExplained == Spec => []AnswersAreExplained
<1>1. Init => IInv
  BY InitControl, InitWork DEF IInv
<1>2. IInv /\ [Next]_vars => IInv'
  BY NextWork
<1>3. IInv => AnswersAreExplained
  BY WorkExplainsAnswers
<1> QED BY <1>1, <1>2, <1>3, PTL DEF Spec
=============================================================================
