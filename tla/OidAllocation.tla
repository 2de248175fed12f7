---------------------------- MODULE OidAllocation ----------------------------
(***************************************************************************)
(* What an OID registry promises, with no transactions, threads, processes *)
(* or failures: every name gets at most one number, for ever; no two       *)
(* objects share one; and an answer given to a caller is the number        *)
(* assigned.  In which order numbers are given out is not promised.        *)
(***************************************************************************)
EXTENDS OidAllocator

VARIABLES
  assigned,  \* the number of each key, NoOid when it has none yet
  answered   \* the <<key, oid>> answers that callers have been given

abstractVars == <<assigned, answered>>

Numbers(k, oid) == oid .. oid + Span(k) - 1

InitAllocation ==
  /\ assigned = [k \in Keys |-> NoOid]
  /\ answered = {}

\* A key without a number is given one that no other object uses.
Assign(k, oid) ==
  /\ assigned[k] = NoOid
  /\ Numbers(k, oid) \subseteq FirstUserOid .. MaxOid - 1
  /\ \A j \in Keys : assigned[j] # NoOid =>
        Numbers(j, assigned[j]) \cap Numbers(k, oid) = {}
  /\ assigned' = [assigned EXCEPT ![k] = oid]
  /\ UNCHANGED answered

Answer(k) ==
  /\ assigned[k] # NoOid
  /\ answered' = answered \cup {<<k, assigned[k]>>}
  /\ UNCHANGED assigned

NextAllocation ==
  \E k \in Keys : Answer(k) \/ \E oid \in FirstUserOid .. MaxOid : Assign(k, oid)

SpecAllocation == InitAllocation /\ [][NextAllocation]_abstractVars
=============================================================================
