-------------------------- MODULE OidRegistryProofs --------------------------
(***************************************************************************)
(* Proofs about OidRegistry for every number of processes and threads,     *)
(* every set of names and every size of the OID space.                     *)
(***************************************************************************)
EXTENDS OidRegistry, TLAPS

---------------------------------------------------------------------------
(* What the allocator's arithmetic does to a registry, free of processes,  *)
(* transactions and builders.                                              *)

(* A span is one number or two. *)
LEMMA SpanType == \A k : Span(k) \in {1, 2}
BY DEF Span

(* The operators the transaction is built from stay within the type of     *)
(* a registry, as long as the allocation fits.                             *)
LEMMA EmptyRegistryType == EmptyRegistry \in Registry
BY OidRange DEF EmptyRegistry, Registry, Oid32, NoOid

(* The counter as it is read is never the absent one. *)
LEMMA NextOidType == \A reg \in Registry : NextOid(reg) \in 1 .. MaxOid
BY OidRange DEF NextOid, Registry, Oid32, NoOid

(* Bumping the counter leaves the tables alone and keeps the i32. *)
LEMMA AdvancedType ==
  ASSUME NEW reg \in Registry, NEW k \in Keys, Fits(NextOid(reg), Span(k))
  PROVE  /\ Advanced(reg, Span(k)) \in Registry
         /\ Advanced(reg, Span(k)).recorded = reg.recorded
         /\ Advanced(reg, Span(k)).next = NextOid(reg) + Span(k)
BY NextOidType, SpanType, OidRange DEF Advanced, Fits, Registry, Oid32

(* Inserting a table entry leaves the counter and other entries alone. *)
LEMMA RecordedType ==
  ASSUME NEW reg \in Registry, NEW k \in Keys, NEW n \in Oid32
  PROVE  /\ Recorded(reg, k, n) \in Registry
         /\ Recorded(reg, k, n).recorded = [reg.recorded EXCEPT ![k] = n]
         /\ Recorded(reg, k, n).next = reg.next
BY DEF Recorded, Registry

(***************************************************************************)
(* The heart of the matter, free of processes and steps: recording a new   *)
(* name at the counter and moving the counter past its span keeps every    *)
(* number below the counter, the objects disjoint and the numbers dense.   *)
(***************************************************************************)
LEMMA AllocationIsSound ==
  ASSUME NEW reg \in Registry, NEW k \in Keys, NEW new,
         Below(reg), Disjoint(reg), Dense(reg),
         reg.recorded[k] = NoOid, Fits(NextOid(reg), Span(k)),
         new = Recorded(Advanced(reg, Span(k)), k, NextOid(reg))
  PROVE  /\ new \in Registry /\ Below(new) /\ Disjoint(new) /\ Dense(new)
         /\ new.recorded = [reg.recorded EXCEPT ![k] = NextOid(reg)]
         /\ NextOid(reg) # NoOid
<1> DEFINE n == NextOid(reg)
<1>1. /\ n \in 1 .. MaxOid /\ n \in Oid32 /\ n # NoOid
      /\ Span(k) \in {1, 2} /\ n + Span(k) <= MaxOid
  BY NextOidType, SpanType, OidRange DEF Oid32, NoOid, Fits
<1>2. /\ new \in Registry
      /\ new.recorded = [reg.recorded EXCEPT ![k] = n]
      /\ new.next = n + Span(k)
  BY <1>1, AdvancedType, RecordedType
<1>3. NextOid(new) = n + Span(k)
  BY <1>1, <1>2 DEF NextOid, NoOid
<1>4. /\ new.recorded[k] = n
      /\ \A j \in Keys : j # k => new.recorded[j] = reg.recorded[j]
      /\ \A j \in Keys : reg.recorded[j] \in Oid32
  BY <1>2 DEF Registry
<1>5. Known(new) = Known(reg) \cup {k} /\ k \notin Known(reg)
  BY <1>1, <1>4 DEF Known
<1>6. \A j \in Known(reg) : /\ Oids(new, j) = Oids(reg, j)
                            /\ Oids(reg, j) \subseteq FirstUserOid .. n - 1
  <2> SUFFICES ASSUME NEW j \in Known(reg)
               PROVE  Oids(new, j) = Oids(reg, j) /\ Oids(reg, j) \subseteq FirstUserOid .. n - 1
    OBVIOUS
  <2>1. j \in Keys /\ j # k /\ reg.recorded[j] \in Int /\ Span(j) \in Int
    BY <1>4, <1>5, SpanType, OidRange DEF Known, Oid32
  <2>2. FirstUserOid <= reg.recorded[j] /\ reg.recorded[j] + Span(j) <= n
    BY DEF Below
  <2> QED BY <1>1, <1>4, <2>1, <2>2, OidRange DEF Oids
<1>7. Oids(new, k) = n .. n + Span(k) - 1
  BY <1>4 DEF Oids
<1>8. Below(new)
  <2>1. FirstUserOid <= n
    BY DEF Below
  <2>2. \A j \in Known(reg) : /\ FirstUserOid <= new.recorded[j]
                              /\ new.recorded[j] + Span(j) <= n + Span(k)
    <3> SUFFICES ASSUME NEW j \in Known(reg)
                 PROVE  /\ FirstUserOid <= new.recorded[j]
                        /\ new.recorded[j] + Span(j) <= n + Span(k)
      OBVIOUS
    <3>1. new.recorded[j] = reg.recorded[j] /\ reg.recorded[j] \in Oid32
      BY <1>4, <1>5 DEF Known
    <3>2. FirstUserOid <= reg.recorded[j] /\ reg.recorded[j] + Span(j) <= n
      BY DEF Below
    <3> QED BY <1>1, <3>1, <3>2, SpanType, OidRange DEF Oid32
  <2> QED BY <1>1, <1>3, <1>4, <1>5, <2>1, <2>2, OidRange DEF Below
<1>9. Disjoint(new)
  <2>1. \A j \in Known(reg) : Oids(new, j) \cap Oids(new, k) = {}
    BY <1>1, <1>6, <1>7, OidRange
  <2> QED BY <1>5, <1>6, <2>1 DEF Disjoint
<1>10. Dense(new)
  <2> SUFFICES ASSUME NEW i \in FirstUserOid .. MaxOid
               PROVE  i < n + Span(k) <=> \E j \in Known(new) : i \in Oids(new, j)
    BY <1>3 DEF Dense
  <2>1. i < n <=> \E j \in Known(reg) : i \in Oids(reg, j)
    BY DEF Dense
  <2>2. i \in Oids(new, k) <=> n <= i /\ i < n + Span(k)
    BY <1>1, <1>7, OidRange
  <2>3. i < n + Span(k) <=> i < n \/ (n <= i /\ i < n + Span(k))
    BY <1>1, OidRange
  <2> QED BY <1>5, <1>6, <2>1, <2>2, <2>3
<1> QED BY <1>1, <1>2, <1>8, <1>9, <1>10

---------------------------------------------------------------------------

(* A worker is the pair of its process and its thread. *)
LEMMA WorkerType ==
  \A w \in Workers : w = <<w[1], w[2]>> /\ w[1] \in Servers /\ w[2] \in Threads
BY DEF Workers

(***************************************************************************)
(* Every variable keeps its type; in particular the counter never leaves   *)
(* the width of an i32.                                                    *)
(***************************************************************************)
LEMMA TypeInvariant == IInv /\ [Next]_vars => TypeOK'
<1> SUFFICES ASSUME IInv, [Next]_vars PROVE TypeOK'
  OBVIOUS
<1> USE DEF IInv, TypeOK
<1>1. ASSUME NEW p \in Servers, Open(p) PROVE TypeOK'
  BY <1>1 DEF Open
<1>2. ASSUME NEW p \in Servers, Stop(p) PROVE TypeOK'
  BY <1>2, EmptyRegistryType, OidRange DEF Stop, EndWrite, NoOid, Oid32
<1>3. ASSUME NEW w \in Workers, NEW k \in Keys, Call(w, k) PROVE TypeOK'
  BY <1>3 DEF Call
<1>4. ASSUME NEW w \in Workers, BeginWrite(w) PROVE TypeOK'
  BY <1>4, WorkerType DEF BeginWrite
<1>5. ASSUME NEW w \in Workers, Lookup(w) PROVE TypeOK'
  <2>1. txn[w[1]].recorded[key[w]] \in Oid32
    BY <1>5, WorkerType DEF Lookup, Writing, Registry
  <2> QED BY <1>5, <2>1, WorkerType DEF Lookup
<1>6. ASSUME NEW w \in Workers, Allocate(w) PROVE TypeOK'
  <2>1. key[w] \in Keys /\ txn[w[1]] \in Registry
    BY <1>6, WorkerType DEF Allocate, Writing
  <2>2. Advanced(txn[w[1]], Span(key[w])) \in Registry
    BY <1>6, <2>1, AdvancedType DEF Allocate
  <2>3. NextOid(txn[w[1]]) \in Oid32
    BY <2>1, NextOidType, OidRange DEF Oid32
  <2> QED BY <1>6, <2>2, <2>3, WorkerType DEF Allocate
<1>7. ASSUME NEW w \in Workers, Exhausted(w) PROVE TypeOK'
  BY <1>7, WorkerType, EmptyRegistryType, OidRange
  DEF Exhausted, Abort, Leave, EndWrite, NoOid, Oid32
<1>8. ASSUME NEW w \in Workers, Insert(w) PROVE TypeOK'
  <2>1. key[w] \in Keys /\ txn[w[1]] \in Registry /\ oid[w] \in Oid32
    BY <1>8, WorkerType DEF Insert, Writing
  <2>2. Recorded(txn[w[1]], key[w], oid[w]) \in Registry
    BY <2>1, RecordedType
  <2> QED BY <1>8, <2>2, WorkerType DEF Insert
<1>9. ASSUME NEW w \in Workers, Commit(w) PROVE TypeOK'
  BY <1>9, WorkerType, EmptyRegistryType DEF Commit, EndWrite
<1>10. ASSUME NEW w \in Workers, Return(w) PROVE TypeOK'
  BY <1>10, OidRange DEF Return, Leave, Writing, NoOid, Oid32
<1>11. ASSUME NEW w \in Workers, StorageError(w) PROVE TypeOK'
  BY <1>11, WorkerType, EmptyRegistryType, OidRange
  DEF StorageError, Abort, Leave, EndWrite, NoOid, Oid32
<1>12. CASE UNCHANGED vars
  BY <1>12 DEF vars
<1> QED
  BY <1>1, <1>2, <1>3, <1>4, <1>5, <1>6, <1>7, <1>8, <1>9, <1>10, <1>11, <1>12
  DEF Next, Step

(***************************************************************************)
(* Mutual exclusion of transactions, across threads and processes.         *)
(***************************************************************************)
LEMMA OnlyOneWriter ==
  ASSUME IInv, NEW v \in Workers, NEW w \in Workers,
         pc[v] \in WritingStates, pc[w] \in WritingStates
  PROVE  v = w
<1>1. v[1] \in open /\ w[1] \in open
  BY DEF IInv, Writing, WritingStates
<1>2. v[1] = w[1]
  BY <1>1 DEF IInv, ExclusiveFile
<1>3. writer[v[1]] = v[2] /\ writer[w[1]] = w[2]
  BY DEF IInv, Writing
<1> QED BY <1>2, <1>3, WorkerType

(***************************************************************************)
(* What reaches the file when a transaction commits: all that was there,   *)
(* the caller's name with the caller's number, and still a sound registry. *)
(***************************************************************************)
LEMMA CommittedDisk ==
  ASSUME IInv, NEW w \in Workers, pc[w] = "commit"
  PROVE  /\ txn[w[1]] \in Registry
         /\ Below(txn[w[1]]) /\ Disjoint(txn[w[1]]) /\ Dense(txn[w[1]])
         /\ \A k \in Keys : disk.recorded[k] # NoOid =>
               txn[w[1]].recorded[k] = disk.recorded[k]
         /\ txn[w[1]].recorded[key[w]] = oid[w]
         /\ oid[w] # NoOid
         /\ key[w] \in Keys
<1> DEFINE reg == txn[w[1]]
<1>1. /\ disk \in Registry /\ Below(disk) /\ Disjoint(disk) /\ Dense(disk)
      /\ key[w] \in Keys
  BY DEF IInv, TypeOK, UniqueOids, NoLeakedOids, Writing
<1>2. CASE reg = disk /\ oid[w] = disk.recorded[key[w]] /\ oid[w] # NoOid
  BY <1>1, <1>2
<1>3. CASE /\ NewNumber(w)
           /\ reg = Recorded(Advanced(disk, Span(key[w])), key[w], oid[w])
  <2>1. /\ disk.recorded[key[w]] = NoOid
        /\ oid[w] = NextOid(disk)
        /\ Fits(NextOid(disk), Span(key[w]))
    BY <1>3 DEF NewNumber
  <2>2. /\ reg \in Registry /\ Below(reg) /\ Disjoint(reg) /\ Dense(reg)
        /\ reg.recorded = [disk.recorded EXCEPT ![key[w]] = oid[w]]
        /\ oid[w] # NoOid
    BY <1>1, <1>3, <2>1, AllocationIsSound
  <2>3. disk.recorded \in [Keys -> Oid32]
    BY <1>1 DEF Registry
  <2> QED BY <1>1, <2>1, <2>2, <2>3
<1> QED BY <1>2, <1>3 DEF IInv, CallState

(* Steps that touch neither the file nor the history keep what is said of  *)
(* them.                                                                   *)
LEMMA DiskAlone ==
  ASSUME IInv, UNCHANGED <<disk, answered>>
  PROVE  Below(disk)' /\ UniqueOids' /\ NoLeakedOids' /\ AnswersAreDurable'
BY DEF IInv, UniqueOids, NoLeakedOids, AnswersAreDurable, Below, Disjoint, Dense,
       Known, Oids, NextOid

(* A call that neither moves nor sees the file change keeps its state.     *)
LEMMA CallAlone ==
  ASSUME NEW v \in Workers, CallState(v), pc[v]' = pc[v], key[v]' = key[v],
         oid[v]' = oid[v], txn[v[1]]' = txn[v[1]], disk' = disk
  PROVE  CallState(v)'
BY DEF CallState, NewNumber

(* A call outside a transaction only depends on what the file already has. *)
LEMMA CallOutside ==
  ASSUME NEW v \in Workers, CallState(v), pc[v] \notin WritingStates,
         pc[v] # "idle" => key[v] \in Keys,
         pc[v]' = pc[v], key[v]' = key[v], oid[v]' = oid[v],
         \A k \in Keys : disk.recorded[k] # NoOid =>
           disk'.recorded[k] = disk.recorded[k]
  PROVE  CallState(v)'
BY DEF CallState, WritingStates

(* A registry file that was just created satisfies the invariant. *)
LEMMA InitIInv == Init => IInv
<1> SUFFICES ASSUME Init PROVE IInv
  OBVIOUS
<1>1. TypeOK
  BY EmptyRegistryType, OidRange DEF Init, TypeOK, NoOid, Oid32
<1>2. Known(disk) = {} /\ NextOid(disk) = FirstUserOid
  BY DEF Init, EmptyRegistry, Known, NextOid
<1>3. Below(disk) /\ UniqueOids /\ NoLeakedOids /\ AnswersAreDurable
  BY <1>2, OidRange
  DEF Init, Below, UniqueOids, Disjoint, NoLeakedOids, Dense, AnswersAreDurable
<1>4. ExclusiveFile /\ Writing /\ \A w \in Workers : CallState(w)
  BY WorkerType, NoThreadIsNoThread
  DEF Init, ExclusiveFile, Writing, WritingStates, CallState
<1> QED BY <1>1, <1>3, <1>4 DEF IInv

(***************************************************************************)
(* Every step preserves the inductive invariant.                           *)
(***************************************************************************)
LEMMA NextIInv == IInv /\ [Next]_vars => IInv'
<1> SUFFICES ASSUME IInv, [Next]_vars PROVE IInv'
  OBVIOUS
<1> USE NoThreadIsNoThread
<1> DEFINE Control == ExclusiveFile /\ Writing /\ \A w \in Workers : CallState(w)
<1> DEFINE Stored == Below(disk) /\ UniqueOids /\ NoLeakedOids /\ AnswersAreDurable
<1>t. TypeOK /\ TypeOK'
  BY TypeInvariant DEF IInv
<1>w. \A v, w \in Workers : pc[v] \in WritingStates /\ pc[w] \in WritingStates => v = w
  BY OnlyOneWriter
<1>1. ASSUME NEW p \in Servers, Open(p) PROVE Control' /\ Stored'
  <2>1. \A v \in Workers : pc[v] = "idle"
    BY <1>1 DEF Open, IInv, Writing
  <2> QED
    BY <1>1, <2>1, DiskAlone DEF Open, IInv, ExclusiveFile, Writing, CallState
<1>2. ASSUME NEW p \in Servers, Stop(p) PROVE Control' /\ Stored'
  <2>1. \A v \in Workers : pc'[v] = "idle"
    BY <1>2, WorkerType DEF Stop, IInv, ExclusiveFile, Writing
  <2>2. \A v \in Workers : writer'[v[1]] # v[2]
    BY <1>2, <1>t, <2>1, WorkerType
    DEF Stop, EndWrite, TypeOK, IInv, ExclusiveFile, Writing, WritingStates
  <2> QED
    BY <1>2, <2>1, <2>2, DiskAlone
    DEF Stop, IInv, ExclusiveFile, Writing, WritingStates, CallState
<1>3. ASSUME NEW w \in Workers, NEW k \in Keys, Call(w, k) PROVE Control' /\ Stored'
  <2>1. CallState(w)'
    BY <1>3, <1>t DEF Call, TypeOK, CallState
  <2>2. \A v \in Workers : v # w => CallState(v)'
    BY <1>3, <1>t, CallAlone DEF Call, TypeOK, IInv
  <2>3. ExclusiveFile' /\ Writing'
    BY <1>3, <1>t DEF Call, TypeOK, IInv, ExclusiveFile, Writing, WritingStates
  <2> QED BY <1>3, <2>1, <2>2, <2>3, DiskAlone DEF Call
<1>4. ASSUME NEW w \in Workers, BeginWrite(w) PROVE Control' /\ Stored'
  <2>1. \A v \in Workers : pc[v] \notin WritingStates
    BY <1>4, WorkerType DEF BeginWrite, IInv, ExclusiveFile, Writing, WritingStates
  <2>2. CallState(w)'
    BY <1>4, <1>t, WorkerType DEF BeginWrite, TypeOK, CallState
  <2>3. \A v \in Workers : v # w => CallState(v)'
    BY <1>4, <1>t, <2>1, CallOutside DEF BeginWrite, TypeOK, IInv, Writing
  <2>4. ExclusiveFile' /\ Writing'
    BY <1>4, <1>t, <2>1, WorkerType
    DEF BeginWrite, TypeOK, IInv, ExclusiveFile, Writing, WritingStates
  <2> QED BY <1>4, <2>2, <2>3, <2>4, DiskAlone DEF BeginWrite
<1>5. ASSUME NEW w \in Workers, Lookup(w) PROVE Control' /\ Stored'
  <2>1. CallState(w)'
    BY <1>5, <1>t DEF Lookup, TypeOK, IInv, CallState
  <2>2. \A v \in Workers : v # w => CallState(v)'
    BY <1>5, <1>t, CallAlone DEF Lookup, TypeOK, IInv
  <2>3. ExclusiveFile' /\ Writing'
    BY <1>5, <1>t DEF Lookup, TypeOK, IInv, ExclusiveFile, Writing, WritingStates
  <2> QED BY <1>5, <2>1, <2>2, <2>3, DiskAlone DEF Lookup
<1>6. ASSUME NEW w \in Workers, Allocate(w) PROVE Control' /\ Stored'
  <2>1. CallState(w)'
    BY <1>6, <1>t, WorkerType DEF Allocate, TypeOK, IInv, CallState, NewNumber
  <2>2. \A v \in Workers : v # w => CallState(v)'
    BY <1>6, <1>t, <1>w, CallOutside
    DEF Allocate, TypeOK, IInv, Writing, WritingStates
  <2>3. ExclusiveFile' /\ Writing'
    BY <1>6, <1>t DEF Allocate, TypeOK, IInv, ExclusiveFile, Writing, WritingStates
  <2> QED BY <1>6, <2>1, <2>2, <2>3, DiskAlone DEF Allocate
<1>7. ASSUME NEW w \in Workers, Exhausted(w) PROVE Control' /\ Stored'
  <2>1. CallState(w)'
    BY <1>7, <1>t DEF Exhausted, Abort, Leave, TypeOK, CallState
  <2>2. \A v \in Workers : v # w => CallState(v)'
    BY <1>7, <1>t, <1>w, CallOutside
    DEF Exhausted, Abort, Leave, TypeOK, IInv, Writing, WritingStates
  <2>3. ExclusiveFile' /\ Writing'
    BY <1>7, <1>t, <1>w, WorkerType
    DEF Exhausted, Abort, Leave, EndWrite, TypeOK, IInv, ExclusiveFile, Writing,
        WritingStates
  <2> QED BY <1>7, <2>1, <2>2, <2>3, DiskAlone DEF Exhausted, Abort
<1>8. ASSUME NEW w \in Workers, Insert(w) PROVE Control' /\ Stored'
  <2>1. CallState(w)'
    BY <1>8, <1>t, WorkerType DEF Insert, TypeOK, IInv, CallState, NewNumber
  <2>2. \A v \in Workers : v # w => CallState(v)'
    BY <1>8, <1>t, <1>w, CallOutside
    DEF Insert, TypeOK, IInv, Writing, WritingStates
  <2>3. ExclusiveFile' /\ Writing'
    BY <1>8, <1>t DEF Insert, TypeOK, IInv, ExclusiveFile, Writing, WritingStates
  <2> QED BY <1>8, <2>1, <2>2, <2>3, DiskAlone DEF Insert
<1>9. ASSUME NEW w \in Workers, pc[w] = "commit", disk' = txn[w[1]],
             EndWrite(w[1]), UNCHANGED <<open, answered>>,
             \A v \in Workers : v # w =>
               pc'[v] = pc[v] /\ key'[v] = key[v] /\ oid'[v] = oid[v],
             \/ pc'[w] = "idle"
             \/ pc'[w] = "return" /\ key'[w] = key[w] /\ oid'[w] = oid[w]
      PROVE  Control' /\ Stored'
  <2>1. /\ Below(disk') /\ Disjoint(disk') /\ Dense(disk')
        /\ \A k \in Keys : disk.recorded[k] # NoOid =>
              disk'.recorded[k] = disk.recorded[k]
        /\ disk'.recorded[key[w]] = oid[w] /\ oid[w] # NoOid /\ key[w] \in Keys
    BY <1>9, CommittedDisk
  <2>2. CallState(w)'
    BY <1>9, <2>1 DEF CallState
  <2>3. \A v \in Workers : v # w => CallState(v)'
    BY <1>9, <1>w, <2>1, CallOutside DEF IInv, Writing, WritingStates
  <2>4. ExclusiveFile' /\ Writing'
    BY <1>9, <1>t, <1>w, WorkerType
    DEF EndWrite, TypeOK, IInv, ExclusiveFile, Writing, WritingStates
  <2>5. \A a \in answered : a[1] \in Keys /\ disk.recorded[a[1]] = a[2] /\ a[2] # NoOid
    BY <1>t DEF IInv, TypeOK, AnswersAreDurable
  <2>6. AnswersAreDurable'
    BY <1>9, <2>1, <2>5 DEF AnswersAreDurable
  <2>7. Below(disk)' /\ UniqueOids' /\ NoLeakedOids'
    BY <2>1 DEF Below, UniqueOids, Disjoint, NoLeakedOids, Dense, Known, Oids, NextOid
  <2> QED BY <2>2, <2>3, <2>4, <2>6, <2>7
<1>10. ASSUME NEW w \in Workers, Return(w) PROVE Control' /\ Stored'
  <2>1. CallState(w)'
    BY <1>10, <1>t DEF Return, Leave, TypeOK, CallState
  <2>2. \A v \in Workers : v # w => CallState(v)'
    BY <1>10, <1>t, CallAlone DEF Return, Leave, TypeOK, IInv
  <2>3. ExclusiveFile' /\ Writing'
    BY <1>10, <1>t DEF Return, Leave, TypeOK, IInv, ExclusiveFile, Writing, WritingStates
  <2>4. Stored'
    BY <1>10, <1>t
    DEF Return, IInv, CallState, UniqueOids, NoLeakedOids, AnswersAreDurable,
        Below, Disjoint, Dense, Known, Oids, NextOid
  <2> QED BY <2>1, <2>2, <2>3, <2>4
<1>11. ASSUME NEW w \in Workers, Commit(w) PROVE Control' /\ Stored'
  BY <1>11, <1>t, <1>9 DEF Commit, TypeOK
<1>12. ASSUME NEW w \in Workers, StorageError(w) PROVE Control' /\ Stored'
  <2>1. CASE disk' = disk
    <3>1. CallState(w)'
      BY <1>12, <1>t DEF StorageError, Abort, Leave, TypeOK, CallState
    <3>2. \A v \in Workers : v # w => CallState(v)'
      <4>1. CASE pc[w] = "begin"
        BY <1>12, <2>1, <4>1, <1>t, CallAlone DEF StorageError, Abort, Leave, TypeOK, IInv
      <4>2. CASE pc[w] # "begin"
        BY <1>12, <2>1, <4>2, <1>t, <1>w, CallOutside
        DEF StorageError, Abort, Leave, TypeOK, IInv, Writing, WritingStates
      <4> QED BY <4>1, <4>2
    <3>3. ExclusiveFile' /\ Writing'
      BY <1>12, <1>t, <1>w, WorkerType
      DEF StorageError, Abort, Leave, EndWrite, TypeOK, IInv, ExclusiveFile, Writing,
          WritingStates
    <3> QED BY <1>12, <2>1, <3>1, <3>2, <3>3, DiskAlone DEF StorageError, Abort
  <2>2. CASE pc[w] = "commit" /\ disk' = txn[w[1]]
    BY <1>12, <2>2, <1>t, <1>9 DEF StorageError, Abort, Leave, TypeOK
  <2> QED BY <1>12, <2>1, <2>2 DEF StorageError
<1>13. ASSUME UNCHANGED vars PROVE Control' /\ Stored'
  <2>1. \A v \in Workers : CallState(v)'
    BY <1>13, CallAlone DEF vars, IInv
  <2>2. ExclusiveFile' /\ Writing'
    BY <1>13 DEF vars, IInv, ExclusiveFile, Writing
  <2> QED
    BY <1>13, <2>1, <2>2, DiskAlone DEF vars
<1>14. Control' /\ Stored'
  <2> HIDE DEF Control, Stored
  <2> QED
    BY <1>1, <1>2, <1>3, <1>4, <1>5, <1>6, <1>7, <1>8, <1>10, <1>11, <1>12, <1>13
    DEF Next, Step
<1> QED BY <1>t, <1>14 DEF IInv

(***************************************************************************)
(* The inductive invariant holds of every reachable state.                 *)
(***************************************************************************)
THEOREM Invariance == Spec => []IInv
BY InitIInv, NextIInv, PTL DEF Spec

(***************************************************************************)
(* Type correctness: in particular no counter and no OID ever leaves the   *)
(* width of an i32, whatever the number of allocations.                    *)
(***************************************************************************)
THEOREM TypeCorrectness == Spec => []TypeOK
<1>1. IInv => TypeOK
  BY DEF IInv
<1> QED BY <1>1, Invariance, PTL

(***************************************************************************)
(* A registry never reuses a number: with any number of processes and      *)
(* threads, storage errors and kills, no two objects in the file share a   *)
(* catalog OID.                                                            *)
(***************************************************************************)
THEOREM OidsAreUnique == Spec => []UniqueOids
<1>1. IInv => UniqueOids
  BY DEF IInv
<1> QED BY <1>1, Invariance, PTL

(***************************************************************************)
(* An allocation that returned survives crashes: every answer ever given   *)
(* is what the file says.                                                  *)
(***************************************************************************)
THEOREM AnswersSurvive == Spec => []AnswersAreDurable
<1>1. IInv => AnswersAreDurable
  BY DEF IInv
<1> QED BY <1>1, Invariance, PTL

(***************************************************************************)
(* Counter and tables are one atomic unit: no failed or killed call leaks  *)
(* a number.                                                               *)
(***************************************************************************)
THEOREM NothingLeaks == Spec => []NoLeakedOids
<1>1. IInv => NoLeakedOids
  BY DEF IInv
<1> QED BY <1>1, Invariance, PTL

(***************************************************************************)
(* The exhaustion check covers the whole span: an object's last number is  *)
(* below i32::MAX and its first is a user OID.                             *)
(***************************************************************************)
THEOREM OidsStayInRange == Spec => []OidsInRange
<1>1. IInv => OidsInRange
  <2> SUFFICES ASSUME IInv, NEW k \in Known(disk)
               PROVE  Oids(disk, k) \subseteq FirstUserOid .. MaxOid - 1
    BY DEF OidsInRange
  <2>1. /\ disk.recorded[k] \in Int /\ Span(k) \in Int
        /\ NextOid(disk) \in Int /\ NextOid(disk) <= MaxOid
    BY SpanType, NextOidType, OidRange DEF IInv, TypeOK, Registry, Oid32, Known
  <2>2. FirstUserOid <= disk.recorded[k] /\ disk.recorded[k] + Span(k) <= NextOid(disk)
    BY DEF IInv, Below
  <2> QED BY <2>1, <2>2, OidRange DEF Oids
<1> QED BY <1>1, Invariance, PTL

-----------------------------------------------------------------------------
(* The instance's copies of the allocator's operators are the module's own.*)
LEMMA SameOperators ==
  /\ Allocation!Keys = Keys
  /\ Allocation!NoOid = NoOid
  /\ \A k : Allocation!Span(k) = Span(k)
<1>1. /\ Allocation!DatabaseKeys = DatabaseKeys
      /\ Allocation!SchemaKeys = SchemaKeys
      /\ Allocation!RelationKeys = RelationKeys
  BY DEF Allocation!DatabaseKeys, Allocation!SchemaKeys, Allocation!RelationKeys,
         DatabaseKeys, SchemaKeys, RelationKeys
<1> QED
  BY <1>1 DEF Allocation!Keys, Keys, Allocation!NoOid, NoOid, Allocation!Span, Span

(* Refinement: initial states map to initial states. *)
LEMMA InitMaps == Init => Allocation!InitAllocation
BY SameOperators DEF Init, EmptyRegistry, Allocation!InitAllocation

(***************************************************************************)
(* Refinement: what a commit does to the file is to assign the caller's    *)
(* new number, or nothing.                                                 *)
(***************************************************************************)
LEMMA CommitMaps ==
  ASSUME IInv, NEW w \in Workers, pc[w] = "commit", disk' = txn[w[1]],
         UNCHANGED answered
  PROVE  \/ UNCHANGED Allocation!abstractVars
         \/ Allocation!NextAllocation
<1>1. /\ disk \in Registry /\ Below(disk) /\ Disjoint(disk) /\ Dense(disk)
      /\ key[w] \in Keys
  BY DEF IInv, TypeOK, UniqueOids, NoLeakedOids, Writing
<1>2. CASE txn[w[1]] = disk
  BY <1>2 DEF Allocation!abstractVars
<1>3. CASE /\ NewNumber(w)
           /\ txn[w[1]] = Recorded(Advanced(disk, Span(key[w])), key[w], oid[w])
  <2> DEFINE k == key[w]
             n == oid[w]
             new == txn[w[1]]
  <2>1. disk.recorded[k] = NoOid /\ n = NextOid(disk) /\ Fits(NextOid(disk), Span(k))
    BY <1>3 DEF NewNumber
  <2>2. /\ Below(new) /\ Disjoint(new) /\ n # NoOid
        /\ new.recorded = [disk.recorded EXCEPT ![k] = n]
    BY <1>1, <1>3, <2>1, AllocationIsSound
  <2>3. n \in FirstUserOid .. MaxOid /\ n + Span(k) <= MaxOid
    BY <1>1, <2>1 DEF Below, Fits
  <2>4. Allocation!Numbers(k, n) = n .. n + Span(k) - 1
    BY SameOperators DEF Allocation!Numbers
  <2>5. Allocation!Numbers(k, n) \subseteq FirstUserOid .. MaxOid - 1
    BY <2>3, <2>4, SpanType, OidRange
  <2>6. ASSUME NEW j \in Keys, disk.recorded[j] # NoOid
        PROVE  Allocation!Numbers(j, disk.recorded[j]) \cap Allocation!Numbers(k, n) = {}
    <3>1. disk.recorded[j] \in Int /\ disk.recorded[j] + Span(j) <= n
      BY <1>1, <2>1, <2>6, OidRange DEF Below, Known, Registry, Oid32
    <3>2. Allocation!Numbers(j, disk.recorded[j])
            = disk.recorded[j] .. disk.recorded[j] + Span(j) - 1
      BY SameOperators DEF Allocation!Numbers
    <3> QED BY <2>3, <2>4, <3>1, <3>2, SpanType, OidRange
  <2>7. Allocation!Assign(k, n)
    BY <1>1, <2>1, <2>2, <2>5, <2>6, SameOperators DEF Allocation!Assign
  <2> QED BY <1>1, <2>3, <2>7, SameOperators DEF Allocation!NextAllocation
<1> QED BY <1>2, <1>3 DEF IInv, CallState

(***************************************************************************)
(* Refinement: every step maps to a step of the promise or changes nothing *)
(* it speaks of.                                                           *)
(***************************************************************************)
LEMMA NextMaps ==
  IInv /\ [Next]_vars => [Allocation!NextAllocation]_(Allocation!abstractVars)
<1> SUFFICES ASSUME IInv, [Next]_vars
             PROVE  \/ UNCHANGED Allocation!abstractVars
                    \/ Allocation!NextAllocation
  OBVIOUS
<1>1. ASSUME UNCHANGED <<disk, answered>>
      PROVE  UNCHANGED Allocation!abstractVars
  BY <1>1 DEF Allocation!abstractVars
<1>2. ASSUME NEW w \in Workers, Return(w) PROVE Allocation!NextAllocation
  <2>1. /\ key[w] \in Keys /\ disk.recorded[key[w]] # NoOid
        /\ oid[w] = disk.recorded[key[w]]
    BY <1>2 DEF Return, IInv, Writing, CallState
  <2>2. Allocation!Answer(key[w])
    BY <1>2, <2>1, SameOperators DEF Return, Allocation!Answer
  <2> QED BY <2>1, <2>2, SameOperators DEF Allocation!NextAllocation
<1>3. ASSUME NEW w \in Workers, Commit(w)
      PROVE  UNCHANGED Allocation!abstractVars \/ Allocation!NextAllocation
  BY <1>3, CommitMaps DEF Commit
<1>4. ASSUME NEW w \in Workers, StorageError(w)
      PROVE  UNCHANGED Allocation!abstractVars \/ Allocation!NextAllocation
  BY <1>1, <1>4, CommitMaps DEF StorageError, Abort
<1>5. ASSUME NEW p \in Servers, Open(p) \/ Stop(p) PROVE UNCHANGED <<disk, answered>>
  BY <1>5 DEF Open, Stop
<1>6. ASSUME NEW w \in Workers, NEW k \in Keys, Call(w, k)
      PROVE  UNCHANGED <<disk, answered>>
  BY <1>6 DEF Call
<1>7. ASSUME NEW w \in Workers,
             BeginWrite(w) \/ Lookup(w) \/ Allocate(w) \/ Exhausted(w) \/ Insert(w)
      PROVE  UNCHANGED <<disk, answered>>
  BY <1>7 DEF BeginWrite, Lookup, Allocate, Exhausted, Abort, Insert
<1>8. ASSUME UNCHANGED vars PROVE UNCHANGED <<disk, answered>>
  BY <1>8 DEF vars
<1> QED
  BY <1>1, <1>2, <1>3, <1>4, <1>5, <1>6, <1>7, <1>8 DEF Next, Step

(***************************************************************************)
(* The redb registry implements the promise of OidAllocation: every name   *)
(* has at most one number for ever, no two objects share one, and answers  *)
(* are the numbers assigned.                                               *)
(***************************************************************************)
THEOREM Refinement == Spec => ImplementsAllocation
<1> QED
  BY InitMaps, NextMaps, Invariance, PTL
  DEF Spec, ImplementsAllocation, Allocation!SpecAllocation
=============================================================================
