----------------------------- MODULE OidRegistry -----------------------------
(***************************************************************************)
(* RedbCatalogOidRegistry: the OID registry kept in a redb file that       *)
(* server processes open, one at a time, and that the threads of the       *)
(* process that has it open call concurrently.                             *)
(*                                                                         *)
(* Every resolve_* call is one redb write transaction: begin_write, look   *)
(* the name up, allocate and insert when it is new, commit.  Each of these *)
(* is a step of its own, and a storage error (the `?` after it) or the     *)
(* death of the process can happen between any two.                        *)
(***************************************************************************)
EXTENDS OidAllocator, FiniteSets

CONSTANTS
  Servers,  \* processes that may open the file
  Threads,  \* threads of one process that share its registry handle
  NoThread  \* no thread holds the write transaction

ASSUME NoThreadIsNoThread == NoThread \notin Threads

Workers == Servers \X Threads

\* The argument of a worker that was never called.
NoKey == <<>>

VARIABLES
  disk,      \* the committed contents of the file
  open,      \* the processes that hold the file open
  writer,    \* writer[p]: the thread of p inside a write transaction
  txn,       \* txn[p]: the uncommitted contents p's write transaction sees
  pc,        \* where each worker's resolve_* call is
  key,       \* the name it asks for
  oid,       \* its local `oid`/`oids`
  answered   \* history: the <<key, oid>> answers callers have received

vars == <<disk, open, writer, txn, pc, key, oid, answered>>

Init ==
  /\ disk = EmptyRegistry
  /\ open = {}
  /\ writer = [p \in Servers |-> NoThread]
  /\ txn = [p \in Servers |-> EmptyRegistry]
  /\ pc = [w \in Workers |-> "idle"]
  /\ key = [w \in Workers |-> NoKey]
  /\ oid = [w \in Workers |-> NoOid]
  /\ answered = {}

\* Mutant: the file is opened without its exclusive lock.
OpenShared(p) ==
  /\ p \notin open
  /\ open' = open \cup {p}
  /\ UNCHANGED <<disk, writer, txn, pc, key, oid, answered>>

(***************************************************************************)
(* open: redb takes an exclusive lock on the file, so opening it while any *)
(* process has it open is an error and leaves everything as it was.  The   *)
(* tables the first open creates are empty.                                *)
(***************************************************************************)
Open(p) ==
  /\ open = {}
  /\ open' = {p}
  /\ UNCHANGED <<disk, writer, txn, pc, key, oid, answered>>

\* A thread of a server calls resolve_database, resolve_schema or
\* resolve_relation for k.
Call(w, k) ==
  /\ w[1] \in open
  /\ pc[w] = "idle"
  /\ pc' = [pc EXCEPT ![w] = "begin"]
  /\ key' = [key EXCEPT ![w] = k]
  /\ UNCHANGED <<disk, open, writer, txn, oid, answered>>

\* Mutant: a thread does not wait for the process's other writer.
BeginWriteAtOnce(w) ==
  /\ pc[w] = "begin"
  /\ writer' = [writer EXCEPT ![w[1]] = w[2]]
  /\ txn' = [txn EXCEPT ![w[1]] = disk]
  /\ pc' = [pc EXCEPT ![w] = "lookup"]
  /\ UNCHANGED <<disk, open, key, oid, answered>>

\* begin_write blocks while another thread of the process is writing.
BeginWrite(w) ==
  /\ pc[w] = "begin"
  /\ writer[w[1]] = NoThread
  /\ writer' = [writer EXCEPT ![w[1]] = w[2]]
  /\ txn' = [txn EXCEPT ![w[1]] = disk]
  /\ pc' = [pc EXCEPT ![w] = "lookup"]
  /\ UNCHANGED <<disk, open, key, oid, answered>>

\* Mutant: a name seen before is allocated again.
LookupNothing(w) ==
  /\ pc[w] = "lookup"
  /\ oid' = [oid EXCEPT ![w] = NoOid]
  /\ pc' = [pc EXCEPT ![w] = "allocate"]
  /\ UNCHANGED <<disk, open, writer, txn, key, answered>>

\* table.get: a name seen before keeps its number.
Lookup(w) ==
  LET found == txn[w[1]].recorded[key[w]]
  IN  /\ pc[w] = "lookup"
      /\ oid' = [oid EXCEPT ![w] = found]
      /\ pc' = [pc EXCEPT ![w] = IF found # NoOid THEN "commit" ELSE "allocate"]
      /\ UNCHANGED <<disk, open, writer, txn, key, answered>>

\* Mutant: the counter is committed on its own.
AllocateDurably(w) ==
  LET reg == txn[w[1]]
  IN  /\ pc[w] = "allocate"
      /\ Fits(NextOid(reg), Span(key[w]))
      /\ oid' = [oid EXCEPT ![w] = NextOid(reg)]
      /\ txn' = [txn EXCEPT ![w[1]] = Advanced(reg, Span(key[w]))]
      /\ disk' = Advanced(disk, Span(key[w]))
      /\ pc' = [pc EXCEPT ![w] = "insert"]
      /\ UNCHANGED <<open, writer, key, answered>>

\* allocate: the counter of the transaction moves by the object's span.
Allocate(w) ==
  LET reg == txn[w[1]]
  IN  /\ pc[w] = "allocate"
      /\ Fits(NextOid(reg), Span(key[w]))
      /\ oid' = [oid EXCEPT ![w] = NextOid(reg)]
      /\ txn' = [txn EXCEPT ![w[1]] = Advanced(reg, Span(key[w]))]
      /\ pc' = [pc EXCEPT ![w] = "insert"]
      /\ UNCHANGED <<disk, open, writer, key, answered>>

\* The call ends: its argument and its locals are gone.
Leave(w) ==
  /\ pc' = [pc EXCEPT ![w] = "idle"]
  /\ key' = [key EXCEPT ![w] = NoKey]
  /\ oid' = [oid EXCEPT ![w] = NoOid]

\* The write transaction of p is over, committed or dropped.
EndWrite(p) ==
  /\ writer' = [writer EXCEPT ![p] = NoThread]
  /\ txn' = [txn EXCEPT ![p] = EmptyRegistry]

\* Leaving a resolve_* call with an error drops its write transaction, which
\* aborts it.
Abort(w) ==
  /\ Leave(w)
  /\ \/ pc[w] = "begin" /\ UNCHANGED <<writer, txn>>
     \/ pc[w] # "begin" /\ EndWrite(w[1])
  /\ UNCHANGED <<open, answered>>

\* Mutant: a refused allocation leaves its transaction open.
ExhaustedInside(w) ==
  /\ pc[w] = "allocate"
  /\ ~Fits(NextOid(txn[w[1]]), Span(key[w]))
  /\ Leave(w)
  /\ UNCHANGED <<disk, open, writer, txn, answered>>

\* allocate when advanced_or_exhausted refuses: the counter is not written.
Exhausted(w) ==
  /\ pc[w] = "allocate"
  /\ ~Fits(NextOid(txn[w[1]]), Span(key[w]))
  /\ Abort(w)
  /\ UNCHANGED disk

\* table.insert of the new number.
Insert(w) ==
  /\ pc[w] = "insert"
  /\ txn' = [txn EXCEPT ![w[1]] = Recorded(@, key[w], oid[w])]
  /\ pc' = [pc EXCEPT ![w] = "commit"]
  /\ UNCHANGED <<disk, open, writer, key, oid, answered>>

\* commit: what the transaction wrote is on disk (fsynced) when it returns.
Commit(w) ==
  /\ pc[w] = "commit"
  /\ disk' = txn[w[1]]
  /\ EndWrite(w[1])
  /\ pc' = [pc EXCEPT ![w] = "return"]
  /\ UNCHANGED <<open, key, oid, answered>>

\* Ok(oid): only now does the caller learn the number.
Return(w) ==
  /\ pc[w] = "return"
  /\ answered' = answered \cup {<<key[w], oid[w]>>}
  /\ Leave(w)
  /\ UNCHANGED <<disk, open, writer, txn>>

\* A redb call returns an error (as_registry_error): begin_write, open_table,
\* get or insert leave the file alone; a commit that fails may have reached
\* it or not.
StorageError(w) ==
  /\ pc[w] \in {"begin", "lookup", "allocate", "insert", "commit"}
  /\ Abort(w)
  /\ \/ UNCHANGED disk
     \/ pc[w] = "commit" /\ disk' = txn[w[1]]

\* The process exits or is killed: its calls are never answered, its open
\* transaction is gone, and the operating system releases the file lock.
Stop(p) ==
  /\ p \in open
  /\ open' = open \ {p}
  /\ EndWrite(p)
  /\ pc' = [w \in Workers |-> IF w[1] = p THEN "idle" ELSE pc[w]]
  /\ key' = [w \in Workers |-> IF w[1] = p THEN NoKey ELSE key[w]]
  /\ oid' = [w \in Workers |-> IF w[1] = p THEN NoOid ELSE oid[w]]
  /\ UNCHANGED <<disk, answered>>

Step(w) ==
  \/ BeginWrite(w) \/ Lookup(w) \/ Allocate(w) \/ Exhausted(w)
  \/ Insert(w) \/ Commit(w) \/ Return(w)

Next ==
  \/ \E p \in Servers : Open(p) \/ Stop(p)
  \/ \E w \in Workers : Step(w) \/ StorageError(w) \/ \E k \in Keys : Call(w, k)

Spec == Init /\ [][Next]_vars

\* A thread that is inside resolve_* and is not blocked keeps running.
Fairness == \A w \in Workers : WF_vars(Step(w))

FairSpec == Spec /\ Fairness

-----------------------------------------------------------------------------
\* Every variable holds what its type in catalog_oid_registry.rs allows, and
\* every number fits the i32 of the counter.
TypeOK ==
  /\ disk \in Registry
  /\ open \in SUBSET Servers
  /\ writer \in [Servers -> Threads \cup {NoThread}]
  /\ txn \in [Servers -> Registry]
  /\ pc \in [Workers -> {"idle", "begin", "lookup", "allocate", "insert",
                         "commit", "return"}]
  /\ key \in [Workers -> Keys \cup {NoKey}]
  /\ oid \in [Workers -> Oid32]
  /\ answered \in SUBSET (Keys \X Oid32)

(***************************************************************************)
(* "A registry never reuses a number": whatever threads, errors, kills and *)
(* restarts happened, no two objects on disk share a catalog OID, rowtypes *)
(* included.                                                               *)
(***************************************************************************)
UniqueOids == Disjoint(disk)

(***************************************************************************)
(* "An allocation that returned is an allocation that survives a crash":   *)
(* every answer any caller ever received, from any process, is what the    *)
(* file says now.                                                          *)
(***************************************************************************)
AnswersAreDurable ==
  \A a \in answered : a[2] # NoOid /\ disk.recorded[a[1]] = a[2]

(***************************************************************************)
(* Counter and tables move together: every number below the counter        *)
(* belongs to a recorded object, so no aborted, failed or killed call      *)
(* leaks one, and none at or above the counter is in use.                  *)
(***************************************************************************)
NoLeakedOids == Dense(disk)

(***************************************************************************)
(* Both numbers of every object are user OIDs that an i32 can hold: the    *)
(* exhaustion check covers the rowtype's number too.                       *)
(***************************************************************************)
OidsInRange ==
  \A k \in Known(disk) : Oids(disk, k) \subseteq FirstUserOid .. MaxOid - 1

(***************************************************************************)
(* The strengthening of the invariants above that every step preserves.    *)
(* Writing: only a thread inside a transaction has the writer slot, and    *)
(* only the process that holds the file has such threads, so there is at   *)
(* most one transaction at a time and disk does not change under it.       *)
(* Calls: what each call has read and written so far, relative to disk.    *)
(***************************************************************************)
WritingStates == {"lookup", "allocate", "insert", "commit"}

ExclusiveFile == \A p, q \in open : p = q

Writing ==
  /\ \A w \in Workers : pc[w] # "idle" => w[1] \in open /\ key[w] \in Keys
  /\ \A w \in Workers : pc[w] \in WritingStates <=> writer[w[1]] = w[2]

NewNumber(w) ==
  /\ disk.recorded[key[w]] = NoOid
  /\ oid[w] = NextOid(disk)
  /\ Fits(NextOid(disk), Span(key[w]))

CallState(w) ==
  LET reg == txn[w[1]]
  IN  /\ pc[w] = "lookup"   => reg = disk
      /\ pc[w] = "allocate" => reg = disk /\ disk.recorded[key[w]] = NoOid
      /\ pc[w] = "insert"   => NewNumber(w) /\ reg = Advanced(disk, Span(key[w]))
      /\ pc[w] = "commit"   =>
           \/ reg = disk /\ oid[w] = disk.recorded[key[w]] /\ oid[w] # NoOid
           \/ /\ NewNumber(w)
              /\ reg = Recorded(Advanced(disk, Span(key[w])), key[w], oid[w])
      /\ pc[w] = "return"   => oid[w] = disk.recorded[key[w]] /\ oid[w] # NoOid

IInv ==
  /\ TypeOK
  /\ ExclusiveFile
  /\ Writing
  /\ \A w \in Workers : CallState(w)
  /\ Below(disk)
  /\ UniqueOids
  /\ NoLeakedOids
  /\ AnswersAreDurable

(***************************************************************************)
(* The registry in the file implements what a registry promises.           *)
(***************************************************************************)
Allocation == INSTANCE OidAllocation WITH assigned <- disk.recorded

ImplementsAllocation == Allocation!SpecAllocation

(***************************************************************************)
(* A write transaction always ends (committed, refused or dropped), so the *)
(* threads waiting in begin_write are not shut out for ever by one call.   *)
(***************************************************************************)
TransactionsEnd ==
  \A p \in Servers : writer[p] # NoThread ~> writer[p] = NoThread

=============================================================================
