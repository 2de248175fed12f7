----------------------------- MODULE TableInsert -----------------------------
(***************************************************************************)
(* ScanRecordingMemTable::insert_into.  Clients of one server share the    *)
(* catalog tables, and an INSERT runs while its physical plan is made: it  *)
(* reads the table's one partition under the partition's lock, releases    *)
(* the lock, and takes it again to replace the partition's contents.       *)
(*                                                                         *)
(* A batch is the sequence of its rows, a row the client that inserted it. *)
(* ClientSession has these clients' sessions; the two modules share no      *)
(* name, so that one may extend both.                                      *)
(***************************************************************************)
EXTENDS Naturals, SequencesExt

CONSTANTS
  Clients,     \* connections that insert
  Operations,  \* the InsertOps of their statements
  Loaded,      \* the batches the table was loaded with
  MaxInserts   \* bound: inserts

ASSUME TableConstants ==
  /\ Operations \subseteq {"append", "overwrite"}
  /\ Loaded \in Seq(Seq({"loaded"})) /\ Len(Loaded) <= 1
  /\ MaxInserts \in Nat

VARIABLES
  batches,   \* mem.batches[0], the partition
  phase,     \* "idle", "collected" or "merged"
  op,        \* the InsertOp of each client's statement
  merged,    \* its local `merged`
  inserts,   \* inserts begun
  serial,    \* history: the rows the finished inserts leave, one after another
  raced      \* history: was the partition replaced between a read and its write?

insertVars == <<batches, phase, op, merged, inserts, serial, raced>>

\* What a scan returns: the rows of every batch of the partition.
Rows(partition) == FlattenSeq(partition)

InsertInit ==
  /\ batches = Loaded
  /\ phase = [c \in Clients |-> "idle"]
  /\ op = [c \in Clients |-> "none"]
  /\ merged = [c \in Clients |-> <<>>]
  /\ inserts = 0
  /\ serial = Rows(Loaded)
  /\ raced = FALSE

\* collect(input): the new rows, <<c>> here, are computed.
Collect(c, how) ==
  /\ phase[c] = "idle"
  /\ inserts < MaxInserts
  /\ phase' = [phase EXCEPT ![c] = "collected"]
  /\ op' = [op EXCEPT ![c] = how]
  /\ inserts' = inserts + 1
  /\ UNCHANGED <<batches, merged, serial, raced>>

\* Overwriting needs no old rows; appending reads them under the lock, which
\* is released with them in `merged`.
Merge(c) ==
  /\ phase[c] = "collected"
  /\ merged' = [merged EXCEPT ![c] = IF op[c] = "overwrite" \/ batches = <<>>
                                     THEN <<c>>
                                     ELSE batches[1] \o <<c>>]
  /\ phase' = [phase EXCEPT ![c] = "merged"]
  /\ UNCHANGED <<batches, op, inserts, serial, raced>>

\* Mutant: the merged batch is added to the old one.
ReplaceNothing(c) ==
  /\ phase[c] = "merged"
  /\ batches' = Append(batches, merged[c])
  /\ phase' = [phase EXCEPT ![c] = "idle"]
  /\ op' = [op EXCEPT ![c] = "none"]
  /\ merged' = [merged EXCEPT ![c] = <<>>]
  /\ serial' = IF op[c] = "overwrite" THEN <<c>> ELSE Append(serial, c)
  /\ raced' = (raced \/ \E d \in Clients \ {c} : phase[d] = "merged" /\ op[d] = "append")
  /\ UNCHANGED inserts

\* The second locked section: clear, push.
Replace(c) ==
  /\ phase[c] = "merged"
  /\ batches' = <<merged[c]>>
  /\ phase' = [phase EXCEPT ![c] = "idle"]
  /\ op' = [op EXCEPT ![c] = "none"]
  /\ merged' = [merged EXCEPT ![c] = <<>>]
  /\ serial' = IF op[c] = "overwrite" THEN <<c>> ELSE Append(serial, c)
  /\ raced' = (raced \/ \E d \in Clients \ {c} : phase[d] = "merged" /\ op[d] = "append")
  /\ UNCHANGED inserts

InsertNext ==
  \E c \in Clients :
    Merge(c) \/ Replace(c) \/ \E how \in Operations : Collect(c, how)

InsertSpec == InsertInit /\ [][InsertNext]_insertVars

-----------------------------------------------------------------------------
(***************************************************************************)
(* As long as no insert's second locked section falls between the two of   *)
(* an append, the table holds what the finished inserts leave one after    *)
(* another, overwrites included: inserts that merely overlap in computing  *)
(* their rows lose none, and the append path, which reads batches[0] only, *)
(* leaves no row behind ("the partition always holds at most a single      *)
(* batch").                                                                *)
(***************************************************************************)
UnracedInsertsAreSerial == ~raced => Rows(batches) = serial

(***************************************************************************)
(* db_table.rs, insert_into stores its input "either replacing the         *)
(* existing rows (InsertOp::Overwrite) or appending to them": the table    *)
(* holds what the finished inserts leave, in the order they finished.      *)
(***************************************************************************)
InsertsAreSerial == Rows(batches) = serial
=============================================================================
