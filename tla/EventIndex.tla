----------------------------- MODULE EventIndex -----------------------------
(***************************************************************************)
(* What an events.Repository promises its callers, with no tables and no   *)
(* transactions: an index from the identity of an event (host, source,     *)
(* timestamp, offset) to its text.  A batch is added as a whole, the first *)
(* event with an identity wins and a later one is skipped as a duplicate;  *)
(* a set of events is deleted as a whole; nothing else changes the index.  *)
(* SqliteEvents implements it.                                             *)
(***************************************************************************)
EXTENDS Naturals, Sequences

CONSTANTS Key,      \* identities: (host, source, timestamp, offset)
          Raw,      \* texts
          Batches   \* the batches a caller may add: sequences of events

VARIABLE index      \* a function from the identities indexed to their text

Event == [key : Key, raw : Raw]

KeysOf(batch) == { batch[i].key : i \in DOMAIN batch }

\* The text the batch gives k: that of its first event with this identity.
FirstRaw(batch, k) ==
  batch[CHOOSE i \in DOMAIN batch :
          /\ batch[i].key = k
          /\ \A j \in DOMAIN batch : batch[j].key = k => i <= j].raw

Merge(ix, batch) ==
  [k \in DOMAIN ix \cup KeysOf(batch) |->
     IF k \in DOMAIN ix THEN ix[k] ELSE FirstRaw(batch, k)]

Without(f, S) == [x \in DOMAIN f \ S |-> f[x]]

-----------------------------------------------------------------------------

Init == index = [k \in {} |-> k]

AddBatch(batch) == index' = Merge(index, batch)

DeleteBatch(K) == index' = Without(index, K)

Next ==
  \/ \E batch \in Batches : AddBatch(batch)
  \/ \E K \in SUBSET DOMAIN index : DeleteBatch(K)

Spec == Init /\ [][Next]_index

=============================================================================
