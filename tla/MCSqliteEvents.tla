--------------------------- MODULE MCSqliteEvents ---------------------------
(* Small instances of SqliteEvents.                                        *)
EXTENDS SqliteEvents, TLC

MCEvents == { [key |-> k, raw |-> r] : k \in Key, r \in Raw }

\* Every batch of up to two events, duplicates within a batch included.
MCBatches ==
  { << >> } \cup { << e >> : e \in MCEvents }
            \cup { << e, f >> : e \in MCEvents, f \in MCEvents }

=============================================================================
