--------------------------- MODULE PublishedTable ---------------------------
(***************************************************************************)
(* What LDP promises for one table, whatever an update goes through: the   *)
(* main table is replaced in one step by the staged rows of one state that *)
(* the source was in, never an older one than before, and in that same     *)
(* step the history gains exactly the versions that changed, at a time     *)
(* later than every version it holds.  Nothing else touches either table.  *)
(***************************************************************************)
EXTENDS HistoryTables, Sequences

CONSTANTS
    KeepsHistory,   \* BOOLEAN: versions of this table are recorded
    Stamps          \* the time stamps, a set of natural numbers

VARIABLES
    sourceLog,   \* the states that the source has been in, oldest first
    published,   \* the main table: its rows, and the source state they are from
    history      \* the history table

abstractVars == <<sourceLog, published, history>>

Init ==
    /\ \E rows \in SourceRows : sourceLog = <<rows>>
    /\ published = [rows |-> NoRows, asOf |-> 0]
    /\ history = {}

SourceChange ==
    /\ \E rows \in SourceRows : sourceLog' = Append(sourceLog, rows)
    /\ UNCHANGED <<published, history>>

\* The objects that have changed become versions, all with one time stamp.
Record(rows) ==
    LET latest == LatestRows(history)
    IN  IF KeepsHistory /\ Changed(rows, latest) # {}
        THEN \E t \in Stamps :
                /\ LaterThan(t, history)
                /\ history' = history \cup NewVersions(rows, latest, t)
        ELSE UNCHANGED history

\* One table update as a reader of the database sees it.
Publish ==
    \E k \in 1..Len(sourceLog) :
        /\ published.asOf <= k
        /\ published' = [rows |-> Staged(sourceLog[k]), asOf |-> k]
        /\ Record(Staged(sourceLog[k]))
        /\ UNCHANGED sourceLog

Next == SourceChange \/ Publish

Spec == Init /\ [][Next]_abstractVars

=============================================================================
