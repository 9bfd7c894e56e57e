----------------------------- MODULE SharedTable ----------------------------
(***************************************************************************)
(* The program table under the processes that use it.  Engine processes    *)
(* admit a request, run it, and finish it with the value they inherited at *)
(* admission; a process may die in between.  The coordinator opens and     *)
(* ends programs, and reclaims the row of a request with a finish of its   *)
(* own, whether or not the engine process has already finished it.         *)
(***************************************************************************)
EXTENDS ProgramTable

CONSTANT Seconds    \* bound: the run and wait times that are tried
ASSUME SecondsAssumption == Seconds \subseteq Nat

VARIABLES
    table,      \* the database
    held,       \* the calls some engine process holds (RuntimeScheduler.calls)
    owner,      \* rid -> pid of every request admitted so far
    past        \* auxiliary: pid -> the calls finished in the program's present life

vars == << table, held, owner, past >>

Init ==
    /\ table = EmptyTable
    /\ held = << >>
    /\ owner = << >>
    /\ past = << >>

-----------------------------------------------------------------------------

Open(p) ==
    /\ CanOpen(table, p)
    /\ table' = OpenIn(table, p)
    /\ past' = Put(past, p, << >>)
    /\ UNCHANGED << held, owner >>

\* RuntimeScheduler.admit in an engine process.
Admit(p, r) ==
    /\ r \notin DOMAIN owner
    /\ CanAdmit(table, p, r)
    /\ table' = AdmitTo(table, p, r)
    /\ held' = Put(held, r, [inherited |-> Inherited(table, p),
                             before |-> DOMAIN past[p]])
    /\ owner' = Put(owner, r, p)
    /\ UNCHANGED past

\* The history of a program ends with its row.
Record(p, r, call) ==
    past' = IF p \notin DOMAIN table'.programs THEN Drop(past, p)
            ELSE IF r \in RowsOf(table, p) THEN [past EXCEPT ![p] = Put(@, r, call)]
            ELSE past

\* RuntimeScheduler.finish in the engine process that holds the call.
Finish(r, executed, waited) ==
    /\ r \in DOMAIN held
    /\ table' = FinishIn(table, owner[r], r, held[r].inherited, executed, waited)
    /\ Record(owner[r], r, [ran |-> executed, before |-> held[r].before])
    /\ held' = Drop(held, r)
    /\ UNCHANGED owner

\* InferenceEngine._resolve, on an error or a cancellation.
Reclaim(r) ==
    /\ r \in DOMAIN owner
    /\ table' = FinishIn(table, owner[r], r, 0, 0, 0)
    /\ Record(owner[r], r, [ran |-> 0, before |-> {}])
    /\ UNCHANGED << held, owner >>

\* The engine process that holds the call dies; its row stays.
Die(r) ==
    /\ r \in DOMAIN held
    /\ held' = Drop(held, r)
    /\ UNCHANGED << table, owner, past >>

End(p) ==
    /\ table' = EndIn(table, p)
    /\ past' = Restrict(past, DOMAIN table'.programs)
    /\ UNCHANGED << held, owner >>

Next ==
    \/ \E p \in Pid : Open(p) \/ End(p)
    \/ \E p \in Pid, r \in Rid : Admit(p, r)
    \/ \E r \in Rid : Reclaim(r) \/ Die(r)
    \/ \E r \in Rid, e, w \in Seconds : Finish(r, e, w)

Spec == Init /\ [][Next]_vars

-----------------------------------------------------------------------------
(* Properties. *)

\* The shape of the table and of the calls held against it.
TypeOK ==
    /\ TableType(table)
    /\ owner \in [DOMAIN owner -> Pid]
    /\ DOMAIN owner \subseteq Rid
    /\ DOMAIN table.requests \subseteq DOMAIN owner
    /\ \A r \in DOMAIN table.requests : table.requests[r] = owner[r]
    /\ DOMAIN held \subseteq DOMAIN owner
    /\ \A r \in DOMAIN held : held[r].inherited \in Nat

\* ProgramTable.finish: `active' is the number of the program's request rows
\* however the finishes of engine process and coordinator for one request race,
\* and no request row outlives its program.
ActiveCountsRows == ActiveIsRows(table)

\* ProgramTable.end and .finish: an ended program keeps its row only while a
\* request of it is admitted; whichever of the two comes last deletes the row.
EndedProgramDrains ==
    \A p \in DOMAIN table.programs : table.programs[p].closing => RowsOf(table, p) # {}

\* The longest chain of calls of p, each admitted after the one before it had
\* finished, measured by the run time charged to them.
LongestPath(p) ==
    LET h == past[p]
        reach[r \in DOMAIN h] == h[r].ran + Max0({reach[q] : q \in h[r].before})
    IN  Max0({reach[r] : r \in DOMAIN h})

\* ProgramTable.finish under ATLAS: the service of a program is the run time
\* along its critical path, though calls of several engine processes overlap,
\* finish in any order, or are reclaimed.
ServiceIsCriticalPath ==
    \A p \in DOMAIN table.programs : table.programs[p].service = LongestPath(p)

\* ProgramTable.admit: once `end' marked a program, its request rows only go
\* away until the program does; a call that comes late does not revive it.
EndedStaysEnded ==
    [][\A p \in DOMAIN table.programs \cap DOMAIN table'.programs :
          table.programs[p].closing =>
              /\ table'.programs[p].closing
              /\ RowsOf(table', p) \subseteq RowsOf(table, p)]_vars

=============================================================================
