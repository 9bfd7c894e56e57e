---------------------------- MODULE ProgramTable ----------------------------
(***************************************************************************)
(* The transactional program table every engine process of one host shares *)
(* (autellix/runtime/policy.py, class ProgramTable): one row per open      *)
(* program and one row per admitted request, kept in SQLite.               *)
(*                                                                         *)
(* Each method is one BEGIN IMMEDIATE .. COMMIT transaction, so it is one  *)
(* function of the table's value; the modules that use the table apply     *)
(* these functions to their own copy of it, one after the other when one   *)
(* handler runs several transactions.                                      *)
(* Times are whole units: only their sums, maxima and order matter.        *)
(***************************************************************************)
EXTENDS Integers, FiniteSets, FiniteSetsExt, Functions

CONSTANTS
    Pid,        \* program (session) identifiers
    Rid,        \* request identifiers; the code draws a fresh uuid each time
    Policy      \* PolicyConfig.policy

ASSUME PolicyAssumption == Policy \in {"fcfs", "mlfq", "plas", "atlas"}

-----------------------------------------------------------------------------
(* Partial functions, as the dictionaries and tables of the code. *)

Put(f, k, v) == [x \in DOMAIN f \cup {k} |-> IF x = k THEN v ELSE f[x]]
Drop(f, k) == Restrict(f, DOMAIN f \ {k})

(* sorted() and the filters of lists. *)

\* The sorted elements of DOMAIN upTo, where upTo[x] are those that do not come after x.
Ranked(upTo) ==
    [n \in 1..Cardinality(DOMAIN upTo) |-> CHOOSE x \in DOMAIN upTo : Cardinality(upTo[x]) = n]

\* The elements of a sequence that are in S, in their order.
Among(seq, S) ==
    LET kept == {i \in DOMAIN seq : seq[i] \in S}
        at   == Ranked([i \in kept |-> kept \cap 1..i])
    IN  [n \in DOMAIN at |-> seq[at[n]]]

Larger(a, b) == IF a >= b THEN a ELSE b
Max0(S) == Max(S \cup {0})

-----------------------------------------------------------------------------
(* The rows. *)

Program == [service : Nat, wait : Nat, active : Nat, closing : BOOLEAN]
NewProgram == [service |-> 0, wait |-> 0, active |-> 0, closing |-> FALSE]
EmptyTable == [programs |-> << >>, requests |-> << >>]

RowsOf(t, p) == {r \in DOMAIN t.requests : t.requests[r] = p}

-----------------------------------------------------------------------------
(* The transactions. *)

\* INSERT INTO programs raises on an identifier that is still there.
CanOpen(t, p) == p \notin DOMAIN t.programs
OpenIn(t, p) == [programs |-> Put(t.programs, p, NewProgram), requests |-> t.requests]

CanAdmitClosing(t, p, r) == p \in DOMAIN t.programs /\ r \notin DOMAIN t.requests
CanAdmit(t, p, r) ==
    /\ p \in DOMAIN t.programs
    /\ ~t.programs[p].closing
    /\ r \notin DOMAIN t.requests

AdmitTo(t, p, r) ==
    [programs |-> [t.programs EXCEPT ![p].active = @ + 1],
     requests |-> Put(t.requests, r, p)]

\* What a call inherits from its program when RuntimeScheduler admits it.
Inherited(t, p) == IF Policy \in {"plas", "atlas"} THEN t.programs[p].service ELSE 0

\* DELETE FROM programs WHERE pid=? AND closing=1 AND active=0.
DropDrainedNever(t, p) == t
DropDrained(t, p) ==
    IF t.programs[p].closing /\ t.programs[p].active = 0
    THEN [programs |-> Drop(t.programs, p), requests |-> t.requests]
    ELSE t

\* What a finished call charges to its program: ATLAS keeps the longest path of
\* dependent calls, the other policies the total.
ChargeOverwrites(service, inherited, executed) == inherited + executed
Charge(service, inherited, executed) ==
    IF Policy = "atlas" THEN Larger(service, inherited + executed)
    ELSE service + executed

\* The engine process and the coordinator may both finish a request; the rows
\* the DELETE removed tell which of the two came first, and only that one counts.
RemovesRowOfOpen(t, p, r) == p \in DOMAIN t.programs
RemovesRow(t, p, r) == r \in RowsOf(t, p)

FinishIn(t, p, r, inherited, executed, waited) ==
    IF RemovesRow(t, p, r)
    THEN DropDrained(
           [programs |-> [t.programs EXCEPT
                ![p].service = Charge(@, inherited, executed),
                ![p].wait    = @ + waited,
                ![p].active  = @ - 1],
            requests |-> Drop(t.requests, r)], p)
    ELSE t

EndIn(t, p) ==
    IF p \in DOMAIN t.programs
    THEN DropDrained([programs |-> [t.programs EXCEPT ![p].closing = TRUE],
                      requests |-> t.requests], p)
    ELSE t

-----------------------------------------------------------------------------
(* What holds between the two sets of rows. *)

TableType(t) ==
    /\ t = [programs |-> t.programs, requests |-> t.requests]
    /\ t.programs \in [DOMAIN t.programs -> Program]
    /\ DOMAIN t.programs \subseteq Pid
    /\ t.requests \in [DOMAIN t.requests -> Pid]
    /\ DOMAIN t.requests \subseteq Rid
    /\ IsFiniteSet(DOMAIN t.requests)

ActiveIsRows(t) ==
    /\ \A r \in DOMAIN t.requests : t.requests[r] \in DOMAIN t.programs
    /\ \A p \in DOMAIN t.programs : t.programs[p].active = Cardinality(RowsOf(t, p))

NoDrainedRow(t) ==
    \A p \in DOMAIN t.programs : ~(t.programs[p].closing /\ t.programs[p].active = 0)

TableInv(t) == TableType(t) /\ ActiveIsRows(t) /\ NoDrainedRow(t)

=============================================================================
