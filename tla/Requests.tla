------------------------------- MODULE Requests -------------------------------
(***************************************************************************)
(* Requests at work side by side.  A request starts at pc "idle", makes    *)
(* one statement or one remote call per step, keeps what it has read in    *)
(* mem and ends at "done".  A request that is refused at its first read    *)
(* changes nothing and is not started.                                     *)
(***************************************************************************)
EXTENDS Naturals, Sequences, FiniteSets

CONSTANTS
  Calls,
  Workloads,   \* what is asked: op, each call's operation; slow, whether deadlines pass
               \* meanwhile; faults, how many requests may be cut short
  NONE

ASSUME CallsAssumption == IsFiniteSet(Calls)   \* as many requests as have come in

VARIABLES
  job, pc, mem,
  cut          \* requests cut short

requests == <<pc, mem>>

Op(c) == job.op[c]
ByOp(ops) == {c \in Calls : Op(c) \in ops}
At(c, ops, label) == Op(c) \in ops /\ pc[c] = label
Idle(c) == pc[c] \in {"idle", "done"}

Goto(c, label) == pc' = [pc EXCEPT ![c] = label] /\ UNCHANGED mem
Keep(c, m, label) == pc' = [pc EXCEPT ![c] = label] /\ mem' = [mem EXCEPT ![c] = m]
Done(c) == Keep(c, NONE, "done")

RequestsInit ==
  /\ job \in Workloads
  /\ pc = [c \in Calls |-> IF Op(c) = "none" THEN "done" ELSE "idle"]
  /\ mem = [c \in Calls |-> NONE]
  /\ cut = {}

\* A statement fails and the request answers with the error, or the process dies.
Cuts(c) == Cardinality(cut \cup {c}) <= job.faults /\ cut' = cut \cup {c}
Fails(c) == ~Idle(c) /\ Cuts(c) /\ Done(c) /\ UNCHANGED job

\* A statement fails whose error the handler drops: it goes on.
Drops(c, m, label) == Cuts(c) /\ Keep(c, m, label) /\ UNCHANGED job
=============================================================================
