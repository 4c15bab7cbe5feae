------------------------------ MODULE InlineJob ------------------------------
(***************************************************************************)
(* include/InlineJob.hpp: a callable stored in place, moved and destroyed  *)
(* through its table of operations.                                        *)
(*                                                                         *)
(* The memory m holds the InlineJob objects by the place they live in:     *)
(*   m.ops[p]       what ops_ says is stored, NoJob when it is nullptr     *)
(*   m.buf[p]       the callable constructed in buf_, NoJob for raw bytes  *)
(*   m.destroyed[j] how often callable j has been destroyed; at NoJob, how *)
(*                  often a destructor was run on raw bytes                *)
(***************************************************************************)
EXTENDS Naturals

CONSTANT NoJob

NewMemory(Places, Jobs) ==
    [ops       |-> [p \in Places |-> NoJob],
     buf       |-> [p \in Places |-> NoJob],
     destroyed |-> [j \in Jobs \cup {NoJob} |-> 0]]

\* InlineJob(F&& f), into an object that did not exist before
Construct(m, p, f) == [m EXCEPT !.buf[p] = f, !.ops[p] = f]

\* Mutant: the source keeps its operations.
MoveFrom_Shares(m, dst, src) ==
    IF m.ops[src] = NoJob THEN [m EXCEPT !.ops[dst] = NoJob]
    ELSE [m EXCEPT !.ops[dst] = m.ops[src], !.buf[dst] = m.buf[src], !.buf[src] = NoJob]

\* moveFrom(other); the moved-from callable holds nothing any more, so that
\* destroying it is not counted.
MoveFrom(m, dst, src) ==
    IF m.ops[src] = NoJob THEN [m EXCEPT !.ops[dst] = NoJob]
    ELSE [m EXCEPT !.ops[dst] = m.ops[src], !.ops[src] = NoJob,
                   !.buf[dst] = m.buf[src], !.buf[src] = NoJob]

\* reset(), which is also the destructor
Reset(m, p) ==
    IF m.ops[p] = NoJob THEN m
    ELSE [m EXCEPT !.destroyed[m.buf[p]] = @ + 1, !.buf[p] = NoJob, !.ops[p] = NoJob]

\* operator=(InlineJob&&)
MoveAssign(m, dst, src) == IF dst = src THEN m ELSE MoveFrom(Reset(m, dst), dst, src)
=============================================================================
