---------------------------- MODULE MCTaskPipeline ----------------------------
(***************************************************************************)
(* Small instances of TaskPipeline: two tasks of one agent, or of two.     *)
(***************************************************************************)
EXTENDS TaskPipeline, TLC

CONSTANTS t1, t2, a1, a2, s1, s2

OneAgent    == [t \in Tasks |-> a1]
EachAgent   == [t \in Tasks |-> IF t = t1 THEN a1 ELSE a2]
OneSession  == [t \in Tasks |-> s1]
EachSession == [t \in Tasks |-> IF t = t1 THEN s1 ELSE s2]

\* The tasks are interchangeable: only whether their agents or their sessions
\* are the same one matters.
AnyOrder == Permutations(Tasks)
================================================================================
