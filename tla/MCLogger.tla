------------------------------ MODULE MCLogger ------------------------------
(* Logger for TLC.                                                         *)
EXTENDS Logger, FiniteSets, TLC

\* Lists without a sink twice, as callers pass them.
MCLists == {l \in SeqOf(Sinks, 2) : IsInjective(l)}
=============================================================================
