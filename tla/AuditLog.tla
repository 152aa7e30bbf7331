------------------------------ MODULE AuditLog ------------------------------
(***************************************************************************)
(* What an AuditSink (audit.ts) promises whoever reads it: a log of codes  *)
(* to which events are added at the end, one at a time, and from which     *)
(* nothing is ever taken or changed.                                       *)
(***************************************************************************)
EXTENDS Sequences

CONSTANT AuditCodes

VARIABLE log

Init == log = <<>>

AppendEvent(code) == log' = Append(log, code)

Next == \E code \in AuditCodes : AppendEvent(code)

Spec == Init /\ [][Next]_log
=============================================================================
