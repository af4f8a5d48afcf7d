----------------------------- MODULE SingleLog -----------------------------
(***************************************************************************)
(* What the governed handover promises its users: one log, appended to by  *)
(* one writer at a time.  The writer may be stopped, and another appointed *)
(* only once there is none; the log passes from one to the next unchanged. *)
(***************************************************************************)
EXTENDS Sequences

CONSTANTS Server, Entry, Nobody

VARIABLES log, writer

LogInit == log = <<>> /\ writer \in Server \cup {Nobody}

Write   == writer # Nobody /\ (\E x \in Entry : log' = Append(log, x)) /\ UNCHANGED writer
Stop    == writer # Nobody /\ writer' = Nobody /\ UNCHANGED log
Appoint == writer = Nobody /\ writer' \in Server /\ UNCHANGED log

LogSpec == LogInit /\ [][Write \/ Stop \/ Appoint]_<<log, writer>>
=============================================================================
