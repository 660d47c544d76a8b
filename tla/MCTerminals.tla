---------------------------- MODULE MCTerminals ----------------------------
(* The console and a serial terminal.  A behaviour exercises one subject:  *)
(* the console's escape sequences, the terminal's input (nobody writes),   *)
(* or its output (with a reader, but few keys).                            *)
EXTENDS Console, Tty

VARIABLE subject

terminalsVars == <<subject, conVars, ttyVars>>

MCTexts == {<<"nl", "a">>}
FewKeys == TtyKeys \cap {"a", "intr"}

\* what is not the subject has one initial state
Init ==
  /\ ConInit /\ TtyInit /\ subject \in {"console", "input", "output"}
  /\ subject = "console" => tty.mode = "raw"
  /\ subject # "console" => con.ega /\ con.pos = 0

Next ==
  /\ UNCHANGED subject
  /\ \/ subject = "console" /\ ConNext /\ UNCHANGED ttyVars
     \/ subject = "input" /\ (TtyLine(TtyKeys \ {"intr"}) \/ TtyReader) /\ UNCHANGED conVars
     \/ subject = "output" /\ (TtyLine(FewKeys) \/ TtyReader \/ TtyWriter) /\ UNCHANGED conVars

\* The port goes on transmitting, a process in the kernel goes on, and one that was
\* woken is chosen again and again by schedule().
Spec ==
  /\ Init /\ [][Next]_terminalsVars
  /\ WF_ttyVars(subject = "output" /\ Transmit)
  /\ WF_ttyVars(subject = "output" /\ (ReadTest \/ ReadGet))
  /\ WF_ttyVars(subject = "output" /\ (WriteFill \/ WritePut))
  /\ SF_ttyVars(subject = "output" /\ ReadWakes)
  /\ SF_ttyVars(subject = "output" /\ WriteFull)

----------------------------------------------------------------------------
TerminalsTypeOK == ConTypeOK /\ TtyTypeOK
=============================================================================
