---------------------------- MODULE MCAppServices ----------------------------
(* The services of `app` and `control` on small instances. *)
EXTENDS AppServices

\* one output of two chunks
MCSizeOne == <<2>>

\* what the administrator sends: a command and a button, two commands, and an update without an
\* effect between a button and a command
MixesDef == {<<"command", "button">>, <<"command", "command">>, <<"button", "noise", "command">>}
=============================================================================
