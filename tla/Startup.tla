------------------------------- MODULE Startup -------------------------------
(***************************************************************************)
(* wmain (main.cpp): the command line, then the session it asks for, from  *)
(* attaching to or creating the target to the last release.                *)
(***************************************************************************)
EXTENDS CommandLine, RemoteSetup

CONSTANT OwnPid  \* apiscope's own process

startupVars == <<cliVars, setupVars>>

StartupInit == CliInit /\ SetupInit

Parse == CliNext /\ UNCHANGED setupVars

IsOwnProcess == mode = "Attach" /\ options.pid = OwnPid

\* Attach or Run gets the target, or ends; the target's first debug event
\* starts the set-up.  What the set-up does not read is forgotten, so that its
\* states do not multiply with the command lines.
Launch ==
  /\ phase = "parsed" /\ stage = "idle"
  /\ mode \in {"Run", "Attach"} /\ ~IsOwnProcess
  /\ stage' \in {"setup", "over"}
  /\ output' = [jsonl |-> options.jsonl, quiet |-> options.quiet, path |-> options.path # Empty]
  /\ phase' = "start" /\ mode' = "Error" /\ items' = <<>>
  /\ options' = NoOptions /\ available' = <<>>
  /\ UNCHANGED <<step, held, known, releasing, exports, lost, lostBefore, cleaned>>

Session == SetupNext /\ UNCHANGED cliVars

StartupNext == (stage = "idle" /\ Parse) \/ Launch \/ Session

StartupSpec == StartupInit /\ [][StartupNext]_startupVars

-----------------------------------------------------------------------------
\* Types of both halves; no resource is released twice and no thread outlives
\* its ring (RemoteSetup).
StartupTypeOK == CliTypeOK /\ SetupTypeOK

\* The options the command line accepts are options the session can open its
\* output with: OpenOutput's refusals (trace_session.cpp:60-67) are never
\* reached, after the target has been seized, for options that
\* ParseCommandLine's checks (cli_options.cpp:229-236) let through.
AcceptedOutputOpens == stage = "setup" => ~Refused(output)
=============================================================================
