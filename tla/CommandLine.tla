---------------------------- MODULE CommandLine ----------------------------
(***************************************************************************)
(* The commands `debug` and `deploy` of lib/cli/clirunner.js: options, the *)
(* alert before a deployment, the termination hook, and then the debug     *)
(* session or the publisher.                                               *)
(***************************************************************************)
EXTENDS DebugSession, Publisher

VARIABLES
  command,    \* the command that was called
  quiet,      \* --quiet
  stage,      \* where startRunner is
  agreed      \* the prompts that the user answered with yes

commandVars == <<command, quiet, stage, agreed>>
allVars == <<commandVars, debugVars, publishVars>>

\* A command has no state of the other one
CommandInit ==
  /\ command \in {"debug", "deploy"} /\ quiet \in BOOLEAN
  /\ stage = "options" /\ agreed = {}
  /\ DebugInit /\ PublishInit
  /\ command = "debug" => ~quiet /\ project = CHOOSE p \in Projects : TRUE
  /\ command = "deploy" => ~workers /\ ~prompt

\* getRunOptions may fail; deploy asks before it creates its runner
GetRunOptions ==
  /\ stage = "options"
  /\ \/ stage' = "over"
     \/ stage' = IF command = "deploy" /\ ~quiet THEN "alert" ELSE "running"
  /\ UNCHANGED <<command, quiet, agreed, debugVars, publishVars>>

\* Mutant of ShowModelAlert: whatever is not a no goes on
ShowModelAlertLenient(answer) ==
  /\ stage = "alert"
  /\ stage' = (IF answer = "no" THEN "over" ELSE "running")
  /\ agreed' = IF answer = "yes" THEN agreed \cup {"model"} ELSE agreed
  /\ UNCHANGED <<command, quiet, debugVars, publishVars>>

\* Any other answer is asked for again
ShowModelAlert(answer) ==
  /\ stage = "alert"
  /\ \/ answer = "yes" /\ stage' = "running" /\ agreed' = agreed \cup {"model"}
     \/ answer = "no" /\ stage' = "over" /\ UNCHANGED agreed
     \/ answer = "other" /\ UNCHANGED <<stage, agreed>>
  /\ UNCHANGED <<command, quiet, debugVars, publishVars>>

\* The hook is set when there is a runner: before that a signal kills
Kill ==
  /\ stage \in {"options", "alert"}
  /\ stage' = "over"
  /\ UNCHANGED <<command, quiet, agreed, debugVars, publishVars>>

IsRunning(c) == stage = "running" /\ command = c

RunDebug == IsRunning("debug") /\ DebugNext /\ UNCHANGED <<commandVars, publishVars>>

RunDeploy ==
  /\ IsRunning("deploy")
  /\ \/ (Publish \/ Terminate \/ PublishServer) /\ UNCHANGED agreed
     \/ \E answer \in Replies :
          /\ OnAnswer(answer)
          /\ agreed' = IF answer = "yes" THEN agreed \cup {"size"} ELSE agreed
  /\ UNCHANGED <<command, quiet, stage, debugVars>>

CommandNext ==
  \/ GetRunOptions \/ Kill \/ RunDebug \/ RunDeploy
  \/ \E answer \in Replies : ShowModelAlert(answer)

CommandSpec == CommandInit /\ [][CommandNext]_allVars

\* The process and the servers go on; nobody has to start a command, to answer a
\* prompt or to press Ctrl-C, and a deployment need not finish
CommandFairness ==
  /\ DebugFairness
  /\ WF_publishVars(IsRunning("deploy") /\ Publish)
  /\ WF_publishVars(ServeUpload) /\ WF_publishVars(ServeStatus)

FairCommandSpec == CommandSpec /\ CommandFairness

----------------------------------------------------------------------------
(* Properties                                                              *)

\* The command line, the session and the deployment keep their types, and the session
\* is renewed by one chain of requests.
CommandTypeOK ==
  /\ command \in {"debug", "deploy"} /\ quiet \in BOOLEAN
  /\ stage \in {"options", "alert", "running", "over"}
  /\ agreed \subseteq {"model", "size"}
  /\ DebugTypeOK /\ OneRenewalAtMost /\ PublishTypeOK

\* Code is uploaded only after a yes to every prompt the options ask for,
\* however often and whatever was answered before.
UploadIsAgreed ==
  upload # "none" => (quiet \/ "model" \in agreed) /\ (project.zipSizeConfirmation => "size" \in agreed)

=============================================================================
