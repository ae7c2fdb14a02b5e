------------------------- MODULE CommandLineProofs -------------------------
(* Proofs about CommandLine: it implements the debug session and the         *)
(* publisher, so that their theorems are theorems about the commands         *)
EXTENDS CommandLine, DebugSessionProofs, PublisherProofs

LEMMA StepIsDebugStep ==
  ASSUME [CommandNext]_allVars
  PROVE  [DebugNext]_debugVars
<1>1. CASE RunDebug
  BY <1>1 DEF RunDebug
<1>2. CASE RunDeploy
  BY <1>2 DEF RunDeploy
<1>3. CASE GetRunOptions \/ Kill \/ \E answer \in Replies : ShowModelAlert(answer)
  BY <1>3 DEF GetRunOptions, Kill, ShowModelAlert
<1>4. CASE UNCHANGED allVars
  BY <1>4 DEF allVars
<1> QED
  BY <1>1, <1>2, <1>3, <1>4 DEF CommandNext

LEMMA StepIsPublishStep ==
  ASSUME [CommandNext]_allVars
  PROVE  [PublishNext]_publishVars
<1>1. CASE RunDebug
  BY <1>1 DEF RunDebug
<1>2. CASE RunDeploy
  BY <1>2 DEF RunDeploy, PublishNext
<1>3. CASE GetRunOptions \/ Kill \/ \E answer \in Replies : ShowModelAlert(answer)
  BY <1>3 DEF GetRunOptions, Kill, ShowModelAlert
<1>4. CASE UNCHANGED allVars
  BY <1>4 DEF allVars
<1> QED
  BY <1>1, <1>2, <1>3, <1>4 DEF CommandNext

\* A command is the session it starts, or the deployment, with the options and
\* prompts before it: every behaviour of the commands is one of each module.
THEOREM CommandsImplementRunners == CommandSpec => DebugSpec /\ PublishSpec
<1>1. CommandInit => DebugInit /\ PublishInit
  BY DEF CommandInit
<1>2. [CommandNext]_allVars => [DebugNext]_debugVars /\ [PublishNext]_publishVars
  BY StepIsDebugStep, StepIsPublishStep
<1> QED
  BY <1>1, <1>2, PTL DEF CommandSpec, DebugSpec, PublishSpec

OwnTypes ==
  /\ command \in {"debug", "deploy"} /\ quiet \in BOOLEAN
  /\ stage \in {"options", "alert", "running", "over"}
  /\ agreed \subseteq {"model", "size"}

\* The command line, the session and the deployment keep their types, and the session
\* is renewed by one chain of requests.
THEOREM CommandTypeCorrect == CommandSpec => []CommandTypeOK
<1>1. CommandInit => OwnTypes
  BY DEF CommandInit, OwnTypes
<1>2. ASSUME OwnTypes, [CommandNext]_allVars
      PROVE  OwnTypes'
  <2>1. CASE RunDebug \/ UNCHANGED allVars
    BY <1>2, <2>1 DEF OwnTypes, RunDebug, allVars, commandVars
  <2>2. CASE RunDeploy
    BY <1>2, <2>2 DEF OwnTypes, RunDeploy
  <2>3. CASE GetRunOptions \/ Kill \/ \E answer \in Replies : ShowModelAlert(answer)
    BY <1>2, <2>3 DEF OwnTypes, GetRunOptions, Kill, ShowModelAlert
  <2> QED
    BY <1>2, <2>1, <2>2, <2>3 DEF CommandNext
<1>3. OwnTypes /\ DebugTypeOK /\ OneRenewalAtMost /\ PublishTypeOK => CommandTypeOK
  BY DEF OwnTypes, CommandTypeOK
<1>4. CommandSpec => []OwnTypes
  BY <1>1, <1>2, PTL DEF CommandSpec
<1> QED
  BY <1>3, <1>4, CommandsImplementRunners, DebugTypeCorrect, OneRenewalAlways, PublishTypeCorrect, PTL

\* A deployment runs only when the alert was agreed to or is off
Alerted ==
  /\ command = "deploy" /\ stage = "running" => quiet \/ "model" \in agreed
  /\ UploadIsAgreed

\* Code is uploaded only after a yes to every prompt.
THEOREM UploadAlwaysAgreed == CommandSpec => []UploadIsAgreed
<1>1. CommandInit => Alerted
  BY DEF CommandInit, PublishInit, Alerted, UploadIsAgreed
<1>2. ASSUME OwnTypes, Alerted, [CommandNext]_allVars
      PROVE  Alerted'
  <2>1. CASE RunDebug \/ UNCHANGED allVars
    <3>1. UNCHANGED <<command, quiet, stage, agreed, upload, project>>
      BY <2>1 DEF RunDebug, allVars, commandVars, publishVars
    <3> QED
      BY <1>2, <3>1 DEF Alerted, UploadIsAgreed
  <2>2. CASE GetRunOptions \/ Kill \/ \E answer \in Replies : ShowModelAlert(answer)
    <3>1. /\ UNCHANGED <<command, quiet, upload, project>>
          /\ agreed \subseteq agreed'
          /\ stage' = "running" =>
               \/ stage = "running"
               \/ ~(command = "deploy" /\ ~quiet)
               \/ "model" \in agreed'
      BY <2>2 DEF GetRunOptions, Kill, ShowModelAlert, publishVars
    <3> QED
      BY <1>2, <3>1 DEF Alerted, UploadIsAgreed
  <2>3. CASE RunDeploy
    <3>1. /\ UNCHANGED <<command, quiet, stage>> /\ command = "deploy" /\ stage = "running"
          /\ agreed \subseteq agreed'
      BY <2>3 DEF RunDeploy, IsRunning
    <3>2. project' = project
      BY <2>3 DEF RunDeploy, Publish, BuildModel, AddDependency, StartZip, ExpandPattern, GenerateZip, OnZip,
                  OnUploaded, OnStatus, OnStatusLost, OnCheckInterval, OnAnswer, Terminate,
                  PublishServer, ServeUpload, ServeStatus, Log
    <3>3. quiet \/ "model" \in agreed
      BY <1>2, <3>1 DEF Alerted
    <3>4. ASSUME upload' # "none", project.zipSizeConfirmation
          PROVE  upload # "none" \/ "size" \in agreed'
      <4>1. CASE Publish \/ Terminate \/ PublishServer
        BY <3>4, <4>1 DEF Publish, BuildModel, AddDependency, StartZip, ExpandPattern, GenerateZip, OnZip,
                  OnUploaded, OnStatus, OnStatusLost, OnCheckInterval, Terminate, Post,
                  PublishServer, ServeUpload, ServeStatus, Log
      <4>2. CASE \E answer \in Replies :
                   /\ OnAnswer(answer)
                   /\ agreed' = IF answer = "yes" THEN agreed \cup {"size"} ELSE agreed
        BY <3>4, <4>2 DEF OnAnswer, Post, Ends
      <4> QED
        BY <2>3, <4>1, <4>2 DEF RunDeploy
    <3> QED
      BY <1>2, <3>1, <3>2, <3>3, <3>4 DEF Alerted, UploadIsAgreed
  <2> QED
    BY <1>2, <2>1, <2>2, <2>3 DEF CommandNext
<1>4. CommandTypeOK => OwnTypes
  BY DEF CommandTypeOK, OwnTypes
<1>5. Alerted => UploadIsAgreed
  BY DEF Alerted
<1> QED
  BY <1>1, <1>2, <1>4, <1>5, CommandTypeCorrect, PTL DEF CommandSpec

\* What is proved of the session and of the deployment holds of the commands.
THEOREM CommandsKeepGuarantees ==
  CommandSpec => [](ZipIsExact /\ ReportIsTrue /\ LeaseHeld /\ NoRenewalLeft /\ KnownSessionIsUnregistered)
  BY CommandsImplementRunners, ZipAlwaysExact, ReportAlwaysTrue, LeaseAlwaysHeld, NeverRenewalLeft,
     KnownSessionAlwaysUnregistered, PTL

=============================================================================
