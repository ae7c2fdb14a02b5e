----------------------------- MODULE Publisher -----------------------------
(***************************************************************************)
(* `coderunner deploy`: lib/server-code/publisher.js with the expansion of *)
(* file patterns of lib/util/file.js, the upload of                        *)
(* lib/server-code/services/api-server.js and the polling of the           *)
(* deployment's log in lib/server-code/services/status-progress.js.        *)
(*                                                                         *)
(* A directory is the path of packages that leads to it: <<>> is the       *)
(* project, <<p>> is node_modules/p, <<p, q>> the copy of q that is        *)
(* nested in p.                                                            *)
(***************************************************************************)
EXTENDS Integers, Sequences

CONSTANTS
  Packages,          \* names of npm packages
  FileNames,         \* names of files
  ExcludeModules,    \* EXCLUDE_MODULES: backendless-coderunner
  Projects,          \* the working directories to deploy
  Messages,          \* what the server writes to the log of a deployment
  PageSize,          \* pagesize of a status request
  MaxLog             \* bound on the length of the log

Manifests == {"read", "none", "broken"}

\* Files and patterns of files, negated when they begin with '!'
Files == [dir : Seq(Packages), name : FileNames]
Patterns == [negated : BOOLEAN, glob : {"all", "modules"}]
              \cup [negated : BOOLEAN, glob : {"module"}, name : Packages]
              \cup [negated : BOOLEAN, glob : {"file"}, name : FileNames]

\* manifest: the project's package.json; needs[d]: the keys of "dependencies"
\* in the package.json of directory d, for the directories that have one;
\* exclude: app.exclude, with the '!' that zip() puts before each
IsProject(p) ==
  /\ p.manifest \in Manifests
  /\ DOMAIN p.needs \subseteq Seq(Packages) /\ <<>> \in DOMAIN p.needs
  /\ \A d \in DOMAIN p.needs : p.needs[d] \in Seq(Packages)
  /\ p.files \subseteq Files /\ \A f \in p.files : f.dir \in DOMAIN p.needs
  /\ p.exclude \in Seq(Patterns) /\ \A i \in DOMAIN p.exclude : p.exclude[i].negated
  /\ p.empty \in BOOLEAN /\ p.errors \in BOOLEAN
  /\ p.allowEmpty \in BOOLEAN /\ p.zipSizeConfirmation \in BOOLEAN

ASSUME PublisherAssumption ==
  /\ ExcludeModules \subseteq Packages /\ "deploy.zip" \in FileNames
  /\ \A p \in Projects : IsProject(p)
  /\ Messages \subseteq [error : BOOLEAN, end : BOOLEAN]
  /\ PageSize \in Nat \ {0} /\ MaxLog \in Nat

VARIABLES
  project,    \* the working directory and the options
  phase,      \* where publish() is
  out,        \* addDependency: the packages found so far, in order
  todo,       \* the names the recursion still has to visit, the next one first
  patterns,   \* processPatterns: the patterns that are left
  archive,    \* the files matched so far, then those of the zip
  upload,     \* the POST of the zip
  log,        \* the deployment's log on the server
  poll,       \* the status request
  page,       \* the messages in its answer
  loaded,     \* loadedMessagesCount
  shown,      \* the messages that were printed
  failed,     \* an error message was among them
  outcome     \* how the command ended

packing == <<out, todo, patterns, archive>>
polling == <<poll, page, loaded, shown, failed>>
publishVars == <<project, phase, packing, upload, log, polling, outcome>>

\* The phases in which the event loop is free
Awaiting == {"zipping", "confirming", "uploading", "polling", "waiting"}

PublishInit ==
  /\ project \in Projects
  /\ phase = "idle" /\ outcome = "none"
  /\ out = <<>> /\ todo = <<>> /\ patterns = <<>> /\ archive = {}
  /\ upload = "none" /\ log = <<>>
  /\ poll = "none" /\ page = <<>> /\ loaded = 0 /\ shown = <<>> /\ failed = FALSE

Ends(how) == phase' = "over" /\ outcome' = how

----------------------------------------------------------------------------
(* The model and the dependencies                                          *)

IsRefused == (project.empty /\ ~project.allowEmpty) \/ project.errors

\* buildModel, then the read of the project's package.json, which may throw
BuildModel ==
  /\ phase = "idle"
  /\ IF IsRefused \/ project.manifest = "broken"
     THEN Ends("failed") /\ UNCHANGED todo
     ELSE /\ phase' = "collecting"
          /\ todo' = IF project.manifest = "read" THEN project.needs[<<>>] ELSE <<>>
          /\ UNCHANGED outcome
  /\ UNCHANGED <<project, out, patterns, archive, upload, log, polling>>

Listed(name) == \E i \in DOMAIN out : out[i] = name

\* The dependencies of a package, read at the root level only: a package that
\* is not found there has none
NeedsOf(name) == IF <<name>> \in DOMAIN project.needs THEN project.needs[<<name>>] ELSE <<>>

\* The reduce goes on with the siblings once the dependencies of the package
\* are done, so what is left to visit is one sequence
AddDependency ==
  /\ phase = "collecting" /\ todo # <<>>
  /\ IF Head(todo) \in ExcludeModules \/ Listed(Head(todo))
     THEN todo' = Tail(todo) /\ UNCHANGED out
     ELSE todo' = NeedsOf(Head(todo)) \o Tail(todo) /\ out' = Append(out, Head(todo))
  /\ UNCHANGED <<project, phase, patterns, archive, upload, log, polling, outcome>>

----------------------------------------------------------------------------
(* The archive                                                             *)

AllFiles == [negated |-> FALSE, glob |-> "all"]
NotModules == [negated |-> TRUE, glob |-> "modules"]
File(not, name) == [negated |-> not, glob |-> "file", name |-> name]
Module(not, name) == [negated |-> not, glob |-> "module", name |-> name]
BasePatterns == <<AllFiles, NotModules, File(TRUE, "deploy.zip")>>

\* The files of the working directory that a pattern matches
Matches(p, f) ==
  CASE p.glob = "all"     -> TRUE
    [] p.glob = "modules" -> f.dir # <<>>
    [] p.glob = "module"  -> f.dir # <<>> /\ f.dir[1] = p.name
    [] p.glob = "file"    -> f.dir = <<>> /\ f.name = p.name

DependencyPatterns == [i \in DOMAIN out |-> Module(FALSE, out[i])]

\* Mutant of StartZip: the exclusions come before the dependencies
StartZipExcludingEarly ==
  /\ phase = "collecting" /\ todo = <<>>
  /\ phase' = "expanding"
  /\ patterns' = BasePatterns \o project.exclude \o DependencyPatterns
  /\ UNCHANGED <<project, out, todo, archive, upload, log, polling, outcome>>

\* The patterns of the config come last, with a '!' before them
StartZip ==
  /\ phase = "collecting" /\ todo = <<>>
  /\ phase' = "expanding"
  /\ patterns' = BasePatterns \o DependencyPatterns \o project.exclude
  /\ UNCHANGED <<project, out, todo, archive, upload, log, polling, outcome>>

ExpandPattern ==
  /\ phase = "expanding" /\ patterns # <<>>
  /\ patterns' = Tail(patterns)
  /\ LET found == {f \in project.files : Matches(Head(patterns), f)} IN
       archive' = IF Head(patterns).negated THEN archive \ found ELSE archive \cup found
  /\ UNCHANGED <<project, phase, out, todo, upload, log, polling, outcome>>

GenerateZip ==
  /\ phase = "expanding" /\ patterns = <<>>
  /\ phase' = "zipping"
  /\ UNCHANGED <<project, packing, upload, log, polling, outcome>>

----------------------------------------------------------------------------
(* The upload                                                              *)

\* What cliUtils.confirmation makes of an answer
Replies == {"yes", "no", "other"}

Post == phase' = "uploading" /\ upload' = "sent"

OnZip ==
  /\ phase = "zipping"
  /\ IF project.zipSizeConfirmation THEN phase' = "confirming" /\ UNCHANGED upload ELSE Post
  /\ UNCHANGED <<project, packing, log, polling, outcome>>

OnAnswer(answer) ==
  /\ phase = "confirming"
  /\ IF answer = "yes" THEN Post /\ UNCHANGED outcome ELSE Ends("exited") /\ UNCHANGED upload
  /\ UNCHANGED <<project, packing, log, polling>>

\* loadNextStatus asks for the messages it has not seen
LoadNextStatus == phase' = "polling" /\ poll' = "sent"

OnUploaded ==
  /\ phase = "uploading"
  /\ \/ upload = "refused" /\ Ends("failed") /\ UNCHANGED poll
     \/ upload = "accepted" /\ LoadNextStatus /\ UNCHANGED outcome
  /\ UNCHANGED <<project, packing, upload, log, page, loaded, shown, failed>>

----------------------------------------------------------------------------
(* The status                                                              *)

HasError(messages) == \E i \in DOMAIN messages : messages[i].error
IsLast(messages) == messages # <<>> /\ messages[Len(messages)].end

\* The promise of the progress settles, or the next request is made later
Settle(messages, hasFailed) ==
  IF IsLast(messages)
  THEN Ends(IF hasFailed THEN "failed" ELSE "published")
  ELSE phase' = "waiting" /\ UNCHANGED outcome

\* Mutant of OnStatus: only the last page decides
OnStatusForgetting ==
  /\ phase = "polling" /\ poll = "answered"
  /\ poll' = "none" /\ page' = <<>>
  /\ loaded' = loaded + Len(page) /\ shown' = shown \o page
  /\ failed' = HasError(page)
  /\ Settle(page, failed')
  /\ UNCHANGED <<project, packing, upload, log>>

OnStatus ==
  /\ phase = "polling" /\ poll = "answered"
  /\ poll' = "none" /\ page' = <<>>
  /\ loaded' = loaded + Len(page) /\ shown' = shown \o page
  /\ failed' = (failed \/ HasError(page))
  /\ Settle(page, failed')
  /\ UNCHANGED <<project, packing, upload, log>>

\* Nobody waits for the promise of loadNextStatus: when its request fails the
\* error is logged, nothing is pending any more, and the process ends
OnStatusLost ==
  /\ phase = "polling" /\ poll = "lost"
  /\ Ends("silent")
  /\ UNCHANGED <<project, packing, upload, log, polling>>

\* Mutant of OnCheckInterval: the end is not looked for again
OnCheckIntervalOnce ==
  /\ phase = "waiting" /\ log = <<>>
  /\ LoadNextStatus
  /\ UNCHANGED <<project, packing, upload, log, page, loaded, shown, failed, outcome>>

OnCheckInterval ==
  /\ phase = "waiting"
  /\ LoadNextStatus
  /\ UNCHANGED <<project, packing, upload, log, page, loaded, shown, failed, outcome>>

----------------------------------------------------------------------------
(* The server                                                              *)

ServeUpload ==
  /\ upload = "sent"
  /\ upload' \in {"accepted", "refused"}
  /\ UNCHANGED <<project, phase, packing, log, polling, outcome>>

\* The deployment goes on; its last message says that it has finished
Log(message) ==
  /\ upload = "accepted" /\ Len(log) < MaxLog
  /\ ~IsLast(log)
  /\ log' = Append(log, message)
  /\ UNCHANGED <<project, phase, packing, upload, polling, outcome>>

\* A page of the log as it is when the server answers, or an error
ServeStatus ==
  /\ poll = "sent"
  /\ \/ poll' = "lost" /\ UNCHANGED page
     \/ /\ poll' = "answered"
        /\ page' = SubSeq(log, loaded + 1, LET last == loaded + PageSize IN
                                           IF last < Len(log) THEN last ELSE Len(log))
  /\ UNCHANGED <<project, phase, packing, upload, log, loaded, shown, failed, outcome>>

PublishServer == ServeUpload \/ ServeStatus \/ \E message \in Messages : Log(message)

\* SIGINT or SIGTERM: this runner has no stop(), the handler exits at once
Terminate ==
  /\ phase \in Awaiting
  /\ Ends("exited")
  /\ UNCHANGED <<project, packing, upload, log, polling>>

Publish ==
  \/ BuildModel \/ AddDependency \/ StartZip \/ ExpandPattern \/ GenerateZip
  \/ OnZip \/ OnUploaded \/ OnStatus \/ OnStatusLost \/ OnCheckInterval

PublishNext ==
  \/ Publish
  \/ \E answer \in Replies : OnAnswer(answer)
  \/ Terminate
  \/ PublishServer

PublishSpec == PublishInit /\ [][PublishNext]_publishVars

----------------------------------------------------------------------------
(* Properties                                                              *)

\* The variables of the deployment keep their types.
PublishTypeOK ==
  /\ project \in Projects
  /\ phase \in Awaiting \cup {"idle", "collecting", "expanding", "over"}
  /\ out \in Seq(Packages) /\ todo \in Seq(Packages)
  /\ patterns \in Seq(Patterns)
  /\ archive \subseteq project.files
  /\ upload \in {"none", "sent", "accepted", "refused"}
  /\ log \in Seq(Messages) /\ page \in Seq(Messages) /\ shown \in Seq(Messages)
  /\ poll \in {"none", "sent", "answered", "lost"}
  /\ loaded \in Nat /\ failed \in BOOLEAN
  /\ outcome \in {"none", "published", "failed", "silent", "exited"}

IsZipped == phase \in Awaiting \/ upload # "none"

Names(s) == {s[i] : i \in DOMAIN s}

\* Node looks a package up in the innermost node_modules first
Lookup(dir, n) ==
  LET found == {k \in 0 .. Len(dir) : Append(SubSeq(dir, 1, k), n) \in DOMAIN project.needs}
      innermost == CHOOSE k \in found : \A j \in found : j <= k
  IN  IF found = {} THEN <<>> ELSE Append(SubSeq(dir, 1, innermost), n)

\* The directories that hold what the project needs, as node resolves it
NeedsIn(dir) ==
  IF dir = <<>> /\ project.manifest # "read" THEN {} ELSE Names(project.needs[dir]) \ ExcludeModules
IsClosedDirs(D) == <<>> \in D /\ \A d \in D : \A n \in NeedsIn(d) : Lookup(d, n) \in D
NeededDirs == {d \in DOMAIN project.needs : \A D \in SUBSET DOMAIN project.needs : IsClosedDirs(D) => d \in D}

IsExcluded(f) ==
  \/ f.dir = <<>> /\ f.name = "deploy.zip"
  \/ \E i \in DOMAIN project.exclude : Matches(project.exclude[i], f)

\* No package has a node_modules of its own
IsFlat == \A d \in DOMAIN project.needs : Len(d) <= 1

\* The zip that is sent holds the project's own files, and neither an earlier
\* deploy.zip nor what the config excludes, even where a dependency would bring it in.
\* Of a flat node_modules it holds exactly the packages that node finds from the
\* project on: cyclic and shared dependencies are followed once and to the end, and
\* packages that only something else has installed stay out.
ZipIsExact ==
  LET needed == {d[1] : d \in NeededDirs \ {<<>>}}
  IN  IsZipped =>
        /\ \A f \in archive : ~IsExcluded(f)
        /\ \A f \in project.files : f.dir = <<>> /\ ~IsExcluded(f) => f \in archive
        /\ IsFlat => \A f \in project.files :
             f.dir # <<>> /\ ~IsExcluded(f) => (f \in archive <=> f.dir[1] \in needed)

\* What is printed is the server's log, each message once and in order, however
\* the pages and the log's growth fall together; and what the command reports
\* of a deployment that has ended is what its whole log says.
ReportIsTrue ==
  /\ shown = SubSeq(log, 1, loaded)
  /\ outcome = "published" => IsLast(log) /\ ~HasError(log)
  /\ outcome = "failed" /\ upload = "accepted" => IsLast(log) /\ HasError(log)

\* A deployment that has ended on the server is reported, unless a status
\* request failed: then the command ends without a word.
EndIsReported == IsLast(log) /\ outcome = "none" ~> outcome \in {"published", "failed", "silent", "exited"}

\* docs/Troubleshooting.md: the deployment includes all non-dev dependencies
\* from node_modules.
DependenciesIncluded ==
  IsZipped /\ project.manifest = "read" /\ project.exclude = <<>> =>
    \A f \in project.files : f.dir \in NeededDirs /\ f.dir # <<>> => f \in archive

=============================================================================
