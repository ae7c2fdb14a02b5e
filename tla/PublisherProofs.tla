-------------------------- MODULE PublisherProofs --------------------------
(* Proofs about Publisher: types, the zip, and the report of a deployment   *)
EXTENDS Publisher, SequenceTheorems, TLAPS

LEMMA FunctionIsSeq ==
  ASSUME NEW S, NEW n \in Nat, NEW f \in [1 .. n -> S]
  PROVE  f \in Seq(S) /\ Len(f) = n
<1>1. f \in Seq(S)
  BY SeqDef
<1> QED
  BY <1>1

LEMMA TripleIsSeq ==
  ASSUME NEW S, NEW a \in S, NEW b \in S, NEW c \in S
  PROVE  /\ <<a, b, c>> \in Seq(S) /\ Len(<<a, b, c>>) = 3
         /\ <<a, b, c>>[1] = a /\ <<a, b, c>>[2] = b /\ <<a, b, c>>[3] = c
  OBVIOUS

LEMMA ProjectFacts ==
  ASSUME project \in Projects
  PROVE  /\ project.manifest \in Manifests
         /\ DOMAIN project.needs \subseteq Seq(Packages) /\ <<>> \in DOMAIN project.needs
         /\ \A d \in DOMAIN project.needs : project.needs[d] \in Seq(Packages)
         /\ project.files \subseteq Files
         /\ \A f \in project.files : f.dir \in DOMAIN project.needs
         /\ project.exclude \in Seq(Patterns)
         /\ \A i \in DOMAIN project.exclude : project.exclude[i].negated
  BY PublisherAssumption DEF IsProject

LEMMA NeedsOfType ==
  ASSUME project \in Projects, NEW n
  PROVE  NeedsOf(n) \in Seq(Packages)
  BY ProjectFacts DEF NeedsOf

LEMMA AllPatternsType ==
  ASSUME project \in Projects, out \in Seq(Packages)
  PROVE  /\ BasePatterns \in Seq(Patterns) /\ DependencyPatterns \in Seq(Patterns)
         /\ BasePatterns \o DependencyPatterns \o project.exclude \in Seq(Patterns)
<1>1. BasePatterns \in Seq(Patterns)
  <2>1. AllFiles \in Patterns /\ NotModules \in Patterns
    BY DEF AllFiles, NotModules, Patterns
  <2>2. File(TRUE, "deploy.zip") \in [negated : BOOLEAN, glob : {"file"}, name : FileNames]
    BY PublisherAssumption DEF File
  <2>3. File(TRUE, "deploy.zip") \in Patterns
    BY <2>2 DEF Patterns
  <2> QED
    BY <2>1, <2>3, TripleIsSeq, Zenon DEF BasePatterns
<1>2. DependencyPatterns \in Seq(Patterns)
  <2>1. DOMAIN out = 1 .. Len(out) /\ Len(out) \in Nat
    BY LenProperties
  <2>2. ASSUME NEW i \in 1 .. Len(out)
        PROVE  Module(FALSE, out[i]) \in Patterns
    <3>1. out[i] \in Packages
      BY ElementOfSeq
    <3>2. Module(FALSE, out[i]) \in [negated : BOOLEAN, glob : {"module"}, name : Packages]
      BY <3>1 DEF Module
    <3> QED
      BY <3>2 DEF Patterns
  <2>3. DependencyPatterns \in [1 .. Len(out) -> Patterns]
    BY <2>1, <2>2, Zenon DEF DependencyPatterns
  <2> QED
    BY <2>1, <2>3, FunctionIsSeq
<1>3. BasePatterns \o DependencyPatterns \in Seq(Patterns)
  BY <1>1, <1>2, ConcatProperties
<1> QED
  BY <1>1, <1>2, <1>3, ProjectFacts, ConcatProperties

\* Every step of the deployment keeps the types.
LEMMA PublishTypeStep ==
  ASSUME PublishTypeOK, [PublishNext]_publishVars
  PROVE  PublishTypeOK'
<1> USE DEF PublishTypeOK, Awaiting
<1>1. CASE BuildModel
  BY <1>1, ProjectFacts DEF BuildModel, Ends, polling
<1>2. CASE AddDependency
  <2>1. Head(todo) \in Packages /\ Tail(todo) \in Seq(Packages)
    BY <1>2, HeadTailProperties DEF AddDependency
  <2>2. NeedsOf(Head(todo)) \in Seq(Packages)
    BY NeedsOfType
  <2>3. NeedsOf(Head(todo)) \o Tail(todo) \in Seq(Packages)
    BY <2>1, <2>2, ConcatProperties
  <2>4. Append(out, Head(todo)) \in Seq(Packages)
    BY <2>1
  <2>5. out' \in Seq(Packages) /\ todo' \in Seq(Packages)
    BY <1>2, <2>1, <2>3, <2>4 DEF AddDependency
  <2> QED
    BY <1>2, <2>5 DEF AddDependency, polling
<1>3. CASE StartZip
  BY <1>3, AllPatternsType DEF StartZip, polling
<1>4. CASE ExpandPattern
  BY <1>4 DEF ExpandPattern, polling
<1>5. CASE GenerateZip \/ OnZip \/ OnUploaded \/ \E answer \in Replies : OnAnswer(answer)
  BY <1>5 DEF GenerateZip, OnZip, OnUploaded, OnAnswer, Post, Ends, LoadNextStatus, packing, polling
<1>6. CASE OnStatus
  <2>1. loaded' \in Nat /\ shown' \in Seq(Messages) /\ page' \in Seq(Messages)
    BY <1>6 DEF OnStatus
  <2>2. failed' \in BOOLEAN
    BY <1>6 DEF OnStatus
  <2>3. /\ phase' \in Awaiting \cup {"idle", "collecting", "expanding", "over"}
        /\ outcome' \in {"none", "published", "failed", "silent", "exited"}
    BY <1>6 DEF OnStatus, Settle, Ends
  <2> QED
    BY <1>6, <2>1, <2>2, <2>3 DEF OnStatus, packing
<1>7. CASE OnStatusLost \/ OnCheckInterval \/ Terminate \/ ServeUpload
  BY <1>7 DEF OnStatusLost, OnCheckInterval, Terminate, ServeUpload, Ends, LoadNextStatus, packing, polling
<1>8. CASE ServeStatus
  <2>1. SubSeq(log, loaded + 1, IF loaded + PageSize < Len(log) THEN loaded + PageSize ELSE Len(log))
          \in Seq(Messages)
    BY PublisherAssumption
  <2>2. page' \in Seq(Messages) /\ poll' \in {"none", "sent", "answered", "lost"}
    BY <1>8, <2>1 DEF ServeStatus
  <2> QED
    BY <1>8, <2>2 DEF ServeStatus, packing
<1>9. CASE \E message \in Messages : Log(message)
  BY <1>9 DEF Log, packing, polling
<1>10. CASE UNCHANGED publishVars
  BY <1>10 DEF publishVars, packing, polling
<1> QED
  BY <1>1, <1>2, <1>3, <1>4, <1>5, <1>6, <1>7, <1>8, <1>9, <1>10 DEF PublishNext, Publish, PublishServer

LEMMA PublishTypeInit == PublishInit => PublishTypeOK
<1>1. <<>> \in Seq(Packages) /\ <<>> \in Seq(Patterns) /\ <<>> \in Seq(Messages)
  BY EmptySeq
<1> QED
  <2>1. SUFFICES ASSUME PublishInit PROVE PublishTypeOK
    OBVIOUS
  <2>2. /\ project \in Projects /\ out \in Seq(Packages) /\ todo \in Seq(Packages)
        /\ patterns \in Seq(Patterns) /\ archive \subseteq project.files
        /\ log \in Seq(Messages) /\ page \in Seq(Messages) /\ shown \in Seq(Messages)
    BY <1>1, <2>1, Zenon DEF PublishInit
  <2>3. phase = "idle" /\ upload = "none" /\ poll = "none" /\ outcome = "none" /\ loaded \in Nat /\ failed \in BOOLEAN
    BY <2>1 DEF PublishInit
  <2> QED
    BY <2>2, <2>3 DEF PublishTypeOK, Awaiting

\* The variables of the deployment keep their types, for every project.
THEOREM PublishTypeCorrect == PublishSpec => []PublishTypeOK
<1>1. PublishTypeOK /\ [PublishNext]_publishVars => PublishTypeOK'
  BY PublishTypeStep
<1> QED
  BY <1>1, PublishTypeInit, PTL DEF PublishSpec

----------------------------------------------------------------------------
(* The dependencies that are collected                                     *)

LEMMA NamesOfConcat ==
  ASSUME NEW S, NEW s \in Seq(S), NEW t \in Seq(S)
  PROVE  Names(s \o t) = Names(s) \cup Names(t)
<1>1. DOMAIN s = 1 .. Len(s) /\ DOMAIN t = 1 .. Len(t) /\ Len(s) \in Nat /\ Len(t) \in Nat
  BY LenProperties
<1>2. DOMAIN (s \o t) = 1 .. Len(s) + Len(t)
  BY <1>1, ConcatProperties, LenProperties
<1>3. \A i \in 1 .. Len(s) + Len(t) : (s \o t)[i] = IF i <= Len(s) THEN s[i] ELSE t[i - Len(s)]
  BY ConcatProperties
<1>4. ASSUME NEW n \in Names(s \o t)
      PROVE  n \in Names(s) \cup Names(t)
  <2>1. PICK i \in 1 .. Len(s) + Len(t) : n = (s \o t)[i]
    BY <1>2, <1>4 DEF Names
  <2>2. CASE i <= Len(s)
    BY <1>1, <1>3, <2>1, <2>2 DEF Names
  <2>3. CASE ~(i <= Len(s))
    <3>1. i - Len(s) \in 1 .. Len(t) /\ n = t[i - Len(s)]
      BY <1>1, <1>3, <2>1, <2>3
    <3> QED
      BY <1>1, <3>1 DEF Names
  <2> QED
    BY <2>2, <2>3
<1>5. ASSUME NEW n \in Names(s)
      PROVE  n \in Names(s \o t)
  <2>1. PICK i \in 1 .. Len(s) : n = s[i]
    BY <1>1, <1>5 DEF Names
  <2>2. i \in 1 .. Len(s) + Len(t) /\ (s \o t)[i] = n
    BY <1>1, <1>3, <2>1
  <2> QED
    BY <1>2, <2>2 DEF Names
<1>6. ASSUME NEW n \in Names(t)
      PROVE  n \in Names(s \o t)
  <2>1. PICK i \in 1 .. Len(t) : n = t[i]
    BY <1>1, <1>6 DEF Names
  <2>2. i + Len(s) \in 1 .. Len(s) + Len(t) /\ (s \o t)[i + Len(s)] = n
    BY <1>1, <1>3, <2>1
  <2> QED
    BY <1>2, <2>2 DEF Names
<1> QED
  BY <1>4, <1>5, <1>6

LEMMA NamesOfAppend ==
  ASSUME NEW S, NEW s \in Seq(S), NEW x \in S
  PROVE  Names(Append(s, x)) = Names(s) \cup {x}
<1>1. /\ DOMAIN s = 1 .. Len(s) /\ Len(s) \in Nat
      /\ DOMAIN Append(s, x) = 1 .. Len(s) + 1
      /\ \A i \in 1 .. Len(s) + 1 : Append(s, x)[i] = IF i = Len(s) + 1 THEN x ELSE s[i]
  BY LenProperties
<1>2. Len(s) + 1 \in DOMAIN Append(s, x) /\ Append(s, x)[Len(s) + 1] = x
  BY <1>1
<1>3. \A n \in Names(Append(s, x)) : n \in Names(s) \cup {x}
  BY <1>1 DEF Names
<1>4. \A n \in Names(s) : n \in Names(Append(s, x))
  BY <1>1 DEF Names
<1>5. x \in Names(Append(s, x))
  BY <1>2 DEF Names
<1> QED
  BY <1>3, <1>4, <1>5

LEMMA NamesOfHeadTail ==
  ASSUME NEW S, NEW s \in Seq(S), s # <<>>
  PROVE  Names(s) = {Head(s)} \cup Names(Tail(s))
<1>1. DOMAIN s = 1 .. Len(s) /\ Len(s) \in Nat \ {0}
  BY LenProperties, EmptySeq
<1>2. /\ DOMAIN Tail(s) = 1 .. Len(s) - 1
      /\ \A i \in 1 .. Len(s) - 1 : Tail(s)[i] = s[i + 1]
  BY <1>1, HeadTailProperties, LenProperties
<1>3. Head(s) = s[1]
  OBVIOUS
<1>4. ASSUME NEW n \in Names(s)
      PROVE  n \in {Head(s)} \cup Names(Tail(s))
  <2>1. PICK i \in 1 .. Len(s) : n = s[i]
    BY <1>1, <1>4 DEF Names
  <2>2. CASE i = 1
    BY <1>3, <2>1, <2>2
  <2>3. CASE i # 1
    <3>1. i - 1 \in 1 .. Len(s) - 1 /\ Tail(s)[i - 1] = n
      BY <1>1, <1>2, <2>1, <2>3
    <3> QED
      BY <1>2, <3>1 DEF Names
  <2> QED
    BY <2>2, <2>3
<1>5. Head(s) \in Names(s)
  BY <1>1, <1>3 DEF Names
<1>6. ASSUME NEW n \in Names(Tail(s))
      PROVE  n \in Names(s)
  <2>1. PICK i \in 1 .. Len(s) - 1 : n = Tail(s)[i]
    BY <1>2, <1>6 DEF Names
  <2>2. i + 1 \in 1 .. Len(s) /\ s[i + 1] = n
    BY <1>1, <1>2, <2>1
  <2> QED
    BY <1>1, <2>2 DEF Names
<1> QED
  BY <1>4, <1>5, <1>6

LEMMA NamesAreElements ==
  ASSUME NEW S, NEW s \in Seq(S)
  PROVE  Names(s) \subseteq S
  BY LenProperties, ElementOfSeq DEF Names

LEMMA NamesOfEmpty == Names(<<>>) = {}
  BY DEF Names

\* What addDependency reaches: the least set that is closed under the package.json
\* files at the root level of node_modules
Roots == IF project.manifest = "read" THEN Names(project.needs[<<>>]) \ ExcludeModules ELSE {}
IsClosed(S) == Roots \subseteq S /\ \A n \in S : Names(NeedsOf(n)) \ ExcludeModules \subseteq S
Reached == {n \in Packages : \A S \in SUBSET Packages : IsClosed(S) => n \in S}

\* Reached is closed under the dependencies, and in every set that is.
LEMMA ReachedIsClosed ==
  ASSUME project \in Projects
  PROVE  IsClosed(Reached)
<1>1. Roots \subseteq Packages
  BY ProjectFacts, NamesAreElements DEF Roots
<1>2. \A n : Names(NeedsOf(n)) \subseteq Packages
  BY NeedsOfType, NamesAreElements
<1>3. Roots \subseteq Reached
  BY <1>1 DEF Reached, IsClosed
<1>4. ASSUME NEW n \in Reached, NEW x \in Names(NeedsOf(n)) \ ExcludeModules
      PROVE  x \in Reached
  BY <1>2, <1>4 DEF Reached, IsClosed
<1> QED
  BY <1>3, <1>4 DEF IsClosed

LEMMA ReachedIsLeast ==
  ASSUME NEW S \in SUBSET Packages, IsClosed(S)
  PROVE  Reached \subseteq S
  BY DEF Reached

\* addDependency: what was found is reached, and whatever is reached was found
\* or is still to be visited from there
CollectInv ==
  /\ phase \in {"idle", "collecting"} => archive = {}
  /\ phase = "idle" => out = <<>>
  /\ phase = "collecting" =>
       /\ Names(out) \subseteq Reached
       /\ Names(todo) \ ExcludeModules \subseteq Reached
       /\ Roots \subseteq Names(out) \cup Names(todo)
       /\ \A n \in Names(out) :
            Names(NeedsOf(n)) \ ExcludeModules \subseteq Names(out) \cup Names(todo)
  /\ phase = "expanding" => Names(out) = Reached

LEMMA SameProject ==
  ASSUME project' = project
  PROVE  Roots' = Roots /\ Reached' = Reached /\ \A n : NeedsOf(n)' = NeedsOf(n)
<1>1. Roots' = Roots
  BY DEF Roots, Names
<1>2. \A n : NeedsOf(n)' = NeedsOf(n)
  BY DEF NeedsOf
<1>3. \A S : IsClosed(S)' <=> IsClosed(S)
  BY <1>1, <1>2 DEF IsClosed, Names
<1>4. Reached' = Reached
  BY <1>3 DEF Reached
<1> QED
  BY <1>1, <1>2, <1>4

LEMMA CollectInit == PublishInit => CollectInv
  BY DEF PublishInit, CollectInv

LEMMA CollectAddDependency ==
  ASSUME PublishTypeOK, CollectInv, AddDependency
  PROVE  CollectInv'
<1> DEFINE head == Head(todo)
<1>1. /\ out \in Seq(Packages) /\ todo \in Seq(Packages) /\ todo # <<>> /\ phase = "collecting"
      /\ project \in Projects /\ project' = project /\ phase' = phase /\ archive' = archive
  BY DEF PublishTypeOK, AddDependency, packing
<1>2. /\ Reached' = Reached /\ Roots' = Roots /\ \A n : NeedsOf(n)' = NeedsOf(n)
  BY <1>1, SameProject
<1>3. Names(todo) = {head} \cup Names(Tail(todo)) /\ head \in Packages /\ Tail(todo) \in Seq(Packages)
  BY <1>1, NamesOfHeadTail, HeadTailProperties
<1>4. /\ archive = {} /\ Names(out) \subseteq Reached /\ Names(todo) \ ExcludeModules \subseteq Reached
      /\ Roots \subseteq Names(out) \cup Names(todo)
      /\ \A n \in Names(out) :
           Names(NeedsOf(n)) \ ExcludeModules \subseteq Names(out) \cup Names(todo)
  BY <1>1 DEF CollectInv
<1>5. Names(out)' = Names(out') /\ Names(todo)' = Names(todo')
  BY DEF Names
<1>6. Roots \cap ExcludeModules = {}
  BY DEF Roots
<1>7. CASE head \in ExcludeModules \/ Listed(head)
  <2>1. out' = out /\ todo' = Tail(todo)
    BY <1>7 DEF AddDependency
  <2>2. head \in ExcludeModules \/ head \in Names(out)
    BY <1>7 DEF Listed, Names
  <2>3. /\ Names(todo') \ ExcludeModules \subseteq Reached
        /\ Roots \subseteq Names(out) \cup Names(todo')
        /\ \A n \in Names(out) :
             Names(NeedsOf(n)) \ ExcludeModules \subseteq Names(out) \cup Names(todo')
    BY <1>3, <1>4, <1>6, <2>1, <2>2
  <2>4. \A n : Names(NeedsOf(n))' = Names(NeedsOf(n))
    BY <1>2 DEF Names
  <2> QED
    BY <1>1, <1>2, <1>4, <1>5, <2>1, <2>3, <2>4 DEF CollectInv
<1>8. CASE ~(head \in ExcludeModules \/ Listed(head))
  <2>1. out' = Append(out, head) /\ todo' = NeedsOf(head) \o Tail(todo)
    BY <1>8 DEF AddDependency
  <2>2. Names(out') = Names(out) \cup {head}
    BY <1>1, <1>3, <2>1, NamesOfAppend
  <2>3. Names(todo') = Names(NeedsOf(head)) \cup Names(Tail(todo))
    <3>1. PICK s \in Seq(Packages) : s = NeedsOf(head)
      BY <1>1, NeedsOfType
    <3>2. PICK t \in Seq(Packages) : t = Tail(todo)
      BY <1>3
    <3>3. todo' = s \o t
      BY <2>1, <3>1, <3>2
    <3>4. Names(s \o t) = Names(s) \cup Names(t)
      BY NamesOfConcat
    <3> HIDE DEF head
    <3> QED
      BY <3>1, <3>2, <3>3, <3>4
  <2>4. head \in Reached
    BY <1>3, <1>4, <1>8
  <2>5. Names(NeedsOf(head)) \ ExcludeModules \subseteq Reached
    BY <1>1, <2>4, ReachedIsClosed DEF IsClosed
  <2>6. Names(out') \subseteq Reached /\ Names(todo') \ ExcludeModules \subseteq Reached
    BY <1>3, <1>4, <2>2, <2>3, <2>4, <2>5
  <2>7. Roots \subseteq Names(out') \cup Names(todo')
    BY <1>3, <1>4, <2>2, <2>3
  <2>8. ASSUME NEW n \in Names(out')
        PROVE  Names(NeedsOf(n)) \ ExcludeModules \subseteq Names(out') \cup Names(todo')
    <3>1. CASE n = head
      BY <2>3, <3>1
    <3>2. CASE n \in Names(out)
      BY <1>3, <1>4, <2>2, <2>3, <3>2
    <3> QED
      BY <2>2, <2>8, <3>1, <3>2
  <2>9. \A n : Names(NeedsOf(n))' = Names(NeedsOf(n))
    BY <1>2 DEF Names
  <2> QED
    BY <1>1, <1>2, <1>4, <1>5, <2>6, <2>7, <2>8, <2>9 DEF CollectInv
<1> QED
  BY <1>7, <1>8

LEMMA CollectStep ==
  ASSUME PublishTypeOK, CollectInv, [PublishNext]_publishVars
  PROVE  CollectInv'
<1>1. CASE BuildModel
  <2>1. phase = "idle" /\ out' = out /\ archive' = archive /\ project' = project /\ out = <<>> /\ archive = {}
    BY <1>1 DEF BuildModel, CollectInv
  <2>2. CASE phase' = "over"
    BY <2>2 DEF CollectInv
  <2>3. CASE phase' # "over"
    <3>1. /\ phase' = "collecting"
          /\ todo' = IF project.manifest = "read" THEN project.needs[<<>>] ELSE <<>>
      BY <1>1, <2>3 DEF BuildModel, Ends
    <3>2. Names(out') = {}
      BY <2>1, NamesOfEmpty
    <3>3. Roots = Names(todo') \ ExcludeModules
      BY <3>1, NamesOfEmpty DEF Roots
    <3>4. Roots \subseteq Reached
      BY ReachedIsClosed DEF PublishTypeOK, IsClosed
    <3>5. Reached' = Reached /\ Roots' = Roots
      BY <2>1, SameProject
    <3>6. Names(out)' = Names(out') /\ Names(todo)' = Names(todo')
      BY DEF Names
    <3> QED
      BY <2>1, <3>1, <3>2, <3>3, <3>4, <3>5, <3>6 DEF CollectInv
  <2> QED
    BY <2>2, <2>3
<1>2. CASE AddDependency
  BY <1>2, CollectAddDependency
<1>3. CASE StartZip
  <2>1. phase = "collecting" /\ todo = <<>> /\ phase' = "expanding" /\ out' = out /\ project' = project
    BY <1>3 DEF StartZip
  <2>2. Names(out) \subseteq Reached /\ IsClosed(Names(out))
    BY <2>1, NamesOfEmpty DEF CollectInv, IsClosed
  <2>3. Names(out) \subseteq Packages
    BY NamesAreElements DEF PublishTypeOK
  <2>4. Names(out) = Reached
    BY <2>2, <2>3, ReachedIsLeast
  <2>5. Reached' = Reached /\ Names(out)' = Names(out)
    BY <2>1, SameProject DEF Names
  <2> QED
    BY <2>1, <2>4, <2>5 DEF CollectInv
<1>4. CASE ExpandPattern
  <2>1. phase = "expanding" /\ phase' = phase /\ out' = out /\ project' = project
    BY <1>4 DEF ExpandPattern
  <2>2. Reached' = Reached /\ Names(out)' = Names(out)
    BY <2>1, SameProject DEF Names
  <2> QED
    BY <2>1, <2>2 DEF CollectInv
<1>5. CASE GenerateZip \/ OnZip \/ OnUploaded \/ \E answer \in Replies : OnAnswer(answer)
  <2>1. phase' \notin {"idle", "collecting", "expanding"}
    BY <1>5 DEF GenerateZip, OnZip, OnUploaded, OnAnswer, Post, Ends, LoadNextStatus
  <2> QED
    BY <2>1 DEF CollectInv
<1>6. CASE OnStatus \/ OnStatusLost \/ OnCheckInterval \/ Terminate
  <2>1. phase' \notin {"idle", "collecting", "expanding"}
    BY <1>6 DEF OnStatus, OnStatusLost, OnCheckInterval, Terminate, Settle, Ends, LoadNextStatus
  <2> QED
    BY <2>1 DEF CollectInv
<1>7. CASE PublishServer \/ UNCHANGED publishVars
  <2>1. phase' = phase /\ out' = out /\ todo' = todo /\ archive' = archive /\ project' = project
    BY <1>7 DEF PublishServer, ServeUpload, ServeStatus, Log, publishVars, packing
  <2>2. Reached' = Reached /\ Roots' = Roots /\ \A n : NeedsOf(n)' = NeedsOf(n)
    BY <2>1, SameProject
  <2>3. Names(out)' = Names(out) /\ Names(todo)' = Names(todo) /\ \A n : Names(NeedsOf(n))' = Names(NeedsOf(n))
    BY <2>1, <2>2 DEF Names
  <2> QED
    BY <2>1, <2>2, <2>3 DEF CollectInv
<1> QED
  BY <1>1, <1>2, <1>3, <1>4, <1>5, <1>6, <1>7 DEF PublishNext, Publish

----------------------------------------------------------------------------
(* The archive                                                             *)

All == BasePatterns \o DependencyPatterns \o project.exclude

\* The file is in the archive once the first k patterns were expanded: one of
\* them brings it in and none after that takes it out
Taken(k, f) ==
  \E i \in 1 .. k :
    /\ ~All[i].negated /\ Matches(All[i], f)
    /\ \A j \in i + 1 .. k : ~(All[j].negated /\ Matches(All[j], f))

LEMMA AllFacts ==
  ASSUME project \in Projects, out \in Seq(Packages)
  PROVE  LET m == Len(out)
             n == Len(project.exclude)
         IN  /\ m \in Nat /\ n \in Nat
             /\ All \in Seq(Patterns) /\ Len(All) = 3 + m + n
             /\ All[1] = AllFiles /\ All[2] = NotModules /\ All[3] = File(TRUE, "deploy.zip")
             /\ \A i \in 1 .. m : All[3 + i] = Module(FALSE, out[i])
             /\ \A i \in 1 .. n : All[3 + m + i] = project.exclude[i]
<1> DEFINE m == Len(out)
           n == Len(project.exclude)
           BD == BasePatterns \o DependencyPatterns
<1>1. m \in Nat /\ n \in Nat /\ DOMAIN out = 1 .. m /\ project.exclude \in Seq(Patterns)
  BY ProjectFacts, LenProperties
<1>2. /\ BasePatterns \in Seq(Patterns) /\ DependencyPatterns \in Seq(Patterns)
      /\ All \in Seq(Patterns)
  BY AllPatternsType DEF All
<1>3. /\ Len(BasePatterns) = 3 /\ BasePatterns[1] = AllFiles /\ BasePatterns[2] = NotModules
      /\ BasePatterns[3] = File(TRUE, "deploy.zip")
  BY DEF BasePatterns
<1>4. Len(DependencyPatterns) = m /\ \A i \in 1 .. m : DependencyPatterns[i] = Module(FALSE, out[i])
  <2>1. DOMAIN DependencyPatterns = 1 .. m
    BY <1>1 DEF DependencyPatterns
  <2>2. Len(DependencyPatterns) = m
    BY <1>1, <1>2, <2>1, LenProperties
  <2> QED
    BY <1>1, <2>2 DEF DependencyPatterns
<1>5. /\ BD \in Seq(Patterns) /\ Len(BD) = 3 + m
      /\ \A i \in 1 .. 3 + m : BD[i] = IF i <= 3 THEN BasePatterns[i] ELSE DependencyPatterns[i - 3]
  <2>1. /\ BD \in Seq(Patterns)
        /\ Len(BD) = Len(BasePatterns) + Len(DependencyPatterns)
        /\ \A i \in 1 .. Len(BasePatterns) + Len(DependencyPatterns) :
             BD[i] = IF i <= Len(BasePatterns) THEN BasePatterns[i] ELSE DependencyPatterns[i - Len(BasePatterns)]
    BY <1>2, ConcatProperties, Zenon
  <2> HIDE DEF m, BD
  <2> QED
    BY <1>3, <1>4, <2>1
<1>6. /\ Len(All) = 3 + m + n
      /\ \A i \in 1 .. 3 + m + n : All[i] = IF i <= 3 + m THEN BD[i] ELSE project.exclude[i - (3 + m)]
  <2>1. All = BD \o project.exclude
    BY DEF All
  <2>2. /\ Len(All) = Len(BD) + n
        /\ \A i \in 1 .. Len(BD) + n :
             All[i] = IF i <= Len(BD) THEN BD[i] ELSE project.exclude[i - Len(BD)]
    BY <1>1, <1>5, <2>1, ConcatProperties, Zenon
  <2> HIDE DEF BD, m, n
  <2> QED
    BY <1>5, <2>2
<1> HIDE DEF m, n, BD
<1>7. All[1] = AllFiles /\ All[2] = NotModules /\ All[3] = File(TRUE, "deploy.zip")
  <2>1. \A i \in {1, 2, 3} : i \in 1 .. 3 + m /\ i \in 1 .. 3 + m + n /\ i <= 3 /\ i <= 3 + m
    BY <1>1
  <2>2. ASSUME NEW i \in {1, 2, 3}
        PROVE  All[i] = BasePatterns[i]
    <3>1. All[i] = BD[i]
      BY <1>6, <2>1
    <3>2. BD[i] = BasePatterns[i]
      BY <1>5, <2>1
    <3> QED
      BY <3>1, <3>2
  <2> QED
    BY <1>3, <2>2, Zenon
<1>8. ASSUME NEW i \in 1 .. m
      PROVE  All[3 + i] = Module(FALSE, out[i])
  <2>1. /\ 3 + i \in 1 .. 3 + m /\ 3 + i \in 1 .. 3 + m + n /\ 3 + i <= 3 + m /\ ~(3 + i <= 3)
        /\ (3 + i) - 3 = i
    BY <1>1, <1>8
  <2>2. All[3 + i] = DependencyPatterns[i]
    BY <1>5, <1>6, <2>1, Zenon
  <2> QED
    BY <1>4, <1>8, <2>2, Zenon
<1>9. ASSUME NEW i \in 1 .. n
      PROVE  All[3 + m + i] = project.exclude[i]
  BY <1>1, <1>6, <1>9
<1> QED
  BY <1>1, <1>2, <1>6, <1>7, <1>8, <1>9 DEF m, n

LEMMA PatternFacts ==
  ASSUME NEW f
  PROVE  /\ AllFiles.negated = FALSE /\ Matches(AllFiles, f)
         /\ NotModules.negated = TRUE /\ (Matches(NotModules, f) <=> f.dir # <<>>)
         /\ File(TRUE, "deploy.zip").negated = TRUE
         /\ Matches(File(TRUE, "deploy.zip"), f) <=> f.dir = <<>> /\ f.name = "deploy.zip"
         /\ \A x : Module(FALSE, x).negated = FALSE
         /\ \A x : Matches(Module(FALSE, x), f) <=> f.dir # <<>> /\ f.dir[1] = x
<1>1. AllFiles.negated = FALSE /\ AllFiles.glob = "all"
  BY DEF AllFiles
<1>2. NotModules.negated = TRUE /\ NotModules.glob = "modules"
  BY DEF NotModules
<1>3. /\ File(TRUE, "deploy.zip").negated = TRUE /\ File(TRUE, "deploy.zip").glob = "file"
      /\ File(TRUE, "deploy.zip").name = "deploy.zip"
  BY DEF File
<1>4. ASSUME NEW x
      PROVE  /\ Module(FALSE, x).negated = FALSE /\ Module(FALSE, x).glob = "module"
             /\ Module(FALSE, x).name = x
  BY DEF Module
<1>5. Matches(AllFiles, f)
  BY <1>1 DEF Matches
<1>6. Matches(NotModules, f) <=> f.dir # <<>>
  BY <1>2 DEF Matches
<1>7. Matches(File(TRUE, "deploy.zip"), f) <=> f.dir = <<>> /\ f.name = "deploy.zip"
  BY <1>3 DEF Matches
<1>8. ASSUME NEW x
      PROVE  Matches(Module(FALSE, x), f) <=> f.dir # <<>> /\ f.dir[1] = x
  BY <1>4 DEF Matches
<1> QED
  BY <1>1, <1>2, <1>3, <1>4, <1>5, <1>6, <1>7, <1>8

IsReached(f) == (f.dir # <<>> => f.dir[1] \in Reached) /\ ~IsExcluded(f)

\* The zip, in terms of what addDependency reaches
ArchiveIsReached == IsZipped => archive = {f \in project.files : IsReached(f)}

\* After the last pattern the archive is what is reached and not excluded.
LEMMA AllTakenIsReached ==
  ASSUME project \in Projects, out \in Seq(Packages), Names(out) = Reached, NEW f
  PROVE  Taken(Len(All), f) <=> IsReached(f)
<1> DEFINE m == Len(out)
           n == Len(project.exclude)
<1>1. /\ m \in Nat /\ n \in Nat /\ Len(All) = 3 + m + n
      /\ All[1] = AllFiles /\ All[2] = NotModules /\ All[3] = File(TRUE, "deploy.zip")
      /\ \A i \in 1 .. m : All[3 + i] = Module(FALSE, out[i])
      /\ \A i \in 1 .. n : All[3 + m + i] = project.exclude[i]
      /\ DOMAIN out = 1 .. m /\ DOMAIN project.exclude = 1 .. n
      /\ \A i \in 1 .. n : project.exclude[i].negated
  BY AllFacts, ProjectFacts, LenProperties
<1> HIDE DEF m, n
<1>2. \A i \in 1 .. Len(All) :
        \/ i \in {1, 2, 3}
        \/ \E t \in 1 .. m : i = 3 + t
        \/ \E t \in 1 .. n : i = 3 + m + t
  <2>1. TAKE i \in 1 .. Len(All)
  <2>2. CASE i <= 3
    BY <1>1, <2>2
  <2>3. CASE i > 3 /\ i <= 3 + m
    <3>1. i - 3 \in 1 .. m /\ i = 3 + (i - 3)
      BY <1>1, <2>3
    <3> QED
      BY <3>1
  <2>4. CASE i > 3 + m
    <3>1. i - (3 + m) \in 1 .. n /\ i = 3 + m + (i - (3 + m))
      BY <1>1, <2>4
    <3> QED
      BY <3>1
  <2> QED
    BY <1>1, <2>2, <2>3, <2>4
<1>3. ASSUME Taken(Len(All), f)
      PROVE  IsReached(f)
  <2>1. PICK i \in 1 .. Len(All) :
          /\ ~All[i].negated /\ Matches(All[i], f)
          /\ \A j \in i + 1 .. Len(All) : ~(All[j].negated /\ Matches(All[j], f))
    BY <1>3 DEF Taken
  <2>2. \A t \in 1 .. n : i # 3 + m + t
    BY <1>1, <2>1
  <2>3. \A t \in 1 .. n : ~Matches(project.exclude[t], f)
    <3>1. i <= 3 + m
      BY <1>1, <1>2, <2>1, <2>2
    <3>2. ASSUME NEW t \in 1 .. n
          PROVE  3 + m + t \in i + 1 .. Len(All)
      BY <1>1, <3>1, <3>2
    <3> QED
      BY <1>1, <2>1, <3>2
  <2>4. CASE i = 1
    <3>1. 2 \in i + 1 .. Len(All) /\ 3 \in i + 1 .. Len(All)
      BY <1>1, <2>4
    <3>2. ~Matches(NotModules, f) /\ ~Matches(File(TRUE, "deploy.zip"), f)
      BY <1>1, <2>1, <3>1, PatternFacts
    <3> QED
      BY <1>1, <2>3, <3>2, PatternFacts DEF IsReached, IsExcluded
  <2>5. CASE i \in {2, 3}
    BY <1>1, <2>1, <2>5, PatternFacts
  <2>6. ASSUME NEW t \in 1 .. m, i = 3 + t
        PROVE  IsReached(f)
    <3>0. Matches(Module(FALSE, out[t]), f)
      BY <1>1, <2>1, <2>6
    <3>1. f.dir # <<>> /\ f.dir[1] = out[t]
      BY <3>0, PatternFacts, Zenon
    <3>2. out[t] \in Reached
      BY <1>1, <2>6 DEF Names
    <3> QED
      BY <1>1, <2>3, <3>1, <3>2 DEF IsReached, IsExcluded
  <2> QED
    BY <1>2, <2>1, <2>2, <2>4, <2>5, <2>6
<1>4. ASSUME IsReached(f)
      PROVE  Taken(Len(All), f)
  <2>1. \A t \in 1 .. n : ~Matches(All[3 + m + t], f)
    BY <1>1, <1>4 DEF IsReached, IsExcluded
  <2>2. ~Matches(All[3], f)
    BY <1>1, <1>4, PatternFacts DEF IsReached, IsExcluded
  <2>3. \A t \in 1 .. m : ~All[3 + t].negated
    BY <1>1, PatternFacts
  <2>4. CASE f.dir = <<>>
    <3>1. ~Matches(All[2], f) /\ ~All[1].negated /\ Matches(All[1], f)
      BY <1>1, <2>4, PatternFacts
    <3>2. ASSUME NEW j \in 2 .. Len(All)
          PROVE  ~(All[j].negated /\ Matches(All[j], f))
      <4>1. j \in 1 .. Len(All) /\ j # 1
        BY <1>1, <3>2
      <4> QED
        BY <1>2, <2>1, <2>2, <2>3, <3>1, <4>1
    <3>3. 1 \in 1 .. Len(All) /\ 1 + 1 = 2
      BY <1>1
    <3> QED
      BY <3>1, <3>2, <3>3 DEF Taken
  <2>5. CASE f.dir # <<>>
    <3>1. f.dir[1] \in Names(out)
      BY <1>4, <2>5 DEF IsReached, IsExcluded
    <3>2. PICK t \in 1 .. m : f.dir[1] = out[t]
      BY <1>1, <3>1 DEF Names
    <3>3. 3 + t \in 1 .. Len(All) /\ ~All[3 + t].negated /\ Matches(All[3 + t], f)
      <4>1. Matches(Module(FALSE, out[t]), f)
        BY <2>5, <3>2, PatternFacts, Zenon
      <4>2. 3 + t \in 1 .. Len(All)
        BY <1>1
      <4>3. All[3 + t] = Module(FALSE, out[t]) /\ ~All[3 + t].negated
        BY <1>1, <2>3, Zenon
      <4> QED
        BY <4>1, <4>2, <4>3, Zenon
    <3>4. ASSUME NEW j \in (3 + t) + 1 .. Len(All)
          PROVE  ~(All[j].negated /\ Matches(All[j], f))
      <4>1. j \in 1 .. Len(All) /\ j \notin {1, 2, 3}
        BY <1>1, <3>4
      <4> QED
        BY <1>2, <2>1, <2>3, <4>1
    <3> QED
      BY <3>3, <3>4 DEF Taken
  <2> QED
    BY <2>4, <2>5
<1> QED
  BY <1>3, <1>4

\* One more pattern
LEMMA TakenNext ==
  ASSUME NEW k \in Nat, NEW f
  PROVE  Taken(k + 1, f) <=>
           IF All[k + 1].negated THEN Taken(k, f) /\ ~Matches(All[k + 1], f)
                                 ELSE Taken(k, f) \/ Matches(All[k + 1], f)
<1> DEFINE a(i) == ~All[i].negated /\ Matches(All[i], f)
           b(i) == All[i].negated /\ Matches(All[i], f)
<1>1. \A n : Taken(n, f) <=> \E i \in 1 .. n : a(i) /\ \A j \in i + 1 .. n : ~b(j)
  BY DEF Taken
<1> HIDE DEF a, b
<1>2. Taken(k + 1, f) <=> a(k + 1) \/ (Taken(k, f) /\ ~b(k + 1))
  <2>1. ASSUME Taken(k + 1, f), ~a(k + 1)
        PROVE  Taken(k, f) /\ ~b(k + 1)
    <3>1. PICK i \in 1 .. k + 1 : a(i) /\ \A j \in i + 1 .. k + 1 : ~b(j)
      BY <1>1, <2>1
    <3>2. i \in 1 .. k
      BY <2>1, <3>1
    <3>3. k + 1 \in i + 1 .. k + 1 /\ \A j \in i + 1 .. k : j \in i + 1 .. k + 1
      BY <3>2
    <3> QED
      BY <1>1, <3>1, <3>2, <3>3
  <2>2. ASSUME a(k + 1)
        PROVE  Taken(k + 1, f)
    <3>1. k + 1 \in 1 .. k + 1 /\ (k + 1) + 1 .. k + 1 = {}
      OBVIOUS
    <3> QED
      BY <1>1, <2>2, <3>1
  <2>3. ASSUME Taken(k, f), ~b(k + 1)
        PROVE  Taken(k + 1, f)
    <3>1. PICK i \in 1 .. k : a(i) /\ \A j \in i + 1 .. k : ~b(j)
      BY <1>1, <2>3
    <3>2. i \in 1 .. k + 1 /\ \A j \in i + 1 .. k + 1 : j \in i + 1 .. k \/ j = k + 1
      BY <3>1
    <3> QED
      BY <1>1, <2>3, <3>1, <3>2
  <2> QED
    BY <2>1, <2>2, <2>3
<1> QED
  BY <1>2 DEF a, b

\* What is archived, phase by phase
ZipInv ==
  /\ phase = "expanding" =>
       \E k \in 0 .. Len(All) :
         /\ Len(patterns) = Len(All) - k
         /\ \A i \in 1 .. Len(patterns) : patterns[i] = All[k + i]
         /\ archive = {f \in project.files : Taken(k, f)}
  /\ phase \in {"idle", "collecting", "expanding"} => upload = "none"
  /\ ArchiveIsReached

LEMMA ZipInit == PublishInit => ZipInv
  BY DEF PublishInit, ZipInv, ArchiveIsReached, IsZipped, Awaiting

LEMMA SameAll ==
  ASSUME project' = project, out' = out
  PROVE  All' = All /\ \A k, f : Taken(k, f)' <=> Taken(k, f)
<1>1. All' = All
  BY DEF All, DependencyPatterns, BasePatterns, AllFiles, NotModules, File, Module
<1> QED
  BY <1>1 DEF Taken, Matches

LEMMA SameReached ==
  ASSUME project' = project
  PROVE  {f \in project.files : IsReached(f)}' = {f \in project.files : IsReached(f)}
  BY SameProject DEF IsReached, IsExcluded, Matches

LEMMA ZipStep ==
  ASSUME PublishTypeOK, CollectInv, ZipInv, [PublishNext]_publishVars
  PROVE  ZipInv'
<1> USE DEF Awaiting
<1>0. project \in Projects /\ out \in Seq(Packages) /\ patterns \in Seq(Patterns)
  BY DEF PublishTypeOK
<1>1. CASE BuildModel \/ AddDependency
  <2>1. phase \in {"idle", "collecting"} /\ phase' \in {"collecting", "over"} /\ upload' = upload
    BY <1>1 DEF BuildModel, AddDependency, Ends
  <2> QED
    BY <2>1 DEF ZipInv, ArchiveIsReached, IsZipped
<1>2. CASE StartZip
  <2>1. /\ phase = "collecting" /\ phase' = "expanding" /\ upload' = upload /\ archive' = archive
        /\ archive = {} /\ project' = project /\ out' = out /\ patterns' = All
    BY <1>2 DEF StartZip, CollectInv, All
  <2>2. Len(All) \in Nat /\ All' = All
    BY <1>0, <2>1, SameAll, AllFacts
  <2>3. \A f : ~Taken(0, f)
    BY DEF Taken
  <2>4. {f \in project.files : Taken(0, f)}' = {}
    BY <2>1, <2>3, SameAll
  <2>5. 0 \in 0 .. Len(All) /\ \A i \in 1 .. Len(All) : All[i] = All[0 + i]
    BY <2>2
  <2> QED
    BY <2>1, <2>2, <2>4, <2>5 DEF ZipInv, ArchiveIsReached, IsZipped
<1>3. CASE ExpandPattern
  <2>1. /\ phase = "expanding" /\ phase' = phase /\ upload' = upload /\ patterns # <<>>
        /\ project' = project /\ out' = out /\ patterns' = Tail(patterns)
    BY <1>3 DEF ExpandPattern
  <2>2. PICK k \in 0 .. Len(All) :
          /\ Len(patterns) = Len(All) - k
          /\ \A i \in 1 .. Len(patterns) : patterns[i] = All[k + i]
          /\ archive = {f \in project.files : Taken(k, f)}
    BY <2>1 DEF ZipInv
  <2>3. Len(All) \in Nat
    BY <1>0, AllFacts
  <2>4. Len(patterns) \in Nat \ {0} /\ Head(patterns) = patterns[1]
    BY <1>0, <2>1, EmptySeq
  <2>5. k \in Nat /\ k + 1 \in 0 .. Len(All) /\ Head(patterns) = All[k + 1]
    BY <2>2, <2>3, <2>4
  <2>6. archive' = {f \in project.files : Taken(k + 1, f)}
    <3>1. CASE Head(patterns).negated
      <4>1. archive' = archive \ {f \in project.files : Matches(Head(patterns), f)}
        BY <1>3, <3>1 DEF ExpandPattern
      <4>2. \A f : Taken(k + 1, f) <=> Taken(k, f) /\ ~Matches(Head(patterns), f)
        BY <2>5, <3>1, TakenNext
      <4> QED
        BY <2>2, <4>1, <4>2
    <3>2. CASE ~Head(patterns).negated
      <4>1. archive' = archive \cup {f \in project.files : Matches(Head(patterns), f)}
        BY <1>3, <3>2 DEF ExpandPattern
      <4>2. \A f : Taken(k + 1, f) <=> Taken(k, f) \/ Matches(Head(patterns), f)
        BY <2>5, <3>2, TakenNext
      <4> QED
        BY <2>2, <4>1, <4>2
    <3> QED
      BY <3>1, <3>2
  <2>7. {f \in project.files : Taken(k + 1, f)}' = {f \in project.files : Taken(k + 1, f)}
    BY <2>1, SameAll
  <2>8. /\ Len(patterns') = Len(All) - (k + 1)
        /\ \A i \in 1 .. Len(patterns') : patterns'[i] = All[(k + 1) + i]
    <3>1. /\ Len(patterns') = Len(patterns) - 1
          /\ \A i \in 1 .. Len(patterns') : patterns'[i] = patterns[i + 1]
      BY <1>0, <2>1, HeadTailProperties
    <3>2. \A i \in 1 .. Len(patterns') : i + 1 \in 1 .. Len(patterns) /\ k + (i + 1) = (k + 1) + i
      BY <2>4, <2>5, <3>1
    <3> QED
      BY <2>2, <2>3, <2>4, <3>1, <3>2
  <2>9. All' = All
    BY <2>1, SameAll
  <2>10. upload = "none"
    BY <2>1 DEF ZipInv
  <2> QED
    BY <2>1, <2>5, <2>6, <2>7, <2>8, <2>9, <2>10 DEF ZipInv, ArchiveIsReached, IsZipped
<1>4. CASE GenerateZip
  <2>1. /\ phase = "expanding" /\ phase' = "zipping" /\ patterns = <<>> /\ archive' = archive
        /\ project' = project
    BY <1>4 DEF GenerateZip, packing
  <2>2. PICK k \in 0 .. Len(All) :
          /\ Len(patterns) = Len(All) - k
          /\ archive = {f \in project.files : Taken(k, f)}
    BY <2>1 DEF ZipInv
  <2>3. Len(patterns) = 0 /\ Len(All) \in Nat
    BY <1>0, <2>1, AllFacts
  <2>4. k = Len(All)
    BY <2>2, <2>3
  <2>5. Names(out) = Reached
    BY <2>1 DEF CollectInv
  <2>6. \A f : Taken(k, f) <=> IsReached(f)
    BY <1>0, <2>4, <2>5, AllTakenIsReached
  <2>7. archive' = {f \in project.files : IsReached(f)}
    BY <2>1, <2>2, <2>6
  <2>8. archive' = {f \in project.files : IsReached(f)}'
    BY <2>1, <2>7, SameReached
  <2> QED
    BY <2>1, <2>8 DEF ZipInv, ArchiveIsReached
<1>5. CASE OnZip \/ OnUploaded \/ OnStatus \/ OnStatusLost \/ OnCheckInterval \/ Terminate
             \/ \E answer \in Replies : OnAnswer(answer)
  <2>1. phase \in Awaiting /\ phase' \in Awaiting \cup {"over"} /\ archive' = archive /\ project' = project
    BY <1>5 DEF OnZip, OnUploaded, OnAnswer, OnStatus, OnStatusLost, OnCheckInterval, Terminate,
                Post, Ends, LoadNextStatus, Settle, packing
  <2>2. archive' = {f \in project.files : IsReached(f)}'
    BY <2>1, SameReached DEF ZipInv, ArchiveIsReached, IsZipped
  <2> QED
    BY <2>1, <2>2 DEF ZipInv, ArchiveIsReached
<1>6. CASE PublishServer \/ UNCHANGED publishVars
  <2>1. /\ phase' = phase /\ archive' = archive /\ project' = project /\ out' = out /\ patterns' = patterns
        /\ upload' = upload \/ upload = "sent"
    BY <1>6 DEF PublishServer, ServeUpload, ServeStatus, Log, publishVars, packing
  <2>2. All' = All /\ \A k : {f \in project.files : Taken(k, f)}' = {f \in project.files : Taken(k, f)}
    BY <2>1, SameAll
  <2>3. phase \in {"idle", "collecting", "expanding"} => upload = "none" /\ upload' = "none"
    BY <2>1 DEF ZipInv
  <2>4. IsZipped' => IsZipped
    BY <2>1 DEF IsZipped
  <2>5. ArchiveIsReached'
    BY <2>1, <2>4, SameReached DEF ZipInv, ArchiveIsReached
  <2>6. ASSUME phase = "expanding"
        PROVE  \E k \in 0 .. Len(All) :
                 /\ Len(patterns) = Len(All) - k
                 /\ \A i \in 1 .. Len(patterns) : patterns[i] = All[k + i]
                 /\ archive = {f \in project.files : Taken(k, f)}
    BY <2>6 DEF ZipInv
  <2> QED
    BY <2>1, <2>2, <2>3, <2>5, <2>6 DEF ZipInv
<1> QED
  BY <1>1, <1>2, <1>3, <1>4, <1>5, <1>6 DEF PublishNext, Publish

(* What addDependency reaches is what node finds, when no package is nested *)

LEMMA ShortSequence ==
  ASSUME NEW S, NEW s \in Seq(S), s # <<>>, Len(s) <= 1
  PROVE  s[1] \in S /\ s = <<s[1]>>
<1>0. Len(s) \in Nat \ {0}
  BY EmptySeq, Zenon
<1>1. Len(s) = 1
  BY <1>0
<1>2. s[1] \in S
  BY <1>1, ElementOfSeq
<1>3. PICK x \in S : x = s[1]
  BY <1>2
<1>4. <<x>> \in Seq(S) /\ Len(<<x>>) = 1 /\ <<x>>[1] = x
  OBVIOUS
<1>5. \A i \in 1 .. Len(s) : s[i] = <<x>>[i]
  BY <1>1, <1>3, <1>4
<1>6. s = <<x>>
  BY <1>1, <1>4, <1>5, SeqEqual
<1> QED
  BY <1>2, <1>3, <1>6

\* The lookups from a directory that is not nested: at the root level, and in it
LEMMA ShortLookup ==
  ASSUME NEW S, NEW s \in Seq(S), Len(s) <= 1, NEW x \in S, NEW k \in 0 .. Len(s)
  PROVE  /\ k = 0 => Append(SubSeq(s, 1, k), x) = <<x>>
         /\ k = 0 \/ Len(Append(SubSeq(s, 1, k), x)) = 2
<1>1. Len(s) \in Nat /\ k \in Int /\ k \in {0, 1}
  BY LenProperties
<1>2. CASE k = 0
  <2>1. SubSeq(s, 1, 0) = <<>>
    BY SubSeqEmpty
  <2>2. Append(<<>>, x) = <<x>>
    OBVIOUS
  <2> QED
    BY <1>2, <2>1, <2>2
<1>3. CASE k = 1
  <2>1. \A i \in 1 .. 1 : s[i] \in S
    BY <1>1, <1>3, ElementOfSeq
  <2>2. SubSeq(s, 1, 1) \in Seq(S) /\ Len(SubSeq(s, 1, 1)) = 1
    BY <2>1, SubSeqProperties
  <2>3. PICK t \in Seq(S) : t = SubSeq(s, 1, 1) /\ Len(t) = 1
    BY <2>2
  <2>4. Len(Append(t, x)) = 2
    BY <2>3
  <2> QED
    BY <1>3, <2>3, <2>4
<1> QED
  BY <1>1, <1>2, <1>3

LEMMA FlatDirectory ==
  ASSUME project \in Projects, IsFlat, NEW d \in DOMAIN project.needs, d # <<>>
  PROVE  d[1] \in Packages /\ d = <<d[1]>>
<1>1. d \in Seq(Packages) /\ Len(d) <= 1
  BY ProjectFacts DEF IsFlat
<1> QED
  BY <1>1, ShortSequence

\* A lookup finds the package at the root level or not at all.
LEMMA FlatLookup ==
  ASSUME project \in Projects, IsFlat, NEW d \in DOMAIN project.needs, NEW n \in Packages
  PROVE  Lookup(d, n) = IF <<n>> \in DOMAIN project.needs THEN <<n>> ELSE <<>>
<1> DEFINE found == {k \in 0 .. Len(d) : Append(SubSeq(d, 1, k), n) \in DOMAIN project.needs}
           innermost == CHOOSE k \in found : \A j \in found : j <= k
<1>1. d \in Seq(Packages) /\ Len(d) \in Nat /\ Len(d) <= 1
  BY ProjectFacts, LenProperties DEF IsFlat
<1>2. /\ 0 \in 0 .. Len(d) /\ Append(SubSeq(d, 1, 0), n) = <<n>>
      /\ \A k \in 0 .. Len(d) : k = 0 \/ Len(Append(SubSeq(d, 1, k), n)) = 2
  BY <1>1, ShortLookup
<1>3. ASSUME NEW k \in found
      PROVE  k = 0
  <2>1. Append(SubSeq(d, 1, k), n) \in DOMAIN project.needs /\ k \in 0 .. Len(d)
    BY <1>3
  <2>2. Len(Append(SubSeq(d, 1, k), n)) <= 1
    BY <2>1 DEF IsFlat
  <2> QED
    BY <1>2, <2>1, <2>2
<1>4. 0 \in found <=> <<n>> \in DOMAIN project.needs
  BY <1>1, <1>2
<1>5. Lookup(d, n) = IF found = {} THEN <<>> ELSE Append(SubSeq(d, 1, innermost), n)
  BY DEF Lookup
<1>6. CASE <<n>> \in DOMAIN project.needs
  <2>1. 0 \in found /\ \A j \in found : j <= 0
    BY <1>3, <1>4, <1>6
  <2>2. innermost \in found
    BY <2>1, Zenon
  <2>3. innermost = 0
    BY <1>3, <2>2
  <2> HIDE DEF found, innermost
  <2> QED
    BY <1>2, <1>5, <1>6, <2>1, <2>3
<1>7. CASE <<n>> \notin DOMAIN project.needs
  <2>1. found = {}
    BY <1>3, <1>4, <1>7
  <2> HIDE DEF found, innermost
  <2> QED
    BY <1>5, <1>7, <2>1
<1> QED
  BY <1>6, <1>7

LEMMA NeedsInTypes ==
  ASSUME project \in Projects
  PROVE  /\ NeedsIn(<<>>) = Roots
         /\ \A n \in Packages : <<n>> \in DOMAIN project.needs =>
              NeedsIn(<<n>>) = Names(NeedsOf(n)) \ ExcludeModules
         /\ Roots \subseteq Packages /\ \A n : Names(NeedsOf(n)) \subseteq Packages
<1>1. NeedsIn(<<>>) = Roots
  BY DEF NeedsIn, Roots
<1>2. ASSUME NEW n \in Packages, <<n>> \in DOMAIN project.needs
      PROVE  NeedsIn(<<n>>) = Names(NeedsOf(n)) \ ExcludeModules
  <2>1. <<n>> # <<>>
    OBVIOUS
  <2> QED
    BY <1>2, <2>1 DEF NeedsIn, NeedsOf
<1>3. Roots \subseteq Packages /\ \A n : Names(NeedsOf(n)) \subseteq Packages
  BY ProjectFacts, NeedsOfType, NamesAreElements DEF Roots
<1> QED
  BY <1>1, <1>2, <1>3

LEMMA FlatReachedIsNeeded ==
  ASSUME project \in Projects, IsFlat, NEW n \in Reached, <<n>> \in DOMAIN project.needs
  PROVE  <<n>> \in NeededDirs
<1>1. SUFFICES ASSUME NEW D \in SUBSET DOMAIN project.needs, IsClosedDirs(D)
               PROVE  <<n>> \in D
  BY DEF NeededDirs
<1> DEFINE S == {m \in Packages : <<m>> \in D \/ <<m>> \notin DOMAIN project.needs}
<1>2. <<>> \in D /\ \A d \in D : \A m \in NeedsIn(d) : Lookup(d, m) \in D
  BY <1>1 DEF IsClosedDirs
<1>3. ASSUME NEW d \in D, NEW m \in NeedsIn(d), m \in Packages
      PROVE  m \in S
  <2>1. Lookup(d, m) = IF <<m>> \in DOMAIN project.needs THEN <<m>> ELSE <<>>
    BY <1>3, FlatLookup
  <2> QED
    BY <1>2, <1>3, <2>1
<1>4. Roots \subseteq S
  BY <1>2, <1>3, NeedsInTypes
<1>5. ASSUME NEW m \in S, NEW x \in Names(NeedsOf(m)) \ ExcludeModules
      PROVE  x \in S
  <2>1. CASE <<m>> \in DOMAIN project.needs
    <3>1. <<m>> \in D /\ x \in NeedsIn(<<m>>) /\ x \in Packages
      BY <1>5, <2>1, NeedsInTypes
    <3> QED
      BY <1>3, <3>1
  <2>2. CASE <<m>> \notin DOMAIN project.needs
    BY <1>5, <2>2, NamesOfEmpty DEF NeedsOf
  <2> QED
    BY <2>1, <2>2
<1>6. S \in SUBSET Packages
  OBVIOUS
<1>7. IsClosed(S)
  <2> HIDE DEF S
  <2> QED
    BY <1>4, <1>5 DEF IsClosed
<1>8. n \in S
  <2> HIDE DEF S
  <2> QED
    BY <1>6, <1>7 DEF Reached
<1> QED
  BY <1>8

LEMMA FlatNeededIsReached ==
  ASSUME project \in Projects, IsFlat, NEW n \in Packages, <<n>> \in NeededDirs
  PROVE  n \in Reached
<1> DEFINE D == {<<>>} \cup {d \in DOMAIN project.needs : d # <<>> /\ d[1] \in Reached}
<1>1. D \in SUBSET DOMAIN project.needs
  BY ProjectFacts
<1>2. IsClosed(Reached)
  BY ReachedIsClosed
<1>3. ASSUME NEW d \in D, NEW m \in NeedsIn(d)
      PROVE  m \in Reached
  <2>1. CASE d = <<>>
    BY <1>2, <1>3, <2>1, NeedsInTypes DEF IsClosed
  <2>2. CASE d # <<>>
    <3>1. d \in DOMAIN project.needs /\ d[1] \in Reached
      BY <1>3, <2>2
    <3>2. d[1] \in Packages /\ d = <<d[1]>>
      BY <2>2, <3>1, FlatDirectory
    <3>3. PICK p \in Packages : p = d[1]
      BY <3>2
    <3>4. m \in Names(NeedsOf(p)) \ ExcludeModules
      BY <1>3, <3>1, <3>2, <3>3, NeedsInTypes
    <3> QED
      BY <1>2, <3>1, <3>3, <3>4 DEF IsClosed
  <2> QED
    BY <2>1, <2>2
<1>4. ASSUME NEW d \in D, NEW m \in NeedsIn(d)
      PROVE  Lookup(d, m) \in D
  <2>1. m \in Reached /\ m \in Packages /\ d \in DOMAIN project.needs
    BY <1>1, <1>3, <1>4 DEF Reached
  <2>2. Lookup(d, m) = IF <<m>> \in DOMAIN project.needs THEN <<m>> ELSE <<>>
    BY <2>1, FlatLookup
  <2>3. <<m>> # <<>> /\ <<m>>[1] = m
    OBVIOUS
  <2> QED
    BY <2>1, <2>2, <2>3
<1>5. IsClosedDirs(D)
  <2>1. <<>> \in D
    OBVIOUS
  <2> HIDE DEF D
  <2> QED
    BY <1>4, <2>1 DEF IsClosedDirs
<1>6. <<n>> \in D
  <2> HIDE DEF D
  <2> QED
    BY <1>1, <1>5 DEF NeededDirs
<1>7. <<n>> # <<>> /\ <<n>>[1] = n
  OBVIOUS
<1> QED
  BY <1>6, <1>7

LEMMA ReachedSaysExact == PublishTypeOK /\ ArchiveIsReached => ZipIsExact
<1> DEFINE needed == {d[1] : d \in NeededDirs \ {<<>>}}
<1>1. SUFFICES ASSUME project \in Projects, archive = {f \in project.files : IsReached(f)}
               PROVE  /\ \A f \in archive : ~IsExcluded(f)
                      /\ \A f \in project.files : f.dir = <<>> /\ ~IsExcluded(f) => f \in archive
                      /\ IsFlat => \A f \in project.files :
                           f.dir # <<>> /\ ~IsExcluded(f) => (f \in archive <=> f.dir[1] \in needed)
  BY DEF PublishTypeOK, ArchiveIsReached, ZipIsExact
<1>2. \A f \in archive : ~IsExcluded(f)
  BY <1>1 DEF IsReached
<1>3. \A f \in project.files : f.dir = <<>> /\ ~IsExcluded(f) => f \in archive
  BY <1>1 DEF IsReached
<1>4. ASSUME IsFlat, NEW f \in project.files, f.dir # <<>>, ~IsExcluded(f)
      PROVE  f \in archive <=> f.dir[1] \in needed
  <2>1. f \in archive <=> f.dir[1] \in Reached
    BY <1>1, <1>4 DEF IsReached
  <2>2. PICK d \in DOMAIN project.needs : d = f.dir
    BY <1>1, <1>4, ProjectFacts
  <2>3. d[1] \in Packages /\ d = <<d[1]>>
    BY <1>1, <1>4, <2>2, FlatDirectory
  <2>4. PICK n \in Packages : n = d[1] /\ d = <<n>>
    BY <2>3
  <2>5. ASSUME n \in Reached
        PROVE  n \in needed
    <3>1. <<n>> \in NeededDirs
      BY <1>1, <1>4, <2>4, <2>5, FlatReachedIsNeeded
    <3> QED
      BY <1>4, <2>2, <2>4, <3>1
  <2>6. ASSUME n \in needed
        PROVE  n \in Reached
    <3>1. PICK e \in NeededDirs \ {<<>>} : n = e[1]
      BY <2>6
    <3>2. e \in DOMAIN project.needs
      BY <3>1 DEF NeededDirs
    <3>3. e = <<n>>
      BY <1>1, <1>4, <3>1, <3>2, FlatDirectory
    <3> QED
      BY <1>1, <1>4, <3>1, <3>3, FlatNeededIsReached
  <2> QED
    BY <2>1, <2>2, <2>4, <2>5, <2>6
<1> QED
  BY <1>2, <1>3, <1>4

\* The zip that is uploaded holds the project's files and nothing excluded, for every
\* project; and exactly the packages that node finds when node_modules is flat.
THEOREM ZipAlwaysExact == PublishSpec => []ZipIsExact
<1>1. PublishTypeOK /\ CollectInv /\ ZipInv /\ [PublishNext]_publishVars => CollectInv' /\ ZipInv'
  BY CollectStep, ZipStep
<1>2. PublishTypeOK /\ ZipInv => ZipIsExact
  BY ReachedSaysExact DEF ZipInv
<1> QED
  BY <1>1, <1>2, PublishTypeCorrect, CollectInit, ZipInit, PTL DEF PublishSpec

----------------------------------------------------------------------------
(* The report                                                              *)

LEMMA LastIndex ==
  ASSUME NEW n \in Nat, NEW i \in 1 .. n
  PROVE  i \in 1 .. n - 1 \/ i = n
  OBVIOUS

ReportInv ==
  /\ Len(shown) = loaded /\ loaded <= Len(log)
  /\ \A i \in 1 .. loaded : shown[i] = log[i]
  /\ poll = "answered" =>
       /\ loaded + Len(page) <= Len(log)
       /\ \A i \in 1 .. Len(page) : page[i] = log[loaded + i]
  /\ failed <=> \E i \in 1 .. loaded : log[i].error
  /\ \A i \in 1 .. Len(log) - 1 : ~log[i].end
  /\ phase \in {"idle", "collecting", "expanding", "zipping", "confirming"} => upload = "none"
  /\ phase \in {"polling", "waiting"} => upload = "accepted"
  /\ outcome # "none" => phase = "over"
  /\ outcome = "published" => IsLast(log) /\ ~HasError(log)
  /\ outcome = "failed" => upload # "sent"
  /\ outcome = "failed" /\ upload = "accepted" => IsLast(log) /\ HasError(log)

LEMMA ReportInit == PublishInit => ReportInv
<1>1. Len(<<>>) = 0
  OBVIOUS
<1> QED
  BY <1>1 DEF PublishInit, ReportInv

LEMMA ReportSays == PublishTypeOK /\ ReportInv => ReportIsTrue
<1> SUFFICES ASSUME PublishTypeOK, ReportInv
             PROVE  ReportIsTrue
  OBVIOUS
<1>1. log \in Seq(Messages) /\ shown \in Seq(Messages) /\ loaded \in Nat /\ Len(log) \in Nat
  BY LenProperties DEF PublishTypeOK
<1>2. \A i \in 1 .. loaded : log[i] \in Messages
  BY <1>1, ElementOfSeq DEF ReportInv
<1>3. /\ SubSeq(log, 1, loaded) \in Seq(Messages) /\ Len(SubSeq(log, 1, loaded)) = loaded
      /\ \A i \in 1 .. loaded : SubSeq(log, 1, loaded)[i] = log[i]
  BY <1>1, <1>2, SubSeqProperties
<1>4. shown = SubSeq(log, 1, loaded)
  BY <1>1, <1>3, SeqEqual DEF ReportInv
<1> QED
  BY <1>4 DEF ReportIsTrue, ReportInv

LEMMA ReportOnStatus ==
  ASSUME PublishTypeOK, ReportInv, OnStatus
  PROVE  ReportInv'
<1>1. /\ log \in Seq(Messages) /\ shown \in Seq(Messages) /\ page \in Seq(Messages) /\ loaded \in Nat
      /\ Len(log) \in Nat /\ Len(page) \in Nat /\ DOMAIN page = 1 .. Len(page) /\ DOMAIN log = 1 .. Len(log)
  BY LenProperties DEF PublishTypeOK
<1>2. /\ phase = "polling" /\ poll = "answered" /\ poll' = "none" /\ log' = log /\ upload' = upload
      /\ loaded' = loaded + Len(page) /\ shown' = shown \o page
      /\ failed' = (failed \/ HasError(page))
      /\ phase' \in {"over", "waiting"}
  BY DEF OnStatus, Settle, Ends
<1>3. /\ Len(shown) = loaded /\ loaded + Len(page) <= Len(log)
      /\ \A i \in 1 .. loaded : shown[i] = log[i]
      /\ \A i \in 1 .. Len(page) : page[i] = log[loaded + i]
      /\ failed <=> \E i \in 1 .. loaded : log[i].error
      /\ \A i \in 1 .. Len(log) - 1 : ~log[i].end
      /\ outcome = "none" /\ upload = "accepted"
  BY <1>2 DEF ReportInv
<1>4. /\ Len(shown') = loaded'
      /\ \A i \in 1 .. loaded' : shown'[i] = IF i <= loaded THEN shown[i] ELSE page[i - loaded]
  <2>1. /\ Len(shown \o page) = Len(shown) + Len(page)
        /\ \A i \in 1 .. Len(shown) + Len(page) :
             (shown \o page)[i] = IF i <= Len(shown) THEN shown[i] ELSE page[i - Len(shown)]
    BY <1>1, ConcatProperties, Zenon
  <2> QED
    BY <1>2, <1>3, <2>1
<1>5. \A i \in 1 .. loaded' : shown'[i] = log[i]
  <2>1. TAKE i \in 1 .. loaded'
  <2>5. i \in Int
    BY <1>1, <1>2
  <2>2. CASE i <= loaded
    <3>1. i \in 1 .. loaded
      BY <1>1, <1>2, <2>2
    <3>2. shown'[i] = shown[i]
      BY <1>4, <2>2
    <3> QED
      BY <1>3, <3>1, <3>2
  <2>3. CASE i > loaded
    <3>1. i - loaded \in 1 .. Len(page) /\ loaded + (i - loaded) = i /\ ~(i <= loaded)
      BY <1>1, <1>2, <2>3
    <3>2. page[i - loaded] = log[i]
      BY <1>3, <3>1
    <3> QED
      BY <1>4, <3>1, <3>2
  <2>4. i <= loaded \/ i > loaded
    BY <1>1, <2>5
  <2> QED
    BY <2>2, <2>3, <2>4
<1>6. failed' <=> \E i \in 1 .. loaded' : log[i].error
  <2>1. HasError(page) <=> \E i \in 1 .. Len(page) : log[loaded + i].error
    BY <1>1, <1>3 DEF HasError
  <2>2. ASSUME NEW i \in 1 .. loaded'
        PROVE  i \in 1 .. loaded \/ \E j \in 1 .. Len(page) : i = loaded + j
    <3>1. CASE i > loaded
      <4>1. i - loaded \in 1 .. Len(page) /\ i = loaded + (i - loaded)
        BY <1>1, <1>2, <3>1
      <4> QED
        BY <4>1
    <3> QED
      BY <1>1, <1>2, <3>1
  <2>3. \A i \in 1 .. loaded : i \in 1 .. loaded'
    BY <1>1, <1>2
  <2>4. \A j \in 1 .. Len(page) : loaded + j \in 1 .. loaded'
    BY <1>1, <1>2
  <2> QED
    BY <1>2, <1>3, <2>1, <2>2, <2>3, <2>4
<1>7. IsLast(page) => IsLast(log) /\ loaded' = Len(log)
  <2>1. SUFFICES ASSUME page # <<>>, page[Len(page)].end
                 PROVE  IsLast(log) /\ loaded' = Len(log)
    BY DEF IsLast
  <2>2. Len(page) \in 1 .. Len(page) /\ Len(page) # 0
    BY <1>1, <2>1, EmptySeq
  <2>3. log[loaded + Len(page)].end
    BY <1>3, <2>1, <2>2
  <2>4. loaded + Len(page) = Len(log)
    <3>1. loaded + Len(page) \notin 1 .. Len(log) - 1
      BY <1>3, <2>3
    <3>2. loaded + Len(page) \in 1 .. Len(log)
      BY <1>1, <1>3, <2>2
    <3> QED
      BY <1>1, <3>1, <3>2, LastIndex
  <2>5. log # <<>>
    <3>1. Len(log) # 0
      BY <1>1, <2>2, <2>4
    <3> QED
      BY <3>1, EmptySeq
  <2> QED
    BY <1>2, <2>3, <2>4, <2>5 DEF IsLast
<1>8. IsLast(page) => (failed' <=> HasError(log))
  BY <1>1, <1>6, <1>7 DEF HasError
<1>9. /\ outcome' # "none" => phase' = "over" /\ IsLast(page)
      /\ outcome' = "published" => ~failed'
      /\ outcome' = "failed" => failed'
  BY <1>3 DEF OnStatus, Settle, Ends
<1>10. IsLast(log)' = IsLast(log) /\ HasError(log)' = HasError(log)
  BY <1>2 DEF IsLast, HasError
<1>11. loaded' <= Len(log)
  BY <1>2, <1>3
<1>12. upload' = "accepted"
  BY <1>2, <1>3
<1> QED
  BY <1>2, <1>3, <1>4, <1>5, <1>6, <1>7, <1>8, <1>9, <1>10, <1>11, <1>12 DEF ReportInv

LEMMA ReportStep ==
  ASSUME PublishTypeOK, ReportInv, [PublishNext]_publishVars
  PROVE  ReportInv'
<1>0. /\ log \in Seq(Messages) /\ page \in Seq(Messages) /\ loaded \in Nat
      /\ Len(log) \in Nat /\ Len(page) \in Nat /\ DOMAIN log = 1 .. Len(log)
  BY LenProperties DEF PublishTypeOK
<1>1. CASE BuildModel
  <2>1. /\ phase = "idle" /\ upload = "none" /\ upload' = upload /\ outcome = "none"
        /\ log' = log /\ polling' = polling
        /\ \/ phase' = "collecting" /\ outcome' = outcome
           \/ phase' = "over" /\ outcome' = "failed"
    BY <1>1 DEF BuildModel, Ends, ReportInv, polling
  <2> QED
    BY <2>1 DEF ReportInv, polling
<1>2. CASE AddDependency \/ StartZip \/ ExpandPattern \/ GenerateZip \/ OnZip
             \/ \E answer \in Replies : OnAnswer(answer)
  <2>1. /\ phase \in {"collecting", "expanding", "zipping", "confirming"}
        /\ \/ /\ phase' \in {"collecting", "expanding", "zipping", "confirming"}
              /\ upload' = upload /\ outcome' = outcome
           \/ phase' = "uploading" /\ outcome' = outcome
           \/ phase' = "over" /\ outcome' = "exited" /\ upload' = upload
        /\ log' = log /\ polling' = polling
    BY <1>2 DEF AddDependency, StartZip, ExpandPattern, GenerateZip, OnZip, OnAnswer, Post, Ends, packing, polling
  <2>2. outcome = "none" /\ upload = "none"
    BY <2>1 DEF ReportInv
  <2> QED
    BY <2>1, <2>2 DEF ReportInv, polling
<1>3. CASE OnUploaded
  <2>1. /\ phase = "uploading" /\ outcome = "none" /\ upload' = upload /\ log' = log
        /\ page' = page /\ loaded' = loaded /\ shown' = shown /\ failed' = failed
        /\ \/ upload = "refused" /\ phase' = "over" /\ outcome' = "failed" /\ poll' = poll
           \/ upload = "accepted" /\ phase' = "polling" /\ outcome' = outcome /\ poll' = "sent"
    BY <1>3 DEF OnUploaded, Ends, LoadNextStatus, ReportInv
  <2> QED
    BY <2>1 DEF ReportInv
<1>4. CASE OnStatus
  BY <1>4, ReportOnStatus
<1>5. CASE OnStatusLost \/ Terminate
  <2>1. /\ phase' = "over" /\ outcome' \in {"silent", "exited"} /\ upload' = upload
        /\ log' = log /\ polling' = polling
    BY <1>5 DEF OnStatusLost, Terminate, Ends
  <2> QED
    BY <2>1 DEF ReportInv, polling
<1>6. CASE OnCheckInterval
  <2>1. /\ phase = "waiting" /\ phase' = "polling" /\ poll' = "sent" /\ upload' = upload /\ log' = log
        /\ page' = page /\ loaded' = loaded /\ shown' = shown /\ failed' = failed /\ outcome' = outcome
    BY <1>6 DEF OnCheckInterval, LoadNextStatus
  <2> QED
    BY <2>1 DEF ReportInv
<1>7. CASE ServeUpload
  <2>1. /\ upload = "sent" /\ upload' \in {"accepted", "refused"} /\ phase' = phase
        /\ log' = log /\ polling' = polling /\ outcome' = outcome
    BY <1>7 DEF ServeUpload
  <2> QED
    BY <2>1 DEF ReportInv, polling
<1>8. CASE ServeStatus
  <2>1. /\ poll' \in {"lost", "answered"} /\ poll' = "lost" => page' = page
        /\ phase' = phase /\ upload' = upload /\ log' = log /\ loaded' = loaded /\ shown' = shown
        /\ failed' = failed /\ outcome' = outcome
    BY <1>8 DEF ServeStatus
  <2>2. ASSUME poll' = "answered"
        PROVE  /\ loaded + Len(page') <= Len(log)
               /\ \A i \in 1 .. Len(page') : page'[i] = log[loaded + i]
    <3> DEFINE last == IF loaded + PageSize < Len(log) THEN loaded + PageSize ELSE Len(log)
    <3>1. page' = SubSeq(log, loaded + 1, last)
      BY <1>8, <2>2 DEF ServeStatus
    <3>2. PageSize \in Nat /\ loaded <= Len(log)
      BY PublisherAssumption DEF ReportInv
    <3>3. last \in Nat /\ loaded <= last /\ last <= Len(log)
      BY <1>0, <3>2
    <3> HIDE DEF last
    <3>4. \A i \in loaded + 1 .. last : log[i] \in Messages
      BY <1>0, <3>3, ElementOfSeq
    <3>5. loaded + 1 \in Int /\ last \in Int
      BY <1>0, <3>3
    <3>6. /\ Len(page') = IF loaded + 1 <= last THEN last - (loaded + 1) + 1 ELSE 0
          /\ \A i \in 1 .. last - (loaded + 1) + 1 : page'[i] = log[(loaded + 1) + i - 1]
      BY <3>1, <3>4, <3>5, SubSeqProperties
    <3>7. Len(page') = last - loaded
      BY <1>0, <3>3, <3>6
    <3>8. ASSUME NEW i \in 1 .. Len(page')
          PROVE  page'[i] = log[loaded + i]
      <4>1. i \in 1 .. last - (loaded + 1) + 1 /\ (loaded + 1) + i - 1 = loaded + i
        BY <1>0, <3>3, <3>7
      <4> QED
        BY <3>6, <4>1
    <3> QED
      BY <1>0, <3>3, <3>7, <3>8
  <2> QED
    BY <2>1, <2>2 DEF ReportInv
<1>9. CASE \E message \in Messages : Log(message)
  <2>1. PICK message \in Messages : Log(message)
    BY <1>9
  <2>2. /\ log' = Append(log, message) /\ ~IsLast(log) /\ upload' = upload /\ upload = "accepted"
        /\ phase' = phase /\ polling' = polling /\ outcome' = outcome
    BY <2>1 DEF Log
  <2>3. /\ Len(log') = Len(log) + 1 /\ \A i \in 1 .. Len(log) : log'[i] = log[i]
    BY <1>0, <2>2
  <2>4. \A i \in 1 .. Len(log') - 1 : ~log'[i].end
    <3>1. Len(log) > 0 => ~log[Len(log)].end
      BY <1>0, <2>2, EmptySeq DEF IsLast
    <3>2. ASSUME NEW i \in 1 .. Len(log)
          PROVE  ~log[i].end
      <4>1. i \in 1 .. Len(log) - 1 \/ i = Len(log)
        BY <1>0, LastIndex
      <4> QED
        BY <1>0, <3>1, <3>2, <4>1 DEF ReportInv
    <3> QED
      BY <1>0, <2>3, <3>2
  <2>5. outcome' \notin {"published", "failed"}
    BY <2>2 DEF ReportInv
  <2>6. loaded <= Len(log) /\ \A i \in 1 .. loaded : i \in 1 .. Len(log)
    BY <1>0 DEF ReportInv
  <2>7. /\ Len(shown') = loaded' /\ loaded' <= Len(log')
        /\ \A i \in 1 .. loaded' : shown'[i] = log'[i]
        /\ failed' <=> \E i \in 1 .. loaded' : log'[i].error
    BY <1>0, <2>2, <2>3, <2>6 DEF ReportInv, polling
  <2>8. poll' = "answered" => /\ loaded' + Len(page') <= Len(log')
                              /\ \A i \in 1 .. Len(page') : page'[i] = log'[loaded' + i]
    <3>1. SUFFICES ASSUME poll = "answered"
                   PROVE  /\ loaded + Len(page) <= Len(log')
                          /\ \A i \in 1 .. Len(page) : page[i] = log'[loaded + i]
      BY <2>2 DEF polling
    <3>2. loaded + Len(page) <= Len(log) /\ \A i \in 1 .. Len(page) : page[i] = log[loaded + i]
      BY <3>1 DEF ReportInv
    <3>3. \A i \in 1 .. Len(page) : loaded + i \in 1 .. Len(log)
      BY <1>0, <3>2
    <3> QED
      BY <1>0, <2>3, <3>2, <3>3
  <2> QED
    BY <2>2, <2>4, <2>5, <2>7, <2>8 DEF ReportInv, polling
<1>10. CASE UNCHANGED publishVars
  BY <1>10 DEF ReportInv, publishVars, polling, packing, IsLast, HasError
<1> QED
  BY <1>1, <1>2, <1>3, <1>4, <1>5, <1>6, <1>7, <1>8, <1>9, <1>10 DEF PublishNext, Publish, PublishServer

\* What is printed and reported is what the log says, for any log.
THEOREM ReportAlwaysTrue == PublishSpec => []ReportIsTrue
<1>1. PublishTypeOK /\ ReportInv /\ [PublishNext]_publishVars => ReportInv'
  BY ReportStep
<1> QED
  BY <1>1, PublishTypeCorrect, ReportInit, ReportSays, PTL DEF PublishSpec

=============================================================================
