-------------------------- MODULE ServerCodeModel --------------------------
(***************************************************************************)
(* How a process reads server code: the loader ServerCode.load of          *)
(* lib/server-code/api/index.js with the registry of                       *)
(* lib/server-code/model/index.js.                                         *)
(*                                                                         *)
(* A file of server code is the sequence of the statements that matter     *)
(* here: it registers something, requires another file (under a try or     *)
(* not) or throws.  Loading is synchronous; the module keeps the call      *)
(* stack so that nested, cyclic and failing requires take their steps one  *)
(* at a time.  A body that runs while there is no context was required by  *)
(* the code of a task, after load had ended: what it registers is ignored. *)
(***************************************************************************)
EXTENDS Integers, Sequences, FiniteSets

CONSTANTS
  Files,      \* files of server code and of the modules they require
  Listed,     \* the sequence serverCodeFilesInPath finds
  Names,      \* handlers, timers (with custom events), services and types
  KindOf,     \* KindOf[n]: which of them n is
  Scripts,    \* the programs considered: functions from files to statements
  NoFile      \* nothing is registered

Kinds == {"handler", "timer", "service", "type"}
Strategies == {"reject", "ignore", "replace", "merge_to_front", "merge_to_back"}

Statements ==
       [do : {"register"}, name : Names, dup : Strategies]
  \cup [do : {"require"}, file : Files, guarded : BOOLEAN]
  \cup [do : {"throw"}]

ASSUME ScriptAssumption ==
  /\ IsFiniteSet(Files) /\ NoFile \notin Files
  /\ Listed \in Seq(Files)
  /\ KindOf \in [Names -> Kinds]
  /\ Scripts \subseteq [Files -> Seq(Statements)]
  \* addHandler and addTimer take no options
  /\ \A s \in Scripts : \A f \in Files : \A i \in DOMAIN s[f] :
       s[f][i].do = "register" /\ KindOf[s[f][i].name] \in {"handler", "timer"} =>
         s[f][i].dup = "reject"

VARIABLES
  script,     \* the program
  node,       \* node[f]: state of f in the cache of require; "late" if it was
              \* loaded by the code of a task
  stack,      \* the module bodies under way: file and position
  contexts,   \* the loader's stack of file contexts
  thrown,     \* an exception is on its way up the stack
  todo,       \* files the loop of load has yet to visit
  model,      \* providers of what is registered, and the files in error
  critical    \* process.setCriticalError has been called

loaderVars == <<script, node, stack, contexts, thrown, todo, model, critical>>

NewModel == [provider |-> [n \in Names |-> NoFile], errors |-> {}]

IsLoaded == stack = <<>> /\ todo = <<>>

Last(s) == s[Len(s)]
Front(s) == SubSeq(s, 1, Len(s) - 1)

\* The file whose body runs, and its next statement
Running == Last(stack).file
AtEnd == Last(stack).at > Len(script[Running])
Statement == script[Running][Last(stack).at]

\* stack s when its uppermost body is done with a statement
Advanced(s) == IF s = <<>> THEN s ELSE [s EXCEPT ![Len(s)].at = @ + 1]

----------------------------------------------------------------------------
(* addHandler, addTimer, addService, addType                               *)

IsDuplicate(m, st) == m.provider[st.name] # NoFile

\* Mutant of IsRefused: a service registered twice is replaced by default
IsRefusedUnlessService(m, st) ==
  st.dup = "reject" /\ IsDuplicate(m, st) /\ KindOf[st.name] # "service"

IsRefused(m, st) == st.dup = "reject" /\ IsDuplicate(m, st)

\* The first registration stays
IsIgnored(m, st) ==
  /\ IsDuplicate(m, st)
  /\ \/ st.dup = "ignore"
     \/ st.dup = "merge_to_back" /\ KindOf[st.name] = "type"

Registered(m, st) ==
  IF IsIgnored(m, st) THEN m ELSE [m EXCEPT !.provider[st.name] = Last(contexts)]

----------------------------------------------------------------------------

LoaderInit ==
  /\ script \in Scripts
  /\ node = [f \in Files |-> "absent"]
  /\ stack = <<>> /\ contexts = <<>> /\ thrown = FALSE
  /\ todo = Listed
  /\ model = NewModel
  /\ critical = FALSE

\* A body runs that the code of a task has required
IsLate == stack # <<>> /\ contexts = <<>>

\* require(f): the body of a file runs once, later and cyclic requires return
\* what there is (the context pushed for them is popped before anything runs)
Enter(f, s) ==
  IF node[f] = "absent"
  THEN /\ node' = [node EXCEPT ![f] = "loading"]
       /\ stack' = Append(s, [file |-> f, at |-> 1])
       /\ contexts' = IF IsLate THEN contexts ELSE Append(contexts, f)
  ELSE /\ stack' = Advanced(s)
       /\ UNCHANGED <<node, contexts>>

\* The loop of load takes the next file
LoadNext ==
  /\ stack = <<>> /\ todo # <<>>
  /\ Enter(Head(todo), <<>>)
  /\ todo' = Tail(todo)
  /\ UNCHANGED <<script, thrown, model, critical>>

Runs(do) == stack # <<>> /\ ~thrown /\ ~AtEnd /\ Statement.do = do

\* contextGuarded ignores the call; the registrars of handlers are not guarded
\* and fail without a context
RegisterLate ==
  /\ Runs("register") /\ IsLate
  /\ IF KindOf[Statement.name] = "handler"
     THEN thrown' = TRUE /\ UNCHANGED stack
     ELSE stack' = Advanced(stack) /\ UNCHANGED thrown
  /\ UNCHANGED <<script, node, contexts, todo, model, critical>>

Register ==
  /\ Runs("register") /\ ~IsLate
  /\ IF IsRefused(model, Statement)
     THEN thrown' = TRUE /\ UNCHANGED <<model, stack>>
     ELSE /\ model' = Registered(model, Statement)
          /\ stack' = Advanced(stack)
          /\ UNCHANGED thrown
  /\ UNCHANGED <<script, node, contexts, todo, critical>>

Require ==
  /\ Runs("require")
  /\ Enter(Statement.file, stack)
  /\ UNCHANGED <<script, thrown, todo, model, critical>>

Throw ==
  /\ Runs("throw")
  /\ thrown' = TRUE
  /\ UNCHANGED <<script, node, stack, contexts, todo, model, critical>>

\* A body ends: its require returns
Return ==
  /\ stack # <<>> /\ ~thrown /\ AtEnd
  /\ node' = [node EXCEPT ![Running] = IF IsLate THEN "late" ELSE "loaded"]
  /\ stack' = Advanced(Front(stack))
  /\ contexts' = Front(contexts)
  /\ UNCHANGED <<script, thrown, todo, model, critical>>

\* Mutant of Unwind: the context is only popped when the require succeeds
UnwindKeepingContext ==
  LET below    == Front(stack)
      isCaught == below # <<>> /\ script[Last(below).file][Last(below).at].guarded
  IN  /\ stack # <<>> /\ thrown
      /\ node' = [node EXCEPT ![Running] = "absent"]
      /\ critical' = TRUE
      /\ stack' = IF isCaught THEN Advanced(below) ELSE below
      /\ thrown' = (below # <<>> /\ ~isCaught)
      /\ contexts' = IF below = <<>> THEN <<>> ELSE contexts
      /\ model' = IF below = <<>> /\ ~IsLate THEN [model EXCEPT !.errors = @ \cup {Running}] ELSE model
      /\ UNCHANGED <<script, todo>>

\* Mutant of Unwind: a failing require is not noticed by the process
UnwindUnnoticed ==
  LET below    == Front(stack)
      isCaught == below # <<>> /\ script[Last(below).file][Last(below).at].guarded
  IN  /\ stack # <<>> /\ thrown
      /\ node' = [node EXCEPT ![Running] = "absent"]
      /\ stack' = IF isCaught THEN Advanced(below) ELSE below
      /\ thrown' = (below # <<>> /\ ~isCaught)
      /\ contexts' = Front(contexts)
      /\ model' = IF below = <<>> /\ ~IsLate THEN [model EXCEPT !.errors = @ \cup {Running}] ELSE model
      /\ UNCHANGED <<script, todo, critical>>

\* A body throws: node forgets the file, the loader pops its context, the
\* require of cloud-worker.js notes a critical error, and the exception goes to
\* the requiring body, or to load, which adds it to the errors of the model, or
\* to the code of the task
Unwind ==
  LET below    == Front(stack)
      isCaught == below # <<>> /\ script[Last(below).file][Last(below).at].guarded
  IN  /\ stack # <<>> /\ thrown
      /\ node' = [node EXCEPT ![Running] = "absent"]
      /\ critical' = TRUE
      /\ stack' = IF isCaught THEN Advanced(below) ELSE below
      /\ thrown' = (below # <<>> /\ ~isCaught)
      /\ contexts' = Front(contexts)
      /\ model' = IF below = <<>> /\ ~IsLate THEN [model EXCEPT !.errors = @ \cup {Running}] ELSE model
      /\ UNCHANGED <<script, todo>>

LoaderNext == LoadNext \/ Register \/ RegisterLate \/ Require \/ Throw \/ Return \/ Unwind

----------------------------------------------------------------------------
(* Properties                                                              *)

\* The loader's variables keep their types.
LoaderTypeOK ==
  /\ script \in Scripts
  /\ node \in [Files -> {"absent", "loading", "loaded", "late"}]
  /\ stack \in Seq([file : Files, at : Nat \ {0}])
  /\ contexts \in Seq(Files) /\ todo \in Seq(Files)
  /\ model \in [provider : [Names -> Files \cup {NoFile}], errors : SUBSET Files]
  /\ thrown \in BOOLEAN /\ critical \in BOOLEAN

Registers(f, n) ==
  \E i \in DOMAIN script[f] : script[f][i].do = "register" /\ script[f][i].name = n

\* What is registered is attributed to a file whose own code registers it, never
\* to the file that required it or to one that failed before: the worker that
\* is to run it reads that file only.
ProvidersAreAuthors ==
  \A n \in Names : model.provider[n] # NoFile => Registers(model.provider[n], n)

=============================================================================
