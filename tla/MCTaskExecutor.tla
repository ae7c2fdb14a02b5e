--------------------------- MODULE MCTaskExecutor ---------------------------
(* Small instances of TaskExecutor for TLC *)
EXTENDS TaskExecutor

CONSTANTS f1, f2, lib, h1, s1, ty, t1, t2, t3, t4

\* f1 and f2 are the project's files, lib is a module under node_modules
MCListed == <<f1, f2>>

MCKindOf == [n \in Names |-> CASE n = h1 -> "handler" [] n = s1 -> "service" [] OTHER -> "type"]

\* A handler and a service of the same application, an action, and a SHUTDOWN
MCTarget == [t \in Tasks |-> CASE t = t1 -> h1 [] t = t2 -> s1 [] OTHER -> NoName]

Reg(n, dup) == [do |-> "register", name |-> n, dup |-> dup]
Req(f) == [do |-> "require", file |-> f, guarded |-> FALSE]
Try(f) == [do |-> "require", file |-> f, guarded |-> TRUE]
Fails == [do |-> "throw"]

\* Handlers before and after requires that are cyclic, optional or fail
Bodies1 == {<<Req(f2), Reg(h1, "reject")>>, <<Try(lib), Reg(h1, "reject"), Req(f2)>>,
            <<Reg(h1, "reject"), Reg(s1, "ignore")>>, <<Req(lib), Reg(h1, "reject")>>,
            <<Reg(h1, "reject"), Reg(s1, "reject")>>,
            <<Try(f2), Reg(h1, "reject"), Try(lib)>>}
Bodies2 == {<<Reg(s1, "reject")>>, <<Req(f1), Reg(s1, "reject")>>,
            <<Try(lib), Reg(s1, "replace")>>, <<Req(lib), Reg(s1, "reject")>>}
BodiesLib == {<<Reg(ty, "reject")>>, <<Reg(ty, "ignore"), Fails>>, <<Try(f1), Reg(ty, "reject")>>,
              <<Fails>>, <<Req(f2), Reg(s1, "replace")>>}

MCScripts == {s \in [Files -> Bodies1 \cup Bodies2 \cup BodiesLib] :
                s[f1] \in Bodies1 /\ s[f2] \in Bodies2 /\ s[lib] \in BodiesLib}
  \cup {[f \in Files |-> CASE f = f1 -> <<Reg(s1, "reject")>>
                           [] f = f2 -> <<Try(lib), Reg(h1, "reject")>>
                           [] OTHER -> <<Reg(s1, "reject")>>]}

=============================================================================
