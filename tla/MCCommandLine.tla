--------------------------- MODULE MCCommandLine ---------------------------
(* Small instances of CommandLine for TLC *)
EXTENDS CommandLine

CONSTANTS p, q, r, coderunner

\* What each package.json lists: p and q may need each other, r is only at the
\* root, and q may be nested in p
TreeOf(dirs, root, ofP, ofQ) ==
  [d \in dirs |-> CASE d = <<>> -> root [] d = <<p>> -> ofP [] d = <<q>> -> ofQ
                    [] d = <<p, q>> -> <<r>> [] OTHER -> <<>>]

Flat == {<<>>, <<p>>, <<q>>, <<r>>, <<coderunner>>}
Nested == {<<>>, <<p>>, <<p, q>>, <<r>>}
Hoisted == {<<>>, <<p>>, <<q>>, <<p, q>>, <<r>>}

Trees == {TreeOf(dirs, root, ofP, ofQ) :
            dirs \in {Flat, Nested, Hoisted}, root \in {<<p>>, <<coderunner, q, p>>},
            ofP \in {<<>>, <<q, coderunner>>}, ofQ \in {<<>>, <<r, p>>}}

Own(n) == [dir |-> <<>>, name |-> n]
FilesOf(needs) ==
  {Own("main.js"), Own("deploy.zip"), Own("notes")}
    \cup {[dir |-> d, name |-> "index.js"] : d \in DOMAIN needs \ {<<>>}}

Project(needs, exclude) ==
  [manifest |-> "read", needs |-> needs, exclude |-> exclude, files |-> FilesOf(needs),
   empty |-> FALSE, errors |-> FALSE, allowEmpty |-> FALSE, zipSizeConfirmation |-> FALSE]

\* Every tree with and without exclusions, and one tree with the other options
MCProjects ==
  {Project(t, x) : t \in Trees, x \in {<<>>, <<Module(TRUE, q), File(TRUE, "notes")>>}}
    \cup {[Project(TreeOf(Flat, <<q>>, <<>>, <<p>>), <<>>) EXCEPT
             !.manifest = m, !.empty = e, !.allowEmpty = a, !.errors = b, !.zipSizeConfirmation = TRUE] :
          m \in Manifests, e, a, b \in BOOLEAN}

MCMessages == [error : BOOLEAN, end : BOOLEAN]

=============================================================================
