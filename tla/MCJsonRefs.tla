----------------------------- MODULE MCJsonRefs -----------------------------
(* Small instances of JsonRefs for TLC *)
EXTENDS JsonRefs, FiniteSets

\* Up to three objects with two properties each; the properties of an array are
\* its elements
MCKeys == {"a", "b"}
MCStrings == {1, 2}
Some(count) == {Object(i) : i \in 1 .. count} \cup {Date(1), Date(2), Text(1), Null}
Names == {<<>>, <<"a">>, <<"a", "b">>}
Owns(count) == UNION {[DOMAIN names -> Some(count)] : names \in Names}
Props(values) == [n \in DOMAIN values |-> Field(<<"a", "b">>[n], values[n])]
Objects(count) == [array : BOOLEAN, own : {Props(values) : values \in Owns(count)}, dates : {{}}]

\* The indices in the order in which the objects are met first
Children(object) == SelectSeq(object.own, LAMBDA f : f.v.is = "object")
RECURSIVE Visit(_, _, _)
Visit(graph, todo, met) ==
  IF todo = <<>> THEN met
  ELSE IF \E i \in DOMAIN met : met[i] = Head(todo) THEN Visit(graph, Tail(todo), met)
  ELSE Visit(graph, [n \in DOMAIN Children(graph[Head(todo)]) |-> Children(graph[Head(todo)])[n].v.v] \o Tail(todo),
             Append(met, Head(todo)))
IsOrdered(graph) == Visit(graph, <<1>>, <<>>) = [i \in DOMAIN graph |-> i]

Plain(x) == [array |-> FALSE, own |-> Props(x), dates |-> {}]
Rows(values) == [1 .. 2 -> values]

\* Every graph of two objects or arrays; three of which the last may be an
\* array; and four objects that hold nothing but each other
Pairs == {<<x, y>> : x, y \in Objects(2)}
Triples == LET values == {Object(1), Object(2), Object(3), Date(1), Text(1)} IN
  {<<Plain(x), Plain(y), [array |-> isArray, own |-> Props(z), dates |-> {}]>> :
     x \in {r \in Rows(values) : Object(2) \in {r[1], r[2]}}, y, z \in Rows(values), isArray \in BOOLEAN}
Quads == LET values == {Object(i) : i \in 1 .. 4} IN
  {<<Plain(<<Object(2), x>>), Plain(y), Plain(z), Plain(u)>> :
     x \in values, y, z \in Rows(values), u \in Rows({Object(1), Object(3), Null})}
MCGraphs == {g \in Pairs \cup Triples \cup Quads : IsOrdered(g)}

=============================================================================
