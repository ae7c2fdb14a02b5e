------------------------------ MODULE JsonRefs ------------------------------
(***************************************************************************)
(* lib/util/json.js: JSON with object references and dates, the form in    *)
(* which tasks/util/args.js passes arguments and results.                  *)
(*                                                                         *)
(* A heap maps an object or array to its own properties in their order; a  *)
(* value is an object, a date, a string (which may be the milliseconds of  *)
(* a date) or null.  Each call of the replacer of stringify and of the     *)
(* revivers of parse is a step, and so is each turn of the loops in which  *)
(* references are resolved; what JSON.stringify and JSON.parse keep        *)
(* between the calls are the stacks of the objects they are inside.        *)
(***************************************************************************)
EXTENDS Integers, Sequences

CONSTANTS
  Graphs,    \* the objects to encode; the root is object 1
  Keys,      \* names of properties
  Strings    \* strings, and milliseconds as strings

Root == 1
NoKey == ""                          \* the key of the root
DATES_FIELD == "___dates___"
OBJECTREF_FIELD == "___objectref"

Text(s) == [is |-> "text", v |-> s]
Date(ms) == [is |-> "date", v |-> ms]
Object(i) == [is |-> "object", v |-> i]
Id(n) == [is |-> "id", v |-> n]
Null == [is |-> "null", v |-> 0]
Field(key, value) == [k |-> key, v |-> value]

Values(ids) ==
  {Text(s) : s \in Strings} \cup {Date(s) : s \in Strings} \cup {Object(i) : i \in ids} \cup {Null}

\* A property has one value.  dates is the property DATES_FIELD, which is the
\* last one where it exists, as a set; {}: there is none.
IsGraph(g) ==
  /\ Root \in DOMAIN g
  /\ g \in [DOMAIN g -> [array : BOOLEAN, own : Seq([k : Keys, v : Values(DOMAIN g)]), dates : {{}}]]
  /\ \A i \in DOMAIN g : \A m, n \in DOMAIN g[i].own : g[i].own[m].k = g[i].own[n].k => m = n

ASSUME KeyAssumption == Keys \cap {NoKey, OBJECTREF_FIELD, DATES_FIELD} = {}
ASSUME GraphAssumption == \A g \in Graphs : IsGraph(g)

VARIABLES
  step,      \* write, read, resolve, decoded, rewrite
  given,     \* the objects of the sender
  heap,      \* the objects that are being encoded, as stringify leaves them
  writing,   \* the objects JSON.stringify is inside, outermost first
  seen,      \* the objects met so far
  text,      \* what was written
  sent,      \* the text that is parsed
  trace,     \* history, trace[p]: writing and seen when sent[p] was written
  read,      \* how much of it was parsed
  reading,   \* the objects JSON.parse is inside, each known by its place in the text
  objects,   \* the objects of the receiver
  dates,     \* the list of dates visited last
  holders,   \* datesHolders
  chain,     \* the chain of the object in hand
  chains, refs

writer == <<heap, writing, seen, text, trace>>
reader == <<sent, read, reading, objects, dates, holders, chain, chains, refs>>
vars == <<step, given, writer, reader>>

Last(s) == s[Len(s)]
Front(s) == SubSeq(s, 1, Len(s) - 1)

----------------------------------------------------------------------------
(* stringify                                                               *)

DatesOf(own) == {own[m].v.v : m \in {m \in DOMAIN own : own[m].v.is = "date"}}

\* Mutant of Resolved: the list is begun anew
ResolvedAnew(object) ==
  [object EXCEPT !.own = [m \in DOMAIN @ |-> IF @[m].v.is = "date" THEN Field(@[m].k, Text(@[m].v.v))
                                             ELSE @[m]],
                 !.dates = DatesOf(object.own)]

\* The dates of an object become strings, which are listed in a property
Resolved(object) ==
  [object EXCEPT !.own = [m \in DOMAIN @ |-> IF @[m].v.is = "date" THEN Field(@[m].k, Text(@[m].v.v))
                                             ELSE @[m]],
                 !.dates = @ \cup DatesOf(object.own)]

\* What is written next of the innermost object: [of |-> object, open |-> its
\* place in the text, at |-> its next property]
Inner == Last(writing)
Own == heap[Inner.of].own
Passed == [writing EXCEPT ![Len(writing)].at = @ + 1]

IsWriting == step \in {"write", "rewrite"}

Spell(token, stack) ==
  /\ text' = Append(text, token)
  /\ writing' = stack
  /\ trace' = IF step = "write" THEN Append(trace, [writing |-> stack, seen |-> seen']) ELSE trace
  /\ UNCHANGED <<step, given, reader>>

IsMet(i) == \E n \in DOMAIN seen : seen[n] = i

\* The replacer is called with object i
Replace(key, i, stack) ==
  /\ heap' = [heap EXCEPT ![i] = Resolved(@)]
  /\ IF IsMet(i)
     THEN /\ UNCHANGED seen
          /\ Spell([is |-> "ref", k |-> key, id |-> (CHOOSE n \in DOMAIN seen : seen[n] = i) - 1], stack)
     ELSE /\ seen' = Append(seen, i)
          /\ Spell([is |-> "open", k |-> key, array |-> heap[i].array],
                   Append(stack, [of |-> i, open |-> Len(text) + 1, at |-> 1]))

WriteRoot ==
  /\ IsWriting /\ text = <<>>
  /\ Replace(NoKey, Root, <<>>)

WriteObject ==
  /\ IsWriting /\ writing # <<>> /\ Inner.at <= Len(Own)
  /\ Own[Inner.at].v.is = "object"
  /\ Replace(Own[Inner.at].k, Own[Inner.at].v.v, Passed)

WriteValue ==
  /\ IsWriting /\ writing # <<>> /\ Inner.at <= Len(Own)
  /\ Own[Inner.at].v.is # "object"
  /\ UNCHANGED <<heap, seen>>
  /\ Spell([is |-> "value", k |-> Own[Inner.at].k, v |-> Own[Inner.at].v], Passed)

\* Arrays are written without the property that lists their dates
HasDatesToWrite == heap[Inner.of].dates # {} /\ ~heap[Inner.of].array

WriteDates ==
  /\ IsWriting /\ writing # <<>> /\ Inner.at = Len(Own) + 1
  /\ HasDatesToWrite
  /\ UNCHANGED <<heap, seen>>
  /\ Spell([is |-> "dates", v |-> heap[Inner.of].dates], Passed)

WriteEnd ==
  /\ IsWriting /\ writing # <<>>
  /\ Inner.at = Len(Own) + (IF HasDatesToWrite THEN 2 ELSE 1)
  /\ UNCHANGED <<heap, seen>>
  /\ Spell([is |-> "close"], Front(writing))

IsWritten == writing = <<>> /\ text # <<>>

Send ==
  /\ step = "write" /\ IsWritten
  /\ step' = "read"
  /\ sent' = text
  /\ UNCHANGED <<given, writer, read, reading, objects, dates, holders, chain, chains, refs>>

----------------------------------------------------------------------------
(* parse                                                                   *)

Token == sent[read + 1]
Place == read + 1
Here == Last(reading)

\* More is read of the innermost object
IsReading(token) == step = "read" /\ read < Len(sent) /\ Token.is = token /\ chain = <<>>

\* Property f is added to the innermost object, and with it a new object
Added(f) == [objects EXCEPT ![Here].own = Append(@, f)]
AddedObject(object) ==
  LET added == IF reading = <<>> THEN objects ELSE Added(Field(Token.k, Object(Place)))
  IN  [p \in DOMAIN objects \cup {Place} |-> IF p = Place THEN object ELSE added[p]]

ReadObject ==
  /\ IsReading("open")
  /\ read' = Place
  /\ reading' = Append(reading, Place)
  /\ objects' = AddedObject([array |-> Token.array, own |-> <<>>, dates |-> {}])
  /\ UNCHANGED <<step, given, writer, sent, dates, holders, chain, chains, refs>>

Reference(id) == [array |-> FALSE, own |-> <<Field(OBJECTREF_FIELD, Id(id))>>, dates |-> {}]

\* A reference is read as an object like others, whose chain ends here
ReadReference ==
  /\ IsReading("ref")
  /\ read' = Place
  /\ objects' = AddedObject(Reference(Token.id))
  /\ chains' = Append(chains, <<Field(Token.k, Object(Place))>>)
  /\ UNCHANGED <<step, given, writer, sent, reading, dates, holders, chain, refs>>

ReadValue ==
  /\ IsReading("value")
  /\ read' = Place
  /\ objects' = Added(Field(Token.k, Token.v))
  /\ UNCHANGED <<step, given, writer, sent, reading, dates, holders, chain, chains, refs>>

\* The list is taken; its property is nulled, but it is there
ReadDates ==
  /\ IsReading("dates")
  /\ read' = Place
  /\ objects' = [objects EXCEPT ![Here].dates = Token.v]
  /\ dates' = Token.v
  /\ UNCHANGED <<step, given, writer, sent, reading, holders, chain, chains, refs>>

Revived(own, list) ==
  [m \in DOMAIN own |-> IF own[m].v.is = "text" /\ own[m].v.v \in list THEN Field(own[m].k, Date(own[m].v.v))
                        ELSE own[m]]

KeyOf(p) == sent[p].k

\* The properties of an object have been visited: datesTransformReviver is called
\* for it, and removes the lists of all objects when it is the root; then
\* objectRefsReviver begins its chain.
Revive ==
  /\ IsReading("close")
  /\ LET dated    == objects[Here].dates # {}
         revived  == IF dated THEN [objects EXCEPT ![Here].own = Revived(@, dates)] ELSE objects
         holding  == IF dated THEN holders \cup {Here} ELSE holders
         isRoot   == KeyOf(Here) = NoKey
     IN  /\ objects' = [p \in DOMAIN objects |-> IF isRoot /\ p \in holding
                                                 THEN [revived[p] EXCEPT !.dates = {}] ELSE revived[p]]
         /\ holders' = IF isRoot THEN {} ELSE holding
         /\ dates' = IF dated THEN {} ELSE dates
  /\ chain' = <<Field(KeyOf(Here), Object(Here))>>
  /\ UNCHANGED <<step, given, writer, sent, read, reading, chains, refs>>

IsChaining == step = "read" /\ chain # <<>>

\* The head of the last chain is a property of the object in hand
IsParent ==
  /\ chains # <<>>
  /\ \E m \in DOMAIN objects[Here].own : objects[Here].own[m] = Last(chains)[1]

IsReference(p) == \E m \in DOMAIN objects[p].own : objects[p].own[m].k = OBJECTREF_FIELD
RefersTo(p) == objects[p].own[CHOOSE m \in DOMAIN objects[p].own : objects[p].own[m].k = OBJECTREF_FIELD].v.v

Child == Last(chains)[1].v.v

\* Mutant of Merged: the siblings come in the order in which they were visited
MergedBehind(own, prev) == own \o prev

\* A child's chain goes behind the head, before the siblings after the child
Merged(own, prev) == <<own[1]>> \o prev \o Tail(own)

MergeChain ==
  /\ IsChaining /\ IsParent /\ ~IsReference(Child)
  /\ chain' = Merged(chain, Last(chains))
  /\ chains' = Front(chains)
  /\ UNCHANGED <<step, given, writer, sent, read, reading, objects, dates, holders, refs>>

\* A reference is kept for later
KeepReference ==
  /\ IsChaining /\ IsParent /\ IsReference(Child)
  /\ refs' = refs \cup {[parent |-> Here, key |-> Last(chains)[1].k, id |-> RefersTo(Child)]}
  /\ chains' = Front(chains)
  /\ UNCHANGED <<step, given, writer, sent, read, reading, objects, dates, holders, chain>>

\* No child is left, and the parser is done with the object
PushChain ==
  /\ IsChaining /\ ~IsParent
  /\ chains' = Append(chains, chain)
  /\ chain' = <<>>
  /\ read' = Place
  /\ reading' = Front(reading)
  /\ step' = IF KeyOf(Here) = NoKey THEN "resolve" ELSE step
  /\ UNCHANGED <<given, writer, sent, objects, dates, holders, refs>>

Put(own, key, value) ==
  [m \in DOMAIN own |-> IF own[m].k = key THEN Field(key, value) ELSE own[m]]

\* The second stage: one chain is left, in the order of stringify
ResolveRef ==
  /\ step = "resolve"
  /\ \E ref \in refs :
       /\ objects' = [objects EXCEPT ![ref.parent].own = Put(@, ref.key, chains[1][ref.id + 1].v)]
       /\ refs' = refs \ {ref}
  /\ UNCHANGED <<step, given, writer, sent, read, reading, dates, holders, chain, chains>>

Decoded ==
  /\ step = "resolve" /\ refs = {}
  /\ step' = "decoded"
  /\ UNCHANGED <<given, writer, reader>>

----------------------------------------------------------------------------
(* A value is encoded by one side and decoded by the other; then it is     *)
(* encoded again by either side.                                           *)

Init ==
  /\ step = "write" /\ given \in Graphs
  /\ heap = given /\ writing = <<>> /\ seen = <<>> /\ text = <<>> /\ trace = <<>>
  /\ sent = <<>> /\ read = 0 /\ reading = <<>> /\ objects = <<>> /\ dates = {} /\ holders = {}
  /\ chain = <<>> /\ chains = <<>> /\ refs = {}

EncodeAgain ==
  /\ step = "decoded"
  /\ step' = "rewrite"
  /\ heap' \in {heap, objects}
  /\ writing' = <<>> /\ seen' = <<>> /\ text' = <<>>
  /\ UNCHANGED <<given, trace, reader>>

Stringify == WriteRoot \/ WriteObject \/ WriteValue \/ WriteDates \/ WriteEnd
Parse ==
  \/ ReadObject \/ ReadReference \/ ReadValue \/ ReadDates
  \/ Revive \/ MergeChain \/ KeepReference \/ PushChain \/ ResolveRef

Next == Stringify \/ Send \/ Parse \/ Decoded \/ EncodeAgain

Spec == Init /\ [][Next]_vars

----------------------------------------------------------------------------
(* Properties                                                              *)

\* No date in an array, and no string that spells a date of its own object
IsEncodable(object) ==
  /\ object.array => DatesOf(object.own) = {}
  /\ \A m \in DOMAIN object.own :
       object.own[m].v.is = "text" => object.own[m].v.v \notin DatesOf(object.own)

Renamed(own, name) ==
  [m \in DOMAIN own |-> IF own[m].v.is = "object" THEN Field(own[m].k, Object(name[own[m].v.v])) ELSE own[m]]

\* ids holds the root and whatever can be reached from it
Reached(ids) ==
  /\ Root \in ids
  /\ \A i \in ids : \A m \in DOMAIN given[i].own :
       given[i].own[m].v.is = "object" => given[i].own[m].v.v \in ids

\* parse gives back what stringify was given: the same properties in the same
\* order with the same dates, objects that were one object are one again and
\* others stay apart, cycles are closed, and nothing of the encoding is left.
RoundTrip ==
  step = "decoded" /\ (\A i \in DOMAIN given : IsEncodable(given[i])) =>
    LET ids    == {seen[n] : n \in DOMAIN seen}
        copies == {p \in DOMAIN objects : ~IsReference(p)}
    IN  /\ Reached(ids)
        /\ \E name \in [ids -> copies] :
             /\ name[Root] = Root
             /\ \A i, j \in ids : name[i] = name[j] => i = j
             /\ \A i \in ids : objects[name[i]] = [given[i] EXCEPT !.own = Renamed(@, name)]

\* What was decoded is encoded in the same text again, and so are the objects of
\* the sender, whose dates the first encoding has turned into strings.
StableText == step = "rewrite" /\ IsWritten => text = sent

=============================================================================
