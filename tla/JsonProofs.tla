----------------------------- MODULE JsonProofs -----------------------------
(***************************************************************************)
(* What is proved about JsonRefs: decoding gives back every graph that was *)
(* encoded, and what was decoded is encoded in the same text again.        *)
(***************************************************************************)
EXTENDS JsonRefs, TLAPS

----------------------------------------------------------------------------
(* A text and how it was written.  w.given are the objects, w.text the     *)
(* tokens, w.trace[p] what stringify was inside and had seen when token p  *)
(* was written.                                                            *)

Enc(w, i) == Resolved(w.given[i])
Width(w, i) == Len(w.given[i].own)
HasList(w, i) == Enc(w, i).dates # {} /\ ~w.given[i].array
End(w, i) == Width(w, i) + (IF HasList(w, i) THEN 2 ELSE 1)

Stack(w, p) == IF p = 0 THEN <<>> ELSE w.trace[p].writing
Met(w, p) == IF p = 0 THEN <<>> ELSE w.trace[p].seen
Count(w, p) == Len(Met(w, p))
Of(w, p) == Last(Met(w, p))                 \* the object that token p opens

Past(stack) == [stack EXCEPT ![Len(stack)].at = @ + 1]

\* The property that comes next inside stack
InFields(w, stack) == stack # <<>> /\ Last(stack).at <= Width(w, Last(stack).of)
NextField(w, stack) == Enc(w, Last(stack).of).own[Last(stack).at]

\* What token may follow when stringify is inside s and has seen m, and where
\* it is behind it
Opens(w, key, i, s, token, p, t, m, n) ==
  /\ token = [is |-> "open", k |-> key, array |-> w.given[i].array]
  /\ \A x \in DOMAIN m : m[x] # i
  /\ n = Append(m, i)
  /\ t = Append(s, [of |-> i, open |-> p, at |-> 1])

OpensRoot(w, token, p, s, t, m, n) == p = 1 /\ s = <<>> /\ Opens(w, NoKey, Root, s, token, p, t, m, n)

OpensObject(w, token, p, s, t, m, n) ==
  LET f == NextField(w, s)
  IN  /\ p > 1 /\ InFields(w, s) /\ f.v.is = "object"
      /\ Opens(w, f.k, f.v.v, Past(s), token, p, t, m, n)

Refers(w, token, p, s, t, m, n) ==
  LET f == NextField(w, s)
  IN  /\ p > 1 /\ InFields(w, s) /\ f.v.is = "object"
      /\ token = [is |-> "ref", k |-> f.k, id |-> token.id]
      /\ token.id \in Nat /\ token.id + 1 \in DOMAIN m /\ m[token.id + 1] = f.v.v
      /\ n = m /\ t = Past(s)

Tells(w, token, p, s, t, m, n) ==
  LET f == NextField(w, s)
  IN  /\ p > 1 /\ InFields(w, s) /\ f.v.is # "object"
      /\ token = [is |-> "value", k |-> f.k, v |-> f.v]
      /\ n = m /\ t = Past(s)

Lists(w, token, p, s, t, m, n) ==
  LET i == Last(s).of
  IN  /\ p > 1 /\ s # <<>> /\ Last(s).at = Width(w, i) + 1 /\ HasList(w, i)
      /\ token = [is |-> "dates", v |-> Enc(w, i).dates]
      /\ n = m /\ t = Past(s)

Closes(w, token, p, s, t, m, n) ==
  /\ p > 1 /\ s # <<>> /\ Last(s).at = End(w, Last(s).of)
  /\ token = [is |-> "close"]
  /\ n = m /\ t = Front(s)

Continues(w, token, p, s, t, m, n) ==
  \/ OpensRoot(w, token, p, s, t, m, n) \/ OpensObject(w, token, p, s, t, m, n)
  \/ Refers(w, token, p, s, t, m, n) \/ Tells(w, token, p, s, t, m, n)
  \/ Lists(w, token, p, s, t, m, n) \/ Closes(w, token, p, s, t, m, n)

IsOpen(w, p) == w.text[p].is = "open"

\* The frames of a stack are objects that were opened, outermost first
FrameType(w) == [of : DOMAIN w.given, open : Nat \ {0}, at : Nat \ {0}]
Parent(w, p) == Last(Stack(w, p - 1)).open
FramesOK(w, p) ==
  LET s == Stack(w, p) IN
  /\ s \in Seq(FrameType(w))
  /\ \A d \in 1 .. Len(s) : /\ s[d].open \in 1 .. p /\ IsOpen(w, s[d].open)
                            /\ s[d].of = Of(w, s[d].open) /\ s[d].at \in 1 .. End(w, s[d].of)
  /\ \A d, e \in 1 .. Len(s) : d < e => s[d].open < s[e].open
  /\ \A d \in 1 .. Len(s) : IF d = 1 THEN s[d].open = 1 ELSE Parent(w, s[d].open) = s[d - 1].open

\* What was seen stays seen, and nothing is seen twice
MetOK(w, p) ==
  /\ Met(w, p) \in Seq(DOMAIN w.given)
  /\ \A x, y \in 1 .. Count(w, p) : Met(w, p)[x] = Met(w, p)[y] => x = y
  /\ \A x \in 1 .. Count(w, p) :
       \E q \in 1 .. p : IsOpen(w, q) /\ Count(w, q) = x /\ Of(w, q) = Met(w, p)[x]
  /\ \A q \in 0 .. p : /\ Count(w, q) <= Count(w, p)
                       /\ \A x \in 1 .. Count(w, q) : Met(w, p)[x] = Met(w, q)[x]

Written(w) ==
  /\ IsGraph(w.given)
  /\ w.trace \in Seq([writing : Seq(FrameType(w)), seen : Seq(DOMAIN w.given)])
  /\ w.text \in Seq({w.text[p] : p \in DOMAIN w.text}) /\ Len(w.trace) = Len(w.text)
  /\ \A p \in 1 .. Len(w.text) :
       Continues(w, w.text[p], p, Stack(w, p - 1), Stack(w, p), Met(w, p - 1), Met(w, p))
  /\ \A p \in 0 .. Len(w.text) : FramesOK(w, p) /\ MetOK(w, p)

----------------------------------------------------------------------------
(* What was read of it                                                     *)

Size(w) == Len(w.text)
Final(w) == Met(w, Size(w))
Places(w, n) == {p \in 1 .. n : w.text[p].is \in {"open", "ref"}}
Link(w, p) == Field(w.text[p].k, Object(p))
Path(w, n) == [d \in 1 .. Len(Stack(w, n)) |-> Stack(w, n)[d].open]
Inside(w, n) == Last(Stack(w, n)).open

\* The next property of the object at place p is the k-th
OnPath(w, n, p) == \E d \in 1 .. Len(Stack(w, n)) : Stack(w, n)[d].open = p
Upto(w, n, p, k) ==
  \/ \E d \in 1 .. Len(Stack(w, n)) : Stack(w, n)[d].open = p /\ Stack(w, n)[d].at = k
  \/ ~OnPath(w, n, p) /\ k = End(w, Of(w, p))

\* The object in hand is revived before its chain is built; with the root, the
\* lists of dates are gone
IsRevived(w, n, inHand, p) == OnPath(w, n, p) => inHand /\ p = Inside(w, n)
Gone(w, n, inHand) == inHand /\ Len(Stack(w, n)) = 1

\* The place c of a property stands for object i
StandsFor(w, c, i) ==
  IF IsOpen(w, c) THEN Of(w, c) = i
  ELSE w.text[c].id + 1 \in 1 .. Len(Final(w)) /\ Final(w)[w.text[c].id + 1] = i

FieldType ==
  [k : Keys \cup {NoKey, OBJECTREF_FIELD},
   v : [is : {"text", "date", "object", "id", "null"}, v : Strings \cup Nat]]
ObjectType == [array : BOOLEAN, own : Seq(FieldType), dates : SUBSET Strings]

ValueOf(w, i, m, revived) ==
  LET v == Enc(w, i).own[m].v
  IN  IF revived /\ HasList(w, i) /\ v.is = "text" /\ v.v \in Enc(w, i).dates THEN Date(v.v) ELSE v

FieldOK(w, i, m, f, revived) ==
  /\ f.k = Enc(w, i).own[m].k
  /\ IF Enc(w, i).own[m].v.is = "object" THEN f.v.is = "object" ELSE f.v = ValueOf(w, i, m, revived)

ListOf(w, i, k) == IF k = Width(w, i) + 2 THEN Enc(w, i).dates ELSE {}

\* The object o that is read at place p, whose next property is the k-th
ObjectOK(w, o, p, k, revived, gone) ==
  LET i == Of(w, p) IN
  /\ o \in ObjectType /\ o.array = w.given[i].array
  /\ o.dates = IF gone THEN {} ELSE ListOf(w, i, k)
  /\ Len(o.own) = IF k <= Width(w, i) THEN k - 1 ELSE Width(w, i)
  /\ \A m \in 1 .. Len(o.own) : FieldOK(w, i, m, o.own[m], revived)

ObjectsOK(w, n, inHand, ob) ==
  /\ DOMAIN ob = Places(w, n)
  /\ \A p \in Places(w, n) :
       IF IsOpen(w, p)
       THEN \A k \in Nat : Upto(w, n, p, k) => ObjectOK(w, ob[p], p, k, IsRevived(w, n, inHand, p), Gone(w, n, inHand))
       ELSE ob[p] = Reference(w.text[p].id)

\* A property that is an object is at a place behind its holder, and is in it alone
ChildOK(w, n, p, m, f) ==
  LET c == f.v.v IN
  /\ c \in Places(w, n) /\ c > p /\ Parent(w, c) = p
  /\ f = Link(w, c) /\ StandsFor(w, c, Enc(w, Of(w, p)).own[m].v.v)

ChildrenOK(w, n, ob) ==
  /\ \A p \in Places(w, n) : \A m \in 1 .. Len(ob[p].own) :
       ob[p].own[m].v.is = "object" => ChildOK(w, n, p, m, ob[p].own[m])
  /\ \A c \in Places(w, n) : c > 1 =>
       /\ Parent(w, c) \in Places(w, n) /\ IsOpen(w, Parent(w, c))
       /\ \E m \in 1 .. Len(ob[Parent(w, c)].own) : ob[Parent(w, c)].own[m] = Link(w, c)

ListsOK(w, n, inHand, ob, ds, hs) ==
  /\ ~Gone(w, n, inHand) => \A p \in Places(w, n) :
       IsRevived(w, n, inHand, p) /\ ob[p].dates # {} => p \in hs
  /\ ~inHand /\ Stack(w, n) # <<>> =>
       LET i == Last(Stack(w, n)).of IN Last(Stack(w, n)).at = Width(w, i) + 2 => ds = Enc(w, i).dates
  /\ \A d \in 1 .. Len(Stack(w, n)) - 1 : Stack(w, n)[d].at <= Width(w, Stack(w, n)[d].of) + 1

----------------------------------------------------------------------------
(* Chains                                                                  *)

\* f links to what was opened as the x-th
OpenedAs(w, n, f, x) ==
  LET p == f.v.v IN p \in 1 .. n /\ IsOpen(w, p) /\ Count(w, p) = x /\ f = Link(w, p)

HeadOf(q) == q[1].v.v
Reach(w, q) == Count(w, HeadOf(q)) + Len(q) - 1

\* A chain is what was opened from its head on; its parent is being read
ChainOK(w, n, q) ==
  LET h == HeadOf(q) IN
  /\ q \in Seq(FieldType) /\ q # <<>>
  /\ h \in Places(w, n) /\ q[1] = Link(w, h)
  /\ IF IsOpen(w, h) THEN \A x \in 1 .. Len(q) : OpenedAs(w, n, q[x], Count(w, h) + x - 1) ELSE Len(q) = 1
  /\ h > 1 /\ \E d \in 1 .. Len(Stack(w, n)) :
                /\ Parent(w, h) = Stack(w, n)[d].open /\ h > Stack(w, n)[d].open
                /\ d < Len(Stack(w, n)) => h < Stack(w, n)[d + 1].open

\* What was opened after that is in the chain in hand
Rest(w, n, ch) == Count(w, n) - (IF ch = <<>> THEN 0 ELSE Len(ch) - 1)

InHandOK(w, n, ch) ==
  /\ ch \in Seq(FieldType)
  /\ ch # <<>> => /\ w.text[n + 1].is = "close" /\ Stack(w, n) # <<>>
                  /\ ch[1] = Link(w, Inside(w, n))
                  /\ Rest(w, n, ch) >= Count(w, Inside(w, n))
                  /\ \A x \in 2 .. Len(ch) : OpenedAs(w, n, ch[x], Rest(w, n, ch) + x - 1)

\* The x-th object that was opened is open yet, or in a chain
Covered(w, n, ch, cs, x) ==
  \/ \E d \in 1 .. Len(Stack(w, n)) : Count(w, Stack(w, n)[d].open) = x
  \/ \E c \in 1 .. Len(cs) : Count(w, HeadOf(cs[c]) - 1) < x /\ x <= Reach(w, cs[c])
  \/ x > Rest(w, n, ch)

ChainsOK(w, n, ch, cs) ==
  /\ InHandOK(w, n, ch)
  /\ \A c \in 1 .. Len(cs) : ChainOK(w, n, cs[c]) /\ Reach(w, cs[c]) <= Rest(w, n, ch)
  /\ \A b, c \in 1 .. Len(cs) :
       b < c => HeadOf(cs[b]) < HeadOf(cs[c]) /\ Reach(w, cs[b]) <= Count(w, HeadOf(cs[c]) - 1)
  /\ \A c \in 1 .. Len(cs) : \A d \in 1 .. Len(Stack(w, n)) :
       HeadOf(cs[c]) < Stack(w, n)[d].open => Reach(w, cs[c]) <= Count(w, Stack(w, n)[d].open - 1)
  /\ \A x \in 1 .. Count(w, n) : Covered(w, n, ch, cs, x)

RefOf(w, p) == [parent |-> Parent(w, p), key |-> w.text[p].k, id |-> w.text[p].id]
RefsOK(w, n, cs, rf) ==
  /\ \A p \in Places(w, n) : ~IsOpen(w, p) => (\E c \in 1 .. Len(cs) : HeadOf(cs[c]) = p) \/ RefOf(w, p) \in rf
  /\ \A r \in rf : \E p \in Places(w, n) : ~IsOpen(w, p) /\ r = RefOf(w, p)

ReadingOK(w, n, rd, ob, ds, hs, ch, cs, rf) ==
  /\ n \in 0 .. Size(w) - 1 /\ rd = Path(w, n)
  /\ ObjectsOK(w, n, ch # <<>>, ob) /\ ChildrenOK(w, n, ob)
  /\ ListsOK(w, n, ch # <<>>, ob, ds, hs)
  /\ cs \in Seq(Seq(FieldType))
  /\ ChainsOK(w, n, ch, cs) /\ RefsOK(w, n, cs, rf)

----------------------------------------------------------------------------
(* All is read; references are replaced by what they refer to              *)

FilledOK(w, ob, rf, p, m) ==
  ob[p].own[m].v.is = "object" =>
    LET c == ob[p].own[m].v.v
        i == Enc(w, Of(w, p)).own[m].v.v
    IN  /\ c \in Places(w, Size(w)) /\ StandsFor(w, c, i)
        /\ ~IsOpen(w, c) => [parent |-> p, key |-> ob[p].own[m].k, id |-> w.text[c].id] \in rf

RefOK(w, r) ==
  LET i == Of(w, r.parent) IN
  /\ r.parent \in Places(w, Size(w)) /\ IsOpen(w, r.parent)
  /\ r.id + 1 \in 1 .. Len(Final(w))
  /\ \A m \in 1 .. Width(w, i) : Enc(w, i).own[m].k = r.key => Enc(w, i).own[m].v = Object(Final(w)[r.id + 1])

OneChain(w, cs) ==
  /\ Len(cs) = 1 /\ Len(cs[1]) = Len(Final(w))
  /\ \A x \in 1 .. Len(Final(w)) : OpenedAs(w, Size(w), cs[1][x], x)

ResolvingOK(w, ob, cs, rf) ==
  /\ DOMAIN ob = Places(w, Size(w))
  /\ \A p \in Places(w, Size(w)) :
       IF IsOpen(w, p)
       THEN /\ ObjectOK(w, ob[p], p, End(w, Of(w, p)), TRUE, TRUE)
            /\ \A m \in 1 .. Width(w, Of(w, p)) : FilledOK(w, ob, rf, p, m)
       ELSE ob[p] = Reference(w.text[p].id)
  /\ \A r \in rf : RefOK(w, r)
  /\ OneChain(w, cs)

----------------------------------------------------------------------------
(* The text is written once more, of objects with other names              *)

Ids(w) == {Final(w)[x] : x \in 1 .. Len(Final(w))}

IsRecord(o) == o = [array |-> o.array, own |-> o.own, dates |-> o.dates]

Alike(w, name, o, i) ==
  /\ o.array = w.given[i].array
  /\ o.own = Renamed(Enc(w, i).own, name)
  /\ ~o.array => o.dates = Enc(w, i).dates

RewritingOK(w, h, name, n, t, s, m) ==
  /\ name[Root] = Root
  /\ \A i, j \in Ids(w) : name[i] = name[j] => i = j
  /\ \A i \in Ids(w) : name[i] \in DOMAIN h /\ IsRecord(h[name[i]]) /\ Alike(w, name, Resolved(h[name[i]]), i)
  /\ n \in 0 .. Size(w) /\ t = SubSeq(w.text, 1, n)
  /\ s = [d \in 1 .. Len(Stack(w, n)) |-> [Stack(w, n)[d] EXCEPT !.of = name[@]]]
  /\ m = [x \in 1 .. Count(w, n) |-> name[Met(w, n)[x]]]
  /\ \A x \in 1 .. Count(w, n) : Alike(w, name, h[m[x]], Met(w, n)[x])

----------------------------------------------------------------------------
(* The invariant                                                           *)

\* The text that was written so far, and the text that was sent
Writing == [given |-> given, text |-> text, trace |-> trace]
Sent == [given |-> given, text |-> sent, trace |-> trace]

HeapOK(g, h, s) ==
  h = [i \in DOMAIN g |-> IF \E x \in 1 .. Len(s) : s[x] = i THEN Resolved(g[i]) ELSE g[i]]

WriteInv ==
  step = "write" =>
    /\ Written(Writing)
    /\ writing = Stack(Writing, Len(text)) /\ seen = Met(Writing, Len(text))
    /\ sent = <<>> /\ read = 0 /\ reading = <<>> /\ objects = <<>> /\ dates = {} /\ holders = {}
    /\ chain = <<>> /\ chains = <<>> /\ refs = {}

SentInv ==
  /\ step \in {"write", "read", "resolve", "decoded", "rewrite"}
  /\ step # "write" => Written(Sent) /\ sent # <<>> /\ Stack(Sent, Len(sent)) = <<>>
  /\ step # "rewrite" => HeapOK(given, heap, seen)
  /\ step \in {"read", "resolve", "decoded"} => seen = Final(Sent)

ReadInv ==
  /\ step = "read" => ReadingOK(Sent, read, reading, objects, dates, holders, chain, chains, refs)
  /\ step \in {"resolve", "decoded"} => ResolvingOK(Sent, objects, chains, refs)
  /\ step = "decoded" => refs = {}

RewriteInv ==
  step = "rewrite" => \E name \in [Ids(Sent) -> DOMAIN heap] :
                        RewritingOK(Sent, heap, name, Len(text), text, writing, seen)

Inv == WriteInv /\ SentInv /\ ReadInv /\ RewriteInv

\* The elements of a sequence.
LEMMA JSeq ==
  ASSUME NEW S, NEW s \in Seq(S)
  PROVE  /\ Len(s) \in Nat /\ DOMAIN s = 1 .. Len(s) /\ s = [d \in 1 .. Len(s) |-> s[d]]
         /\ \A d \in 1 .. Len(s) : s[d] \in S
         /\ s # <<>> => Len(s) >= 1 /\ Last(s) = s[Len(s)] /\ Last(s) \in S
         /\ s = <<>> => Len(s) = 0
BY DEF Last

\* Functions on 1 .. n are sequences.
LEMMA JSeqMade ==
  ASSUME NEW S, NEW n \in Nat, NEW s, s = [d \in 1 .. n |-> s[d]], \A d \in 1 .. n : s[d] \in S
  PROVE  s \in Seq(S) /\ Len(s) = n
OBVIOUS

\* Appending to a sequence.
LEMMA JSeqAppend ==
  ASSUME NEW S, NEW s \in Seq(S), NEW e \in S
  PROVE  /\ Append(s, e) \in Seq(S) /\ Len(Append(s, e)) = Len(s) + 1 /\ Append(s, e) # <<>>
         /\ \A d \in 1 .. Len(s) : Append(s, e)[d] = s[d]
         /\ Append(s, e)[Len(s) + 1] = e /\ Last(Append(s, e)) = e
BY DEF Last

\* A sequence without its last element.
LEMMA JSeqFront ==
  ASSUME NEW S, NEW s \in Seq(S), s # <<>>
  PROVE  /\ Front(s) \in Seq(S) /\ Len(Front(s)) = Len(s) - 1
         /\ \A d \in 1 .. Len(s) - 1 : Front(s)[d] = s[d]
<1>1. Len(s) \in Nat /\ Len(s) >= 1 /\ \A d \in 1 .. Len(s) : s[d] \in S
  BY JSeq
<1>2. Front(s) = [d \in 1 .. Len(s) - 1 |-> s[d]]
  BY <1>1 DEF Front
<1>3. \A d \in 1 .. Len(s) - 1 : Front(s)[d] = s[d]
  BY <1>2
<1>4. Front(s) = [d \in 1 .. Len(s) - 1 |-> Front(s)[d]]
  BY <1>2
<1> QED  BY <1>1, <1>3, <1>4, JSeqMade

\* A frame, and the frame behind the next property.
LEMMA JFrame ==
  ASSUME NEW w, NEW r \in FrameType(w)
  PROVE  /\ r.of \in DOMAIN w.given /\ r.open \in Nat \ {0} /\ r.at \in Nat \ {0}
         /\ r = [of |-> r.of, open |-> r.open, at |-> r.at]
         /\ [r EXCEPT !.at = @ + 1] = [of |-> r.of, open |-> r.open, at |-> r.at + 1]
         /\ [of |-> r.of, open |-> r.open, at |-> r.at + 1] \in FrameType(w)
BY DEF FrameType

\* Advancing changes the innermost frame alone.
LEMMA JPast ==
  ASSUME NEW w, NEW s \in Seq(FrameType(w)), s # <<>>
  PROVE  /\ Past(s) \in Seq(FrameType(w))
         /\ Len(Past(s)) = Len(s) /\ Past(s) # <<>>
         /\ \A d \in 1 .. Len(s) : /\ Past(s)[d].of = s[d].of /\ Past(s)[d].open = s[d].open
                                   /\ Past(s)[d].at = IF d = Len(s) THEN s[d].at + 1 ELSE s[d].at
         /\ Last(Past(s)) = [of |-> Last(s).of, open |-> Last(s).open, at |-> Last(s).at + 1]
         /\ \A d \in 1 .. Len(s) - 1 : Past(s)[d] = s[d]
<1>1. Len(s) \in Nat /\ Len(s) >= 1 /\ DOMAIN s = 1 .. Len(s) /\ \A d \in 1 .. Len(s) : s[d] \in FrameType(w)
  BY JSeq
<1>2. PICK r : r = [s[Len(s)] EXCEPT !.at = @ + 1]
  OBVIOUS
<1>3. r = [of |-> s[Len(s)].of, open |-> s[Len(s)].open, at |-> s[Len(s)].at + 1] /\ r \in FrameType(w)
  <2>1. PICK e : e = s[Len(s)]
    OBVIOUS
  <2>2. e \in FrameType(w) /\ r = [e EXCEPT !.at = @ + 1]
    BY <1>1, <1>2, <2>1
  <2>3. r = [of |-> e.of, open |-> e.open, at |-> e.at + 1] /\ r \in FrameType(w)
    BY <2>2, SMTT(30) DEF FrameType
  <2> QED  BY <2>1, <2>3, Zenon
<1>4. Past(s) = [s EXCEPT ![Len(s)] = r]
  BY <1>2, Zenon DEF Past
<1>5. Past(s) = [d \in 1 .. Len(s) |-> IF d = Len(s) THEN r ELSE s[d]]
  BY <1>1, <1>4
<1>6. \A d \in 1 .. Len(s) : Past(s)[d] = IF d = Len(s) THEN r ELSE s[d]
  BY <1>1, <1>5
<1>7. Past(s) = [d \in 1 .. Len(s) |-> Past(s)[d]]
  BY <1>5
<1>8. Past(s) \in Seq(FrameType(w)) /\ Len(Past(s)) = Len(s)
  BY <1>1, <1>3, <1>6, <1>7, JSeqMade
<1>9. Past(s) # <<>> /\ Last(Past(s)) = r /\ Last(s) = s[Len(s)]
  <2>1. PICK q : q = Past(s)
    OBVIOUS
  <2>0. Len(s) \in 1 .. Len(s)
    BY <1>1
  <2>2. q \in Seq(FrameType(w)) /\ Len(q) = Len(s) /\ q[Len(s)] = r
    BY <2>0, <1>6, <1>8, <2>1, Zenon
  <2>3. q # <<>>
    BY <1>1, <2>2
  <2> QED  BY <2>1, <2>2, <2>3 DEF Last
<1>10. r.of = s[Len(s)].of /\ r.open = s[Len(s)].open /\ r.at = s[Len(s)].at + 1
  BY <1>3
<1> QED  BY <1>1, <1>3, <1>6, <1>8, <1>9, <1>10

\* A token tells which step wrote it.
LEMMA JKinds ==
  ASSUME NEW w, NEW token, NEW p, NEW s, NEW t, NEW m, NEW n,
         Continues(w, token, p, s, t, m, n)
  PROVE  /\ token.is \in {"open", "ref", "value", "dates", "close"}
         /\ token.is = "open" => OpensRoot(w, token, p, s, t, m, n) \/ OpensObject(w, token, p, s, t, m, n)
         /\ token.is = "ref" => Refers(w, token, p, s, t, m, n)
         /\ token.is = "value" => Tells(w, token, p, s, t, m, n)
         /\ token.is = "dates" => Lists(w, token, p, s, t, m, n)
         /\ token.is = "close" => Closes(w, token, p, s, t, m, n)
<1>1. CASE OpensRoot(w, token, p, s, t, m, n)
  BY <1>1 DEF OpensRoot, Opens
<1>2. CASE OpensObject(w, token, p, s, t, m, n)
  BY <1>2 DEF OpensObject, Opens
<1>3. CASE Refers(w, token, p, s, t, m, n)
  <2>1. PICK a, b : token = [is |-> "ref", k |-> a, id |-> b]
    BY <1>3 DEF Refers
  <2> QED  BY <2>1, <1>3
<1>4. CASE Tells(w, token, p, s, t, m, n)
  <2>1. PICK a, b : token = [is |-> "value", k |-> a, v |-> b]
    BY <1>4 DEF Tells
  <2> QED  BY <2>1, <1>4
<1>5. CASE Lists(w, token, p, s, t, m, n)
  BY <1>5 DEF Lists
<1>6. CASE Closes(w, token, p, s, t, m, n)
  BY <1>6 DEF Closes
<1> QED  BY <1>1, <1>2, <1>3, <1>4, <1>5, <1>6 DEF Continues

\* What an object is encoded as.
LEMMA JEncoded ==
  ASSUME NEW w, IsGraph(w.given), NEW i \in DOMAIN w.given
  PROVE  /\ Width(w, i) \in Nat /\ End(w, i) \in Nat /\ End(w, i) \in {Width(w, i) + 1, Width(w, i) + 2}
         /\ Enc(w, i).array = w.given[i].array /\ Enc(w, i).array \in BOOLEAN
         /\ DOMAIN Enc(w, i).own = 1 .. Width(w, i) /\ Len(Enc(w, i).own) = Width(w, i)
         /\ Enc(w, i).dates = DatesOf(w.given[i].own) /\ Enc(w, i).dates \in SUBSET Strings
         /\ \A m \in 1 .. Width(w, i) :
              LET f == w.given[i].own[m]
                  e == Enc(w, i).own[m]
              IN  /\ f.k \in Keys /\ e.k = f.k
                  /\ e = Field(f.k, IF f.v.is = "date" THEN Text(f.v.v) ELSE f.v)
                  /\ e.v.is \in {"text", "object", "null"}
                  /\ e.v.is = "object" => e.v = Object(e.v.v) /\ e.v.v \in DOMAIN w.given
                  /\ e.v.is = "text" => e.v = Text(e.v.v) /\ e.v.v \in Strings
                  /\ e.v.is = "null" => e.v = Null
                  /\ f.v.is = "date" => f.v = Date(f.v.v) /\ f.v.v \in Strings
         /\ \A x, y \in 1 .. Width(w, i) : Enc(w, i).own[x].k = Enc(w, i).own[y].k => x = y
<1> DEFINE g == w.given[i]
<1>1. /\ g \in [array : BOOLEAN, own : Seq([k : Keys, v : Values(DOMAIN w.given)]), dates : {{}}]
      /\ \A m, n \in DOMAIN g.own : g.own[m].k = g.own[n].k => m = n
  BY DEF IsGraph
<1> HIDE DEF g
<1>2. /\ g.own \in Seq([k : Keys, v : Values(DOMAIN w.given)]) /\ g.dates = {} /\ g.array \in BOOLEAN
      /\ DOMAIN g.own = 1 .. Len(g.own) /\ Len(g.own) \in Nat
  BY <1>1
<1>3. \A m \in 1 .. Len(g.own) : g.own[m].k \in Keys /\ g.own[m].v \in Values(DOMAIN w.given) /\ g.own[m] = Field(g.own[m].k, g.own[m].v)
  <2> DEFINE F == [k : Keys, v : Values(DOMAIN w.given)]
  <2>1. \A f \in F : f.k \in Keys /\ f.v \in Values(DOMAIN w.given) /\ f = Field(f.k, f.v)
    BY DEF Field
  <2>2. g.own \in Seq(F)
    BY <1>2
  <2> HIDE DEF F
  <2> QED  BY <2>1, <2>2, JSeq
<1>4. Enc(w, i) = Resolved(g)
  BY DEF Enc, g
<1>5. /\ Enc(w, i).array = g.array /\ Enc(w, i).dates = DatesOf(g.own)
      /\ Enc(w, i).own = [m \in 1 .. Len(g.own) |-> IF g.own[m].v.is = "date" THEN Field(g.own[m].k, Text(g.own[m].v.v)) ELSE g.own[m]]
  BY <1>1, <1>2, <1>4 DEF Resolved
<1>6. \A v \in Values(DOMAIN w.given) :
        /\ v.is \in {"text", "date", "object", "null"}
        /\ v.is = "text" => v = Text(v.v) /\ v.v \in Strings
        /\ v.is = "date" => v = Date(v.v) /\ v.v \in Strings
        /\ v.is = "object" => v = Object(v.v) /\ v.v \in DOMAIN w.given
        /\ v.is = "null" => v = Null
  BY DEF Values, Text, Date, Object, Null
<1>7. \A m \in 1 .. Len(g.own) : Enc(w, i).own[m] = IF g.own[m].v.is = "date" THEN Field(g.own[m].k, Text(g.own[m].v.v)) ELSE g.own[m]
  BY <1>5
<1>8. DatesOf(g.own) \in SUBSET Strings
  BY <1>2, <1>3, <1>6 DEF DatesOf
<1>9. ASSUME NEW m \in 1 .. Len(g.own)
      PROVE  LET f == g.own[m]
                  e == Enc(w, i).own[m]
              IN  /\ f.k \in Keys /\ e.k = f.k
                  /\ e = Field(f.k, IF f.v.is = "date" THEN Text(f.v.v) ELSE f.v)
                  /\ e.v.is \in {"text", "object", "null"}
                  /\ e.v.is = "object" => e.v = Object(e.v.v) /\ e.v.v \in DOMAIN w.given
                  /\ e.v.is = "text" => e.v = Text(e.v.v) /\ e.v.v \in Strings
                  /\ e.v.is = "null" => e.v = Null
                  /\ f.v.is = "date" => f.v = Date(f.v.v) /\ f.v.v \in Strings
  <2>1. CASE g.own[m].v.is = "date"
    <3>1. Enc(w, i).own[m] = Field(g.own[m].k, Text(g.own[m].v.v)) /\ g.own[m].v = Date(g.own[m].v.v) /\ g.own[m].v.v \in Strings
      BY <2>1, <1>7, <1>3, <1>6
    <3>2. PICK key, ms, e, f : key = g.own[m].k /\ ms = g.own[m].v.v /\ e = Enc(w, i).own[m] /\ f = g.own[m]
      OBVIOUS
    <3>3. e = Field(key, Text(ms)) /\ f.v = Date(ms) /\ ms \in Strings /\ key \in Keys /\ f.k = key /\ f.v.v = ms /\ f.v.is = "date"
      BY <3>1, <3>2, <1>3, <2>1
    <3>4. /\ e.k = key /\ e = Field(key, IF f.v.is = "date" THEN Text(f.v.v) ELSE f.v)
          /\ e.v = Text(ms) /\ e.v.is = "text" /\ e.v.v = ms
      BY <3>3 DEF Field, Text
    <3> QED  BY <3>2, <3>3, <3>4
  <2>2. CASE g.own[m].v.is # "date"
    <3>1. Enc(w, i).own[m] = g.own[m]
      BY <2>2, <1>7
    <3> QED  BY <3>1, <2>2, <1>3, <1>6
  <2> QED  BY <2>1, <2>2
<1>10. DOMAIN Enc(w, i).own = 1 .. Len(g.own) /\ Len(Enc(w, i).own) = Len(g.own)
  BY <1>5, <1>2
<1>11. Width(w, i) = Len(g.own) /\ End(w, i) \in {Width(w, i) + 1, Width(w, i) + 2} /\ Width(w, i) \in Nat /\ End(w, i) \in Nat
  <2>1. Width(w, i) = Len(g.own)
    BY DEF Width, g
  <2>2. End(w, i) = Width(w, i) + 1 \/ End(w, i) = Width(w, i) + 2
    BY Zenon DEF End
  <2> QED  BY <1>2, <2>1, <2>2
<1>12. \A x, y \in 1 .. Len(g.own) : Enc(w, i).own[x].k = Enc(w, i).own[y].k => x = y
  BY <1>9, <1>1, <1>2
<1> QED  BY <1>2, <1>5, <1>8, <1>9, <1>10, <1>11, <1>12 DEF g

\* The number of its properties, and how many steps it takes to write it.
LEMMA JEnds ==
  ASSUME NEW w, IsGraph(w.given)
  PROVE  \A i \in DOMAIN w.given : Width(w, i) \in Nat /\ End(w, i) \in Nat /\ End(w, i) > Width(w, i)
<1> SUFFICES ASSUME NEW i \in DOMAIN w.given
             PROVE  Width(w, i) \in Nat /\ End(w, i) \in Nat /\ End(w, i) > Width(w, i)
  OBVIOUS
<1>1. Width(w, i) \in Nat /\ End(w, i) \in {Width(w, i) + 1, Width(w, i) + 2}
  BY JEncoded
<1> QED  BY <1>1

\* What an object is encoded as depends on the objects alone.
LEMMA JSameGiven ==
  ASSUME NEW w, NEW v, v.given = w.given
  PROVE  /\ \A i : Enc(v, i) = Enc(w, i) /\ Width(v, i) = Width(w, i) /\ End(v, i) = End(w, i)
         /\ FrameType(v) = FrameType(w)
         /\ \A token, p, s, t, m, n :
              Continues(w, token, p, s, t, m, n) => Continues(v, token, p, s, t, m, n)
<1>1. \A i : Enc(v, i) = Enc(w, i) /\ Width(v, i) = Width(w, i)
  BY DEF Enc, Width
<1>2. \A i : HasList(v, i) <=> HasList(w, i)
  BY <1>1, Zenon DEF HasList
<1>3. \A i : End(v, i) = End(w, i)
  BY <1>1, <1>2, Zenon DEF End
<1>4. ASSUME NEW token, NEW p, NEW s, NEW t, NEW m, NEW n, Continues(w, token, p, s, t, m, n)
      PROVE  Continues(v, token, p, s, t, m, n)
  <2>1. NextField(v, s) = NextField(w, s) /\ (InFields(v, s) <=> InFields(w, s))
    BY <1>1, Zenon DEF NextField, InFields
  <2>2. \A key, i, x : Opens(w, key, i, x, token, p, t, m, n) => Opens(v, key, i, x, token, p, t, m, n)
    BY Zenon DEF Opens
  <2>3. CASE OpensRoot(w, token, p, s, t, m, n)
    BY <2>3, <2>2, Zenon DEF Continues, OpensRoot
  <2>4. CASE OpensObject(w, token, p, s, t, m, n)
    BY <2>4, <2>1, <2>2, Zenon DEF Continues, OpensObject
  <2>5. CASE Refers(w, token, p, s, t, m, n)
    BY <2>5, <2>1, Zenon DEF Continues, Refers
  <2>6. CASE Tells(w, token, p, s, t, m, n)
    BY <2>6, <2>1, Zenon DEF Continues, Tells
  <2>7. CASE Lists(w, token, p, s, t, m, n)
    BY <2>7, <1>1, <1>2, Zenon DEF Continues, Lists
  <2>8. CASE Closes(w, token, p, s, t, m, n)
    BY <2>8, <1>3, Zenon DEF Continues, Closes
  <2> QED  BY <1>4, <2>3, <2>4, <2>5, <2>6, <2>7, <2>8 DEF Continues
<1> QED  BY <1>1, <1>3, <1>4 DEF FrameType

\* The stacks of a text.
LEMMA JTypes ==
  ASSUME NEW w, Written(w), NEW p \in 0 .. Size(w)
  PROVE  /\ Size(w) \in Nat
         /\ Stack(w, p) \in Seq(FrameType(w)) /\ Len(Stack(w, p)) \in Nat
         /\ Met(w, p) \in Seq(DOMAIN w.given) /\ Count(w, p) \in Nat /\ DOMAIN Met(w, p) = 1 .. Count(w, p)
         /\ FramesOK(w, p) /\ MetOK(w, p)
         /\ \A d \in 1 .. Len(Stack(w, p)) : Stack(w, p)[d] \in FrameType(w)
<1>1. FramesOK(w, p) /\ MetOK(w, p) /\ Size(w) \in Nat
  BY DEF Written, Size
<1>2. Stack(w, p) \in Seq(FrameType(w)) /\ Met(w, p) \in Seq(DOMAIN w.given)
  BY <1>1 DEF FramesOK, MetOK
<1> QED  BY <1>1, <1>2, JSeq DEF Count

\* The step from a token to the next.
LEMMA JContinues ==
  ASSUME NEW w, Written(w), NEW n \in 0 .. Size(w) - 1
  PROVE  /\ n + 1 \in 1 .. Size(w) /\ n \in 0 .. Size(w) /\ n + 1 \in 0 .. Size(w) /\ Size(w) \in Nat
         /\ Continues(w, w.text[n + 1], n + 1, Stack(w, n), Stack(w, n + 1), Met(w, n), Met(w, n + 1))
<1>1. Size(w) \in Nat
  BY DEF Written, Size
<1>2. n + 1 \in 1 .. Size(w) /\ n + 1 - 1 = n /\ n \in 0 .. Size(w) /\ n + 1 \in 0 .. Size(w)
  BY <1>1
<1>3. \A p \in 1 .. Size(w) :
        Continues(w, w.text[p], p, Stack(w, p - 1), Stack(w, p), Met(w, p - 1), Met(w, p))
  BY DEF Written, Size
<1>4. Continues(w, w.text[n + 1], n + 1, Stack(w, n + 1 - 1), Stack(w, n + 1), Met(w, n + 1 - 1), Met(w, n + 1))
  BY <1>2, <1>3
<1> QED  BY <1>1, <1>2, <1>4

\* The frames of s are in t, the innermost one a property further
Advanced(s, t) ==
  \A d \in 1 .. Len(s) : /\ t[d].of = s[d].of /\ t[d].open = s[d].open
                         /\ t[d].at = IF d = Len(s) THEN s[d].at + 1 ELSE s[d].at

\* What a token does to the stack s and to what was met
Moves(w, token, p, s, t, m, n) ==
  /\ t \in Seq(FrameType(w)) /\ n \in Seq(DOMAIN w.given) /\ Len(s) \in Nat /\ Len(m) \in Nat
  /\ (p = 1 \/ s # <<>>)
  /\ token.is = "open" =>
       /\ Len(t) = Len(s) + 1 /\ t[Len(t)] = [of |-> Last(n), open |-> p, at |-> 1] /\ Advanced(s, t)
       /\ Len(n) = Len(m) + 1 /\ n[Len(n)] = Last(n) /\ Last(n) \in DOMAIN w.given
       /\ \A x \in 1 .. Len(m) : n[x] = m[x] /\ m[x] # Last(n)
       /\ IF p = 1 THEN s = <<>> /\ Last(n) = Root
          ELSE s # <<>> /\ s[Len(s)].at <= Width(w, s[Len(s)].of)
  /\ token.is # "open" => s # <<>> /\ n = m
  /\ token.is \in {"ref", "value", "dates"} =>
       Len(t) = Len(s) /\ Advanced(s, t) /\ s[Len(s)].at < End(w, s[Len(s)].of)
  /\ token.is = "close" =>
       Len(t) = Len(s) - 1 /\ s[Len(s)].at = End(w, s[Len(s)].of) /\ \A d \in 1 .. Len(s) - 1 : t[d] = s[d]

\* So does every token.
LEMMA JMoves ==
  ASSUME NEW w, IsGraph(w.given), NEW token, NEW p \in Nat \ {0}, NEW s \in Seq(FrameType(w)), NEW t,
         NEW m \in Seq(DOMAIN w.given), NEW n, Continues(w, token, p, s, t, m, n)
  PROVE  Moves(w, token, p, s, t, m, n)
<1>1. Root \in DOMAIN w.given
  BY DEF IsGraph
<1>2. /\ Len(s) \in Nat /\ Len(m) \in Nat /\ \A d \in 1 .. Len(s) : s[d] \in FrameType(w)
      /\ s # <<>> => Last(s) = s[Len(s)] /\ Len(s) >= 1 /\ Last(s) \in FrameType(w)
      /\ s = <<>> => Len(s) = 0
  BY JSeq
<1>3. s # <<>> => /\ Past(s) \in Seq(FrameType(w)) /\ Len(Past(s)) = Len(s) /\ Advanced(s, Past(s))
                  /\ Last(s).of \in DOMAIN w.given /\ Last(s).at \in Nat \ {0}
  BY <1>2, JPast, JFrame DEF Advanced
<1>4. \A i \in DOMAIN w.given : Width(w, i) \in Nat /\ End(w, i) \in Nat /\ End(w, i) > Width(w, i)
  BY JEncoded, SMTT(30)
<1>5. InFields(w, s) /\ NextField(w, s).v.is = "object" => NextField(w, s).v.v \in DOMAIN w.given
  <2> SUFFICES ASSUME InFields(w, s), NextField(w, s).v.is = "object"
               PROVE  NextField(w, s).v.v \in DOMAIN w.given
    OBVIOUS
  <2>1. PICK i, x : i = Last(s).of /\ x = Last(s).at
    OBVIOUS
  <2>2. i \in DOMAIN w.given /\ x \in 1 .. Width(w, i)
    <3>1. s # <<>> /\ x <= Width(w, i)
      BY <2>1 DEF InFields
    <3> QED  BY <3>1, <2>1, <1>3, <1>4
  <2>4. NextField(w, s) = Enc(w, i).own[x]
    BY <2>1 DEF NextField
  <2> QED  BY <2>2, <2>4, JEncoded
<1>50. ASSUME NEW u \in Seq(FrameType(w)), NEW i \in DOMAIN w.given, NEW key, Opens(w, key, i, u, token, p, t, m, n)
       PROVE  /\ t \in Seq(FrameType(w)) /\ Len(t) = Len(u) + 1
              /\ \A d \in 1 .. Len(u) : t[d] = u[d]
              /\ t[Len(t)] = [of |-> i, open |-> p, at |-> 1]
              /\ n \in Seq(DOMAIN w.given) /\ Len(n) = Len(m) + 1
              /\ \A x \in 1 .. Len(m) : n[x] = m[x] /\ m[x] # i
              /\ n[Len(n)] = i /\ Last(n) = i
              /\ token = [is |-> "open", k |-> key, array |-> w.given[i].array]
  <2>1. [of |-> i, open |-> p, at |-> 1] \in FrameType(w)
    BY DEF FrameType
  <2>2. /\ token = [is |-> "open", k |-> key, array |-> w.given[i].array]
        /\ \A x \in DOMAIN m : m[x] # i
        /\ n = Append(m, i) /\ t = Append(u, [of |-> i, open |-> p, at |-> 1])
    BY <1>50 DEF Opens
  <2>3. /\ t \in Seq(FrameType(w)) /\ Len(t) = Len(u) + 1 /\ t # <<>>
        /\ \A d \in 1 .. Len(u) : t[d] = u[d]
        /\ t[Len(u) + 1] = [of |-> i, open |-> p, at |-> 1] /\ Last(t) = [of |-> i, open |-> p, at |-> 1]
    BY <2>1, <2>2, JSeqAppend, SMTT(30)
  <2>4. /\ n \in Seq(DOMAIN w.given) /\ Len(n) = Len(m) + 1
        /\ \A x \in 1 .. Len(m) : n[x] = m[x]
        /\ n[Len(m) + 1] = i /\ Last(n) = i
    BY <2>2, JSeqAppend
  <2>5. Len(m) \in Nat /\ DOMAIN m = 1 .. Len(m)
    BY JSeq
  <2> QED  BY <2>2, <2>3, <2>4, <2>5
<1>6. CASE OpensRoot(w, token, p, s, t, m, n)
  <2>1. p = 1 /\ s = <<>> /\ Opens(w, NoKey, Root, s, token, p, t, m, n)
    BY <1>6 DEF OpensRoot
  <2>2. /\ t \in Seq(FrameType(w)) /\ Len(t) = Len(s) + 1
        /\ t[Len(t)] = [of |-> Root, open |-> p, at |-> 1]
        /\ n \in Seq(DOMAIN w.given) /\ Len(n) = Len(m) + 1
        /\ \A x \in 1 .. Len(m) : n[x] = m[x] /\ m[x] # Root
        /\ n[Len(n)] = Root /\ Last(n) = Root
        /\ token = [is |-> "open", k |-> NoKey, array |-> w.given[Root].array]
    <3>1. PICK i, key : i = Root /\ key = NoKey
      OBVIOUS
    <3>2. i \in DOMAIN w.given /\ Opens(w, key, i, s, token, p, t, m, n)
      BY <1>1, <2>1, <3>1
    <3>3. /\ t \in Seq(FrameType(w)) /\ Len(t) = Len(s) + 1
          /\ t[Len(t)] = [of |-> i, open |-> p, at |-> 1]
          /\ n \in Seq(DOMAIN w.given) /\ Len(n) = Len(m) + 1
          /\ \A x \in 1 .. Len(m) : n[x] = m[x] /\ m[x] # i
          /\ n[Len(n)] = i /\ Last(n) = i
          /\ token = [is |-> "open", k |-> key, array |-> w.given[i].array]
      BY <3>2, <1>50
    <3> QED  BY <3>1, <3>3
  <2>3. token.is = "open"
    BY <2>2
  <2>4. Advanced(s, t)
    BY <2>1, <1>2 DEF Advanced
  <2> QED  BY <1>1, <1>2, <2>1, <2>2, <2>3, <2>4 DEF Moves
<1>7. CASE OpensObject(w, token, p, s, t, m, n)
  <2>1. PICK i, key : /\ p > 1 /\ InFields(w, s) /\ NextField(w, s).v.is = "object" /\ i = NextField(w, s).v.v
                      /\ Opens(w, key, i, Past(s), token, p, t, m, n)
    BY <1>7 DEF OpensObject
  <2>2. i \in DOMAIN w.given /\ s # <<>> /\ s[Len(s)].at <= Width(w, s[Len(s)].of)
    BY <1>2, <1>5, <2>1 DEF InFields
  <2>3. PICK u : u = Past(s)
    OBVIOUS
  <2>4. u \in Seq(FrameType(w)) /\ Len(u) = Len(s) /\ Advanced(s, u)
    BY <1>3, <2>2, <2>3
  <2>5. /\ t \in Seq(FrameType(w)) /\ Len(t) = Len(u) + 1
        /\ \A d \in 1 .. Len(u) : t[d] = u[d]
        /\ t[Len(t)] = [of |-> i, open |-> p, at |-> 1]
        /\ n \in Seq(DOMAIN w.given) /\ Len(n) = Len(m) + 1
        /\ \A x \in 1 .. Len(m) : n[x] = m[x] /\ m[x] # i
        /\ n[Len(n)] = i /\ Last(n) = i
        /\ token = [is |-> "open", k |-> key, array |-> w.given[i].array]
    BY <2>1, <2>2, <2>3, <2>4, <1>50
  <2>6. token.is = "open"
    BY <2>5
  <2>7. Advanced(s, t)
    BY <2>4, <2>5, <1>2 DEF Advanced
  <2> QED  BY <1>2, <2>1, <2>2, <2>4, <2>5, <2>6, <2>7 DEF Moves
<1>8. ASSUME token.is \in {"ref", "value", "dates"}, s # <<>>, n = m, t = Past(s), s[Len(s)].at < End(w, s[Len(s)].of), p > 1
      PROVE  /\ t \in Seq(FrameType(w)) /\ n \in Seq(DOMAIN w.given)
             /\ Len(t) = Len(s) /\ Advanced(s, t)
  BY <1>8, <1>3
<1>9. InFields(w, s) => s # <<>> /\ s[Len(s)].at < End(w, s[Len(s)].of)
  <2>1. SUFFICES ASSUME InFields(w, s) PROVE s # <<>> /\ s[Len(s)].at < End(w, s[Len(s)].of)
    OBVIOUS
  <2>2. PICK i, x : i = Last(s).of /\ x = Last(s).at
    OBVIOUS
  <2>3. s # <<>> /\ x <= Width(w, i)
    BY <2>1, <2>2 DEF InFields
  <2>4. i \in DOMAIN w.given /\ x \in Nat
    BY <2>2, <2>3, <1>3
  <2>5. x < End(w, i)
    BY <2>3, <2>4, <1>4
  <2> QED  BY <2>2, <2>3, <2>5, <1>2
<1>10. CASE Refers(w, token, p, s, t, m, n)
  <2>1. InFields(w, s) /\ n = m /\ t = Past(s) /\ p > 1
    BY <1>10 DEF Refers
  <2>2. token.is = "ref"
    <3>1. PICK a, b : token = [is |-> "ref", k |-> a, id |-> b]
      BY <1>10 DEF Refers
    <3> QED  BY <3>1
  <2> QED  BY <1>2, <1>8, <1>9, <2>1, <2>2 DEF Moves
<1>11. CASE Tells(w, token, p, s, t, m, n)
  <2>1. InFields(w, s) /\ n = m /\ t = Past(s) /\ p > 1
    BY <1>11 DEF Tells
  <2>2. token.is = "value"
    <3>1. PICK a, b : token = [is |-> "value", k |-> a, v |-> b]
      BY <1>11 DEF Tells
    <3> QED  BY <3>1
  <2> QED  BY <1>2, <1>8, <1>9, <2>1, <2>2 DEF Moves
<1>12. CASE Lists(w, token, p, s, t, m, n)
  <2>1. /\ s # <<>> /\ Last(s).at = Width(w, Last(s).of) + 1 /\ HasList(w, Last(s).of) /\ p > 1
        /\ token = [is |-> "dates", v |-> Enc(w, Last(s).of).dates] /\ n = m /\ t = Past(s)
    BY <1>12 DEF Lists
  <2>2. token.is = "dates"
    BY <2>1
  <2>3. s[Len(s)].at < End(w, s[Len(s)].of)
    <3>1. PICK i, x : i = Last(s).of /\ x = Last(s).at
      OBVIOUS
    <3>2. i \in DOMAIN w.given /\ x \in Nat /\ x = Width(w, i) + 1 /\ HasList(w, i)
      BY <3>1, <2>1, <1>3
    <3>3. End(w, i) = Width(w, i) + 2
      BY <3>2, Zenon DEF End
    <3>4. x < End(w, i)
      BY <3>2, <3>3, <1>4
    <3> QED  BY <3>1, <3>4, <2>1, <1>2
  <2> QED  BY <1>2, <1>8, <2>1, <2>2, <2>3 DEF Moves
<1>13. CASE Closes(w, token, p, s, t, m, n)
  <2>1. /\ s # <<>> /\ Last(s).at = End(w, Last(s).of) /\ token = [is |-> "close"] /\ n = m /\ t = Front(s) /\ p > 1
    BY <1>13 DEF Closes
  <2>2. token.is = "close"
    BY <2>1
  <2>3. t \in Seq(FrameType(w)) /\ Len(t) = Len(s) - 1 /\ \A d \in 1 .. Len(s) - 1 : t[d] = s[d]
    BY <2>1, JSeqFront
  <2> QED  BY <1>2, <2>1, <2>2, <2>3 DEF Moves
<1> QED  BY <1>6, <1>7, <1>10, <1>11, <1>12, <1>13 DEF Continues

\* A text stays one that stringify wrote when it writes one token more.
LEMMA JGrows ==
  ASSUME NEW w, NEW v, Written(w), NEW token, NEW s, NEW m,
         v.given = w.given, v.text = Append(w.text, token),
         v.trace = Append(w.trace, [writing |-> s, seen |-> m]),
         Continues(w, token, Size(w) + 1, Stack(w, Size(w)), s, Met(w, Size(w)), m)
  PROVE  Written(v) /\ Size(v) = Size(w) + 1 /\ Stack(v, Size(v)) = s /\ Met(v, Size(v)) = m
<1> DEFINE n == Size(w)
           S == Stack(w, n)
           M == Met(w, n)
<1>1. /\ n \in Nat /\ Len(w.trace) = n /\ n = Len(w.text)
      /\ w.text \in Seq({w.text[p] : p \in DOMAIN w.text})
      /\ w.trace \in Seq([writing : Seq(FrameType(w)), seen : Seq(DOMAIN w.given)])
      /\ IsGraph(w.given) /\ IsGraph(v.given)
  BY DEF Written, Size
<1>2. /\ S \in Seq(FrameType(w)) /\ M \in Seq(DOMAIN w.given) /\ Len(S) \in Nat /\ Len(M) \in Nat
      /\ Count(w, n) = Len(M) /\ n \in 0 .. n
  BY <1>1, JTypes DEF Count
<1>3. /\ s \in Seq(FrameType(w)) /\ m \in Seq(DOMAIN w.given)
      /\ (n + 1 = 1 \/ S # <<>>)
      /\ token.is = "open" =>
           /\ Len(s) = Len(S) + 1 /\ s[Len(s)] = [of |-> Last(m), open |-> n + 1, at |-> 1] /\ Advanced(S, s)
           /\ Len(m) = Len(M) + 1 /\ m[Len(m)] = Last(m) /\ Last(m) \in DOMAIN w.given
           /\ \A x \in 1 .. Len(M) : m[x] = M[x] /\ M[x] # Last(m)
           /\ IF n + 1 = 1 THEN S = <<>> /\ Last(m) = Root
              ELSE S # <<>> /\ S[Len(S)].at <= Width(w, S[Len(S)].of)
      /\ token.is # "open" => S # <<>> /\ m = M
      /\ token.is \in {"ref", "value", "dates"} =>
           Len(s) = Len(S) /\ Advanced(S, s) /\ S[Len(S)].at < End(w, S[Len(S)].of)
      /\ token.is = "close" =>
           Len(s) = Len(S) - 1 /\ S[Len(S)].at = End(w, S[Len(S)].of) /\ \A d \in 1 .. Len(S) - 1 : s[d] = S[d]
  <2>1. n + 1 \in Nat \ {0} /\ Continues(w, token, n + 1, S, s, M, m)
    BY <1>1
  <2>2. PICK p : p = n + 1
    OBVIOUS
  <2> HIDE DEF n, S, M
  <2>3. Moves(w, token, p, S, s, M, m)
    BY <2>1, <2>2, <1>1, <1>2, JMoves
  <2> QED  BY <2>2, <2>3 DEF Moves
<1>4. token.is \in {"open", "ref", "value", "dates", "close"}
  BY JKinds
<1> HIDE DEF n, S, M
<1>5. /\ v.text \in Seq({v.text[p] : p \in DOMAIN v.text}) /\ Len(v.text) = n + 1
      /\ \A q \in 1 .. n : v.text[q] = w.text[q]
      /\ v.text[n + 1] = token
  <2>1. PICK t : t = w.text
    OBVIOUS
  <2>2. PICK u : u = v.text
    OBVIOUS
  <2>3. PICK T : T = {t[p] : p \in DOMAIN t} \cup {token}
    OBVIOUS
  <2>4. t \in Seq(T) /\ token \in T /\ Len(t) = n /\ u = Append(t, token)
    <3>1. t \in Seq({t[p] : p \in DOMAIN t}) /\ Len(t) = n
      BY <1>1, <2>1
    <3>2. DOMAIN t = 1 .. Len(t) /\ Len(t) \in Nat /\ t = [d \in 1 .. Len(t) |-> t[d]]
      BY <3>1, JSeq
    <3>3. \A d \in 1 .. Len(t) : t[d] \in T
      BY <3>2, <2>3
    <3>4. t \in Seq(T)
      BY <3>2, <3>3, JSeqMade
    <3> QED  BY <3>1, <3>4, <2>1, <2>2, <2>3
  <2>5. u \in Seq(T) /\ Len(u) = n + 1 /\ (\A q \in 1 .. n : u[q] = t[q]) /\ u[n + 1] = token
    BY <2>4, JSeqAppend
  <2>6. DOMAIN u = 1 .. Len(u) /\ u = [d \in 1 .. Len(u) |-> u[d]]
    BY <2>5, JSeq
  <2>7. u \in Seq({u[p] : p \in DOMAIN u})
    <3>1. PICK R, k : R = {u[p] : p \in DOMAIN u} /\ k = n + 1
      OBVIOUS
    <3>2. k \in Nat /\ u = [d \in 1 .. k |-> u[d]] /\ \A d \in 1 .. k : u[d] \in R
      BY <1>1, <2>5, <2>6, <3>1
    <3> QED  BY <3>1, <3>2, JSeqMade
  <2> QED  BY <2>1, <2>2, <2>5, <2>7
<1>6. /\ v.trace \in Seq([writing : Seq(FrameType(w)), seen : Seq(DOMAIN w.given)]) /\ Len(v.trace) = n + 1
      /\ \A q \in 1 .. n : v.trace[q] = w.trace[q]
      /\ v.trace[n + 1] = [writing |-> s, seen |-> m]
  <2>1. [writing |-> s, seen |-> m] \in [writing : Seq(FrameType(w)), seen : Seq(DOMAIN w.given)]
    BY <1>3
  <2>2. PICK T, e : T = [writing : Seq(FrameType(w)), seen : Seq(DOMAIN w.given)] /\ e = [writing |-> s, seen |-> m]
    OBVIOUS
  <2>3. w.trace \in Seq(T) /\ e \in T /\ v.trace = Append(w.trace, e)
    BY <2>1, <2>2, <1>1
  <2>4. v.trace \in Seq(T) /\ Len(v.trace) = n + 1 /\ (\A q \in 1 .. n : v.trace[q] = w.trace[q]) /\ v.trace[n + 1] = e
    BY <2>3, <1>1, JSeqAppend
  <2> QED  BY <2>2, <2>4
<1>7. \A q \in 0 .. n : /\ Stack(v, q) = Stack(w, q) /\ Met(v, q) = Met(w, q)
                        /\ Count(v, q) = Count(w, q) /\ Of(v, q) = Of(w, q)
  BY <1>1, <1>6, SMTT(30) DEF Stack, Met, Count, Of
<1>8. Stack(v, n + 1) = s /\ Met(v, n + 1) = m /\ Count(v, n + 1) = Len(m) /\ Of(v, n + 1) = Last(m)
  BY <1>1, <1>6 DEF Stack, Met, Count, Of
<1>9. /\ \A q \in 1 .. n : (IsOpen(v, q) <=> IsOpen(w, q))
      /\ (IsOpen(v, n + 1) <=> (token.is = "open"))
      /\ \A q \in 1 .. n : Parent(v, q) = Parent(w, q)
      /\ Parent(v, n + 1) = Last(S).open
  <2>1. \A q \in 1 .. n : q - 1 \in 0 .. n
    BY <1>1
  <2>2. n + 1 - 1 = n /\ n \in 0 .. n
    BY <1>1
  <2>3. /\ \A q \in 1 .. n : (IsOpen(v, q) <=> IsOpen(w, q))
        /\ IsOpen(v, n + 1) <=> (token.is = "open")
    BY <1>5 DEF IsOpen
  <2>4. \A q \in 1 .. n : Parent(v, q) = Parent(w, q)
    BY <2>1, <1>7 DEF Parent
  <2>5. Parent(v, n + 1) = Last(S).open
    BY <2>2, <1>7 DEF Parent, S
  <2> QED  BY <2>3, <2>4, <2>5
<1>10. /\ FrameType(v) = FrameType(w) /\ DOMAIN v.given = DOMAIN w.given
       /\ \A i : End(v, i) = End(w, i)
       /\ \A a, p, b, t, c, e : Continues(w, a, p, b, t, c, e) => Continues(v, a, p, b, t, c, e)
  BY JSameGiven
<1>11. \A q \in 0 .. n : FramesOK(v, q) /\ MetOK(v, q)
  <2> SUFFICES ASSUME NEW q \in 0 .. n PROVE FramesOK(v, q) /\ MetOK(v, q)
    OBVIOUS
  <2>1. FramesOK(w, q) /\ MetOK(w, q)
    BY JTypes DEF n
  <2>2. PICK t : t = Stack(w, q) /\ t = Stack(v, q)
    BY <1>7
  <2>3. FramesOK(v, q)
    <3>1. /\ t \in Seq(FrameType(w))
          /\ \A d \in 1 .. Len(t) : /\ t[d].open \in 1 .. q /\ IsOpen(w, t[d].open)
                                    /\ t[d].of = Of(w, t[d].open) /\ t[d].at \in 1 .. End(w, t[d].of)
          /\ \A d, e \in 1 .. Len(t) : d < e => t[d].open < t[e].open
          /\ \A d \in 1 .. Len(t) : IF d = 1 THEN t[d].open = 1 ELSE Parent(w, t[d].open) = t[d - 1].open
      BY <2>1, <2>2, Zenon DEF FramesOK
    <3>2. \A p \in 1 .. q : p \in 1 .. n /\ p \in 0 .. n
      BY <1>1
    <3>3. \A d \in 1 .. Len(t) : /\ t[d].open \in 1 .. q /\ IsOpen(v, t[d].open)
                                    /\ t[d].of = Of(v, t[d].open) /\ t[d].at \in 1 .. End(v, t[d].of)
      BY <3>1, <3>2, <1>7, <1>9, <1>10, Zenon
    <3>4. \A d \in 1 .. Len(t) : IF d = 1 THEN t[d].open = 1 ELSE Parent(v, t[d].open) = t[d - 1].open
      BY <3>1, <3>2, <1>9, Zenon
    <3> QED  BY <3>1, <3>3, <3>4, <2>2, <1>10, Zenon DEF FramesOK
  <2>4. MetOK(v, q)
    <3>1. \A x \in 0 .. q : x \in 0 .. n
      BY <1>1
    <3>2. \A x \in 1 .. q : x \in 1 .. n /\ x \in 0 .. n
      BY <1>1
    <3>3. /\ Met(w, q) \in Seq(DOMAIN w.given)
          /\ \A x, y \in 1 .. Count(w, q) : Met(w, q)[x] = Met(w, q)[y] => x = y
          /\ \A x \in 1 .. Count(w, q) :
               \E r \in 1 .. q : IsOpen(w, r) /\ Count(w, r) = x /\ Of(w, r) = Met(w, q)[x]
          /\ \A r \in 0 .. q : /\ Count(w, r) <= Count(w, q)
                               /\ \A x \in 1 .. Count(w, r) : Met(w, q)[x] = Met(w, r)[x]
      BY <2>1 DEF MetOK
    <3>4. \A x \in 1 .. Count(w, q) : \E r \in 1 .. q : IsOpen(v, r) /\ Count(v, r) = x /\ Of(v, r) = Met(w, q)[x]
      BY <3>2, <3>3, <1>7, <1>9, Zenon
    <3>5. \A r \in 0 .. q : /\ Count(v, r) <= Count(v, q)
                            /\ \A x \in 1 .. Count(v, r) : Met(v, q)[x] = Met(v, r)[x]
      <4> SUFFICES ASSUME NEW r \in 0 .. q
                   PROVE  /\ Count(v, r) <= Count(v, q)
                          /\ \A x \in 1 .. Count(v, r) : Met(v, q)[x] = Met(v, r)[x]
        OBVIOUS
      <4>1. /\ Count(v, r) = Count(w, r) /\ Count(v, q) = Count(w, q)
            /\ Met(v, r) = Met(w, r) /\ Met(v, q) = Met(w, q)
        BY <3>1, <1>7
      <4> QED  BY <4>1, <3>3
    <3>6. Met(v, q) = Met(w, q) /\ Count(v, q) = Count(w, q) /\ DOMAIN v.given = DOMAIN w.given
      BY <1>7, <1>10
    <3> QED  BY <3>3, <3>4, <3>5, <3>6, SMTT(30) DEF MetOK
  <2> QED  BY <2>3, <2>4
<1>12. /\ FramesOK(w, n) /\ MetOK(w, n)
       /\ Len(s) \in Nat /\ Len(m) \in Nat
       /\ \A i \in DOMAIN w.given : Width(w, i) \in Nat /\ End(w, i) \in Nat /\ End(w, i) > Width(w, i)
       /\ \A d \in 1 .. Len(S) : S[d] \in FrameType(w) /\ S[d].of \in DOMAIN w.given /\ S[d].at \in Nat \ {0}
  <2>1. FramesOK(w, n) /\ MetOK(w, n)
    BY <1>1, JTypes DEF n
  <2>2. Len(s) \in Nat /\ Len(m) \in Nat
    BY <1>3, JSeq
  <2>3. \A i \in DOMAIN w.given : Width(w, i) \in Nat /\ End(w, i) \in Nat /\ End(w, i) > Width(w, i)
    BY <1>1, JEnds
  <2>4. \A d \in 1 .. Len(S) : S[d] \in FrameType(w)
    BY <1>2, JSeq
  <2> QED  BY <2>1, <2>2, <2>3, <2>4, JFrame
<1>13. \A d \in 1 .. Len(S) : /\ S[d].open \in 1 .. n /\ IsOpen(w, S[d].open)
                              /\ S[d].of = Of(w, S[d].open) /\ S[d].at \in 1 .. End(w, S[d].of)
                              /\ IF d = 1 THEN S[d].open = 1 ELSE Parent(w, S[d].open) = S[d - 1].open
  BY <1>12 DEF FramesOK, S
<1>14. \A d, e \in 1 .. Len(S) : d < e => S[d].open < S[e].open
  BY <1>12 DEF FramesOK, S
<1>15. /\ Len(s) <= Len(S) + 1 /\ (Len(s) > Len(S) <=> token.is = "open")
       /\ Len(s) > Len(S) => Len(s) = Len(S) + 1 /\ s[Len(s)] = [of |-> Last(m), open |-> n + 1, at |-> 1]
  BY <1>2, <1>3, <1>4, <1>12, SMTT(30)
<1>16. \A d \in 1 .. Len(s) : d <= Len(S) =>
         d \in 1 .. Len(S) /\ s[d].of = S[d].of /\ s[d].open = S[d].open /\ s[d].at \in 1 .. End(w, s[d].of)
  <2> SUFFICES ASSUME NEW d \in 1 .. Len(s), d <= Len(S)
               PROVE  d \in 1 .. Len(S) /\ s[d].of = S[d].of /\ s[d].open = S[d].open /\ s[d].at \in 1 .. End(w, s[d].of)
    OBVIOUS
  <2>1. d \in 1 .. Len(S) /\ S # <<>> /\ Len(S) \in 1 .. Len(S)
    BY <1>2, <1>12
  <2>2. S[d].of \in DOMAIN w.given /\ S[d].at \in Nat /\ S[d].at \in 1 .. End(w, S[d].of) /\ End(w, S[d].of) \in Nat
        /\ End(w, S[d].of) > Width(w, S[d].of) /\ Width(w, S[d].of) \in Nat
    BY <2>1, <1>12, <1>13
  <2>3. CASE token.is = "close"
    <3>1. s[d] = S[d]
      BY <2>1, <2>3, <1>3, <1>2
    <3> QED  BY <3>1, <2>1, <2>2
  <2>4. CASE token.is # "close"
    <3>1. Advanced(S, s)
      BY <2>4, <1>3, <1>4
    <3>2. /\ s[d].of = S[d].of /\ s[d].open = S[d].open
          /\ s[d].at = IF d = Len(S) THEN S[d].at + 1 ELSE S[d].at
      BY <3>1, <2>1 DEF Advanced
    <3>3. d = Len(S) => S[d].at < End(w, S[d].of)
      <4>1. CASE token.is = "open"
        <5>1. S[Len(S)].at <= Width(w, S[Len(S)].of)
          BY <4>1, <1>3, <2>1
        <5> QED  BY <5>1, <2>2
      <4>2. CASE token.is # "open"
        BY <4>2, <2>4, <1>3, <1>4
      <4> QED  BY <4>1, <4>2
    <3> QED  BY <3>2, <3>3, <2>1, <2>2
  <2> QED  BY <2>3, <2>4
<1>17. FramesOK(v, n + 1)
  <2>1. ASSUME NEW d \in 1 .. Len(s)
        PROVE  /\ s[d].open \in 1 .. n + 1 /\ IsOpen(v, s[d].open)
               /\ s[d].of = Of(v, s[d].open) /\ s[d].at \in 1 .. End(v, s[d].of)
               /\ IF d = 1 THEN s[d].open = 1 ELSE Parent(v, s[d].open) = s[d - 1].open
    <3>1. CASE d <= Len(S)
      <4>1. d \in 1 .. Len(S) /\ s[d].of = S[d].of /\ s[d].open = S[d].open /\ s[d].at \in 1 .. End(w, s[d].of)
        BY <3>1, <1>16
      <4>2. PICK p : p = s[d].open /\ p \in 1 .. n /\ p \in 0 .. n /\ p \in 1 .. n + 1
        BY <4>1, <1>1, <1>13, SMTT(30)
      <4>3. IsOpen(v, p) /\ s[d].of = Of(v, p) /\ s[d].at \in 1 .. End(v, s[d].of)
        BY <4>1, <4>2, <1>7, <1>9, <1>10, <1>13
      <4>4. d # 1 => d - 1 \in 1 .. Len(s) /\ d - 1 <= Len(S)
        BY <4>1, <1>2, <1>12, SMTT(30)
      <4>5. IF d = 1 THEN p = 1 ELSE Parent(v, p) = s[d - 1].open
        BY <4>1, <4>2, <4>4, <1>9, <1>13, <1>16
      <4> QED  BY <4>2, <4>3, <4>5
    <3>2. CASE d > Len(S)
      <4>1. d = Len(s) /\ d = Len(S) + 1 /\ token.is = "open"
        BY <3>2, <1>2, <1>12, <1>15
      <4>2. s[d].of = Last(m) /\ s[d].open = n + 1 /\ s[d].at = 1
        BY <4>1, <1>15
      <4>3. Last(m) \in DOMAIN w.given /\ 1 \in 1 .. End(w, Last(m))
        BY <4>1, <1>3, <1>12
      <4>4. d = 1 => n + 1 = 1
        BY <4>1, <1>2, <1>3
      <4>5. d # 1 => Last(S) = S[Len(S)] /\ d - 1 = Len(S) /\ d - 1 \in 1 .. Len(s)
        BY <4>1, <1>12 DEF Last
      <4>6. d # 1 => Parent(v, n + 1) = s[d - 1].open
        BY <4>1, <4>5, <1>9, <1>16, <1>12
      <4>7. n + 1 \in 1 .. n + 1
        BY <1>1
      <4>8. IsOpen(v, n + 1)
        BY <4>1, <1>9
      <4>9. Last(m) = Of(v, n + 1) /\ 1 \in 1 .. End(v, Last(m))
        BY <4>3, <1>8, <1>10
      <4> QED  BY <4>2, <4>4, <4>6, <4>7, <4>8, <4>9
    <3> QED  BY <3>1, <3>2, <1>2, <1>12
  <2>2. ASSUME NEW d \in 1 .. Len(s), NEW e \in 1 .. Len(s), d < e PROVE s[d].open < s[e].open
    <3>1. d <= Len(S) /\ d \in 1 .. Len(S)
      BY <2>2, <1>2, <1>12, <1>15
    <3>2. CASE e <= Len(S)
      BY <2>2, <3>1, <3>2, <1>14, <1>16
    <3>3. CASE e > Len(S)
      <4>0. e = Len(s)
        BY <3>3, <1>2, <1>12, <1>15
      <4>1. s[e].open = n + 1
        BY <4>0, <3>3, <1>2, <1>12, <1>15
      <4>2. s[d].open = S[d].open /\ S[d].open \in 1 .. n
        BY <3>1, <1>13, <1>16
      <4>3. PICK a, b : a = s[d].open /\ b = s[e].open
        OBVIOUS
      <4>4. a \in 1 .. n /\ b = n + 1
        BY <4>1, <4>2, <4>3
      <4> QED  BY <4>3, <4>4, <1>1
    <3> QED  BY <3>2, <3>3, <1>2, <1>12
  <2> QED  BY <2>1, <2>2, <1>3, <1>8, <1>10 DEF FramesOK
<1>18. /\ Count(w, n) = Len(M)
       /\ \A x, y \in 1 .. Len(M) : M[x] = M[y] => x = y
       /\ \A x \in 1 .. Len(M) : \E q \in 1 .. n : IsOpen(w, q) /\ Count(w, q) = x /\ Of(w, q) = M[x]
       /\ \A q \in 0 .. n : /\ Count(w, q) <= Len(M)
                            /\ \A x \in 1 .. Count(w, q) : M[x] = Met(w, q)[x]
  BY <1>2, <1>12 DEF MetOK, M
<1>19. /\ \A x \in 1 .. Len(M) : x \in 1 .. Len(m) /\ m[x] = M[x]
       /\ Len(M) <= Len(m)
       /\ \A x \in 1 .. Len(m) : x \in 1 .. Len(M) \/ (x = Len(m) /\ token.is = "open")
       /\ token.is = "open" => \A x \in 1 .. Len(M) : M[x] # m[Len(m)]
  <2>1. Len(M) \in Nat /\ Len(m) \in Nat
    BY <1>2, <1>12
  <2>2. CASE token.is = "open"
    <3>1. Len(m) = Len(M) + 1 /\ m[Len(m)] = Last(m) /\ \A x \in 1 .. Len(M) : m[x] = M[x] /\ M[x] # Last(m)
      BY <2>2, <1>3
    <3> QED  BY <2>1, <2>2, <3>1
  <2>3. CASE token.is # "open"
    BY <2>1, <2>3, <1>3
  <2> QED  BY <2>2, <2>3
<1>20. MetOK(v, n + 1)
  <2>1. \A x, y \in 1 .. Len(m) : m[x] = m[y] => x = y
    BY <1>18, <1>19
  <2>2. ASSUME NEW x \in 1 .. Len(m)
        PROVE  \E q \in 1 .. n + 1 : IsOpen(v, q) /\ Count(v, q) = x /\ Of(v, q) = m[x]
    <3>1. CASE x \in 1 .. Len(M)
      <4>1. PICK q \in 1 .. n : IsOpen(w, q) /\ Count(w, q) = x /\ Of(w, q) = M[x]
        BY <3>1, <1>18
      <4>2. q \in 0 .. n /\ q \in 1 .. n + 1
        BY <1>1
      <4> QED  BY <4>1, <4>2, <3>1, <1>7, <1>9, <1>19
    <3>2. CASE x = Len(m) /\ token.is = "open"
      <4>1. n + 1 \in 1 .. n + 1 /\ m[x] = Last(m)
        BY <3>2, <1>1, <1>3
      <4> QED  BY <4>1, <3>2, <1>8, <1>9
    <3> QED  BY <3>1, <3>2, <1>19
  <2>3. ASSUME NEW q \in 0 .. n + 1
        PROVE  Count(v, q) <= Len(m) /\ \A x \in 1 .. Count(v, q) : m[x] = Met(v, q)[x]
    <3>1. CASE q \in 0 .. n
      <4>1. Count(v, q) = Count(w, q) /\ Met(v, q) = Met(w, q) /\ Count(w, q) \in Nat
        BY <3>1, <1>7, JTypes DEF n
      <4>2. Count(w, q) <= Len(M) /\ \A x \in 1 .. Count(w, q) : x \in 1 .. Len(M) /\ M[x] = Met(w, q)[x]
        BY <3>1, <4>1, <1>2, <1>18
      <4>3. Len(M) \in Nat /\ Len(m) \in Nat /\ Len(M) <= Len(m)
        BY <1>2, <1>12, <1>19
      <4>4. Count(v, q) <= Len(m)
        BY <4>1, <4>2, <4>3
      <4>5. \A x \in 1 .. Count(w, q) : m[x] = M[x] /\ M[x] = Met(w, q)[x]
        BY <4>2, <1>19
      <4> QED  BY <4>1, <4>4, <4>5
    <3>2. CASE q = n + 1
      BY <3>2, <1>8, <1>12
    <3> QED  BY <3>1, <3>2, <1>1, SMTT(30)
  <2> QED  BY <2>1, <2>2, <2>3, <1>3, <1>8, <1>10 DEF MetOK
<1>21. \A p \in 1 .. n + 1 :
         Continues(v, v.text[p], p, Stack(v, p - 1), Stack(v, p), Met(v, p - 1), Met(v, p))
  <2> SUFFICES ASSUME NEW p \in 1 .. n + 1
               PROVE  Continues(v, v.text[p], p, Stack(v, p - 1), Stack(v, p), Met(v, p - 1), Met(v, p))
    OBVIOUS
  <2>1. CASE p \in 1 .. n
    <3>1. Continues(w, w.text[p], p, Stack(w, p - 1), Stack(w, p), Met(w, p - 1), Met(w, p))
      BY <2>1, <1>1 DEF Written, Size
    <3>2. p - 1 \in 0 .. n /\ p \in 0 .. n
      BY <2>1, <1>1
    <3>3. Continues(w, v.text[p], p, Stack(v, p - 1), Stack(v, p), Met(v, p - 1), Met(v, p))
      BY <3>1, <3>2, <2>1, <1>5, <1>7
    <3> QED  BY <3>3, <1>10
  <2>2. CASE p = n + 1
    <3>1. p - 1 = n /\ n \in 0 .. n
      BY <2>2, <1>1
    <3>2. Stack(v, p - 1) = S /\ Met(v, p - 1) = M /\ Stack(v, p) = s /\ Met(v, p) = m /\ v.text[p] = token
      BY <3>1, <2>2, <1>5, <1>7, <1>8 DEF S, M
    <3>3. Continues(w, token, p, S, s, M, m)
      BY <2>2 DEF n, S, M
    <3> QED  BY <3>2, <3>3, <1>10
  <2> QED  BY <2>1, <2>2, <1>1
<1>22. Written(v)
  <2>1. \A p \in 0 .. n + 1 : FramesOK(v, p) /\ MetOK(v, p)
    <3>1. \A p \in 0 .. n + 1 : p \in 0 .. n \/ p = n + 1
      BY <1>1
    <3> QED  BY <3>1, <1>11, <1>17, <1>20
  <2>2. Len(v.text) = n + 1 /\ Len(v.trace) = Len(v.text)
    BY <1>5, <1>6
  <2>3. v.trace \in Seq([writing : Seq(FrameType(v)), seen : Seq(DOMAIN v.given)])
    BY <1>6, <1>10
  <2> QED  BY <2>1, <2>2, <2>3, <1>1, <1>5, <1>21 DEF Written
<1>23. Size(v) = n + 1
  BY <1>5 DEF Size
<1> QED  BY <1>8, <1>22, <1>23 DEF n

\* The step from token n to the next one, in a text that was written.
LEMMA JMove ==
  ASSUME NEW w, Written(w), NEW n \in 0 .. Size(w) - 1
  PROVE  /\ n \in Nat /\ Size(w) \in Nat /\ n + 1 \in 1 .. Size(w) /\ n \in 0 .. Size(w) /\ n + 1 \in 0 .. Size(w)
         /\ Moves(w, w.text[n + 1], n + 1, Stack(w, n), Stack(w, n + 1), Met(w, n), Met(w, n + 1))
         /\ w.text[n + 1].is \in {"open", "ref", "value", "dates", "close"}
         /\ IsGraph(w.given)
<1>1. /\ n + 1 \in 1 .. Size(w) /\ n \in 0 .. Size(w) /\ n + 1 \in 0 .. Size(w) /\ Size(w) \in Nat
      /\ Continues(w, w.text[n + 1], n + 1, Stack(w, n), Stack(w, n + 1), Met(w, n), Met(w, n + 1))
      /\ IsGraph(w.given)
  BY JContinues DEF Written
<1>2. Stack(w, n) \in Seq(FrameType(w)) /\ Met(w, n) \in Seq(DOMAIN w.given)
  BY <1>1, JTypes
<1>3. PICK p, t, s, u, m, v : /\ p = n + 1 /\ t = w.text[n + 1] /\ s = Stack(w, n) /\ u = Stack(w, n + 1)
                              /\ m = Met(w, n) /\ v = Met(w, n + 1)
  OBVIOUS
<1>4. p \in Nat \ {0} /\ s \in Seq(FrameType(w)) /\ m \in Seq(DOMAIN w.given) /\ Continues(w, t, p, s, u, m, v)
  BY <1>1, <1>2, <1>3
<1>5. Moves(w, t, p, s, u, m, v)
  BY <1>1, <1>4, JMoves
<1>6. t.is \in {"open", "ref", "value", "dates", "close"}
  BY <1>4, JKinds
<1> QED  BY <1>1, <1>3, <1>5, <1>6

\* Only the end of the text is outside all objects.
LEMMA JEndOfText ==
  ASSUME NEW w, Written(w), NEW n \in 1 .. Size(w), Stack(w, n) = <<>>
  PROVE  n = Size(w)
<1>1. Size(w) \in Nat
  BY DEF Written, Size
<1>2. ASSUME n # Size(w) PROVE FALSE
  <2>1. n \in 0 .. Size(w) - 1 /\ n + 1 # 1
    BY <1>1, <1>2
  <2>2. Moves(w, w.text[n + 1], n + 1, Stack(w, n), Stack(w, n + 1), Met(w, n), Met(w, n + 1))
    BY <2>1, JMove
  <2> QED  BY <2>1, <2>2 DEF Moves
<1> QED  BY <1>2

\* Objects are numbered in the order in which they were opened.
LEMMA JCounts ==
  ASSUME NEW w, Written(w), NEW p \in 0 .. Size(w), NEW q \in 0 .. p
  PROVE  /\ q \in 0 .. Size(w)
         /\ Count(w, q) \in Nat /\ Count(w, p) \in Nat /\ Count(w, q) <= Count(w, p)
         /\ \A x \in 1 .. Count(w, q) : Met(w, p)[x] = Met(w, q)[x]
<1>1. MetOK(w, p) /\ Count(w, p) \in Nat /\ Size(w) \in Nat
  BY JTypes
<1>2. q \in 0 .. Size(w)
  BY <1>1
<1>3. Count(w, q) \in Nat
  BY <1>2, JTypes
<1> QED  BY <1>1, <1>2, <1>3 DEF MetOK

\* When a token opens an object, the object is the one met last and one more has been met.
LEMMA JOpened ==
  ASSUME NEW w, Written(w), NEW p \in 1 .. Size(w)
  PROVE  /\ p - 1 \in 0 .. Size(w) - 1 /\ Count(w, p - 1) \in Nat /\ Count(w, p) \in Nat
         /\ IsOpen(w, p) => /\ Count(w, p) = Count(w, p - 1) + 1
                            /\ Of(w, p) \in DOMAIN w.given /\ Of(w, p) = Met(w, p)[Count(w, p)]
         /\ ~IsOpen(w, p) => Count(w, p) = Count(w, p - 1) /\ Met(w, p) = Met(w, p - 1)
<1>1. PICK n : n = p - 1
  OBVIOUS
<1>2. n \in 0 .. Size(w) - 1 /\ n + 1 = p /\ p \in 0 .. Size(w) /\ n \in 0 .. Size(w)
  <2>1. Size(w) \in Nat
    BY DEF Written, Size
  <2> QED  BY <1>1, <2>1
<1>3. Moves(w, w.text[n + 1], n + 1, Stack(w, n), Stack(w, n + 1), Met(w, n), Met(w, n + 1))
  BY <1>2, JMove
<1>4. Count(w, p) \in Nat /\ Count(w, n) \in Nat
  BY <1>2, JTypes
<1>5. CASE IsOpen(w, p)
  <2>1. w.text[n + 1].is = "open"
    BY <1>2, <1>5 DEF IsOpen
  <2> QED  BY <1>1, <1>2, <1>3, <1>4, <1>5, <2>1 DEF Moves, Count, Of
<1>6. CASE ~IsOpen(w, p)
  <2>1. w.text[n + 1].is # "open"
    BY <1>2, <1>6 DEF IsOpen
  <2> QED  BY <1>1, <1>2, <1>3, <1>4, <1>6, <2>1 DEF Moves, Count
<1> QED  BY <1>5, <1>6

\* What has been met up to a place is known by the rank of the object that the place opens.
LEMMA JRank ==
  ASSUME NEW w, Written(w), NEW p \in 1 .. Size(w), NEW q \in 0 .. Size(w), IsOpen(w, p)
  PROVE  /\ q < p => Count(w, q) < Count(w, p)
         /\ q # 0 /\ IsOpen(w, q) /\ Count(w, q) = Count(w, p) => q = p
<1>1. Size(w) \in Nat /\ p - 1 \in 0 .. Size(w)
  BY SMTT(30) DEF Written, Size
<1>2. ASSUME q < p PROVE Count(w, q) < Count(w, p)
  <2>1. q \in 0 .. p - 1
    BY <1>1, <1>2
  <2>2. Count(w, q) \in Nat /\ Count(w, q) <= Count(w, p - 1)
    BY <1>1, <2>1, JCounts
  <2> QED  BY <2>2, JOpened
<1>3. ASSUME p < q, IsOpen(w, q) PROVE Count(w, p) < Count(w, q)
  <2>1. p \in 0 .. q - 1 /\ q \in 1 .. Size(w) /\ q - 1 \in 0 .. Size(w)
    BY <1>1, <1>3
  <2>2. Count(w, p) \in Nat /\ Count(w, p) <= Count(w, q - 1)
    BY <2>1, JCounts
  <2> QED  BY <1>3, <2>1, <2>2, JOpened
<1>4. Count(w, p) \in Nat /\ Count(w, q) \in Nat
  BY <1>1, JTypes
<1> QED  BY <1>1, <1>2, <1>3, <1>4

\* The frames of a stack that was written.
LEMMA JStack ==
  ASSUME NEW w, Written(w), NEW n \in 0 .. Size(w)
  PROVE  /\ Len(Stack(w, n)) \in Nat /\ n \in Nat /\ Size(w) \in Nat
         /\ Stack(w, n) # <<>> <=> Len(Stack(w, n)) > 0
         /\ \A d \in 1 .. Len(Stack(w, n)) :
              /\ Stack(w, n)[d].open \in 1 .. n /\ Stack(w, n)[d].open \in Places(w, n) /\ IsOpen(w, Stack(w, n)[d].open)
              /\ Stack(w, n)[d].of = Of(w, Stack(w, n)[d].open) /\ Stack(w, n)[d].of \in DOMAIN w.given
              /\ Stack(w, n)[d].at \in 1 .. End(w, Stack(w, n)[d].of)
              /\ Stack(w, n)[d].at \in Nat \ {0}
              /\ IF d = 1 THEN Stack(w, n)[d].open = 1 ELSE Parent(w, Stack(w, n)[d].open) = Stack(w, n)[d - 1].open
         /\ \A d, e \in 1 .. Len(Stack(w, n)) : d < e => Stack(w, n)[d].open < Stack(w, n)[e].open
         /\ \A d, e \in 1 .. Len(Stack(w, n)) : Stack(w, n)[d].open = Stack(w, n)[e].open => d = e
<1>1. Size(w) \in Nat /\ n \in Nat /\ Stack(w, n) \in Seq(FrameType(w)) /\ Len(Stack(w, n)) \in Nat /\ FramesOK(w, n)
  BY JTypes
<1>2. Stack(w, n) # <<>> <=> Len(Stack(w, n)) > 0
  BY <1>1
<1>3. ASSUME NEW d \in 1 .. Len(Stack(w, n))
      PROVE  /\ Stack(w, n)[d].open \in 1 .. n /\ Stack(w, n)[d].open \in Places(w, n) /\ IsOpen(w, Stack(w, n)[d].open)
             /\ Stack(w, n)[d].of = Of(w, Stack(w, n)[d].open) /\ Stack(w, n)[d].of \in DOMAIN w.given
             /\ Stack(w, n)[d].at \in 1 .. End(w, Stack(w, n)[d].of)
             /\ Stack(w, n)[d].at \in Nat \ {0}
             /\ IF d = 1 THEN Stack(w, n)[d].open = 1 ELSE Parent(w, Stack(w, n)[d].open) = Stack(w, n)[d - 1].open
  <2>1. /\ Stack(w, n)[d].open \in 1 .. n /\ IsOpen(w, Stack(w, n)[d].open)
        /\ Stack(w, n)[d].of = Of(w, Stack(w, n)[d].open)
        /\ Stack(w, n)[d].at \in 1 .. End(w, Stack(w, n)[d].of)
        /\ IF d = 1 THEN Stack(w, n)[d].open = 1 ELSE Parent(w, Stack(w, n)[d].open) = Stack(w, n)[d - 1].open
    BY <1>1 DEF FramesOK
  <2>2. Stack(w, n)[d].open \in Places(w, n)
    BY <2>1 DEF Places, IsOpen
  <2>3. Stack(w, n)[d] \in FrameType(w)
    BY <1>1, JSeq
  <2> QED  BY <2>1, <2>2, <2>3, JFrame
<1>4. \A d, e \in 1 .. Len(Stack(w, n)) : d < e => Stack(w, n)[d].open < Stack(w, n)[e].open
  BY <1>1 DEF FramesOK
<1>5. \A d \in 1 .. Len(Stack(w, n)) : Stack(w, n)[d].open \in Nat
  BY <1>3
<1>6. ASSUME NEW d \in 1 .. Len(Stack(w, n)), NEW e \in 1 .. Len(Stack(w, n)), Stack(w, n)[d].open = Stack(w, n)[e].open
      PROVE  d = e
  <2>1. PICK a, b : a = Stack(w, n)[d].open /\ b = Stack(w, n)[e].open
    OBVIOUS
  <2>2. a \in Nat /\ a = b
    BY <1>5, <1>6, <2>1
  <2>3. ~(a < a)
    BY <2>2
  <2>4. ~(d < e) /\ ~(e < d)
    BY <1>4, <2>1, <2>2, <2>3
  <2> QED  BY <2>4, <1>1
<1> QED  BY <1>1, <1>2, <1>3, <1>4, <1>6

\* The innermost object.
LEMMA JInside ==
  ASSUME NEW w, Written(w), NEW n \in 0 .. Size(w), Stack(w, n) # <<>>
  PROVE  LET s == Stack(w, n) IN
         /\ Len(s) \in 1 .. Len(s) /\ Last(s) = s[Len(s)] /\ Inside(w, n) = s[Len(s)].open
         /\ Inside(w, n) \in Places(w, n) /\ Inside(w, n) \in 1 .. n /\ IsOpen(w, Inside(w, n))
         /\ Last(s).of = Of(w, Inside(w, n)) /\ Last(s).of \in DOMAIN w.given
         /\ Last(s).at \in 1 .. End(w, Last(s).of) /\ Last(s).at \in Nat \ {0}
         /\ OnPath(w, n, Inside(w, n))
         /\ \A k : Upto(w, n, Inside(w, n), k) <=> k = Last(s).at
         /\ \A d \in 1 .. Len(s) : s[d].open <= Inside(w, n)
         /\ Inside(w, n) = 1 <=> Len(s) = 1
<1> DEFINE s == Stack(w, n)
<1>1. Len(s) \in 1 .. Len(s) /\ Last(s) = s[Len(s)] /\ Inside(w, n) = s[Len(s)].open /\ Len(s) \in Nat
  BY JStack DEF Last, Inside
<1>2. \A d \in 1 .. Len(s) : s[d].open = Inside(w, n) => d = Len(s)
  BY <1>1, JStack
<1>3. OnPath(w, n, Inside(w, n))
  BY <1>1 DEF OnPath
<1>4. \A k : Upto(w, n, Inside(w, n), k) <=> k = Last(s).at
  BY <1>1, <1>2, <1>3 DEF Upto
<1>5. \A d \in 1 .. Len(s) : s[d].open <= Inside(w, n)
  <2> SUFFICES ASSUME NEW d \in 1 .. Len(s) PROVE s[d].open <= Inside(w, n)
    OBVIOUS
  <2>1. s[d].open \in 1 .. n /\ s[Len(s)].open \in 1 .. n /\ (d < Len(s) => s[d].open < s[Len(s)].open)
    BY <1>1, JStack
  <2>2. PICK a, b : a = s[d].open /\ b = s[Len(s)].open
    OBVIOUS
  <2>3. a \in Nat /\ b \in Nat /\ (d < Len(s) => a < b) /\ (d = Len(s) => a = b)
    BY <2>1, <2>2
  <2>4. a <= b
    BY <2>3, <1>1
  <2> QED  BY <2>2, <2>4, <1>1
<1>6. Inside(w, n) = 1 <=> Len(s) = 1
  <2>1. 1 \in 1 .. Len(s) /\ s[1].open = 1
    BY <1>1, JStack
  <2> QED  BY <1>1, <1>2, <2>1
<1>7. /\ Inside(w, n) \in Places(w, n) /\ Inside(w, n) \in 1 .. n /\ IsOpen(w, Inside(w, n))
      /\ Last(s).of = Of(w, Inside(w, n)) /\ Last(s).of \in DOMAIN w.given
      /\ Last(s).at \in 1 .. End(w, Last(s).of) /\ Last(s).at \in Nat \ {0}
  BY <1>1, JStack
<1> QED  BY <1>1, <1>3, <1>4, <1>5, <1>6, <1>7

\* The frames before and behind token n + 1.
LEMMA JFrames ==
  ASSUME NEW w, Written(w), NEW n \in 0 .. Size(w) - 1
  PROVE  LET S == Stack(w, n)
             T == Stack(w, n + 1)
             is == w.text[n + 1].is
         IN
         /\ Len(S) \in Nat /\ Len(T) \in Nat
         /\ n = 0 <=> S = <<>>
         /\ n = 0 <=> Len(S) = 0
         /\ n = 0 => is = "open" /\ Of(w, 1) = Root
         /\ is = "open" => Len(T) = Len(S) + 1 /\ T[Len(T)].open = n + 1 /\ T[Len(T)].at = 1
         /\ is \in {"ref", "value", "dates"} => Len(T) = Len(S)
         /\ is = "close" => Len(T) = Len(S) - 1
         /\ \A d \in 1 .. Len(T) : d <= Len(S) =>
              /\ d \in 1 .. Len(S) /\ T[d].open = S[d].open /\ T[d].of = S[d].of
              /\ T[d].at = IF d = Len(S) THEN S[d].at + 1 ELSE S[d].at
<1> DEFINE S == Stack(w, n)
           T == Stack(w, n + 1)
           is == w.text[n + 1].is
<1>1. /\ n \in Nat /\ n \in 0 .. Size(w) /\ n + 1 \in 0 .. Size(w)
      /\ Moves(w, w.text[n + 1], n + 1, S, T, Met(w, n), Met(w, n + 1))
      /\ is \in {"open", "ref", "value", "dates", "close"}
  BY JMove
<1>2. Len(S) \in Nat /\ Len(T) \in Nat /\ (S # <<>> <=> Len(S) > 0)
  BY <1>1, JStack
<1>3. n = 0 => S = <<>>
  BY DEF Stack
<1>4. n # 0 => S # <<>>
  BY <1>1 DEF Moves
<1>5. n = 0 => is = "open" /\ Of(w, 1) = Root
  BY <1>1, <1>3 DEF Moves, Of
<1>6. /\ is = "open" => Len(T) = Len(S) + 1 /\ T[Len(T)].open = n + 1 /\ T[Len(T)].at = 1
      /\ is \in {"ref", "value", "dates"} => Len(T) = Len(S)
      /\ is = "close" => Len(T) = Len(S) - 1 /\ \A d \in 1 .. Len(S) - 1 : T[d] = S[d]
      /\ is \in {"open", "ref", "value", "dates"} => Advanced(S, T)
  BY <1>1 DEF Moves
<1>7. ASSUME NEW d \in 1 .. Len(T), d <= Len(S)
      PROVE  /\ d \in 1 .. Len(S) /\ T[d].open = S[d].open /\ T[d].of = S[d].of
             /\ T[d].at = IF d = Len(S) THEN S[d].at + 1 ELSE S[d].at
  <2>1. d \in 1 .. Len(S)
    BY <1>2, <1>7
  <2>2. CASE is = "close"
    <3>1. d # Len(S) /\ d \in 1 .. Len(S) - 1
      BY <2>1, <2>2, <1>2, <1>6
    <3> QED  BY <2>1, <2>2, <3>1, <1>6
  <2>3. CASE is # "close"
    BY <2>1, <2>3, <1>1, <1>6 DEF Advanced
  <2> QED  BY <2>2, <2>3
<1> QED  BY <1>1, <1>2, <1>3, <1>4, <1>5, <1>6, <1>7

\* How far the objects are read behind the next token.
LEMMA JUpto ==
  ASSUME NEW w, Written(w), NEW n \in 0 .. Size(w) - 1, NEW p \in Places(w, n + 1), IsOpen(w, p)
  PROVE  /\ p = n + 1 => OnPath(w, n + 1, p) /\ \A k : Upto(w, n + 1, p, k) => k = 1
         /\ p # n + 1 =>
              /\ p \in Places(w, n) /\ p \in 1 .. n /\ Stack(w, n) # <<>>
              /\ IF p = Inside(w, n) /\ w.text[n + 1].is # "close"
                 THEN \A k : Upto(w, n + 1, p, k) => k = Last(Stack(w, n)).at + 1
                 ELSE \A k : Upto(w, n + 1, p, k) => Upto(w, n, p, k)
              /\ OnPath(w, n + 1, p) <=> OnPath(w, n, p) /\ ~(p = Inside(w, n) /\ w.text[n + 1].is = "close")
<1> DEFINE S == Stack(w, n)
           T == Stack(w, n + 1)
           is == w.text[n + 1].is
<1>1. /\ Len(S) \in Nat /\ Len(T) \in Nat
      /\ n = 0 <=> S = <<>>
      /\ n = 0 <=> Len(S) = 0
      /\ is = "open" => Len(T) = Len(S) + 1 /\ T[Len(T)].open = n + 1 /\ T[Len(T)].at = 1
      /\ is \in {"ref", "value", "dates"} => Len(T) = Len(S)
      /\ is = "close" => Len(T) = Len(S) - 1
      /\ \A d \in 1 .. Len(T) : d <= Len(S) =>
              /\ d \in 1 .. Len(S) /\ T[d].open = S[d].open /\ T[d].of = S[d].of
              /\ T[d].at = IF d = Len(S) THEN S[d].at + 1 ELSE S[d].at
  BY JFrames
<1>2. /\ n \in Nat /\ n \in 0 .. Size(w) /\ n + 1 \in 0 .. Size(w)
      /\ is \in {"open", "ref", "value", "dates", "close"}
  BY JMove
<1>3. \A d \in 1 .. Len(S) : S[d].open \in 1 .. n
  BY <1>2, JStack
<1>4. p \in 1 .. n + 1 /\ w.text[p].is = "open"
  BY DEF Places, IsOpen
<1>5. \A d \in 1 .. Len(T) : d > Len(S) => is = "open" /\ d = Len(T)
  BY <1>1, <1>2
<1>6. ASSUME p = n + 1 PROVE OnPath(w, n + 1, p) /\ \A k : Upto(w, n + 1, p, k) => k = 1
  <2>1. is = "open"
    BY <1>4, <1>6
  <2>2. Len(T) \in 1 .. Len(T) /\ T[Len(T)].open = p /\ T[Len(T)].at = 1
    BY <2>1, <1>1, <1>6
  <2>3. OnPath(w, n + 1, p)
    BY <2>2 DEF OnPath
  <2>4. ASSUME NEW d \in 1 .. Len(T), T[d].open = p PROVE T[d].at = 1
    <3>1. CASE d <= Len(S)
      <4>1. d \in 1 .. Len(S) /\ T[d].open = S[d].open
        BY <3>1, <1>1
      <4>2. S[d].open \in 1 .. n
        BY <4>1, <1>3
      <4>3. PICK x : x = S[d].open
        OBVIOUS
      <4>4. x \in 1 .. n /\ x = n + 1
        BY <4>1, <4>2, <4>3, <2>4, <1>6
      <4> QED  BY <4>4, <1>2
    <3>2. CASE d > Len(S)
      BY <3>2, <2>2, <1>5
    <3> QED  BY <3>1, <3>2, <1>1
  <2> QED  BY <2>3, <2>4 DEF Upto
<1>7. ASSUME p # n + 1
      PROVE  /\ p \in Places(w, n) /\ p \in 1 .. n /\ S # <<>>
             /\ IF p = Inside(w, n) /\ is # "close"
                THEN \A k : Upto(w, n + 1, p, k) => k = Last(S).at + 1
                ELSE \A k : Upto(w, n + 1, p, k) => Upto(w, n, p, k)
             /\ OnPath(w, n + 1, p) <=> OnPath(w, n, p) /\ ~(p = Inside(w, n) /\ is = "close")
  <2>1. p \in 1 .. n /\ p \in Places(w, n) /\ S # <<>>
    BY <1>1, <1>2, <1>4, <1>7 DEF Places
  <2>2. Len(S) \in 1 .. Len(S) /\ Last(S) = S[Len(S)] /\ Inside(w, n) = S[Len(S)].open
    BY <1>2, <2>1, JInside
  <2>3. ASSUME NEW d \in 1 .. Len(T), T[d].open = p
        PROVE  d \in 1 .. Len(S) /\ S[d].open = p /\ T[d].at = IF d = Len(S) THEN S[d].at + 1 ELSE S[d].at
    <3>1. d <= Len(S)
      <4>1. SUFFICES ASSUME d > Len(S) PROVE FALSE
        BY <1>1
      <4>2. is = "open" /\ d = Len(T)
        BY <4>1, <1>5
      <4> QED  BY <4>2, <1>1, <1>7, <2>3
    <3> QED  BY <3>1, <2>3, <1>1
  <2>4. ASSUME NEW d \in 1 .. Len(S), S[d].open = p, ~(d = Len(S) /\ is = "close")
        PROVE  d \in 1 .. Len(T) /\ T[d].open = p
    <3>1. d \in 1 .. Len(T) /\ d <= Len(S)
      BY <2>4, <1>1, <1>2
    <3> QED  BY <3>1, <2>4, <1>1
  <2>5. \A d \in 1 .. Len(S) : S[d].open = p /\ p = Inside(w, n) => d = Len(S)
    BY <1>2, <2>2, JStack
  <2>6. is = "close" => \A d \in 1 .. Len(T) : d # Len(S)
    BY <1>1
  <2>7. OnPath(w, n + 1, p) <=> OnPath(w, n, p) /\ ~(p = Inside(w, n) /\ is = "close")
    <3>1. ASSUME OnPath(w, n + 1, p) PROVE OnPath(w, n, p) /\ ~(p = Inside(w, n) /\ is = "close")
      <4>1. PICK d \in 1 .. Len(T) : T[d].open = p
        BY <3>1 DEF OnPath
      <4>2. d \in 1 .. Len(S) /\ S[d].open = p
        BY <4>1, <2>3
      <4> QED  BY <4>1, <4>2, <2>5, <2>6 DEF OnPath
    <3>2. ASSUME OnPath(w, n, p), ~(p = Inside(w, n) /\ is = "close") PROVE OnPath(w, n + 1, p)
      <4>1. PICK d \in 1 .. Len(S) : S[d].open = p
        BY <3>2 DEF OnPath
      <4>2. d \in 1 .. Len(T) /\ T[d].open = p
        BY <4>1, <3>2, <2>2, <2>4
      <4> QED  BY <4>2 DEF OnPath
    <3> QED  BY <3>1, <3>2
  <2>8. ASSUME p = Inside(w, n), is # "close", NEW k, Upto(w, n + 1, p, k)
        PROVE  k = Last(S).at + 1
    <3>1. OnPath(w, n, p)
      BY <2>8, <2>2 DEF OnPath
    <3>2. PICK d \in 1 .. Len(T) : T[d].open = p /\ T[d].at = k
      BY <2>7, <2>8, <3>1 DEF Upto
    <3>3. d \in 1 .. Len(S) /\ S[d].open = p /\ T[d].at = IF d = Len(S) THEN S[d].at + 1 ELSE S[d].at
      BY <3>2, <2>3
    <3>4. d = Len(S)
      BY <3>3, <2>5, <2>8
    <3> QED  BY <3>2, <3>3, <3>4, <2>2
  <2>9. ASSUME ~(p = Inside(w, n) /\ is # "close"), NEW k, Upto(w, n + 1, p, k)
        PROVE  Upto(w, n, p, k)
    <3>1. CASE OnPath(w, n + 1, p)
      <4>1. PICK d \in 1 .. Len(T) : T[d].open = p /\ T[d].at = k
        BY <3>1, <2>9 DEF Upto
      <4>2. d \in 1 .. Len(S) /\ S[d].open = p /\ T[d].at = IF d = Len(S) THEN S[d].at + 1 ELSE S[d].at
        BY <4>1, <2>3
      <4>3. d # Len(S)
        BY <3>1, <4>2, <2>2, <2>7, <2>9
      <4> QED  BY <4>1, <4>2, <4>3 DEF Upto
    <3>2. CASE ~OnPath(w, n + 1, p)
      <4>1. k = End(w, Of(w, p))
        BY <3>2, <2>9 DEF Upto, OnPath
      <4>2. CASE ~OnPath(w, n, p)
        BY <4>1, <4>2 DEF Upto
      <4>3. CASE OnPath(w, n, p)
        <5>1. p = Inside(w, n) /\ is = "close"
          BY <3>2, <4>3, <2>7
        <5>2. Last(S).at = End(w, Last(S).of) /\ Last(S).of = Of(w, p)
          <6>1. Moves(w, w.text[n + 1], n + 1, S, T, Met(w, n), Met(w, n + 1))
            BY JMove
          <6>2. S[Len(S)].at = End(w, S[Len(S)].of)
            BY <5>1, <6>1 DEF Moves
          <6>3. Last(S).of = Of(w, Inside(w, n))
            BY <1>2, <2>1, JInside
          <6> QED  BY <5>1, <6>2, <6>3, <2>2
        <5>3. Upto(w, n, p, Last(S).at)
          BY <5>1, <2>2 DEF Upto
        <5> QED  BY <4>1, <5>2, <5>3
      <4> QED  BY <4>2, <4>3
    <3> QED  BY <3>1, <3>2
  <2> QED  BY <2>1, <2>7, <2>8, <2>9
<1> QED  BY <1>6, <1>7

\* What token n + 1 says of the innermost object, and of the object it opens.
LEMMA JToken ==
  ASSUME NEW w, Written(w), NEW n \in 0 .. Size(w) - 1
  PROVE  LET t == w.text[n + 1]
             i == Last(Stack(w, n)).of
             k == Last(Stack(w, n)).at
             e == Enc(w, i).own[k]
         IN
         /\ t.is \in {"open", "ref"} /\ n # 0 =>
              k \in 1 .. Width(w, i) /\ e.v.is = "object" /\ t.k = e.k /\ StandsFor(w, n + 1, e.v.v)
         /\ t.is = "ref" => t.id \in Nat
         /\ t.is = "value" => k \in 1 .. Width(w, i) /\ e.v.is # "object" /\ t.k = e.k /\ t.v = e.v
         /\ t.is = "dates" => k = Width(w, i) + 1 /\ HasList(w, i) /\ t.v = Enc(w, i).dates
         /\ t.is = "close" => k = End(w, i)
         /\ t.is = "open" => t.array = w.given[Of(w, n + 1)].array
         /\ n = 0 => t.k = NoKey
<1> DEFINE t == w.text[n + 1]
           s == Stack(w, n)
           i == Last(s).of
           k == Last(s).at
           e == Enc(w, i).own[k]
<1>1. /\ Continues(w, t, n + 1, s, Stack(w, n + 1), Met(w, n), Met(w, n + 1))
      /\ n \in Nat /\ n \in 0 .. Size(w) /\ n + 1 \in 1 .. Size(w) /\ Size(w) \in Nat /\ IsGraph(w.given)
  BY JContinues, JMove
<1>2. s # <<>> => i \in DOMAIN w.given /\ k \in Nat \ {0} /\ Width(w, i) \in Nat
  BY <1>1, JInside, JEnds
<1>3. InFields(w, s) => k \in 1 .. Width(w, i) /\ NextField(w, s) = e
  BY <1>1, <1>2 DEF InFields, NextField
<1>4. n = 0 <=> s = <<>>
  BY JFrames
<1>5. Of(w, n + 1) = Last(Met(w, n + 1))
  BY DEF Of
<1>6. CASE OpensRoot(w, t, n + 1, s, Stack(w, n + 1), Met(w, n), Met(w, n + 1))
  <2>1. /\ n = 0 /\ t = [is |-> "open", k |-> NoKey, array |-> w.given[Root].array]
    BY <1>1, <1>6 DEF OpensRoot, Opens
  <2>2. t.is = "open" /\ t.k = NoKey /\ t.array = w.given[Root].array
    BY <2>1
  <2>3. Of(w, n + 1) = Root
    BY <2>1, JFrames
  <2> QED  BY <2>1, <2>2, <2>3
<1>7. CASE OpensObject(w, t, n + 1, s, Stack(w, n + 1), Met(w, n), Met(w, n + 1))
  <2>1. PICK j, key : /\ n + 1 > 1 /\ InFields(w, s) /\ NextField(w, s).v.is = "object"
                      /\ key = NextField(w, s).k /\ j = NextField(w, s).v.v
                      /\ t = [is |-> "open", k |-> key, array |-> w.given[j].array]
                      /\ Met(w, n + 1) = Append(Met(w, n), j)
    BY <1>7 DEF OpensObject, Opens
  <2>2. k \in 1 .. Width(w, i) /\ e.v.is = "object" /\ key = e.k /\ j = e.v.v
    BY <2>1, <1>3
  <2>3. t.is = "open" /\ t.k = key /\ t.array = w.given[j].array
    BY <2>1
  <2>4. Of(w, n + 1) = j
    <3>1. j \in DOMAIN w.given
      <4>1. PICK x, y : x = i /\ y = k
        OBVIOUS
      <4>2. x \in DOMAIN w.given /\ y \in 1 .. Width(w, x) /\ Enc(w, x).own[y].v.is = "object" /\ j = Enc(w, x).own[y].v.v
        BY <4>1, <2>1, <2>2, <1>2 DEF InFields
      <4> QED  BY <4>2, <1>1, JEncoded
    <3>2. Met(w, n) \in Seq(DOMAIN w.given)
      BY <1>1, JTypes
    <3>3. PICK m : m = Met(w, n)
      OBVIOUS
    <3>4. m \in Seq(DOMAIN w.given) /\ Met(w, n + 1) = Append(m, j)
      BY <2>1, <3>2, <3>3
    <3>5. Last(Append(m, j)) = j
      BY <3>1, <3>4, JSeqAppend
    <3> QED  BY <3>4, <3>5, <1>5
  <2>5. StandsFor(w, n + 1, e.v.v)
    BY <2>2, <2>3, <2>4 DEF StandsFor, IsOpen
  <2>6. t.k = e.k /\ t.array = w.given[Of(w, n + 1)].array /\ n # 0 /\ t.is = "open"
    <3>1. n # 0
      BY <1>1, <2>1
    <3>2. t.k = e.k
      BY <2>2, <2>3, Zenon
    <3>3. t.array = w.given[Of(w, n + 1)].array
      BY <2>3, <2>4, Zenon
    <3> QED  BY <2>3, <3>1, <3>2, <3>3
  <2> QED  BY <2>2, <2>5, <2>6
<1>8. CASE Refers(w, t, n + 1, s, Stack(w, n + 1), Met(w, n), Met(w, n + 1))
  <2>1. /\ n + 1 > 1 /\ InFields(w, s) /\ NextField(w, s).v.is = "object"
        /\ t = [is |-> "ref", k |-> NextField(w, s).k, id |-> t.id]
        /\ t.id \in Nat /\ t.id + 1 \in DOMAIN Met(w, n) /\ Met(w, n)[t.id + 1] = NextField(w, s).v.v
    BY <1>8 DEF Refers
  <2>2. k \in 1 .. Width(w, i) /\ e.v.is = "object" /\ NextField(w, s) = e
    BY <2>1, <1>3
  <2>3. t.is = "ref" /\ t.k = e.k
    <3>1. PICK a, b : a = NextField(w, s).k /\ b = t.id
      OBVIOUS
    <3>2. t = [is |-> "ref", k |-> a, id |-> b]
      BY <2>1, <3>1
    <3>3. t.is = "ref" /\ t.k = a
      BY <3>2
    <3> QED  BY <3>1, <3>3, <2>2
  <2>4. DOMAIN Met(w, n) = 1 .. Count(w, n) /\ Count(w, n) \in Nat
    BY <1>1, JTypes
  <2>5. n \in 0 .. Size(w) /\ Size(w) \in 0 .. Size(w) /\ n \in 0 .. Size(w)
    BY <1>1
  <2>6. Count(w, n) <= Count(w, Size(w)) /\ Count(w, Size(w)) \in Nat /\ \A x \in 1 .. Count(w, n) : Met(w, Size(w))[x] = Met(w, n)[x]
    BY <2>5, JCounts
  <2>7. t.id + 1 \in 1 .. Len(Final(w)) /\ Final(w)[t.id + 1] = e.v.v
    BY <2>1, <2>2, <2>4, <2>6 DEF Final, Count
  <2>8. StandsFor(w, n + 1, e.v.v)
    BY <2>3, <2>7 DEF StandsFor, IsOpen
  <2> QED  BY <1>1, <2>1, <2>2, <2>3, <2>8, SMTT(30)
<1>9. CASE Tells(w, t, n + 1, s, Stack(w, n + 1), Met(w, n), Met(w, n + 1))
  <2>1. PICK key, val : /\ n + 1 > 1 /\ InFields(w, s) /\ NextField(w, s).v.is # "object"
                        /\ key = NextField(w, s).k /\ val = NextField(w, s).v
                        /\ t = [is |-> "value", k |-> key, v |-> val]
    BY <1>9 DEF Tells
  <2>2. t.is = "value" /\ t.k = key /\ t.v = val
    BY <2>1
  <2> QED  BY <1>1, <1>3, <2>1, <2>2
<1>10. CASE Lists(w, t, n + 1, s, Stack(w, n + 1), Met(w, n), Met(w, n + 1))
  <2>1. PICK ds : /\ n + 1 > 1 /\ k = Width(w, i) + 1 /\ HasList(w, i)
                  /\ ds = Enc(w, i).dates /\ t = [is |-> "dates", v |-> ds]
    BY <1>10 DEF Lists
  <2>2. t.is = "dates" /\ t.v = ds
    BY <2>1
  <2> QED  BY <1>1, <2>1, <2>2
<1>11. CASE Closes(w, t, n + 1, s, Stack(w, n + 1), Met(w, n), Met(w, n + 1))
  <2>1. n + 1 > 1 /\ k = End(w, i) /\ t = [is |-> "close"]
    BY <1>11 DEF Closes
  <2>2. t.is = "close"
    BY <2>1
  <2> QED  BY <1>1, <2>1, <2>2
<1> QED  BY <1>1, <1>6, <1>7, <1>8, <1>9, <1>10, <1>11 DEF Continues

\* Changing the properties of an object, or its list of dates.
LEMMA JObjectType ==
  ASSUME NEW o \in ObjectType
  PROVE  /\ o.array \in BOOLEAN /\ o.own \in Seq(FieldType) /\ o.dates \in SUBSET Strings
         /\ Len(o.own) \in Nat /\ \A m \in 1 .. Len(o.own) : o.own[m] \in FieldType
         /\ \A q \in Seq(FieldType) : LET r == [o EXCEPT !.own = q] IN
              r \in ObjectType /\ r.own = q /\ r.array = o.array /\ r.dates = o.dates
         /\ \A d \in SUBSET Strings : LET r == [o EXCEPT !.dates = d] IN
              r \in ObjectType /\ r.own = o.own /\ r.array = o.array /\ r.dates = d
<1>1. /\ o.array \in BOOLEAN /\ o.own \in Seq(FieldType) /\ o.dates \in SUBSET Strings
  BY DEF ObjectType
<1>2. Len(o.own) \in Nat /\ \A m \in 1 .. Len(o.own) : o.own[m] \in FieldType
  BY <1>1, JSeq
<1>3. \A q \in Seq(FieldType) : LET r == [o EXCEPT !.own = q] IN
        r \in ObjectType /\ r.own = q /\ r.array = o.array /\ r.dates = o.dates
  BY DEF ObjectType
<1>4. \A d \in SUBSET Strings : LET r == [o EXCEPT !.dates = d] IN
        r \in ObjectType /\ r.own = o.own /\ r.array = o.array /\ r.dates = d
  BY DEF ObjectType
<1> QED  BY <1>1, <1>2, <1>3, <1>4

\* r is o with one more property; r is o with a list of dates
WithField(o, f, r) == r = [o EXCEPT !.own = Append(@, f)]
WithList(o, d, r) == r = [o EXCEPT !.dates = d]

FieldAdded(w, p, k, o, f, r) ==
  /\ ObjectOK(w, r, p, k + 1, FALSE, FALSE)
  /\ Len(o.own) = k - 1 /\ Len(r.own) = k /\ r.own[k] = f
  /\ \A m \in 1 .. Len(o.own) : r.own[m] = o.own[m]

ListAdded(w, p, i, o, d, r) ==
  /\ ObjectOK(w, r, p, Width(w, i) + 2, FALSE, FALSE)
  /\ r.own = o.own

\* A property more of an object.
LEMMA JFieldAdded ==
  ASSUME NEW w, IsGraph(w.given), NEW p, NEW i, i = Of(w, p), i \in DOMAIN w.given,
         NEW k, k \in 1 .. Width(w, i), NEW o, ObjectOK(w, o, p, k, FALSE, FALSE),
         NEW f \in FieldType, FieldOK(w, i, k, f, FALSE),
         NEW r, WithField(o, f, r)
  PROVE  FieldAdded(w, p, k, o, f, r)
<1>1. Width(w, i) \in Nat /\ k \in Nat
  BY JEnds
<1>2. /\ o \in ObjectType /\ o.array = w.given[i].array
      /\ o.dates = {}
      /\ Len(o.own) = k - 1
      /\ \A m \in 1 .. Len(o.own) : FieldOK(w, i, m, o.own[m], FALSE)
  <2>1. k <= Width(w, i) /\ k # Width(w, i) + 2
    BY <1>1
  <2> QED  BY <2>1 DEF ObjectOK, ListOf
<1>3. PICK q : q = o.own
  OBVIOUS
<1>4. q \in Seq(FieldType) /\ Len(q) = k - 1
  BY <1>2, <1>3, JObjectType
<1>5. /\ Append(q, f) \in Seq(FieldType) /\ Len(Append(q, f)) = k /\ Append(q, f)[k] = f
      /\ \A m \in 1 .. k - 1 : Append(q, f)[m] = q[m]
  <2>1. Len(q) + 1 = k
    BY <1>1, <1>4
  <2> QED  BY <2>1, <1>4, JSeqAppend
<1>6. PICK q2 : q2 = Append(q, f)
  OBVIOUS
<1>7. r = [o EXCEPT !.own = q2]
  BY <1>3, <1>6 DEF WithField
<1>8. r \in ObjectType /\ r.own = q2 /\ r.array = o.array /\ r.dates = o.dates
  <2>1. q2 \in Seq(FieldType)
    BY <1>5, <1>6
  <2> QED  BY <2>1, <1>2, <1>7 DEF ObjectType
<1>9. \A m \in 1 .. k : FieldOK(w, i, m, q2[m], FALSE)
  <2> SUFFICES ASSUME NEW m \in 1 .. k PROVE FieldOK(w, i, m, q2[m], FALSE)
    OBVIOUS
  <2>1. CASE m = k
    BY <2>1, <1>5, <1>6
  <2>2. CASE m # k
    <3>1. m \in 1 .. k - 1
      BY <2>2, <1>1
    <3> QED  BY <3>1, <1>2, <1>3, <1>5, <1>6
  <2> QED  BY <2>1, <2>2
<1>10. Len(q2) = IF k + 1 <= Width(w, i) THEN k + 1 - 1 ELSE Width(w, i)
  BY <1>1, <1>5, <1>6
<1>11. ListOf(w, i, k + 1) = {}
  BY <1>1 DEF ListOf
<1>12. ObjectOK(w, r, p, k + 1, FALSE, FALSE)
  <2>1. PICK x : x = k + 1
    OBVIOUS
  <2>2. ListOf(w, i, x) = {}
    BY <2>1, <1>11
  <2>3. Len(r.own) = IF x <= Width(w, i) THEN x - 1 ELSE Width(w, i)
    BY <2>1, <1>8, <1>10
  <2>4. \A m \in 1 .. Len(r.own) : FieldOK(w, i, m, r.own[m], FALSE)
    BY <1>5, <1>6, <1>8, <1>9
  <2>5. r \in ObjectType /\ r.array = w.given[i].array /\ r.dates = {}
    BY <1>2, <1>8
  <2>6. ObjectOK(w, r, p, x, FALSE, FALSE)
    BY <2>2, <2>3, <2>4, <2>5 DEF ObjectOK
  <2> QED  BY <2>1, <2>6
<1>13. Len(o.own) = k - 1 /\ Len(r.own) = k /\ r.own[k] = f /\ \A m \in 1 .. Len(o.own) : r.own[m] = o.own[m]
  BY <1>2, <1>3, <1>5, <1>6, <1>8
<1> QED  BY <1>12, <1>13, Zenon DEF FieldAdded

\* The list of dates of an object.
LEMMA JListAdded ==
  ASSUME NEW w, IsGraph(w.given), NEW p, NEW i, i = Of(w, p), i \in DOMAIN w.given,
         NEW o, ObjectOK(w, o, p, Width(w, i) + 1, FALSE, FALSE),
         NEW d, d = Enc(w, i).dates, NEW r, WithList(o, d, r)
  PROVE  ListAdded(w, p, i, o, d, r)
<1>1. Width(w, i) \in Nat
  BY JEnds
<1>2. /\ o \in ObjectType /\ o.array = w.given[i].array
      /\ Len(o.own) = Width(w, i)
      /\ \A m \in 1 .. Len(o.own) : FieldOK(w, i, m, o.own[m], FALSE)
  <2>1. ~(Width(w, i) + 1 <= Width(w, i))
    BY <1>1
  <2> QED  BY <2>1 DEF ObjectOK
<1>3. Enc(w, i).dates \in SUBSET Strings
  BY JEncoded
<1>4. r \in ObjectType /\ r.own = o.own /\ r.array = o.array /\ r.dates = Enc(w, i).dates
  BY <1>2, <1>3, JObjectType, SMTT(30) DEF WithList
<1>5. ListOf(w, i, Width(w, i) + 2) = Enc(w, i).dates /\ ~(Width(w, i) + 2 <= Width(w, i))
  BY <1>1 DEF ListOf
<1>6. ObjectOK(w, r, p, Width(w, i) + 2, FALSE, FALSE)
  BY <1>2, <1>4, <1>5 DEF ObjectOK
<1> QED  BY <1>4, <1>6, Zenon DEF ListAdded

\* The objects behind the next token, but for the one that was begun and the one
\* that holds it, are as before.
LEMMA JObjectsStep ==
  ASSUME NEW w, Written(w), NEW n \in 0 .. Size(w) - 1, NEW ob, NEW ob2,
         w.text[n + 1].is # "close",
         ObjectsOK(w, n, FALSE, ob), DOMAIN ob2 = Places(w, n + 1),
         \A p \in Places(w, n) : p # Inside(w, n) => ob2[p] = ob[p],
         n # 0 => ObjectOK(w, ob2[Inside(w, n)], Inside(w, n), Last(Stack(w, n)).at + 1, FALSE, FALSE),
         w.text[n + 1].is = "open" => ObjectOK(w, ob2[n + 1], n + 1, 1, FALSE, FALSE),
         w.text[n + 1].is = "ref" => ob2[n + 1] = Reference(w.text[n + 1].id)
  PROVE  ObjectsOK(w, n + 1, FALSE, ob2)
<1>1. n \in Nat /\ n \in 0 .. Size(w) /\ n + 1 \in 0 .. Size(w)
  BY JMove
<1>2. Gone(w, n, FALSE) = FALSE /\ Gone(w, n + 1, FALSE) = FALSE
  BY DEF Gone
<1>3. \A p \in Places(w, n + 1) : p # n + 1 => p \in Places(w, n) /\ n # 0
  BY <1>1 DEF Places
<1>4. n # 0 => Stack(w, n) # <<>>
  BY JFrames
<1>5. n # 0 => IsOpen(w, Inside(w, n)) /\ OnPath(w, n, Inside(w, n)) /\ Inside(w, n) \in 1 .. n
  BY <1>1, <1>4, JInside
<1>6. ASSUME NEW p \in Places(w, n + 1), IsOpen(w, p), NEW k \in Nat, Upto(w, n + 1, p, k)
      PROVE  ObjectOK(w, ob2[p], p, k, IsRevived(w, n + 1, FALSE, p), Gone(w, n + 1, FALSE))
  <2>1. CASE p = n + 1
    <3>1. OnPath(w, n + 1, p) /\ k = 1
      BY <2>1, <1>6, JUpto
    <3>2. IsRevived(w, n + 1, FALSE, p) = FALSE
      BY <3>1 DEF IsRevived
    <3>3. w.text[n + 1].is = "open"
      BY <2>1, <1>6 DEF IsOpen
    <3> QED  BY <3>1, <3>2, <3>3, <2>1, <1>2
  <2>2. CASE p # n + 1
    <3>1. p \in Places(w, n) /\ n # 0
      BY <2>2, <1>3
    <3>2. OnPath(w, n + 1, p) <=> OnPath(w, n, p)
      BY <2>2, <1>6, JUpto
    <3>3. IsRevived(w, n + 1, FALSE, p) = IsRevived(w, n, FALSE, p)
      BY <3>2 DEF IsRevived
    <3>4. CASE p = Inside(w, n)
      <4>1. k = Last(Stack(w, n)).at + 1
        BY <2>2, <3>4, <1>6, JUpto
      <4>2. IsRevived(w, n, FALSE, p) = FALSE
        BY <3>1, <3>4, <1>5 DEF IsRevived
      <4> QED  BY <3>1, <3>3, <3>4, <4>1, <4>2, <1>2
    <3>5. CASE p # Inside(w, n)
      <4>1. Upto(w, n, p, k)
        BY <2>2, <3>5, <1>6, JUpto
      <4>2. ObjectOK(w, ob[p], p, k, IsRevived(w, n, FALSE, p), Gone(w, n, FALSE))
        BY <3>1, <4>1, <1>6 DEF ObjectsOK
      <4> QED  BY <3>1, <3>3, <3>5, <4>2, <1>2
    <3> QED  BY <3>4, <3>5
  <2> QED  BY <2>1, <2>2
<1>7. ASSUME NEW p \in Places(w, n + 1), ~IsOpen(w, p) PROVE ob2[p] = Reference(w.text[p].id)
  <2>1. CASE p = n + 1
    <3>1. w.text[n + 1].is = "ref"
      BY <2>1, <1>7 DEF IsOpen, Places
    <3> QED  BY <3>1, <2>1
  <2>2. CASE p # n + 1
    <3>1. p \in Places(w, n) /\ p # Inside(w, n)
      BY <2>2, <1>3, <1>5, <1>7
    <3>2. ob[p] = Reference(w.text[p].id)
      BY <3>1, <1>7 DEF ObjectsOK
    <3> QED  BY <3>1, <3>2
  <2> QED  BY <2>1, <2>2
<1> QED  BY <1>6, <1>7 DEF ObjectsOK

\* The place of an object or reference: the link to it is a property whose key is
\* the one in the text, and it is in the object that is read at that time.
LEMMA JLink ==
  ASSUME NEW w, Written(w), NEW n \in 0 .. Size(w) - 1, n + 1 \in Places(w, n + 1)
  PROVE  /\ Link(w, n + 1) = [k |-> w.text[n + 1].k, v |-> Object(n + 1)] /\ Link(w, n + 1) \in FieldType
         /\ Link(w, n + 1).k = w.text[n + 1].k /\ Link(w, n + 1).v = Object(n + 1)
         /\ Link(w, n + 1).v.is = "object" /\ Link(w, n + 1).v.v = n + 1
         /\ n = 0 => w.text[n + 1].k = NoKey
         /\ n # 0 => w.text[n + 1].k \in Keys /\ Parent(w, n + 1) = Inside(w, n)
<1>1. n \in Nat /\ n \in 0 .. Size(w) /\ Size(w) \in Nat /\ IsGraph(w.given)
  BY JMove
<1>2. w.text[n + 1].is \in {"open", "ref"}
  BY DEF Places
<1>3. n = 0 => w.text[n + 1].k = NoKey
  BY JToken
<1>4. ASSUME n # 0 PROVE w.text[n + 1].k \in Keys
  <2>1. PICK i, k : i = Last(Stack(w, n)).of /\ k = Last(Stack(w, n)).at
    OBVIOUS
  <2>2. k \in 1 .. Width(w, i) /\ w.text[n + 1].k = Enc(w, i).own[k].k
    BY <1>2, <1>4, <2>1, JToken
  <2>3. Stack(w, n) # <<>>
    BY <1>4, JFrames
  <2>4. i \in DOMAIN w.given
    BY <2>1, <2>3, <1>1, JInside
  <2>5. PICK f : f = w.given[i].own[k]
    OBVIOUS
  <2>6. f.k \in Keys /\ Enc(w, i).own[k].k = f.k
    BY <1>1, <2>2, <2>4, <2>5, JEncoded
  <2> QED  BY <2>2, <2>6
<1>5. Parent(w, n + 1) = Inside(w, n)
  BY <1>1 DEF Parent, Inside
<1>6. PICK p, key : p = n + 1 /\ key = w.text[n + 1].k
  OBVIOUS
<1>7. p \in Nat /\ key \in Keys \cup {NoKey, OBJECTREF_FIELD}
  BY <1>1, <1>3, <1>4, <1>6
<1>8. Link(w, p) = [k |-> key, v |-> [is |-> "object", v |-> p]]
  BY <1>6 DEF Link, Field, Object
<1>9. [k |-> key, v |-> [is |-> "object", v |-> p]] \in FieldType
  BY <1>7 DEF FieldType
<1>10. /\ Link(w, p).k = key /\ Link(w, p).v = [is |-> "object", v |-> p]
       /\ Link(w, p).v.is = "object" /\ Link(w, p).v.v = p
  BY <1>8
<1> QED  BY <1>3, <1>4, <1>5, <1>6, <1>8, <1>9, <1>10 DEF Object

\* The path of the parser.
LEMMA JPath ==
  ASSUME NEW w, Written(w), NEW n \in 0 .. Size(w) - 1
  PROVE  /\ w.text[n + 1].is = "open" => Path(w, n + 1) = Append(Path(w, n), n + 1)
         /\ w.text[n + 1].is \in {"ref", "value", "dates"} => Path(w, n + 1) = Path(w, n)
         /\ w.text[n + 1].is = "close" => Path(w, n + 1) = Front(Path(w, n))
         /\ Path(w, n) = <<>> <=> n = 0
         /\ n # 0 => Last(Path(w, n)) = Inside(w, n)
<1> DEFINE S == Stack(w, n)
           T == Stack(w, n + 1)
           is == w.text[n + 1].is
<1>1. /\ Len(S) \in Nat /\ Len(T) \in Nat
      /\ n = 0 <=> S = <<>>
      /\ n = 0 <=> Len(S) = 0
      /\ is = "open" => Len(T) = Len(S) + 1 /\ T[Len(T)].open = n + 1
      /\ is \in {"ref", "value", "dates"} => Len(T) = Len(S)
      /\ is = "close" => Len(T) = Len(S) - 1
      /\ \A d \in 1 .. Len(T) : d <= Len(S) => T[d].open = S[d].open
  BY JFrames
<1>2. n \in Nat /\ n \in 0 .. Size(w)
  BY JMove
<1>3. PICK s, l : s = [d \in 1 .. l |-> s[d]] /\ s = Path(w, n) /\ l = Len(S)
  BY DEF Path
<1>4. PICK t, k : t = [d \in 1 .. k |-> t[d]] /\ t = Path(w, n + 1) /\ k = Len(T)
  BY DEF Path
<1>5. /\ \A d \in 1 .. l : s[d] = S[d].open
      /\ \A d \in 1 .. k : t[d] = T[d].open
  BY <1>3, <1>4 DEF Path
<1>6. l \in Nat /\ k \in Nat /\ s \in Seq(1 .. n) /\ Len(s) = l
  <2>1. l \in Nat /\ k \in Nat
    BY <1>1, <1>3, <1>4
  <2>2. \A d \in 1 .. l : s[d] \in 1 .. n
    BY <1>2, <1>3, <1>5, JStack
  <2> QED  BY <1>3, <2>1, <2>2, JSeqMade
<1>7. \A d \in 1 .. k : d <= l => t[d] = s[d]
  BY <1>1, <1>3, <1>4, <1>5, <1>6
<1>8. ASSUME is = "open" PROVE t = Append(s, n + 1)
  <2>1. k = l + 1 /\ t[k] = n + 1
    BY <1>1, <1>3, <1>4, <1>5, <1>6, <1>8
  <2>2. t = [d \in 1 .. l + 1 |-> IF d = l + 1 THEN n + 1 ELSE s[d]]
    BY <2>1, <1>4, <1>6, <1>7
  <2> QED  BY <2>2, <1>6
<1>9. ASSUME is \in {"ref", "value", "dates"} PROVE t = s
  BY <1>1, <1>3, <1>4, <1>6, <1>7, <1>9
<1>10. ASSUME is = "close" PROVE t = Front(s)
  <2>1. k = l - 1 /\ \A d \in 1 .. k : t[d] = s[d]
    BY <1>1, <1>3, <1>4, <1>6, <1>7, <1>10
  <2>2. Front(s) = [d \in 1 .. l - 1 |-> s[d]]
    BY <1>6, <2>1 DEF Front
  <2> QED  BY <2>1, <2>2, <1>4
<1>11. s = <<>> <=> n = 0
  BY <1>1, <1>3, <1>6
<1>12. ASSUME n # 0 PROVE Last(s) = Inside(w, n)
  <2>1. S # <<>>
    BY <1>1, <1>12
  <2>2. Len(S) \in 1 .. Len(S) /\ Inside(w, n) = S[Len(S)].open
    BY <1>2, <2>1, JInside
  <2> QED  BY <2>2, <1>3, <1>5, <1>6 DEF Last
<1> QED  BY <1>3, <1>4, <1>8, <1>9, <1>10, <1>11, <1>12

\* What is behind the next token when it does not end an object.
LEMMA JNext ==
  ASSUME NEW w, Written(w), NEW n \in 0 .. Size(w) - 1
  PROVE  /\ n \in Nat /\ n \in 0 .. Size(w) /\ n + 1 \in 0 .. Size(w) /\ n + 1 \in 1 .. Size(w)
         /\ Size(w) \in Nat /\ IsGraph(w.given)
         /\ w.text[n + 1].is \in {"open", "ref", "value", "dates", "close"}
         /\ Places(w, n) \subseteq 1 .. n /\ Places(w, n) \subseteq Places(w, n + 1)
         /\ \A p \in Places(w, n + 1) : p # n + 1 => p \in Places(w, n)
         /\ n + 1 \in Places(w, n + 1) <=> w.text[n + 1].is \in {"open", "ref"}
         /\ IsOpen(w, n + 1) <=> w.text[n + 1].is = "open"
         /\ n + 1 \notin Places(w, n)
         /\ n = 0 <=> Stack(w, n) = <<>>
         /\ n = 0 => Places(w, n) = {} /\ w.text[n + 1].is = "open"
<1>1. /\ n \in Nat /\ n \in 0 .. Size(w) /\ n + 1 \in 0 .. Size(w) /\ n + 1 \in 1 .. Size(w)
      /\ Size(w) \in Nat /\ IsGraph(w.given)
      /\ w.text[n + 1].is \in {"open", "ref", "value", "dates", "close"}
  BY JMove
<1>2. n = 0 <=> Stack(w, n) = <<>>
  BY JFrames
<1>3. n = 0 => w.text[n + 1].is = "open"
  BY JFrames
<1> QED  BY <1>1, <1>2, <1>3 DEF Places, IsOpen

\* The end of the text is not reached yet.
LEMMA JNotEnd ==
  ASSUME NEW w, Written(w), Stack(w, Size(w)) = <<>>, NEW n \in 0 .. Size(w) - 1,
         w.text[n + 1].is # "close"
  PROVE  n + 1 \in 0 .. Size(w) - 1 /\ Stack(w, n + 1) # <<>>
<1>1. Stack(w, n + 1) # <<>>
  <2>1. /\ Len(Stack(w, n)) \in Nat /\ Len(Stack(w, n + 1)) \in Nat
        /\ n = 0 <=> Len(Stack(w, n)) = 0
        /\ w.text[n + 1].is = "open" => Len(Stack(w, n + 1)) = Len(Stack(w, n)) + 1
        /\ w.text[n + 1].is \in {"ref", "value", "dates"} => Len(Stack(w, n + 1)) = Len(Stack(w, n))
        /\ n = 0 => w.text[n + 1].is = "open"
    BY JFrames
  <2>2. Len(Stack(w, n + 1)) # 0
    BY <2>1, JNext
  <2> QED  BY <2>2
<1>2. n + 1 # Size(w)
  BY <1>1
<1> QED  BY <1>1, <1>2, JNext

\* The properties of the objects before the next token, but for one more of the
\* innermost object.
LEMMA JChildrenStep ==
  ASSUME NEW w, Written(w), NEW n \in 0 .. Size(w) - 1, NEW ob, NEW ob2,
         ChildrenOK(w, n, ob),
         \A p \in Places(w, n) : p # Inside(w, n) => ob2[p].own = ob[p].own,
         n # 0 => /\ Len(ob[Inside(w, n)].own) \in Nat /\ Len(ob2[Inside(w, n)].own) \in Nat
                  /\ Len(ob[Inside(w, n)].own) <= Len(ob2[Inside(w, n)].own)
                  /\ \A m \in 1 .. Len(ob[Inside(w, n)].own) : ob2[Inside(w, n)].own[m] = ob[Inside(w, n)].own[m]
                  /\ \A m \in 1 .. Len(ob2[Inside(w, n)].own) :
                       \/ m \in 1 .. Len(ob[Inside(w, n)].own)
                       \/ ob2[Inside(w, n)].own[m].v.is # "object"
                       \/ /\ m = Last(Stack(w, n)).at /\ n + 1 \in Places(w, n + 1)
                          /\ ob2[Inside(w, n)].own[m] = Link(w, n + 1),
         n + 1 \in Places(w, n + 1) =>
            /\ \A m \in 1 .. Len(ob2[n + 1].own) : ob2[n + 1].own[m].v.is # "object"
            /\ n # 0 => \E m \in 1 .. Len(ob2[Inside(w, n)].own) : ob2[Inside(w, n)].own[m] = Link(w, n + 1)
  PROVE  ChildrenOK(w, n + 1, ob2)
<1> DEFINE in == Inside(w, n)
<1>1. /\ n \in Nat /\ n \in 0 .. Size(w) /\ Places(w, n) \subseteq 1 .. n /\ Places(w, n) \subseteq Places(w, n + 1)
      /\ \A p \in Places(w, n + 1) : p # n + 1 => p \in Places(w, n)
      /\ n + 1 \in Places(w, n + 1) <=> w.text[n + 1].is \in {"open", "ref"}
      /\ n = 0 <=> Stack(w, n) = <<>>
      /\ n = 0 => Places(w, n) = {}
  BY JNext
<1>2. n # 0 => in \in Places(w, n) /\ in \in 1 .. n /\ IsOpen(w, in) /\ Last(Stack(w, n)).of = Of(w, in)
  BY <1>1, JInside
<1>3. \A p, m, f : ChildOK(w, n, p, m, f) => ChildOK(w, n + 1, p, m, f)
  BY <1>1 DEF ChildOK
<1> HIDE DEF in
<1>4. ASSUME NEW p \in Places(w, n + 1), NEW m \in 1 .. Len(ob2[p].own), ob2[p].own[m].v.is = "object"
      PROVE  ChildOK(w, n + 1, p, m, ob2[p].own[m])
  <2>1. p \in Places(w, n) /\ n # 0
    BY <1>1, <1>4
  <2>2. CASE p # in
    <3>1. ob2[p].own = ob[p].own
      BY <2>1, <2>2 DEF in
    <3>2. ChildOK(w, n, p, m, ob[p].own[m])
      BY <3>1, <2>1, <1>4 DEF ChildrenOK
    <3> QED  BY <3>1, <3>2, <1>3
  <2>3. CASE p = in /\ m \in 1 .. Len(ob[in].own)
    <3>1. ob2[p].own[m] = ob[p].own[m]
      BY <2>1, <2>3 DEF in
    <3>2. ChildOK(w, n, p, m, ob[p].own[m])
      BY <3>1, <2>1, <2>3, <1>4 DEF ChildrenOK
    <3> QED  BY <3>1, <3>2, <1>3
  <2>4. CASE p = in /\ m \notin 1 .. Len(ob[in].own)
    <3>1. m = Last(Stack(w, n)).at /\ n + 1 \in Places(w, n + 1) /\ ob2[p].own[m] = Link(w, n + 1)
      BY <2>1, <2>4, <1>4 DEF in
    <3>2. PICK c, f : c = n + 1 /\ f = Link(w, n + 1)
      OBVIOUS
    <3>3. f.v.v = c /\ Parent(w, c) = p
      BY <2>1, <2>4, <3>1, <3>2, JLink DEF in
    <3>4. c > p /\ c \in Places(w, n + 1) /\ f = Link(w, c)
      BY <1>1, <1>2, <2>1, <2>4, <3>1, <3>2
    <3>5. StandsFor(w, c, Enc(w, Of(w, p)).own[m].v.v)
      <4>1. PICK i : i = Last(Stack(w, n)).of
        OBVIOUS
      <4>2. StandsFor(w, c, Enc(w, i).own[m].v.v)
        BY <1>1, <2>1, <3>1, <3>2, <4>1, JToken
      <4> QED  BY <1>2, <2>1, <2>4, <4>1, <4>2
    <3>6. ChildOK(w, n + 1, p, m, f)
      BY <3>3, <3>4, <3>5 DEF ChildOK
    <3> QED  BY <3>1, <3>2, <3>6
  <2> QED  BY <2>2, <2>3, <2>4
<1>5. ASSUME NEW c \in Places(w, n + 1), c > 1
      PROVE  /\ Parent(w, c) \in Places(w, n + 1) /\ IsOpen(w, Parent(w, c))
             /\ \E m \in 1 .. Len(ob2[Parent(w, c)].own) : ob2[Parent(w, c)].own[m] = Link(w, c)
  <2>1. CASE c = n + 1
    <3>1. n # 0
      BY <2>1, <1>5
    <3>2. Parent(w, c) = in
      BY <2>1, <3>1, JLink DEF in
    <3> QED  BY <2>1, <3>1, <3>2, <1>1, <1>2 DEF in
  <2>2. CASE c # n + 1
    <3>1. c \in Places(w, n) /\ n # 0
      BY <2>2, <1>1
    <3>2. PICK p : p = Parent(w, c)
      OBVIOUS
    <3>3. p \in Places(w, n) /\ IsOpen(w, p) /\ \E m \in 1 .. Len(ob[p].own) : ob[p].own[m] = Link(w, c)
      BY <3>1, <3>2, <1>5 DEF ChildrenOK
    <3>4. PICK m \in 1 .. Len(ob[p].own) : ob[p].own[m] = Link(w, c)
      BY <3>3
    <3>5. m \in 1 .. Len(ob2[p].own) /\ ob2[p].own[m] = Link(w, c)
      <4>1. CASE p # in
        BY <3>3, <3>4, <4>1 DEF in
      <4>2. CASE p = in
        BY <3>1, <3>4, <4>2 DEF in
      <4> QED  BY <4>1, <4>2
    <3> QED  BY <3>2, <3>3, <3>5, <1>1
  <2> QED  BY <2>1, <2>2
<1> QED  BY <1>4, <1>5 DEF ChildrenOK

\* The lists of dates.
LEMMA JListsStep ==
  ASSUME NEW w, Written(w), NEW n \in 0 .. Size(w) - 1, NEW ob, NEW ob2, NEW ds, NEW ds2, NEW hs,
         w.text[n + 1].is # "close",
         ListsOK(w, n, FALSE, ob, ds, hs),
         \A p \in Places(w, n) : p # Inside(w, n) => ob2[p].dates = ob[p].dates,
         w.text[n + 1].is = "ref" => ob2[n + 1].dates = {},
         w.text[n + 1].is = "dates" => ds2 = w.text[n + 1].v
  PROVE  ListsOK(w, n + 1, FALSE, ob2, ds2, hs)
<1> DEFINE S == Stack(w, n)
           T == Stack(w, n + 1)
           is == w.text[n + 1].is
<1>1. /\ n \in Nat /\ n \in 0 .. Size(w) /\ Places(w, n) \subseteq 1 .. n /\ n + 1 \in 0 .. Size(w)
      /\ \A p \in Places(w, n + 1) : p # n + 1 => p \in Places(w, n)
      /\ n + 1 \in Places(w, n + 1) <=> is \in {"open", "ref"}
      /\ IsOpen(w, n + 1) <=> is = "open"
      /\ n = 0 <=> S = <<>>
      /\ n = 0 => is = "open"
      /\ is \in {"open", "ref", "value", "dates", "close"}
      /\ IsGraph(w.given)
  BY JNext
<1>2. /\ Len(S) \in Nat /\ Len(T) \in Nat
      /\ n = 0 <=> Len(S) = 0
      /\ is = "open" => Len(T) = Len(S) + 1 /\ T[Len(T)].at = 1
      /\ is \in {"ref", "value", "dates"} => Len(T) = Len(S)
      /\ \A d \in 1 .. Len(T) : d <= Len(S) =>
              /\ d \in 1 .. Len(S) /\ T[d].open = S[d].open /\ T[d].of = S[d].of
              /\ T[d].at = IF d = Len(S) THEN S[d].at + 1 ELSE S[d].at
  BY JFrames
<1>3. /\ \A d \in 1 .. Len(T) : T[d].of \in DOMAIN w.given /\ T[d].at \in Nat
      /\ \A d \in 1 .. Len(S) : S[d].of \in DOMAIN w.given /\ S[d].at \in Nat
  BY <1>1, JStack
<1>4. n # 0 => OnPath(w, n, Inside(w, n)) /\ Last(S) = S[Len(S)] /\ Len(S) \in 1 .. Len(S)
  BY <1>1, JInside
<1>5. Gone(w, n, FALSE) = FALSE /\ Gone(w, n + 1, FALSE) = FALSE
  BY DEF Gone
<1>6. ASSUME NEW p \in Places(w, n + 1), IsRevived(w, n + 1, FALSE, p), ob2[p].dates # {} PROVE p \in hs
  <2>1. ~OnPath(w, n + 1, p)
    BY <1>6 DEF IsRevived
  <2>2. p # n + 1
    <3>1. SUFFICES ASSUME p = n + 1 PROVE FALSE
      OBVIOUS
    <3>2. is = "open"
      BY <3>1, <1>1, <1>6
    <3> QED  BY <3>1, <3>2, <2>1, <1>1, JUpto
  <2>3. p \in Places(w, n) /\ n # 0
    BY <2>2, <1>1 DEF Places
  <2>4. ~OnPath(w, n, p)
    <3>1. SUFFICES ASSUME OnPath(w, n, p) PROVE FALSE
      OBVIOUS
    <3>2. PICK d \in 1 .. Len(S) : S[d].open = p
      BY <3>1 DEF OnPath
    <3>3. d \in 1 .. Len(T) /\ d <= Len(S)
      BY <1>1, <1>2, <3>2
    <3>4. T[d].open = p
      BY <1>2, <3>2, <3>3
    <3> QED  BY <3>3, <3>4, <2>1 DEF OnPath
  <2>5. p # Inside(w, n)
    BY <2>3, <2>4, <1>4
  <2>6. ob[p].dates # {} /\ IsRevived(w, n, FALSE, p)
    BY <2>3, <2>4, <2>5, <1>6 DEF IsRevived
  <2> QED  BY <2>3, <2>6, <1>5 DEF ListsOK
<1>7. ASSUME NEW i, i = Last(T).of, Last(T).at = Width(w, i) + 2, T # <<>> PROVE ds2 = Enc(w, i).dates
  <2>1. Len(T) \in 1 .. Len(T) /\ Last(T) = T[Len(T)]
    BY <1>1, <1>7, JInside
  <2>2. PICK k : k = Last(T).at
    OBVIOUS
  <2>3. i \in DOMAIN w.given /\ k = Width(w, i) + 2 /\ Width(w, i) \in Nat
    BY <2>1, <2>2, <1>1, <1>3, <1>7, JEnds
  <2>4. is # "open"
    BY <2>1, <2>2, <2>3, <1>2
  <2>5. Len(T) = Len(S) /\ n # 0
    BY <2>4, <1>1, <1>2
  <2>6. PICK k0 : k0 = Last(S).at
    OBVIOUS
  <2>7. Last(S).of = i /\ k = k0 + 1 /\ k0 \in Nat
    BY <2>1, <2>2, <2>5, <2>6, <1>2, <1>3, <1>4, <1>7
  <2>8. k0 \notin 1 .. Width(w, i)
    BY <2>3, <2>7
  <2>9. is = "dates" /\ w.text[n + 1].v = Enc(w, i).dates
    BY <2>4, <2>5, <2>6, <2>7, <2>8, <1>1, JToken
  <2> QED  BY <2>9
<1>8. ASSUME NEW d \in 1 .. Len(T) - 1 PROVE T[d].at <= Width(w, T[d].of) + 1
  <2>1. d \in 1 .. Len(T) /\ d \in 1 .. Len(S) /\ d <= Len(S) /\ n # 0
    BY <1>1, <1>2
  <2>2. CASE d = Len(S)
    <3>1. is = "open"
      BY <1>1, <1>2, <2>2
    <3>2. PICK i, k : i = Last(S).of /\ k = Last(S).at
      OBVIOUS
    <3>3. k \in 1 .. Width(w, i)
      BY <2>1, <3>1, <3>2, JToken
    <3>4. T[d].at = k + 1 /\ T[d].of = i /\ i \in DOMAIN w.given
      BY <2>1, <2>2, <3>2, <1>2, <1>3, <1>4
    <3>5. Width(w, i) \in Nat
      BY <3>4, <1>1, JEnds
    <3> QED  BY <3>3, <3>4, <3>5
  <2>3. CASE d # Len(S)
    <3>1. d \in 1 .. Len(S) - 1 /\ T[d].at = S[d].at /\ T[d].of = S[d].of
      BY <2>1, <2>3, <1>2
    <3> QED  BY <3>1 DEF ListsOK
  <2> QED  BY <2>2, <2>3
<1> QED  BY <1>5, <1>6, <1>7, <1>8 DEF ListsOK

\* What was opened as the x-th is so behind the next token.
LEMMA JOpenedAsStep ==
  ASSUME NEW w, NEW n \in Nat, NEW f, NEW x, OpenedAs(w, n, f, x)
  PROVE  OpenedAs(w, n + 1, f, x) /\ f.v.v \in Places(w, n)
BY DEF OpenedAs, Places, IsOpen

\* The frames of the objects that are open before and behind the next token.
LEMMA JFramesStep ==
  ASSUME NEW w, Written(w), NEW n \in 0 .. Size(w) - 1, w.text[n + 1].is # "close"
  PROVE  LET S == Stack(w, n)
             T == Stack(w, n + 1)
         IN
         /\ Len(S) \in Nat /\ Len(T) \in Nat /\ Len(S) <= Len(T) /\ Len(T) <= Len(S) + 1
         /\ Len(T) # Len(S) <=> w.text[n + 1].is = "open"
         /\ \A d \in 1 .. Len(S) : d \in 1 .. Len(T) /\ T[d].open = S[d].open /\ S[d].open \in 1 .. n
         /\ \A d \in 1 .. Len(T) : d \in 1 .. Len(S) \/ (d = Len(S) + 1 /\ T[d].open = n + 1)
<1> DEFINE S == Stack(w, n)
           T == Stack(w, n + 1)
           is == w.text[n + 1].is
<1>1. /\ Len(S) \in Nat /\ Len(T) \in Nat
      /\ is = "open" => Len(T) = Len(S) + 1 /\ T[Len(T)].open = n + 1
      /\ is \in {"ref", "value", "dates"} => Len(T) = Len(S)
      /\ \A d \in 1 .. Len(T) : d <= Len(S) => d \in 1 .. Len(S) /\ T[d].open = S[d].open
  BY JFrames
<1>2. is \in {"open", "ref", "value", "dates"} /\ n \in 0 .. Size(w)
  BY JNext
<1>3. \A d \in 1 .. Len(S) : S[d].open \in 1 .. n
  BY <1>2, JStack
<1>4. Len(S) <= Len(T) /\ Len(T) <= Len(S) + 1 /\ (Len(T) # Len(S) <=> is = "open")
  BY <1>1, <1>2
<1>5. \A d \in 1 .. Len(S) : d \in 1 .. Len(T) /\ T[d].open = S[d].open /\ S[d].open \in 1 .. n
  BY <1>1, <1>3, <1>4
<1>6. ASSUME NEW d \in 1 .. Len(T), d \notin 1 .. Len(S) PROVE d = Len(S) + 1 /\ T[d].open = n + 1
  <2>1. d = Len(S) + 1 /\ Len(T) = Len(S) + 1 /\ is = "open"
    BY <1>1, <1>4, <1>6
  <2> QED  BY <2>1, <1>1
<1> QED  BY <1>1, <1>4, <1>5, <1>6

\* The counts of the objects that were opened before the next token.
LEMMA JCountStep ==
  ASSUME NEW w, Written(w), NEW n \in 0 .. Size(w) - 1
  PROVE  /\ Count(w, n) \in Nat /\ Count(w, n + 1) \in Nat
         /\ Count(w, n + 1) = IF w.text[n + 1].is = "open" THEN Count(w, n) + 1 ELSE Count(w, n)
         /\ \A p \in 0 .. n : Count(w, p) \in Nat /\ Count(w, p) <= Count(w, n) /\ Count(w, p) <= Count(w, n + 1)
<1>1. n \in Nat /\ n \in 0 .. Size(w) /\ n + 1 \in 0 .. Size(w) /\ n + 1 \in 1 .. Size(w) /\ (IsOpen(w, n + 1) <=> w.text[n + 1].is = "open")
  BY JNext
<1>2. PICK p : p = n + 1
  OBVIOUS
<1>3. p - 1 = n /\ p \in 1 .. Size(w)
  BY <1>1, <1>2
<1>4. /\ Count(w, n) \in Nat /\ Count(w, p) \in Nat
      /\ IsOpen(w, p) => Count(w, p) = Count(w, n) + 1
      /\ ~IsOpen(w, p) => Count(w, p) = Count(w, n)
  BY <1>3, JOpened
<1>5. \A q \in 0 .. n : Count(w, q) \in Nat /\ Count(w, q) <= Count(w, n)
  BY <1>1, JCounts
<1>6. Count(w, n) <= Count(w, p)
  BY <1>4
<1>7. \A q \in 0 .. n : Count(w, q) <= Count(w, p)
  BY <1>4, <1>5, <1>6
<1> QED  BY <1>1, <1>2, <1>4, <1>5, <1>7

\* The chains behind the next token: a chain that was there is one yet.
LEMMA JChainStep ==
  ASSUME NEW w, Written(w), NEW n \in 0 .. Size(w) - 1, w.text[n + 1].is # "close",
         NEW q, ChainOK(w, n, q)
  PROVE  ChainOK(w, n + 1, q)
<1> DEFINE S == Stack(w, n)
           T == Stack(w, n + 1)
<1>1. PICK h : h = HeadOf(q)
  OBVIOUS
<1>2. /\ q \in Seq(FieldType) /\ q # <<>>
      /\ h \in Places(w, n) /\ q[1] = Link(w, h)
      /\ IF IsOpen(w, h) THEN \A x \in 1 .. Len(q) : OpenedAs(w, n, q[x], Count(w, h) + x - 1) ELSE Len(q) = 1
      /\ h > 1 /\ \E d \in 1 .. Len(S) :
                    /\ Parent(w, h) = S[d].open /\ h > S[d].open
                    /\ d < Len(S) => h < S[d + 1].open
  BY <1>1 DEF ChainOK
<1>3. n \in Nat /\ h \in Places(w, n + 1) /\ h \in 1 .. n
  BY <1>2, JNext
<1>4. IF IsOpen(w, h) THEN \A x \in 1 .. Len(q) : OpenedAs(w, n + 1, q[x], Count(w, h) + x - 1) ELSE Len(q) = 1
  BY <1>2, <1>3, JOpenedAsStep
<1>5. PICK d \in 1 .. Len(S) : /\ Parent(w, h) = S[d].open /\ h > S[d].open
                               /\ d < Len(S) => h < S[d + 1].open
  BY <1>2
<1>6. d \in 1 .. Len(T) /\ T[d].open = S[d].open
  BY JFramesStep
<1>7. ASSUME d < Len(T) PROVE h < T[d + 1].open
  <2>1. Len(S) \in Nat /\ Len(T) \in Nat
    BY JFramesStep
  <2>2. PICK e : e = d + 1
    OBVIOUS
  <2>3. e \in 1 .. Len(T)
    BY <1>7, <2>1, <2>2
  <2>4. CASE e \in 1 .. Len(S)
    <3>1. d < Len(S) /\ T[e].open = S[e].open
      BY <2>1, <2>2, <2>4, JFramesStep
    <3> QED  BY <3>1, <1>5, <2>2
  <2>5. CASE e \notin 1 .. Len(S)
    <3>1. T[e].open = n + 1
      BY <2>3, <2>5, JFramesStep
    <3> QED  BY <3>1, <1>3, <2>2
  <2> QED  BY <2>4, <2>5
<1>8. \E e \in 1 .. Len(T) : /\ Parent(w, h) = T[e].open /\ h > T[e].open
                             /\ e < Len(T) => h < T[e + 1].open
  BY <1>5, <1>6, <1>7
<1> QED  BY <1>1, <1>2, <1>3, <1>4, <1>8 DEF ChainOK

\* A reference is a chain.
LEMMA JChainOfRef ==
  ASSUME NEW w, Written(w), NEW n \in 0 .. Size(w) - 1, w.text[n + 1].is = "ref",
         NEW q, q = <<Link(w, n + 1)>>
  PROVE  /\ ChainOK(w, n + 1, q) /\ HeadOf(q) = n + 1 /\ Reach(w, q) = Count(w, n + 1)
         /\ q \in Seq(FieldType)
<1>1. /\ n \in Nat /\ n + 1 \in Places(w, n + 1) /\ ~IsOpen(w, n + 1) /\ n # 0 /\ n + 1 \in 0 .. Size(w)
      /\ Stack(w, n) # <<>> /\ n \in 0 .. Size(w)
  BY JNext
<1>2. PICK f, p : f = Link(w, n + 1) /\ p = n + 1
  OBVIOUS
<1>3. f \in FieldType /\ f.v.v = p /\ Parent(w, p) = Inside(w, n)
  BY <1>1, <1>2, JLink
<1>4. q = <<f>> /\ Len(q) = 1 /\ q[1] = f /\ q # <<>> /\ q \in Seq(FieldType)
  BY <1>2, <1>3
<1>5. HeadOf(q) = p
  BY <1>3, <1>4 DEF HeadOf
<1>6. Len(Stack(w, n)) \in 1 .. Len(Stack(w, n)) /\ Inside(w, n) = Stack(w, n)[Len(Stack(w, n))].open /\ Inside(w, n) \in 1 .. n
  BY <1>1, JInside
<1>7. PICK d : d = Len(Stack(w, n))
  OBVIOUS
<1>8. d = Len(Stack(w, n + 1)) /\ d \in 1 .. Len(Stack(w, n + 1)) /\ Stack(w, n + 1)[d].open = Inside(w, n)
  BY <1>6, <1>7, JFramesStep
<1>9. Count(w, p) \in Nat
  BY <1>2, JCountStep
<1>10. Reach(w, q) = Count(w, p)
  BY <1>4, <1>5, <1>9 DEF Reach
<1>11. PICK k : k = n + 1
  OBVIOUS
<1>12. /\ p \in Places(w, k) /\ ~IsOpen(w, p) /\ p > 1 /\ q[1] = Link(w, p)
       /\ d = Len(Stack(w, k)) /\ d \in 1 .. Len(Stack(w, k)) /\ Stack(w, k)[d].open = Inside(w, n) /\ d \in Nat
  BY <1>1, <1>2, <1>4, <1>6, <1>7, <1>8, <1>11
<1>13. p > Inside(w, n)
  BY <1>1, <1>2, <1>6
<1>14. /\ Parent(w, p) = Stack(w, k)[d].open /\ p > Stack(w, k)[d].open
       /\ d < Len(Stack(w, k)) => p < Stack(w, k)[d + 1].open
  BY <1>3, <1>12, <1>13
<1>15. IF IsOpen(w, p) THEN \A x \in 1 .. Len(q) : OpenedAs(w, k, q[x], Count(w, p) + x - 1) ELSE Len(q) = 1
  BY <1>4, <1>12
<1>16. ChainOK(w, k, q)
  BY <1>4, <1>5, <1>12, <1>14, <1>15 DEF ChainOK
<1> QED  BY <1>2, <1>4, <1>5, <1>10, <1>11, <1>16

\* What the next token does to the chains
Chained(w, n, cs, cs2) == cs2 = IF w.text[n + 1].is = "ref" THEN Append(cs, <<Link(w, n + 1)>>) ELSE cs

MoreChains(w, n, cs, cs2) ==
  /\ cs2 \in Seq(Seq(FieldType)) /\ ChainsOK(w, n + 1, <<>>, cs2)
  /\ Len(cs) \in Nat /\ Len(cs2) \in Nat /\ Len(cs) <= Len(cs2)
  /\ \A c \in 1 .. Len(cs) : cs2[c] = cs[c]
  /\ w.text[n + 1].is = "ref" => \E c \in 1 .. Len(cs2) : HeadOf(cs2[c]) = n + 1

\* The references behind the next token.
LEMMA JRefsStep ==
  ASSUME NEW w, Written(w), NEW n \in 0 .. Size(w) - 1,
         NEW cs, NEW cs2, NEW rf, RefsOK(w, n, cs, rf), MoreChains(w, n, cs, cs2)
  PROVE  RefsOK(w, n + 1, cs2, rf)
<1>0. /\ Len(cs) \in Nat /\ Len(cs2) \in Nat /\ Len(cs) <= Len(cs2) /\ \A c \in 1 .. Len(cs) : cs2[c] = cs[c]
      /\ w.text[n + 1].is = "ref" => \E c \in 1 .. Len(cs2) : HeadOf(cs2[c]) = n + 1
  BY DEF MoreChains
<1>1. /\ Places(w, n) \subseteq Places(w, n + 1)
      /\ \A p \in Places(w, n + 1) : p # n + 1 => p \in Places(w, n)
      /\ n + 1 \in Places(w, n + 1) <=> w.text[n + 1].is \in {"open", "ref"}
      /\ IsOpen(w, n + 1) <=> w.text[n + 1].is = "open"
  BY JNext
<1>2. ASSUME NEW p \in Places(w, n + 1), ~IsOpen(w, p)
      PROVE  (\E c \in 1 .. Len(cs2) : HeadOf(cs2[c]) = p) \/ RefOf(w, p) \in rf
  <2>1. CASE p = n + 1
    BY <2>1, <1>0, <1>1, <1>2
  <2>2. CASE p # n + 1
    <3>1. p \in Places(w, n)
      BY <2>2, <1>1
    <3>2. (\E c \in 1 .. Len(cs) : HeadOf(cs[c]) = p) \/ RefOf(w, p) \in rf
      BY <3>1, <1>2 DEF RefsOK
    <3>3. ASSUME NEW c \in 1 .. Len(cs), HeadOf(cs[c]) = p PROVE c \in 1 .. Len(cs2) /\ HeadOf(cs2[c]) = p
      BY <3>3, <1>0
    <3> QED  BY <3>2, <3>3
  <2> QED  BY <2>1, <2>2
<1>3. \A r \in rf : \E p \in Places(w, n + 1) : ~IsOpen(w, p) /\ r = RefOf(w, p)
  BY <1>1 DEF RefsOK
<1> QED  BY <1>2, <1>3 DEF RefsOK

\* The head of a chain, and the last object in it.
LEMMA JChainFacts ==
  ASSUME NEW w, Written(w), NEW n \in 0 .. Size(w), NEW q, ChainOK(w, n, q)
  PROVE  /\ q \in Seq(FieldType) /\ Len(q) \in Nat /\ Len(q) >= 1
         /\ HeadOf(q) \in Places(w, n) /\ HeadOf(q) \in 1 .. n /\ HeadOf(q) \in 2 .. n
         /\ HeadOf(q) - 1 \in 0 .. n
         /\ Count(w, HeadOf(q)) \in Nat /\ Count(w, HeadOf(q) - 1) \in Nat /\ Reach(w, q) \in Nat
         /\ Count(w, HeadOf(q)) <= Reach(w, q) /\ Reach(w, q) = Count(w, HeadOf(q)) + Len(q) - 1
<1>1. PICK h : h = HeadOf(q)
  OBVIOUS
<1>2. q \in Seq(FieldType) /\ q # <<>> /\ h \in Places(w, n) /\ h > 1
  BY <1>1 DEF ChainOK
<1>3. n \in Nat /\ Size(w) \in Nat
  BY JStack
<1>4. h \in 1 .. n /\ h \in 2 .. n /\ h - 1 \in 0 .. n /\ h \in 0 .. Size(w) /\ h - 1 \in 0 .. Size(w)
  BY <1>2, <1>3 DEF Places
<1>5. Len(q) \in Nat /\ Len(q) >= 1
  BY <1>2, JSeq
<1>6. Count(w, h) \in Nat
  BY <1>4, JTypes
<1>7. PICK p : p = h - 1
  OBVIOUS
<1>8. Count(w, p) \in Nat
  BY <1>4, <1>7, JTypes
<1>9. Reach(w, q) = Count(w, h) + Len(q) - 1
  BY <1>1 DEF Reach
<1>10. Reach(w, q) \in Nat /\ Count(w, h) <= Reach(w, q)
  BY <1>5, <1>6, <1>9
<1> QED  BY <1>1, <1>2, <1>4, <1>5, <1>6, <1>7, <1>8, <1>9, <1>10

\* The chains behind the next token.
LEMMA JChainsStep ==
  ASSUME NEW w, Written(w), NEW n \in 0 .. Size(w) - 1, w.text[n + 1].is # "close",
         NEW cs, cs \in Seq(Seq(FieldType)), ChainsOK(w, n, <<>>, cs),
         NEW cs2, Chained(w, n, cs, cs2)
  PROVE  MoreChains(w, n, cs, cs2)
<1> DEFINE S == Stack(w, n)
           T == Stack(w, n + 1)
           is == w.text[n + 1].is
           C == Count(w, n)
           D == Count(w, n + 1)
<1>0. cs2 = IF is = "ref" THEN Append(cs, <<Link(w, n + 1)>>) ELSE cs
  BY DEF Chained
<1>1. PICK q : q = <<Link(w, n + 1)>>
  OBVIOUS
<1>2. is = "ref" => /\ ChainOK(w, n + 1, q) /\ HeadOf(q) = n + 1 /\ Reach(w, q) = D /\ q \in Seq(FieldType)
  BY <1>1, JChainOfRef
<1>3. /\ cs2 \in Seq(Seq(FieldType)) /\ Len(cs) \in Nat /\ Len(cs2) \in Nat
      /\ Len(cs2) = IF is = "ref" THEN Len(cs) + 1 ELSE Len(cs)
      /\ \A c \in 1 .. Len(cs) : cs2[c] = cs[c]
      /\ is = "ref" => cs2[Len(cs) + 1] = q
  <2>1. CASE is = "ref"
    <3>1. cs2 = Append(cs, q) /\ q \in Seq(FieldType)
      BY <2>1, <1>0, <1>1, <1>2
    <3>2. PICK S0 : S0 = Seq(FieldType)
      OBVIOUS
    <3>3. Append(cs, q) \in Seq(S0) /\ Len(Append(cs, q)) = Len(cs) + 1 /\ Len(cs) \in Nat
          /\ (\A c \in 1 .. Len(cs) : Append(cs, q)[c] = cs[c]) /\ Append(cs, q)[Len(cs) + 1] = q
      BY <3>1, <3>2, JSeqAppend, JSeq
    <3>4. Len(cs2) = Len(cs) + 1 /\ Len(cs2) \in Nat
      BY <3>1, <3>3
    <3> QED  BY <3>1, <3>2, <3>3, <3>4, <2>1
  <2>2. CASE is # "ref"
    <3>1. cs2 = cs
      BY <2>2, <1>0
    <3>2. Len(cs) \in Nat
      BY JSeq
    <3> QED  BY <2>2, <3>1, <3>2
  <2> QED  BY <2>1, <2>2
<1>4. \A c \in 1 .. Len(cs2) : c \in 1 .. Len(cs) \/ (is = "ref" /\ c = Len(cs) + 1 /\ cs2[c] = q)
  BY <1>3
<1>5. /\ n \in Nat /\ n \in 0 .. Size(w) /\ n + 1 \in 0 .. Size(w) /\ Size(w) \in Nat
  BY JNext
<1>6. /\ C \in Nat /\ D \in Nat /\ D = IF is = "open" THEN C + 1 ELSE C
      /\ \A p \in 0 .. n : Count(w, p) \in Nat /\ Count(w, p) <= C /\ Count(w, p) <= D
  BY JCountStep
<1>7. /\ \A c \in 1 .. Len(cs) : ChainOK(w, n, cs[c]) /\ Reach(w, cs[c]) <= C
      /\ \A b, c \in 1 .. Len(cs) :
           b < c => HeadOf(cs[b]) < HeadOf(cs[c]) /\ Reach(w, cs[b]) <= Count(w, HeadOf(cs[c]) - 1)
      /\ \A c \in 1 .. Len(cs) : \A d \in 1 .. Len(S) :
           HeadOf(cs[c]) < S[d].open => Reach(w, cs[c]) <= Count(w, S[d].open - 1)
      /\ \A x \in 1 .. C : Covered(w, n, <<>>, cs, x)
  <2>1. Rest(w, n, <<>>) = C
    BY <1>6 DEF Rest
  <2> QED  BY <2>1 DEF ChainsOK
<1>8. \A c \in 1 .. Len(cs) : HeadOf(cs[c]) \in 1 .. n /\ Reach(w, cs[c]) \in Nat
  BY <1>5, <1>7, JChainFacts
<1>9. \A c \in 1 .. Len(cs2) : ChainOK(w, n + 1, cs2[c]) /\ Reach(w, cs2[c]) <= D
  <2> SUFFICES ASSUME NEW c \in 1 .. Len(cs2) PROVE ChainOK(w, n + 1, cs2[c]) /\ Reach(w, cs2[c]) <= D
    OBVIOUS
  <2>1. CASE c \in 1 .. Len(cs)
    <3>1. ChainOK(w, n, cs[c]) /\ Reach(w, cs[c]) <= C /\ cs2[c] = cs[c]
      BY <2>1, <1>3, <1>7
    <3>2. ChainOK(w, n + 1, cs[c])
      BY <3>1, JChainStep
    <3>3. Reach(w, cs[c]) <= D
      BY <2>1, <3>1, <1>6, <1>8
    <3> QED  BY <3>1, <3>2, <3>3
  <2>2. CASE c \notin 1 .. Len(cs)
    <3>1. is = "ref" /\ cs2[c] = q
      BY <2>2, <1>4
    <3>2. ChainOK(w, n + 1, q) /\ Reach(w, q) = D
      BY <3>1, <1>2
    <3>3. PICK x, y : x = Reach(w, q) /\ y = D
      OBVIOUS
    <3>4. x <= y
      BY <3>2, <3>3, <1>6
    <3> QED  BY <3>1, <3>2, <3>3, <3>4
  <2> QED  BY <2>1, <2>2
<1>10. ASSUME NEW b \in 1 .. Len(cs2), NEW c \in 1 .. Len(cs2), b < c
       PROVE  HeadOf(cs2[b]) < HeadOf(cs2[c]) /\ Reach(w, cs2[b]) <= Count(w, HeadOf(cs2[c]) - 1)
  <2>1. b \in 1 .. Len(cs) /\ cs2[b] = cs[b]
    <3>1. b # Len(cs) + 1
      BY <1>3, <1>10
    <3> QED  BY <3>1, <1>3, <1>4
  <2>2. CASE c \in 1 .. Len(cs)
    <3>1. cs2[c] = cs[c]
      BY <2>2, <1>3
    <3> QED  BY <2>1, <2>2, <3>1, <1>7, <1>10
  <2>3. CASE c \notin 1 .. Len(cs)
    <3>1. is = "ref" /\ HeadOf(cs2[c]) = n + 1
      BY <2>3, <1>2, <1>4
    <3>2. HeadOf(cs[b]) < n + 1 /\ Reach(w, cs[b]) <= C
      BY <2>1, <1>5, <1>7, <1>8
    <3>3. HeadOf(cs2[c]) - 1 = n
      <4>1. PICK h : h = HeadOf(cs2[c])
        OBVIOUS
      <4>2. h - 1 = n
        BY <3>1, <4>1, <1>5
      <4> QED  BY <4>1, <4>2
    <3> QED  BY <2>1, <3>1, <3>2, <3>3
  <2> QED  BY <2>2, <2>3
<1>11. ASSUME NEW c \in 1 .. Len(cs2), NEW d \in 1 .. Len(T), HeadOf(cs2[c]) < T[d].open
       PROVE  Reach(w, cs2[c]) <= Count(w, T[d].open - 1)
  <2>1. T[d].open \in 1 .. n + 1 /\ (d \in 1 .. Len(S) \/ T[d].open = n + 1)
    <3>1. PICK m : m = n + 1
      OBVIOUS
    <3>2. T[d].open \in 1 .. m
      <4>1. T = Stack(w, m) /\ m \in 0 .. Size(w)
        BY <3>1, <1>5
      <4>2. \A e \in 1 .. Len(Stack(w, m)) : Stack(w, m)[e].open \in 1 .. m
        BY <4>1, JStack
      <4> QED  BY <4>1, <4>2
    <3>3. d \in 1 .. Len(S) \/ T[d].open = n + 1
      BY JFramesStep
    <3> QED  BY <3>1, <3>2, <3>3
  <2>2. c \in 1 .. Len(cs) /\ cs2[c] = cs[c]
    <3>1. PICK x : x = T[d].open
      OBVIOUS
    <3>2. HeadOf(cs2[c]) # n + 1
      BY <2>1, <3>1, <1>5, <1>11
    <3> QED  BY <3>2, <1>2, <1>3, <1>4
  <2>3. CASE d \in 1 .. Len(S)
    <3>1. T[d].open = S[d].open
      BY <2>3, JFramesStep
    <3> QED  BY <2>2, <2>3, <3>1, <1>7, <1>11
  <2>4. CASE d \notin 1 .. Len(S)
    <3>1. T[d].open - 1 = n
      <4>1. PICK h : h = T[d].open
        OBVIOUS
      <4>2. h - 1 = n
        BY <2>1, <2>4, <4>1, <1>5
      <4> QED  BY <4>1, <4>2
    <3> QED  BY <2>2, <3>1, <1>7
  <2> QED  BY <2>3, <2>4
<1>12. ASSUME NEW x \in 1 .. D PROVE Covered(w, n + 1, <<>>, cs2, x)
  <2>1. CASE x \in 1 .. C
    <3>1. ~(x > Rest(w, n, <<>>))
      BY <2>1, <1>6 DEF Rest
    <3>2. \/ \E d \in 1 .. Len(S) : Count(w, S[d].open) = x
          \/ \E c \in 1 .. Len(cs) : Count(w, HeadOf(cs[c]) - 1) < x /\ x <= Reach(w, cs[c])
      BY <2>1, <3>1, <1>7 DEF Covered
    <3>3. ASSUME NEW d \in 1 .. Len(S), Count(w, S[d].open) = x
          PROVE  d \in 1 .. Len(T) /\ Count(w, T[d].open) = x
      BY <3>3, JFramesStep
    <3>4. ASSUME NEW c \in 1 .. Len(cs), Count(w, HeadOf(cs[c]) - 1) < x /\ x <= Reach(w, cs[c])
          PROVE  c \in 1 .. Len(cs2) /\ Count(w, HeadOf(cs2[c]) - 1) < x /\ x <= Reach(w, cs2[c])
      BY <3>4, <1>3
    <3> QED  BY <3>2, <3>3, <3>4 DEF Covered
  <2>2. CASE x \notin 1 .. C
    <3>1. is = "open" /\ x = D
      BY <2>2, <1>6
    <3>2. Len(T) \in 1 .. Len(T) /\ T[Len(T)].open = n + 1
      <4>1. Len(T) = Len(S) + 1 /\ Len(S) \in Nat
        BY <3>1, JFramesStep
      <4>2. Len(T) \in 1 .. Len(T) /\ Len(T) \notin 1 .. Len(S)
        BY <4>1
      <4> QED  BY <4>2, JFramesStep
    <3> QED  BY <3>1, <3>2 DEF Covered
  <2> QED  BY <2>1, <2>2
<1>13. InHandOK(w, n + 1, <<>>)
  BY DEF InHandOK
<1>14. Rest(w, n + 1, <<>>) = D
  BY <1>6 DEF Rest
<1>15. ChainsOK(w, n + 1, <<>>, cs2)
  BY <1>9, <1>10, <1>11, <1>12, <1>13, <1>14 DEF ChainsOK
<1>16. is = "ref" => \E c \in 1 .. Len(cs2) : HeadOf(cs2[c]) = n + 1
  <2>1. is = "ref" => Len(cs) + 1 \in 1 .. Len(cs2)
    BY <1>3
  <2> QED  BY <2>1, <1>2, <1>3
<1>17. Len(cs) <= Len(cs2)
  BY <1>3
<1> QED  BY <1>3, <1>15, <1>16, <1>17 DEF MoreChains

\* What the next token adds to the innermost object ob1, which becomes ob2
AddsTo(w, n, ob1, ob2) ==
  LET t == w.text[n + 1] IN
  IF t.is = "dates" THEN ob2 = [ob1 EXCEPT !.dates = t.v]
  ELSE ob2 = [ob1 EXCEPT !.own = Append(@, IF t.is = "value" THEN Field(t.k, t.v) ELSE Link(w, n + 1))]

\* The objects behind the next token
Builds(w, n, ob, ob2) ==
  LET t == w.text[n + 1] IN
  /\ DOMAIN ob2 = Places(w, n + 1)
  /\ \A p \in Places(w, n) : p # Inside(w, n) => ob2[p] = ob[p]
  /\ n # 0 => AddsTo(w, n, ob[Inside(w, n)], ob2[Inside(w, n)])
  /\ t.is = "open" => ob2[n + 1] = [array |-> t.array, own |-> <<>>, dates |-> {}]
  /\ t.is = "ref" => ob2[n + 1] = Reference(t.id)

\* The property that the next token adds.
LEMMA JFieldRead ==
  ASSUME NEW w, Written(w), NEW n \in 0 .. Size(w) - 1, n # 0,
         NEW i, i = Last(Stack(w, n)).of, NEW k, k = Last(Stack(w, n)).at,
         w.text[n + 1].is \in {"open", "ref", "value"},
         NEW f, f = IF w.text[n + 1].is = "value" THEN Field(w.text[n + 1].k, w.text[n + 1].v) ELSE Link(w, n + 1)
  PROVE  /\ k \in 1 .. Width(w, i) /\ i \in DOMAIN w.given /\ IsGraph(w.given)
         /\ f \in FieldType /\ FieldOK(w, i, k, f, FALSE)
         /\ w.text[n + 1].is = "value" => f.v.is # "object"
<1>1. /\ n \in 0 .. Size(w) /\ IsGraph(w.given) /\ Stack(w, n) # <<>>
      /\ n + 1 \in Places(w, n + 1) <=> w.text[n + 1].is \in {"open", "ref"}
  BY JNext
<1>2. i \in DOMAIN w.given
  BY <1>1, JInside
<1>3. PICK e : e = Enc(w, i).own[k]
  OBVIOUS
<1>4. k \in 1 .. Width(w, i)
  BY JToken
<1>5. /\ e.k \in Keys
      /\ e.v.is \in {"text", "object", "null"}
      /\ e.v.is = "text" => e.v = Text(e.v.v) /\ e.v.v \in Strings
      /\ e.v.is = "null" => e.v = Null
  <2>1. PICK g : g = w.given[i].own[k]
    OBVIOUS
  <2>2. g.k \in Keys /\ e.k = g.k
    BY <1>1, <1>2, <1>3, <1>4, <2>1, JEncoded
  <2> QED  BY <1>1, <1>2, <1>3, <1>4, <2>2, JEncoded
<1>6. CASE w.text[n + 1].is = "value"
  <2>1. e.v.is # "object" /\ w.text[n + 1].k = e.k /\ w.text[n + 1].v = e.v
    BY <1>3, <1>6, JToken
  <2>2. PICK key, val : key = e.k /\ val = e.v
    OBVIOUS
  <2>3. f = [k |-> key, v |-> val]
    BY <1>6, <2>1, <2>2 DEF Field
  <2>4. f.k = key /\ f.v = val
    BY <2>3
  <2>5. val \in [is : {"text", "date", "object", "id", "null"}, v : Strings \cup Nat]
    BY <1>5, <2>1, <2>2 DEF Text, Null
  <2>6. f \in FieldType
    BY <1>5, <2>2, <2>3, <2>5 DEF FieldType
  <2>7. ValueOf(w, i, k, FALSE) = val
    BY <1>3, <2>2 DEF ValueOf
  <2>8. FieldOK(w, i, k, f, FALSE)
    BY <1>3, <2>1, <2>2, <2>4, <2>7 DEF FieldOK
  <2> QED  BY <1>1, <1>2, <1>4, <2>1, <2>2, <2>4, <2>6, <2>8
<1>7. CASE w.text[n + 1].is # "value"
  <2>1. e.v.is = "object" /\ w.text[n + 1].k = e.k
    BY <1>3, <1>7, JToken
  <2>2. f = Link(w, n + 1)
    BY <1>7
  <2>3. f \in FieldType /\ f.k = e.k /\ f.v.is = "object"
    BY <1>1, <1>7, <2>1, <2>2, JLink
  <2>4. FieldOK(w, i, k, f, FALSE)
    BY <1>3, <2>1, <2>3 DEF FieldOK
  <2> QED  BY <1>1, <1>2, <1>4, <1>7, <2>3, <2>4
<1> QED  BY <1>6, <1>7

\* An object that was begun.
LEMMA JObjectBegun ==
  ASSUME NEW w, Written(w), NEW n \in 0 .. Size(w) - 1, w.text[n + 1].is = "open",
         NEW o, o = [array |-> w.text[n + 1].array, own |-> <<>>, dates |-> {}]
  PROVE  ObjectOK(w, o, n + 1, 1, FALSE, FALSE) /\ o.own = <<>>
<1>1. PICK p, j : p = n + 1 /\ j = Of(w, n + 1)
  OBVIOUS
<1>2. p \in 1 .. Size(w) /\ IsOpen(w, p) /\ IsGraph(w.given)
  BY <1>1, JNext
<1>3. j \in DOMAIN w.given /\ j = Of(w, p)
  BY <1>1, <1>2, JOpened
<1>4. w.text[n + 1].array = w.given[j].array
  BY <1>1, JToken
<1>5. PICK a : a = w.given[j].array
  OBVIOUS
<1>6. a \in BOOLEAN
  BY <1>2, <1>3, <1>5, JEncoded
<1>7. o = [array |-> a, own |-> <<>>, dates |-> {}]
  BY <1>4, <1>5
<1>8. o \in ObjectType /\ o.array = a /\ o.own = <<>> /\ o.dates = {}
  BY <1>6, <1>7 DEF ObjectType
<1>9. Width(w, j) \in Nat
  BY <1>2, <1>3, JEnds
<1>10. ListOf(w, j, 1) = {}
  BY <1>9 DEF ListOf
<1>11. Len(o.own) = 0
  BY <1>8
<1>12. Len(o.own) = IF 1 <= Width(w, j) THEN 1 - 1 ELSE Width(w, j)
  BY <1>9, <1>11
<1>13. \A m \in 1 .. Len(o.own) : FieldOK(w, j, m, o.own[m], FALSE)
  BY <1>11
<1>14. ObjectOK(w, o, p, 1, FALSE, FALSE)
  BY <1>3, <1>5, <1>8, <1>10, <1>12, <1>13 DEF ObjectOK
<1> QED  BY <1>1, <1>8, <1>14

\* What is known of the innermost object o when it becomes r
InsideRead(w, n, o, r) ==
  /\ ObjectOK(w, r, Inside(w, n), Last(Stack(w, n)).at + 1, FALSE, FALSE)
  /\ Len(o.own) \in Nat /\ Len(r.own) \in Nat /\ Len(o.own) <= Len(r.own)
  /\ \A m \in 1 .. Len(o.own) : r.own[m] = o.own[m]
  /\ w.text[n + 1].is \in {"open", "ref"} => \E m \in 1 .. Len(r.own) : r.own[m] = Link(w, n + 1)
  /\ \A m \in 1 .. Len(r.own) :
       \/ m \in 1 .. Len(o.own)
       \/ r.own[m].v.is # "object"
       \/ m = Last(Stack(w, n)).at /\ n + 1 \in Places(w, n + 1) /\ r.own[m] = Link(w, n + 1)

\* The innermost object, with what the next token adds to it.
LEMMA JInsideRead ==
  ASSUME NEW w, Written(w), NEW n \in 0 .. Size(w) - 1, n # 0, w.text[n + 1].is # "close",
         NEW ob, ObjectsOK(w, n, FALSE, ob), NEW o, o = ob[Inside(w, n)], NEW r, AddsTo(w, n, o, r)
  PROVE  InsideRead(w, n, o, r)
<1>1. PICK p, i, k : p = Inside(w, n) /\ i = Last(Stack(w, n)).of /\ k = Last(Stack(w, n)).at
  OBVIOUS
<1>2. /\ n \in 0 .. Size(w) /\ Stack(w, n) # <<>> /\ IsGraph(w.given)
      /\ n + 1 \in Places(w, n + 1) <=> w.text[n + 1].is \in {"open", "ref"}
      /\ w.text[n + 1].is \in {"open", "ref", "value", "dates"}
  BY JNext
<1>3. /\ p \in Places(w, n) /\ IsOpen(w, p) /\ i = Of(w, p) /\ i \in DOMAIN w.given /\ k \in Nat
      /\ OnPath(w, n, p) /\ Upto(w, n, p, k)
  BY <1>1, <1>2, JInside
<1>4. IsRevived(w, n, FALSE, p) = FALSE /\ Gone(w, n, FALSE) = FALSE
  BY <1>3 DEF IsRevived, Gone
<1>5. ObjectOK(w, o, p, k, FALSE, FALSE)
  <2>1. ObjectOK(w, ob[p], p, k, IsRevived(w, n, FALSE, p), Gone(w, n, FALSE))
    BY <1>3 DEF ObjectsOK
  <2> QED  BY <2>1, <1>1, <1>4
<1>6. CASE w.text[n + 1].is = "dates"
  <2>1. k = Width(w, i) + 1 /\ w.text[n + 1].v = Enc(w, i).dates
    BY <1>1, <1>6, JToken
  <2>2. r = [o EXCEPT !.dates = Enc(w, i).dates]
    BY <1>6, <2>1 DEF AddsTo
  <2>3. ObjectOK(w, r, p, Width(w, i) + 2, FALSE, FALSE) /\ r.own = o.own
    <3>1. ObjectOK(w, o, p, Width(w, i) + 1, FALSE, FALSE)
      BY <1>5, <2>1, Zenon
    <3>2. PICK d : d = Enc(w, i).dates
      OBVIOUS
    <3>3. WithList(o, d, r)
      BY <2>2, <3>2 DEF WithList
    <3>4. ListAdded(w, p, i, o, d, r)
      BY <1>2, <1>3, <3>1, <3>2, <3>3, JListAdded
    <3> QED  BY <3>4, Zenon DEF ListAdded
  <2>4. Width(w, i) + 2 = k + 1
    <3>1. Width(w, i) \in Nat
      BY <1>2, <1>3, JEnds
    <3> QED  BY <3>1, <2>1
  <2>5. Len(o.own) \in Nat
    <3>1. o \in ObjectType
      BY <1>5 DEF ObjectOK
    <3> QED  BY <3>1, JObjectType
  <2>6. ObjectOK(w, r, Inside(w, n), Last(Stack(w, n)).at + 1, FALSE, FALSE)
    BY <1>1, <2>3, <2>4, Zenon
  <2>7. PICK q : q = o.own
    OBVIOUS
  <2>8. Len(q) <= Len(q) /\ \A m \in 1 .. Len(q) : q[m] = q[m]
    BY <2>5, <2>7
  <2> QED  BY <1>6, <2>3, <2>5, <2>6, <2>7, <2>8 DEF InsideRead
<1>7. CASE w.text[n + 1].is # "dates"
  <2>1. PICK f : f = IF w.text[n + 1].is = "value" THEN Field(w.text[n + 1].k, w.text[n + 1].v) ELSE Link(w, n + 1)
    OBVIOUS
  <2>2. r = [o EXCEPT !.own = Append(@, f)]
    BY <1>7, <2>1 DEF AddsTo
  <2>3. w.text[n + 1].is \in {"open", "ref", "value"}
    BY <1>2, <1>7
  <2>4. /\ k \in 1 .. Width(w, i)
        /\ f \in FieldType /\ FieldOK(w, i, k, f, FALSE)
        /\ w.text[n + 1].is = "value" => f.v.is # "object"
    BY <1>1, <2>1, <2>3, JFieldRead
  <2>5. /\ ObjectOK(w, r, p, k + 1, FALSE, FALSE)
        /\ Len(o.own) = k - 1 /\ Len(r.own) = k /\ r.own[k] = f
        /\ \A m \in 1 .. Len(o.own) : r.own[m] = o.own[m]
    <3>1. WithField(o, f, r)
      BY <2>2 DEF WithField
    <3>2. FieldAdded(w, p, k, o, f, r)
      BY <1>2, <1>3, <1>5, <3>1, <2>4, JFieldAdded
    <3> QED  BY <3>2, Zenon DEF FieldAdded
  <2>6. k \in Nat /\ k >= 1
    BY <1>3, <2>4
  <2>7. Len(o.own) \in Nat /\ Len(r.own) \in Nat /\ Len(o.own) <= Len(r.own) /\ k \in 1 .. Len(r.own)
        /\ \A m \in 1 .. Len(r.own) : m \in 1 .. Len(o.own) \/ m = k
    BY <2>5, <2>6
  <2>8. CASE w.text[n + 1].is = "value"
    <3>1. r.own[k].v.is # "object"
      BY <2>4, <2>5, <2>8
    <3> QED  BY <1>1, <2>5, <2>7, <2>8, <3>1 DEF InsideRead
  <2>9. CASE w.text[n + 1].is # "value"
    <3>1. r.own[k] = Link(w, n + 1) /\ n + 1 \in Places(w, n + 1)
      BY <1>2, <2>1, <2>3, <2>5, <2>9
    <3> QED  BY <1>1, <2>5, <2>7, <3>1 DEF InsideRead
  <2> QED  BY <2>8, <2>9
<1> QED  BY <1>6, <1>7

\* What is read of the text with the next token, when it does not end an object.
LEMMA JReads ==
  ASSUME NEW w, Written(w), Stack(w, Size(w)) = <<>>, NEW n, w.text[n + 1].is # "close",
         NEW rd, NEW ob, NEW ds, NEW hs, NEW cs, NEW rf,
         ReadingOK(w, n, rd, ob, ds, hs, <<>>, cs, rf),
         NEW rd2, rd2 = IF w.text[n + 1].is = "open" THEN Append(rd, n + 1) ELSE rd,
         NEW ob2, Builds(w, n, ob, ob2),
         NEW ds2, ds2 = IF w.text[n + 1].is = "dates" THEN w.text[n + 1].v ELSE ds,
         NEW cs2, cs2 = IF w.text[n + 1].is = "ref" THEN Append(cs, <<Link(w, n + 1)>>) ELSE cs
  PROVE  ReadingOK(w, n + 1, rd2, ob2, ds2, hs, <<>>, cs2, rf)
<1> DEFINE in == Inside(w, n)
           t == w.text[n + 1]
<1>1. (<<>> # <<>>) = FALSE
  OBVIOUS
<1>2. /\ n \in 0 .. Size(w) - 1 /\ rd = Path(w, n)
      /\ ObjectsOK(w, n, FALSE, ob) /\ ChildrenOK(w, n, ob)
      /\ ListsOK(w, n, FALSE, ob, ds, hs)
      /\ cs \in Seq(Seq(FieldType))
      /\ ChainsOK(w, n, <<>>, cs) /\ RefsOK(w, n, cs, rf)
  BY <1>1 DEF ReadingOK
<1>3. /\ n \in Nat /\ n \in 0 .. Size(w) /\ Places(w, n) \subseteq Places(w, n + 1) /\ n + 1 \notin Places(w, n)
      /\ n + 1 \in Places(w, n + 1) <=> t.is \in {"open", "ref"}
      /\ n = 0 <=> Stack(w, n) = <<>>
      /\ t.is \in {"open", "ref", "value", "dates"}
  BY <1>2, JNext
<1>4. n # 0 => in \in Places(w, n)
  BY <1>3, JInside
<1>5. /\ DOMAIN ob2 = Places(w, n + 1)
      /\ \A p \in Places(w, n) : p # in => ob2[p] = ob[p]
      /\ n # 0 => AddsTo(w, n, ob[in], ob2[in])
      /\ t.is = "open" => ob2[n + 1] = [array |-> t.array, own |-> <<>>, dates |-> {}]
      /\ t.is = "ref" => ob2[n + 1] = Reference(t.id)
  BY DEF Builds
<1>6. n # 0 => InsideRead(w, n, ob[in], ob2[in])
  <2> SUFFICES ASSUME n # 0 PROVE InsideRead(w, n, ob[in], ob2[in])
    OBVIOUS
  <2>1. PICK o, r : o = ob[in] /\ r = ob2[in]
    OBVIOUS
  <2>2. AddsTo(w, n, o, r)
    BY <1>5, <2>1
  <2>3. InsideRead(w, n, o, r)
    BY <1>2, <2>1, <2>2, JInsideRead
  <2> QED  BY <2>1, <2>3
<1>7. t.is = "open" => ObjectOK(w, ob2[n + 1], n + 1, 1, FALSE, FALSE) /\ ob2[n + 1].own = <<>>
  BY <1>2, <1>5, JObjectBegun
<1>8. t.is = "ref" => /\ ob2[n + 1].dates = {} /\ Len(ob2[n + 1].own) = 1
                      /\ ob2[n + 1].own[1].v.is = "id"
  BY <1>5 DEF Reference, Field, Id
<1>60. n # 0 =>
         /\ ObjectOK(w, ob2[in], in, Last(Stack(w, n)).at + 1, FALSE, FALSE)
         /\ Len(ob[in].own) \in Nat /\ Len(ob2[in].own) \in Nat /\ Len(ob[in].own) <= Len(ob2[in].own)
         /\ \A m \in 1 .. Len(ob[in].own) : ob2[in].own[m] = ob[in].own[m]
         /\ t.is \in {"open", "ref"} => \E m \in 1 .. Len(ob2[in].own) : ob2[in].own[m] = Link(w, n + 1)
         /\ \A m \in 1 .. Len(ob2[in].own) :
              \/ m \in 1 .. Len(ob[in].own)
              \/ ob2[in].own[m].v.is # "object"
              \/ m = Last(Stack(w, n)).at /\ n + 1 \in Places(w, n + 1) /\ ob2[in].own[m] = Link(w, n + 1)
  BY <1>6 DEF InsideRead
<1>9. ObjectsOK(w, n + 1, FALSE, ob2)
  BY <1>2, <1>5, <1>60, <1>7, JObjectsStep
<1>10. ChildrenOK(w, n + 1, ob2)
  <2>1. \A p \in Places(w, n) : p # in => ob2[p].own = ob[p].own
    BY <1>5
  <2>2. n + 1 \in Places(w, n + 1) =>
            /\ \A m \in 1 .. Len(ob2[n + 1].own) : ob2[n + 1].own[m].v.is # "object"
            /\ n # 0 => \E m \in 1 .. Len(ob2[in].own) : ob2[in].own[m] = Link(w, n + 1)
    <3> SUFFICES ASSUME n + 1 \in Places(w, n + 1)
                 PROVE  /\ \A m \in 1 .. Len(ob2[n + 1].own) : ob2[n + 1].own[m].v.is # "object"
                        /\ n # 0 => \E m \in 1 .. Len(ob2[in].own) : ob2[in].own[m] = Link(w, n + 1)
      OBVIOUS
    <3>1. t.is \in {"open", "ref"}
      BY <1>3
    <3>2. PICK q : q = ob2[n + 1].own
      OBVIOUS
    <3>3. q = <<>> \/ (Len(q) = 1 /\ q[1].v.is = "id")
      BY <3>1, <3>2, <1>7, <1>8
    <3>4. \A m \in 1 .. Len(q) : q[m].v.is # "object"
      BY <3>3
    <3> QED  BY <3>1, <3>2, <3>4, <1>60
  <2> QED  BY <1>2, <1>60, <2>1, <2>2, JChildrenStep
<1>11. ListsOK(w, n + 1, FALSE, ob2, ds2, hs)
  <2>1. \A p \in Places(w, n) : p # in => ob2[p].dates = ob[p].dates
    BY <1>5
  <2> QED  BY <2>1, <1>2, <1>8, JListsStep
<1>12. MoreChains(w, n, cs, cs2)
  <2>1. Chained(w, n, cs, cs2)
    BY DEF Chained
  <2> QED  BY <1>2, <2>1, JChainsStep
<1>13. /\ cs2 \in Seq(Seq(FieldType)) /\ ChainsOK(w, n + 1, <<>>, cs2)
       /\ Len(cs) \in Nat /\ Len(cs2) \in Nat /\ Len(cs) <= Len(cs2)
       /\ \A d \in 1 .. Len(cs) : cs2[d] = cs[d]
       /\ t.is = "ref" => \E c \in 1 .. Len(cs2) : HeadOf(cs2[c]) = n + 1
  BY <1>12 DEF MoreChains
<1>14. RefsOK(w, n + 1, cs2, rf)
  BY <1>2, <1>12, JRefsStep
<1>15. rd2 = Path(w, n + 1)
  BY <1>2, <1>3, JPath
<1>16. n + 1 \in 0 .. Size(w) - 1
  BY <1>2, JNotEnd
<1> QED  BY <1>1, <1>9, <1>10, <1>11, <1>13, <1>14, <1>15, <1>16 DEF ReadingOK

\* The key of the root tells it from all other objects and references.
LEMMA JKeys ==
  ASSUME NEW w, Written(w), NEW n \in 0 .. Size(w), NEW p \in Places(w, n)
  PROVE  /\ p \in 1 .. n /\ p \in 1 .. Size(w) /\ Link(w, p) \in FieldType
         /\ Link(w, p).k = w.text[p].k /\ Link(w, p).v.is = "object" /\ Link(w, p).v.v = p
         /\ w.text[p].k = NoKey <=> p = 1
         /\ p = 1 => IsOpen(w, p)
<1>1. PICK m : m = p - 1
  OBVIOUS
<1>2. n \in Nat /\ Size(w) \in Nat
  BY JStack
<1>3. p \in 1 .. n /\ m \in 0 .. Size(w) - 1 /\ p = m + 1 /\ m \in Nat
  BY <1>1, <1>2 DEF Places
<1>4. m + 1 \in Places(w, m + 1)
  BY <1>3 DEF Places
<1>5. /\ Link(w, p) \in FieldType
      /\ Link(w, p).k = w.text[p].k /\ Link(w, p).v.is = "object" /\ Link(w, p).v.v = p
      /\ m = 0 => w.text[p].k = NoKey
      /\ m # 0 => w.text[p].k \in Keys
  BY <1>3, <1>4, JLink
<1>6. NoKey \notin Keys
  BY KeyAssumption
<1>7. m = 0 <=> p = 1
  BY <1>3
<1>8. p = 1 => IsOpen(w, p)
  <2>1. m = 0 => w.text[m + 1].is = "open"
    BY <1>3, JNext
  <2> QED  BY <2>1, <1>3, <1>7 DEF IsOpen
<1> QED  BY <1>2, <1>3, <1>5, <1>6, <1>7, <1>8

\* r is o with the dates of the list ds
Dated(o, ds, r) == r = IF o.dates # {} THEN [o EXCEPT !.own = Revived(@, ds)] ELSE o

\* The properties of r that are objects are those of o
SameObjects(o, r) ==
  /\ Len(r.own) = Len(o.own) /\ Len(o.own) \in Nat
  /\ \A m \in 1 .. Len(o.own) : (r.own[m].v.is = "object" \/ o.own[m].v.is = "object") => r.own[m] = o.own[m]

IsDated(w, p, k, o, ds, r) ==
  ObjectOK(w, r, p, k, TRUE, FALSE) /\ SameObjects(o, r) /\ r.dates = o.dates

\* An object whose properties have all been read gets its dates.
LEMMA JDated ==
  ASSUME NEW w, IsGraph(w.given), NEW p, Of(w, p) \in DOMAIN w.given, NEW k, k = End(w, Of(w, p)),
         NEW o, ObjectOK(w, o, p, k, FALSE, FALSE),
         NEW ds, k = Width(w, Of(w, p)) + 2 => ds = Enc(w, Of(w, p)).dates, NEW r, Dated(o, ds, r)
  PROVE  IsDated(w, p, k, o, ds, r)
<1>1. PICK i : i = Of(w, p)
  OBVIOUS
<1>2. i \in DOMAIN w.given /\ Width(w, i) \in Nat /\ k = End(w, i)
  BY <1>1, JEnds
<1>3. /\ o \in ObjectType /\ o.array = w.given[i].array
      /\ o.dates = ListOf(w, i, k)
      /\ Len(o.own) = Width(w, i)
      /\ \A m \in 1 .. Len(o.own) : FieldOK(w, i, m, o.own[m], FALSE)
  <2>1. ~(k <= Width(w, i))
    BY <1>2, JEnds
  <2> QED  BY <1>1, <2>1 DEF ObjectOK
<1>4. /\ o.own \in Seq(FieldType) /\ Len(o.own) \in Nat
      /\ \A m \in 1 .. Len(o.own) : o.own[m] \in FieldType
  BY <1>3, JObjectType
<1>5. CASE ~HasList(w, i)
  <2>1. k = Width(w, i) + 1
    BY <1>2, <1>5, Zenon DEF End
  <2>2. o.dates = {}
    BY <1>2, <1>3, <2>1 DEF ListOf
  <2>3. r = o
    BY <2>2 DEF Dated
  <2>4. \A m \in 1 .. Len(o.own) : FieldOK(w, i, m, o.own[m], TRUE)
    BY <1>3, <1>5 DEF FieldOK, ValueOf
  <2>5. Len(o.own) = IF k <= Width(w, i) THEN k - 1 ELSE Width(w, i)
    BY <1>2, <1>3, <2>1
  <2>6. ObjectOK(w, r, p, k, TRUE, FALSE)
    BY <1>1, <1>3, <2>3, <2>4, <2>5 DEF ObjectOK
  <2> QED  BY <1>4, <2>3, <2>6 DEF SameObjects, IsDated
<1>6. CASE HasList(w, i)
  <2>1. k = Width(w, i) + 2
    BY <1>2, <1>6, Zenon DEF End
  <2>2. PICK d : d = Enc(w, i).dates
    OBVIOUS
  <2>3. o.dates = d /\ d # {} /\ ds = d
    BY <1>1, <1>3, <1>6, <2>1, <2>2 DEF ListOf, HasList
  <2>4. r = [o EXCEPT !.own = Revived(@, d)]
    BY <2>3 DEF Dated
  <2>5. PICK q, l : q = o.own /\ l = Len(o.own)
    OBVIOUS
  <2>6. q \in Seq(FieldType) /\ l \in Nat /\ DOMAIN q = 1 .. l /\ \A m \in 1 .. l : q[m] \in FieldType
    BY <1>4, <2>5, JSeq
  <2>7. PICK s : s = Revived(q, d)
    OBVIOUS
  <2>8. s = [m \in 1 .. l |-> IF q[m].v.is = "text" /\ q[m].v.v \in d THEN Field(q[m].k, Date(q[m].v.v)) ELSE q[m]]
    BY <2>6, <2>7 DEF Revived
  <2>9. \A m \in 1 .. l : s[m] = IF q[m].v.is = "text" /\ q[m].v.v \in d THEN Field(q[m].k, Date(q[m].v.v)) ELSE q[m]
    BY <2>8
  <2>10. \A f \in FieldType : Field(f.k, Date(f.v.v)) \in FieldType
    BY DEF FieldType, Field, Date
  <2>11. \A m \in 1 .. l : s[m] \in FieldType
    BY <2>6, <2>9, <2>10
  <2>12. s \in Seq(FieldType) /\ Len(s) = l
    <3>1. s = [m \in 1 .. l |-> s[m]]
      BY <2>8
    <3> QED  BY <3>1, <2>6, <2>11, JSeqMade
  <2>13. r = [o EXCEPT !.own = s]
    BY <2>4, <2>5, <2>7
  <2>14. r \in ObjectType /\ r.own = s /\ r.array = o.array /\ r.dates = o.dates
    BY <1>3, <2>12, <2>13, JObjectType
  <2>15. \A key, ms : Field(key, Date(ms)).k = key /\ Field(key, Date(ms)).v = Date(ms) /\ Date(ms).is = "date"
    BY DEF Field, Date
  <2>16. ASSUME NEW m \in 1 .. l
         PROVE  /\ FieldOK(w, i, m, s[m], TRUE)
                /\ (s[m].v.is = "object" \/ q[m].v.is = "object") => s[m] = q[m]
    <3>1. PICK e, f, g : e = Enc(w, i).own[m] /\ f = q[m] /\ g = s[m]
      OBVIOUS
    <3>2. f.k = e.k /\ IF e.v.is = "object" THEN f.v.is = "object" ELSE f.v = e.v
      <4>1. FieldOK(w, i, m, f, FALSE)
        BY <1>3, <2>5, <3>1
      <4> QED  BY <4>1, <3>1 DEF FieldOK, ValueOf
    <3>3. g = IF f.v.is = "text" /\ f.v.v \in d THEN Field(f.k, Date(f.v.v)) ELSE f
      BY <2>9, <3>1
    <3>4. ValueOf(w, i, m, TRUE) = IF e.v.is = "text" /\ e.v.v \in d THEN Date(e.v.v) ELSE e.v
      BY <1>6, <2>2, <3>1 DEF ValueOf
    <3>5. CASE f.v.is = "text" /\ f.v.v \in d
      <4>1. e.v.is # "object" /\ f.v = e.v
        BY <3>2, <3>5
      <4>2. g.k = f.k /\ g.v = Date(f.v.v) /\ g.v.is = "date"
        BY <2>15, <3>3, <3>5
      <4>3. FieldOK(w, i, m, g, TRUE)
        BY <3>1, <3>2, <3>4, <3>5, <4>1, <4>2 DEF FieldOK
      <4> QED  BY <3>1, <3>5, <4>2, <4>3
    <3>6. CASE ~(f.v.is = "text" /\ f.v.v \in d)
      <4>1. g = f
        BY <3>3, <3>6
      <4>2. FieldOK(w, i, m, g, TRUE)
        BY <3>1, <3>2, <3>4, <3>6, <4>1 DEF FieldOK
      <4> QED  BY <3>1, <4>1, <4>2
    <3> QED  BY <3>5, <3>6
  <2>17. Len(r.own) = IF k <= Width(w, i) THEN k - 1 ELSE Width(w, i)
    BY <1>2, <1>3, <2>1, <2>5, <2>12, <2>14
  <2>18. \A m \in 1 .. Len(r.own) : FieldOK(w, i, m, r.own[m], TRUE)
    BY <2>12, <2>14, <2>16
  <2>19. ObjectOK(w, r, p, k, TRUE, FALSE)
    BY <1>1, <1>3, <2>14, <2>17, <2>18 DEF ObjectOK
  <2>20. SameObjects(o, r)
    BY <2>5, <2>6, <2>12, <2>14, <2>16 DEF SameObjects
  <2> QED  BY <2>14, <2>19, <2>20 DEF IsDated
<1> QED  BY <1>5, <1>6

\* r is o without its list
Unlisted(o, r) == r = [o EXCEPT !.dates = {}]

Listless(w, p, k, b, o, r) == ObjectOK(w, r, p, k, b, TRUE) /\ r.own = o.own

\* An object whose list is taken away, or was never there.
LEMMA JUnlisted ==
  ASSUME NEW w, NEW p, NEW k, NEW b, NEW o, ObjectOK(w, o, p, k, b, FALSE), NEW r,
         Unlisted(o, r) \/ (r = o /\ o.dates = {})
  PROVE  Listless(w, p, k, b, o, r)
<1>1. PICK i : i = Of(w, p)
  OBVIOUS
<1>2. /\ o \in ObjectType /\ o.array = w.given[i].array
      /\ Len(o.own) = IF k <= Width(w, i) THEN k - 1 ELSE Width(w, i)
      /\ \A m \in 1 .. Len(o.own) : FieldOK(w, i, m, o.own[m], b)
  BY <1>1 DEF ObjectOK
<1>3. r \in ObjectType /\ r.own = o.own /\ r.array = o.array /\ r.dates = {}
  <2>1. CASE Unlisted(o, r)
    <3>1. {} \in SUBSET Strings
      OBVIOUS
    <3> QED  BY <2>1, <3>1, <1>2, JObjectType DEF Unlisted
  <2>2. CASE r = o /\ o.dates = {}
    BY <2>2, <1>2
  <2> QED  BY <2>1, <2>2
<1> QED  BY <1>1, <1>2, <1>3 DEF ObjectOK, Listless

\* What reviving the innermost object does to the objects and their lists
HoldersOf(w, n, ob, hs) == IF ob[Inside(w, n)].dates # {} THEN hs \cup {Inside(w, n)} ELSE hs
IsRootInside(w, n) == w.text[Inside(w, n)].k = NoKey

Revives(w, n, ob, ds, hs, ob2, hs2) ==
  /\ DOMAIN ob2 = DOMAIN ob
  /\ \A p \in DOMAIN ob : \E o :
       /\ IF p = Inside(w, n) THEN Dated(ob[p], ds, o) ELSE o = ob[p]
       /\ IF IsRootInside(w, n) /\ p \in HoldersOf(w, n, ob, hs) THEN Unlisted(o, ob2[p]) ELSE ob2[p] = o
  /\ hs2 = IF IsRootInside(w, n) THEN {} ELSE HoldersOf(w, n, ob, hs)

\* The innermost object is at its end.
LEMMA JAtEnd ==
  ASSUME NEW w, Written(w), NEW n \in 0 .. Size(w) - 1, w.text[n + 1].is = "close"
  PROVE  /\ Stack(w, n) # <<>> /\ n \in 0 .. Size(w) /\ n \in Nat /\ n + 1 \in 0 .. Size(w) /\ IsGraph(w.given)
         /\ Inside(w, n) \in Places(w, n) /\ Inside(w, n) \in 1 .. n /\ IsOpen(w, Inside(w, n))
         /\ Of(w, Inside(w, n)) \in DOMAIN w.given
         /\ Last(Stack(w, n)).of = Of(w, Inside(w, n))
         /\ Last(Stack(w, n)).at = End(w, Of(w, Inside(w, n))) /\ End(w, Of(w, Inside(w, n))) \in Nat
         /\ OnPath(w, n, Inside(w, n)) /\ Upto(w, n, Inside(w, n), End(w, Of(w, Inside(w, n))))
         /\ IsRootInside(w, n) <=> Inside(w, n) = 1
         /\ IsRootInside(w, n) <=> Len(Stack(w, n)) = 1
<1>1. Stack(w, n) # <<>> /\ n \in 0 .. Size(w) /\ n \in Nat /\ n + 1 \in 0 .. Size(w) /\ IsGraph(w.given)
  BY JNext
<1>2. PICK in : in = Inside(w, n)
  OBVIOUS
<1>3. /\ in \in Places(w, n) /\ in \in 1 .. n /\ IsOpen(w, in)
      /\ Of(w, in) \in DOMAIN w.given
      /\ Last(Stack(w, n)).of = Of(w, in)
      /\ OnPath(w, n, in) /\ \A k : Upto(w, n, in, k) <=> k = Last(Stack(w, n)).at
      /\ in = 1 <=> Len(Stack(w, n)) = 1
  BY <1>1, <1>2, JInside
<1>4. Last(Stack(w, n)).at = End(w, Last(Stack(w, n)).of)
  BY JToken
<1>5. End(w, Of(w, in)) \in Nat
  BY <1>1, <1>3, JEnds
<1>6. IsRootInside(w, n) <=> in = 1
  BY <1>1, <1>2, <1>3, JKeys DEF IsRootInside
<1> QED  BY <1>1, <1>2, <1>3, <1>4, <1>5, <1>6

\* The objects when the innermost one is in hand.
LEMMA JRevivedObjects ==
  ASSUME NEW w, Written(w), NEW n \in 0 .. Size(w) - 1, w.text[n + 1].is = "close",
         NEW ob, ObjectsOK(w, n, FALSE, ob), NEW ds, NEW hs, ListsOK(w, n, FALSE, ob, ds, hs),
         NEW ob2, NEW hs2, Revives(w, n, ob, ds, hs, ob2, hs2)
  PROVE  /\ ObjectsOK(w, n, TRUE, ob2)
         /\ \A p \in Places(w, n) : SameObjects(ob[p], ob2[p])
         /\ \A ds2 : ListsOK(w, n, TRUE, ob2, ds2, hs2)
<1> DEFINE in == Inside(w, n)
           R == IsRootInside(w, n)
           H == HoldersOf(w, n, ob, hs)
<1>1. /\ Stack(w, n) # <<>> /\ n \in 0 .. Size(w) /\ n \in Nat /\ n + 1 \in 0 .. Size(w) /\ IsGraph(w.given)
      /\ in \in Places(w, n) /\ in \in 1 .. n /\ IsOpen(w, in)
      /\ Of(w, in) \in DOMAIN w.given
      /\ Last(Stack(w, n)).of = Of(w, in)
      /\ Last(Stack(w, n)).at = End(w, Of(w, in)) /\ End(w, Of(w, in)) \in Nat
      /\ OnPath(w, n, in) /\ Upto(w, n, in, End(w, Of(w, in)))
      /\ R <=> in = 1
      /\ R <=> Len(Stack(w, n)) = 1
  BY JAtEnd
<1>2. /\ DOMAIN ob = Places(w, n) /\ DOMAIN ob2 = Places(w, n)
      /\ \A p \in Places(w, n) : ~IsOpen(w, p) => ob[p] = Reference(w.text[p].id)
      /\ hs2 = IF R THEN {} ELSE H
      /\ H = IF ob[in].dates # {} THEN hs \cup {in} ELSE hs
  BY DEF ObjectsOK, Revives, HoldersOf
<1>3. Gone(w, n, FALSE) = FALSE /\ Gone(w, n, TRUE) = R
  <2>1. Gone(w, n, FALSE) = FALSE
    BY DEF Gone
  <2>2. CASE R
    BY <1>1, <2>1, <2>2 DEF Gone, IsRootInside
  <2>3. CASE ~R
    BY <1>1, <2>1, <2>3 DEF Gone, IsRootInside
  <2> QED  BY <2>2, <2>3
<1>4. /\ \A p \in Places(w, n) : ~OnPath(w, n, p) /\ ob[p].dates # {} => p \in hs
      /\ Last(Stack(w, n)).at = Width(w, Of(w, in)) + 2 => ds = Enc(w, Of(w, in)).dates
      /\ \A d \in 1 .. Len(Stack(w, n)) - 1 : Stack(w, n)[d].at <= Width(w, Stack(w, n)[d].of) + 1
  <2>1. \A p : IsRevived(w, n, FALSE, p) <=> ~OnPath(w, n, p)
    BY DEF IsRevived
  <2> QED  BY <1>1, <1>3, <2>1 DEF ListsOK
<1>5. R => \A p : OnPath(w, n, p) => p = in
  <2>1. ASSUME R, NEW p, OnPath(w, n, p) PROVE p = in
    <3>1. Len(Stack(w, n)) = 1
      BY <1>1, <2>1
    <3>2. PICK d \in 1 .. Len(Stack(w, n)) : Stack(w, n)[d].open = p
      BY <2>1 DEF OnPath
    <3>3. d = 1
      BY <3>1, <3>2
    <3> QED  BY <3>1, <3>2, <3>3 DEF Inside, Last
  <2> QED  BY <2>1
<1>6. R => \A p \in Places(w, n) : ob[p].dates # {} => p \in H
  BY <1>2, <1>4, <1>5
<1> HIDE DEF H, R, in
<1>7. ASSUME NEW p \in Places(w, n)
      PROVE  /\ SameObjects(ob[p], ob2[p])
             /\ ~R => ob2[p].dates = ob[p].dates
             /\ IF IsOpen(w, p)
                THEN \A k \in Nat : Upto(w, n, p, k) => ObjectOK(w, ob2[p], p, k, IsRevived(w, n, TRUE, p), R)
                ELSE ob2[p] = Reference(w.text[p].id)
  <2>1. PICK o : /\ IF p = in THEN Dated(ob[p], ds, o) ELSE o = ob[p]
                 /\ IF R /\ p \in H THEN Unlisted(o, ob2[p]) ELSE ob2[p] = o
    BY <1>2 DEF Revives, in, R, H
  <2>2. PICK a, b : a = ob[p] /\ b = ob2[p]
    OBVIOUS
  <2>3. CASE IsOpen(w, p)
    <3>1. PICK k : k \in Nat /\ Upto(w, n, p, k)
      <4>1. CASE OnPath(w, n, p)
        <5>1. PICK d \in 1 .. Len(Stack(w, n)) : Stack(w, n)[d].open = p
          BY <4>1 DEF OnPath
        <5>2. Stack(w, n)[d].at \in Nat
          BY <1>1, JStack
        <5> QED  BY <5>1, <5>2 DEF Upto
      <4>2. CASE ~OnPath(w, n, p)
        <5>1. Of(w, p) \in DOMAIN w.given
          <6>1. p \in 1 .. Size(w)
            BY <1>1, JKeys
          <6> QED  BY <6>1, <2>3, JOpened
        <5>2. End(w, Of(w, p)) \in Nat
          BY <1>1, <5>1, JEnds
        <5> QED  BY <4>2, <5>2 DEF Upto
      <4> QED  BY <4>1, <4>2
    <3>2. ASSUME NEW x \in Nat, Upto(w, n, p, x)
          PROVE  /\ ObjectOK(w, o, p, x, IsRevived(w, n, TRUE, p), FALSE) /\ SameObjects(a, o) /\ o.dates = a.dates
      <4>1. ObjectOK(w, a, p, x, IsRevived(w, n, FALSE, p), FALSE)
        <5>1. ObjectOK(w, ob[p], p, x, IsRevived(w, n, FALSE, p), Gone(w, n, FALSE))
          BY <2>3, <3>2 DEF ObjectsOK
        <5> QED  BY <5>1, <1>3, <2>2
      <4>2. CASE p = in
        <5>1. x = End(w, Of(w, p)) /\ Of(w, p) \in DOMAIN w.given
          <6>1. x = Last(Stack(w, n)).at
            BY <1>1, <3>2, <4>2, JInside DEF in
          <6> QED  BY <6>1, <1>1, <4>2
        <5>2. IsRevived(w, n, FALSE, p) = FALSE /\ IsRevived(w, n, TRUE, p) = TRUE
          BY <1>1, <4>2 DEF IsRevived, in
        <5>3. Dated(a, ds, o)
          BY <2>1, <2>2, <4>2
        <5>4. x = Width(w, Of(w, p)) + 2 => ds = Enc(w, Of(w, p)).dates
          BY <5>1, <1>1, <1>4, <4>2
        <5>5. ObjectOK(w, a, p, x, FALSE, FALSE)
          BY <4>1, <5>2
        <5>6. ObjectOK(w, o, p, x, TRUE, FALSE) /\ SameObjects(a, o) /\ o.dates = a.dates
          <6>1. IsDated(w, p, x, a, ds, o)
            BY <1>1, <5>1, <5>3, <5>4, <5>5, JDated
          <6> QED  BY <6>1 DEF IsDated
        <5> QED  BY <5>2, <5>6
      <4>3. CASE p # in
        <5>1. o = a
          BY <2>1, <2>2, <4>3
        <5>2. IsRevived(w, n, TRUE, p) = IsRevived(w, n, FALSE, p)
          BY <4>3 DEF IsRevived, in
        <5>3. SameObjects(a, a)
          <6>1. a \in ObjectType
            BY <4>1 DEF ObjectOK
          <6> QED  BY <6>1, JObjectType DEF SameObjects
        <5> QED  BY <4>1, <5>1, <5>2, <5>3
      <4> QED  BY <4>2, <4>3
    <3>3. SameObjects(a, o) /\ o.dates = a.dates
      BY <3>1, <3>2
    <3>4. CASE R
      <4>1. Unlisted(o, b) \/ (b = o /\ o.dates = {})
        <5>1. CASE p \in H
          BY <2>1, <2>2, <3>4, <5>1
        <5>2. CASE p \notin H
          <6>1. a.dates = {}
            BY <1>6, <2>2, <3>4, <5>2
          <6> QED  BY <2>1, <2>2, <3>3, <5>2, <6>1
        <5> QED  BY <5>1, <5>2
      <4>2. \A x \in Nat : Upto(w, n, p, x) => ObjectOK(w, b, p, x, IsRevived(w, n, TRUE, p), TRUE) /\ b.own = o.own
        <5>1. ASSUME NEW x \in Nat, Upto(w, n, p, x)
              PROVE  Listless(w, p, x, IsRevived(w, n, TRUE, p), o, b)
          BY <3>2, <4>1, <5>1, JUnlisted
        <5> QED  BY <5>1 DEF Listless
      <4>3. b.own = o.own
        BY <3>1, <4>2
      <4>4. SameObjects(a, b)
        BY <3>3, <4>3 DEF SameObjects
      <4>5. R = TRUE
        BY <3>4, <1>1 DEF R, IsRootInside
      <4> QED  BY <2>2, <2>3, <3>4, <4>2, <4>4, <4>5
    <3>5. CASE ~R
      <4>1. b = o
        BY <2>1, <2>2, <3>5
      <4>2. R = FALSE
        BY <3>5 DEF R, IsRootInside
      <4> QED  BY <2>2, <2>3, <3>2, <3>3, <4>1, <4>2
    <3> QED  BY <3>4, <3>5
  <2>4. CASE ~IsOpen(w, p)
    <3>1. PICK x : x = w.text[p].id
      OBVIOUS
    <3>2. a = [array |-> FALSE, own |-> <<[k |-> OBJECTREF_FIELD, v |-> [is |-> "id", v |-> x]]>>, dates |-> {}]
      BY <1>2, <2>2, <2>4, <3>1 DEF Reference, Field, Id
    <3>3. o = a
      <4>1. p # in
        BY <1>1, <2>4
      <4> QED  BY <2>1, <2>2, <4>1
    <3>4. b = a
      <4>1. CASE R /\ p \in H
        <5>1. b = [a EXCEPT !.dates = {}]
          BY <2>1, <2>2, <3>3, <4>1 DEF Unlisted
        <5>2. PICK q : q = <<[k |-> OBJECTREF_FIELD, v |-> [is |-> "id", v |-> x]]>>
          OBVIOUS
        <5>3. a = [array |-> FALSE, own |-> q, dates |-> {}]
          BY <3>2, <5>2
        <5>4. a \in [array : BOOLEAN, own : {q}, dates : {{}}] /\ a.dates = {}
          BY <5>3
        <5>5. [a EXCEPT !.dates = {}] = a
          BY <5>4
        <5> QED  BY <5>1, <5>5
      <4>2. CASE ~(R /\ p \in H)
        BY <2>1, <2>2, <3>3, <4>2
      <4> QED  BY <4>1, <4>2
    <3>5. SameObjects(a, a)
      BY <3>2 DEF SameObjects
    <3> QED  BY <1>2, <2>2, <2>4, <3>4, <3>5
  <2> QED  BY <2>3, <2>4
<1>8. ObjectsOK(w, n, TRUE, ob2)
  BY <1>2, <1>3, <1>7 DEF ObjectsOK, R
<1>9. ASSUME NEW ds2 PROVE ListsOK(w, n, TRUE, ob2, ds2, hs2)
  <2>1. ASSUME ~R, NEW p \in Places(w, n), IsRevived(w, n, TRUE, p), ob2[p].dates # {} PROVE p \in hs2
    <3>1. ob[p].dates # {} /\ hs2 = H
      BY <1>2, <1>7, <2>1
    <3>2. CASE p = in
      BY <1>2, <3>1, <3>2
    <3>3. CASE p # in
      <4>1. ~OnPath(w, n, p)
        BY <2>1, <3>3 DEF IsRevived, in
      <4> QED  BY <1>2, <1>4, <3>1, <4>1
    <3> QED  BY <3>2, <3>3
  <2> QED  BY <1>3, <1>4, <2>1 DEF ListsOK
<1> QED  BY <1>7, <1>8, <1>9

\* Objects whose properties are the same objects.
LEMMA JSameChildren ==
  ASSUME NEW w, NEW n, NEW ob, ChildrenOK(w, n, ob), NEW ob2, \A p \in Places(w, n) : SameObjects(ob[p], ob2[p]),
         Written(w), n \in 0 .. Size(w)
  PROVE  ChildrenOK(w, n, ob2)
<1>1. ASSUME NEW p \in Places(w, n), NEW m \in 1 .. Len(ob2[p].own), ob2[p].own[m].v.is = "object"
      PROVE  ChildOK(w, n, p, m, ob2[p].own[m])
  <2>1. m \in 1 .. Len(ob[p].own) /\ ob2[p].own[m] = ob[p].own[m]
    BY <1>1 DEF SameObjects
  <2>2. ChildOK(w, n, p, m, ob[p].own[m])
    BY <1>1, <2>1 DEF ChildrenOK
  <2> QED  BY <2>1, <2>2
<1>2. ASSUME NEW c \in Places(w, n), c > 1
      PROVE  /\ Parent(w, c) \in Places(w, n) /\ IsOpen(w, Parent(w, c))
             /\ \E m \in 1 .. Len(ob2[Parent(w, c)].own) : ob2[Parent(w, c)].own[m] = Link(w, c)
  <2>1. PICK p : p = Parent(w, c)
    OBVIOUS
  <2>2. p \in Places(w, n) /\ IsOpen(w, p) /\ \E m \in 1 .. Len(ob[p].own) : ob[p].own[m] = Link(w, c)
    BY <1>2, <2>1 DEF ChildrenOK
  <2>3. PICK m \in 1 .. Len(ob[p].own) : ob[p].own[m] = Link(w, c)
    BY <2>2
  <2>4. Link(w, c).v.is = "object"
    BY JKeys
  <2>5. m \in 1 .. Len(ob2[p].own) /\ ob2[p].own[m] = Link(w, c)
    BY <2>2, <2>3, <2>4 DEF SameObjects
  <2> QED  BY <2>1, <2>2, <2>5
<1> QED  BY <1>1, <1>2 DEF ChildrenOK

\* The chain of the object in hand begins with its own property.
LEMMA JChainBegun ==
  ASSUME NEW w, Written(w), NEW n \in 0 .. Size(w) - 1, w.text[n + 1].is = "close",
         NEW cs, ChainsOK(w, n, <<>>, cs), NEW ch, ch = <<Link(w, Inside(w, n))>>
  PROVE  ChainsOK(w, n, ch, cs) /\ ch # <<>>
<1>1. /\ Stack(w, n) # <<>> /\ n \in 0 .. Size(w) /\ n \in Nat
      /\ Inside(w, n) \in Places(w, n) /\ Inside(w, n) \in 1 .. n
  BY JAtEnd
<1>2. PICK f : f = Link(w, Inside(w, n))
  OBVIOUS
<1>3. f \in FieldType
  BY <1>1, <1>2, JKeys
<1>4. ch = <<f>> /\ ch \in Seq(FieldType) /\ Len(ch) = 1 /\ ch[1] = f /\ ch # <<>>
  BY <1>2, <1>3
<1>5. Count(w, n) \in Nat
  BY <1>1, JTypes
<1>6. Rest(w, n, ch) = Count(w, n) /\ Rest(w, n, <<>>) = Count(w, n)
  BY <1>4, <1>5 DEF Rest
<1>7. Count(w, n) >= Count(w, Inside(w, n))
  <2>1. PICK q : q = Inside(w, n)
    OBVIOUS
  <2>2. q \in 0 .. n
    BY <1>1, <2>1
  <2>3. Count(w, q) \in Nat /\ Count(w, q) <= Count(w, n)
    BY <1>1, <2>2, JCounts
  <2> QED  BY <1>5, <2>1, <2>3
<1>8. InHandOK(w, n, ch)
  <2>1. \A x \in 2 .. Len(ch) : OpenedAs(w, n, ch[x], Rest(w, n, ch) + x - 1)
    BY <1>4
  <2>2. Rest(w, n, ch) >= Count(w, Inside(w, n))
    BY <1>6, <1>7
  <2> QED  BY <1>1, <1>2, <1>4, <2>1, <2>2 DEF InHandOK
<1>9. \A x : Covered(w, n, <<>>, cs, x) => Covered(w, n, ch, cs, x)
  BY <1>6 DEF Covered
<1>10. ChainsOK(w, n, ch, cs)
  BY <1>6, <1>8, <1>9 DEF ChainsOK
<1> QED  BY <1>4, <1>10

\* Reviving an object.
LEMMA JRevive ==
  ASSUME NEW w, Written(w), NEW n, w.text[n + 1].is = "close",
         NEW rd, NEW ob, NEW ds, NEW hs, NEW cs, NEW rf,
         ReadingOK(w, n, rd, ob, ds, hs, <<>>, cs, rf),
         NEW ob2, NEW hs2, Revives(w, n, ob, ds, hs, ob2, hs2), NEW ds2,
         NEW ch, ch = <<Link(w, Inside(w, n))>>
  PROVE  ReadingOK(w, n, rd, ob2, ds2, hs2, ch, cs, rf)
<1>1. (<<>> # <<>>) = FALSE
  OBVIOUS
<1>2. /\ n \in 0 .. Size(w) - 1 /\ rd = Path(w, n)
      /\ ObjectsOK(w, n, FALSE, ob) /\ ChildrenOK(w, n, ob)
      /\ ListsOK(w, n, FALSE, ob, ds, hs)
      /\ cs \in Seq(Seq(FieldType))
      /\ ChainsOK(w, n, <<>>, cs) /\ RefsOK(w, n, cs, rf)
  BY <1>1 DEF ReadingOK
<1>3. /\ ObjectsOK(w, n, TRUE, ob2)
      /\ \A p \in Places(w, n) : SameObjects(ob[p], ob2[p])
      /\ \A d : ListsOK(w, n, TRUE, ob2, d, hs2)
  BY <1>2, JRevivedObjects
<1>4. n \in 0 .. Size(w)
  BY <1>2, JNext
<1>5. ChildrenOK(w, n, ob2)
  BY <1>2, <1>3, <1>4, JSameChildren
<1>6. ChainsOK(w, n, ch, cs) /\ ch # <<>>
  BY <1>2, JChainBegun
<1>7. (ch # <<>>) = TRUE
  BY <1>6
<1> QED  BY <1>2, <1>3, <1>5, <1>6, <1>7 DEF ReadingOK

\* The head of the last chain is a property of the object in hand
Begets(w, n, ob, q) == \E m \in 1 .. Len(ob[Inside(w, n)].own) : ob[Inside(w, n)].own[m] = q[1]

\* Whether it is, is seen from its place in the text.
LEMMA JParent ==
  ASSUME NEW w, Written(w), NEW n \in 0 .. Size(w) - 1, w.text[n + 1].is = "close",
         NEW ob, ChildrenOK(w, n, ob), NEW q, ChainOK(w, n, q)
  PROVE  /\ Begets(w, n, ob, q) => HeadOf(q) > Inside(w, n) /\ Parent(w, HeadOf(q)) = Inside(w, n)
         /\ ~Begets(w, n, ob, q) => HeadOf(q) < Inside(w, n)
<1> DEFINE S == Stack(w, n)
<1>1. PICK in, h, l : in = Inside(w, n) /\ h = HeadOf(q) /\ l = Len(S)
  OBVIOUS
<1>2. /\ S # <<>> /\ n \in 0 .. Size(w) /\ n \in Nat /\ in \in Places(w, n) /\ in \in 1 .. n
  BY <1>1, JAtEnd
<1>3. l \in 1 .. l /\ S[l].open = in /\ l \in Nat
  BY <1>1, <1>2, JInside
<1>4. /\ h \in Places(w, n) /\ q[1] = Link(w, h) /\ h > 1
      /\ \E d \in 1 .. l : /\ Parent(w, h) = S[d].open /\ h > S[d].open
                           /\ d < l => h < S[d + 1].open
  BY <1>1 DEF ChainOK
<1>5. PICK d \in 1 .. l : /\ Parent(w, h) = S[d].open /\ h > S[d].open
                          /\ d < l => h < S[d + 1].open
  BY <1>4
<1>6. h \in Nat /\ in \in Nat /\ Link(w, h).v.is = "object" /\ Link(w, h).v.v = h
  BY <1>2, <1>4, JKeys
<1>7. ASSUME Begets(w, n, ob, q) PROVE h > in /\ Parent(w, h) = in
  <2>1. PICK m \in 1 .. Len(ob[in].own) : ob[in].own[m] = Link(w, h)
    BY <1>1, <1>4, <1>7 DEF Begets
  <2>2. PICK f : f = Link(w, h)
    OBVIOUS
  <2>3. ChildOK(w, n, in, m, f)
    BY <1>2, <1>6, <2>1, <2>2 DEF ChildrenOK
  <2> QED  BY <1>6, <2>2, <2>3 DEF ChildOK
<1>8. ASSUME ~Begets(w, n, ob, q) PROVE h < in
  <2>1. Parent(w, h) # in
    <3>1. \E m \in 1 .. Len(ob[Parent(w, h)].own) : ob[Parent(w, h)].own[m] = Link(w, h)
      BY <1>4 DEF ChildrenOK
    <3> QED  BY <3>1, <1>1, <1>4, <1>8 DEF Begets
  <2>2. d # l
    BY <2>1, <1>3, <1>5
  <2>3. PICK e : e = d + 1
    OBVIOUS
  <2>4. e \in 1 .. l /\ h < S[e].open
    BY <1>3, <1>5, <2>2, <2>3
  <2>5. S[e].open <= in /\ S[e].open \in Nat
    <3>1. S[e].open \in 1 .. n
      BY <1>1, <1>2, <2>4, JStack
    <3>2. S[e].open <= in
      BY <1>1, <1>2, <2>4, JInside
    <3> QED  BY <3>1, <3>2
  <2>6. PICK x : x = S[e].open
    OBVIOUS
  <2> QED  BY <1>6, <2>4, <2>5, <2>6
<1> QED  BY <1>1, <1>7, <1>8

RefIn(o) == \E m \in DOMAIN o.own : o.own[m].k = OBJECTREF_FIELD
RefersIn(o) == o.own[CHOOSE m \in DOMAIN o.own : o.own[m].k = OBJECTREF_FIELD].v.v

\* References can be told from objects.
LEMMA JRefIn ==
  ASSUME NEW w, Written(w), NEW n \in 0 .. Size(w), NEW b, NEW ob, ObjectsOK(w, n, b, ob), NEW p \in Places(w, n)
  PROVE  /\ RefIn(ob[p]) <=> ~IsOpen(w, p)
         /\ ~IsOpen(w, p) => RefersIn(ob[p]) = w.text[p].id
         /\ IsOpen(w, p) => Of(w, p) \in DOMAIN w.given /\ \E k \in Nat : Upto(w, n, p, k)
<1>1. PICK o : o = ob[p]
  OBVIOUS
<1>2. n \in Nat /\ Size(w) \in Nat /\ IsGraph(w.given) /\ p \in 1 .. Size(w)
  <2>1. p \in 1 .. Size(w)
    BY JKeys
  <2> QED  BY <2>1, JStack DEF Written
<1>3. CASE ~IsOpen(w, p)
  <2>1. PICK x : x = w.text[p].id
    OBVIOUS
  <2>2. o = [array |-> FALSE, own |-> <<[k |-> OBJECTREF_FIELD, v |-> [is |-> "id", v |-> x]]>>, dates |-> {}]
    BY <1>1, <1>3, <2>1 DEF ObjectsOK, Reference, Field, Id
  <2>3. PICK q : q = o.own
    OBVIOUS
  <2>4. q = <<[k |-> OBJECTREF_FIELD, v |-> [is |-> "id", v |-> x]]>>
    BY <2>2, <2>3
  <2>5. DOMAIN q = {1} /\ q[1].k = OBJECTREF_FIELD /\ q[1].v.v = x
    BY <2>4
  <2>6. RefIn(o)
    BY <2>3, <2>5 DEF RefIn
  <2>7. (CHOOSE m \in DOMAIN q : q[m].k = OBJECTREF_FIELD) = 1
    BY <2>5
  <2>8. RefersIn(o) = x
    BY <2>3, <2>5, <2>7 DEF RefersIn
  <2> QED  BY <1>1, <1>3, <2>1, <2>6, <2>8
<1>4. CASE IsOpen(w, p)
  <2>1. Of(w, p) \in DOMAIN w.given
    BY <1>2, <1>4, JOpened
  <2>2. PICK i : i = Of(w, p)
    OBVIOUS
  <2>3. PICK k : k \in Nat /\ Upto(w, n, p, k)
    <3>1. CASE OnPath(w, n, p)
      <4>1. PICK d \in 1 .. Len(Stack(w, n)) : Stack(w, n)[d].open = p
        BY <3>1 DEF OnPath
      <4>2. Stack(w, n)[d].at \in Nat
        BY JStack
      <4> QED  BY <4>1, <4>2 DEF Upto
    <3>2. CASE ~OnPath(w, n, p)
      <4>1. End(w, Of(w, p)) \in Nat
        BY <1>2, <2>1, JEnds
      <4> QED  BY <3>2, <4>1 DEF Upto
    <3> QED  BY <3>1, <3>2
  <2>4. PICK r, g : ObjectOK(w, o, p, k, r, g)
    BY <1>1, <1>4, <2>3 DEF ObjectsOK
  <2>5. /\ o \in ObjectType /\ Width(w, i) \in Nat
        /\ Len(o.own) = IF k <= Width(w, i) THEN k - 1 ELSE Width(w, i)
        /\ \A m \in 1 .. Len(o.own) : o.own[m].k = Enc(w, i).own[m].k
    <3>1. Width(w, i) \in Nat
      BY <1>2, <2>1, <2>2, JEnds
    <3> QED  BY <2>2, <2>4, <3>1 DEF ObjectOK, FieldOK
  <2>6. DOMAIN o.own = 1 .. Len(o.own)
    <3>1. o.own \in Seq(FieldType)
      BY <2>5, JObjectType
    <3> QED  BY <3>1, JSeq
  <2>7. ASSUME NEW m \in DOMAIN o.own PROVE o.own[m].k \in Keys
    <3>1. m \in 1 .. Len(o.own) /\ m \in 1 .. Width(w, i)
      BY <2>3, <2>5, <2>6
    <3>2. PICK f : f = w.given[i].own[m]
      OBVIOUS
    <3>3. f.k \in Keys /\ Enc(w, i).own[m].k = f.k
      BY <1>2, <2>1, <2>2, <3>1, <3>2, JEncoded
    <3> QED  BY <2>5, <3>1, <3>3
  <2>8. ~RefIn(o)
    BY <2>7, KeyAssumption DEF RefIn
  <2> QED  BY <1>1, <1>4, <2>1, <2>3, <2>8
<1> QED  BY <1>3, <1>4

\* The chain of the last child of the object in hand reaches what is not in the
\* object's own chain yet.
LEMMA JLastChain ==
  ASSUME NEW w, Written(w), NEW n \in 0 .. Size(w) - 1, w.text[n + 1].is = "close",
         NEW cs, cs \in Seq(Seq(FieldType)), cs # <<>>, NEW ch, ch # <<>>, ChainsOK(w, n, ch, cs),
         NEW q, q = Last(cs), HeadOf(q) > Inside(w, n), IsOpen(w, HeadOf(q))
  PROVE  Reach(w, q) = Rest(w, n, ch)
<1> DEFINE S == Stack(w, n)
           R == Rest(w, n, ch)
<1>1. PICK in, h, l : in = Inside(w, n) /\ h = HeadOf(q) /\ l = Len(cs)
  OBVIOUS
<1>2. /\ S # <<>> /\ n \in 0 .. Size(w) /\ n \in Nat /\ in \in Places(w, n) /\ in \in 1 .. n /\ Size(w) \in Nat
  BY <1>1, JAtEnd, JNext
<1>3. l \in Nat /\ l >= 1 /\ q = cs[l] /\ l \in 1 .. l
  BY <1>1, JSeq
<1>4. /\ InHandOK(w, n, ch)
      /\ \A c \in 1 .. l : ChainOK(w, n, cs[c]) /\ Reach(w, cs[c]) <= R
      /\ \A b, c \in 1 .. l :
           b < c => HeadOf(cs[b]) < HeadOf(cs[c]) /\ Reach(w, cs[b]) <= Count(w, HeadOf(cs[c]) - 1)
      /\ \A x \in 1 .. Count(w, n) : Covered(w, n, ch, cs, x)
  BY <1>1 DEF ChainsOK
<1>5. R >= Count(w, in) /\ R \in Int /\ R <= Count(w, n) /\ Count(w, n) \in Nat /\ Len(ch) \in Nat
  <2>1. R >= Count(w, in)
    BY <1>1, <1>4 DEF InHandOK
  <2>2. Len(ch) \in Nat /\ Len(ch) >= 1
    BY <1>4, JSeq DEF InHandOK
  <2>3. Count(w, n) \in Nat
    BY <1>2, JTypes
  <2> QED  BY <2>1, <2>2, <2>3 DEF Rest
<1>6. /\ h \in 1 .. n /\ Count(w, h) \in Nat /\ Count(w, h - 1) \in Nat /\ Reach(w, q) \in Nat
      /\ Count(w, h) <= Reach(w, q)
  BY <1>1, <1>2, <1>3, <1>4, JChainFacts
<1>7. Count(w, in) < Count(w, h) /\ Count(w, in) \in Nat /\ Count(w, h - 1) < Count(w, h)
  <2>1. h \in 1 .. Size(w) /\ in \in 0 .. Size(w) /\ in < h /\ IsOpen(w, h)
    BY <1>1, <1>2, <1>6
  <2>2. Count(w, in) < Count(w, h)
    BY <2>1, JRank
  <2>3. Count(w, in) \in Nat
    BY <2>1, JTypes
  <2>4. Count(w, h) = Count(w, h - 1) + 1
    BY <2>1, JOpened
  <2> QED  BY <2>2, <2>3, <2>4, <1>6
<1>8. ASSUME Reach(w, q) < R PROVE FALSE
  <2>1. R \in 1 .. Count(w, n)
    BY <1>5, <1>6, <1>7, <1>8
  <2>2. \/ \E d \in 1 .. Len(S) : Count(w, S[d].open) = R
        \/ \E c \in 1 .. l : Count(w, HeadOf(cs[c]) - 1) < R /\ R <= Reach(w, cs[c])
        \/ R > R
    BY <1>1, <1>4, <2>1 DEF Covered
  <2>3. ~(R > R)
    BY <2>1
  <2>4. ASSUME NEW d \in 1 .. Len(S), Count(w, S[d].open) = R PROVE FALSE
    <3>1. PICK x : x = S[d].open
      OBVIOUS
    <3>2. x \in 1 .. n /\ x <= in
      <4>1. x \in 1 .. n
        BY <1>2, <3>1, JStack
      <4>2. x <= in
        BY <1>1, <1>2, <3>1, JInside
      <4> QED  BY <4>1, <4>2
    <3>3. x \in 0 .. in /\ in \in 0 .. Size(w)
      BY <1>2, <3>2
    <3>4. Count(w, x) <= Count(w, in) /\ Count(w, x) \in Nat
      BY <3>3, JCounts
    <3> QED  BY <2>4, <3>1, <3>4, <1>5, <1>6, <1>7, <1>8
  <2>5. ASSUME NEW c \in 1 .. l, R <= Reach(w, cs[c]) PROVE FALSE
    <3>1. CASE c = l
      BY <3>1, <2>5, <1>3, <1>5, <1>6, <1>8
    <3>2. CASE c # l
      <4>1. c < l
        BY <3>2, <1>3
      <4>2. Reach(w, cs[c]) <= Count(w, h - 1)
        BY <4>1, <1>1, <1>3, <1>4
      <4>3. Reach(w, cs[c]) \in Nat
        BY <1>2, <1>4, JChainFacts
      <4> QED  BY <2>5, <4>2, <4>3, <1>5, <1>6, <1>7, <1>8
    <3> QED  BY <3>1, <3>2
  <2> QED  BY <2>2, <2>3, <2>4, <2>5
<1>9. Reach(w, q) <= R
  BY <1>3, <1>4
<1> QED  BY <1>5, <1>6, <1>8, <1>9

\* The chains are those of cs but for the last one.
LEMMA JFrontChains ==
  ASSUME NEW cs, cs \in Seq(Seq(FieldType)), cs # <<>>, NEW cs2, cs2 = Front(cs), NEW l, l = Len(cs)
  PROVE  /\ cs2 \in Seq(Seq(FieldType)) /\ l \in Nat /\ l >= 1 /\ Len(cs2) = l - 1 /\ Last(cs) = cs[l]
         /\ \A c \in 1 .. Len(cs2) : c \in 1 .. l /\ c < l /\ cs2[c] = cs[c]
         /\ \A c \in 1 .. l : c = l \/ c \in 1 .. Len(cs2)
<1>1. PICK T : T = Seq(FieldType)
  OBVIOUS
<1>2. cs \in Seq(T) /\ l \in Nat /\ l >= 1 /\ Last(cs) = cs[l]
  BY <1>1, JSeq
<1>3. cs2 \in Seq(T) /\ Len(cs2) = l - 1 /\ \A c \in 1 .. l - 1 : cs2[c] = cs[c]
  BY <1>2, JSeqFront
<1>4. \A c \in 1 .. l - 1 : c \in 1 .. l /\ c < l
  BY <1>2
<1>5. \A c \in 1 .. l : c = l \/ c \in 1 .. l - 1
  BY <1>2
<1> QED  BY <1>1, <1>2, <1>3, <1>4, <1>5

\* r is the k elements of a and the j elements of b
Joined(S, a, b, k, j, r) ==
  /\ r \in Seq(S) /\ Len(r) = k + j /\ k \in Nat /\ j \in Nat
  /\ \A x \in 1 .. k : r[x] = a[x]
  /\ \A x \in k + 1 .. k + j : x - k \in 1 .. j /\ r[x] = b[x - k]

\* Two sequences, one behind the other.
LEMMA JConcat ==
  ASSUME NEW S, NEW a \in Seq(S), NEW b \in Seq(S), NEW k, k = Len(a), NEW j, j = Len(b)
  PROVE  Joined(S, a, b, k, j, a \o b)
<1> DEFINE r == a \o b
<1>1. k \in Nat /\ j \in Nat /\ r \in Seq(S) /\ Len(r) = k + j
  OBVIOUS
<1>2. \A x \in 1 .. k + j : r[x] = IF x <= k THEN a[x] ELSE b[x - k]
  OBVIOUS
<1>3. \A x \in 1 .. k : x \in 1 .. k + j /\ x <= k
  BY <1>1
<1>4. \A x \in k + 1 .. k + j : x \in 1 .. k + j /\ ~(x <= k) /\ x - k \in 1 .. j
  BY <1>1
<1> HIDE DEF r
<1>5. Joined(S, a, b, k, j, r)
  BY <1>1, <1>2, <1>3, <1>4 DEF Joined
<1> QED  BY <1>5 DEF r

\* r is the head of ch, then the j fields of q, then the other k - 1 of ch
IsMerged(ch, q, k, j, r) ==
  /\ r \in Seq(FieldType) /\ r # <<>> /\ Len(r) = k + j /\ r[1] = ch[1] /\ k \in Nat /\ k >= 1 /\ j \in Nat
  /\ \A x \in 2 .. k + j : IF x <= j + 1 THEN x - 1 \in 1 .. j /\ r[x] = q[x - 1]
                           ELSE x - j \in 2 .. k /\ r[x] = ch[x - j]

\* The chain of a child goes behind the head.
LEMMA JMergedSeq ==
  ASSUME NEW ch, ch \in Seq(FieldType), ch # <<>>, NEW q, q \in Seq(FieldType), NEW k, k = Len(ch), NEW j, j = Len(q),
         NEW r, r = Merged(ch, q)
  PROVE  IsMerged(ch, q, k, j, r)
<1>1. k \in Nat /\ k >= 1 /\ j \in Nat
  BY JSeq
<1>2. /\ Tail(ch) \in Seq(FieldType) /\ Len(Tail(ch)) = k - 1
      /\ \A x \in 1 .. k - 1 : Tail(ch)[x] = ch[x + 1]
  BY <1>1
<1>3. ch[1] \in FieldType
  BY <1>1, JSeq
<1>4. PICK t, a : t = Tail(ch) /\ a = <<ch[1]>>
  OBVIOUS
<1>5. a \in Seq(FieldType) /\ Len(a) = 1 /\ a[1] = ch[1]
  BY <1>3, <1>4
<1>6. PICK b : b = a \o q
  OBVIOUS
<1>7. /\ b \in Seq(FieldType) /\ Len(b) = j + 1 /\ b[1] = ch[1]
      /\ \A x \in 2 .. j + 1 : b[x] = q[x - 1]
  <2>1. PICK o : o = 1
    OBVIOUS
  <2>2. /\ b \in Seq(FieldType) /\ Len(b) = o + j
        /\ \A x \in 1 .. o : b[x] = a[x]
        /\ \A x \in o + 1 .. o + j : x - o \in 1 .. j /\ b[x] = q[x - o]
    <3>1. Joined(FieldType, a, q, o, j, b)
      BY <1>5, <1>6, <2>1, JConcat
    <3> QED  BY <3>1 DEF Joined
  <2>3. \A x \in 2 .. j + 1 : x \in o + 1 .. o + j /\ x - o = x - 1
    BY <1>1, <2>1
  <2>4. Len(b) = j + 1
    BY <1>1, <2>1, <2>2
  <2> QED  BY <1>5, <2>1, <2>2, <2>3, <2>4
<1>8. r = b \o t
  BY <1>4, <1>6 DEF Merged
<1>9. t \in Seq(FieldType) /\ Len(t) = k - 1 /\ \A x \in 1 .. k - 1 : t[x] = ch[x + 1]
  BY <1>2, <1>4
<1>10. /\ r \in Seq(FieldType) /\ Len(r) = j + 1 + (k - 1)
       /\ \A x \in 1 .. j + 1 : r[x] = b[x]
       /\ \A x \in j + 2 .. k + j : r[x] = t[x - (j + 1)]
  <2>1. PICK o, u : o = j + 1 /\ u = k - 1
    OBVIOUS
  <2>2. /\ r \in Seq(FieldType) /\ Len(r) = o + u
        /\ \A x \in 1 .. o : r[x] = b[x]
        /\ \A x \in o + 1 .. o + u : x - o \in 1 .. u /\ r[x] = t[x - o]
    <3>1. Joined(FieldType, b, t, o, u, r)
      BY <1>7, <1>8, <1>9, <2>1, JConcat
    <3> QED  BY <3>1 DEF Joined
  <2>3. \A x \in j + 2 .. k + j : x \in o + 1 .. o + u
    BY <1>1, <2>1
  <2> QED  BY <2>1, <2>2, <2>3
<1>11. ASSUME NEW x \in 2 .. k + j
       PROVE  IF x <= j + 1 THEN x - 1 \in 1 .. j /\ r[x] = q[x - 1]
                                  ELSE x - j \in 2 .. k /\ r[x] = ch[x - j]
  <2>1. CASE x <= j + 1
    <3>1. x \in 2 .. j + 1 /\ x \in 1 .. j + 1 /\ x - 1 \in 1 .. j
      BY <1>1, <2>1
    <3> QED  BY <2>1, <3>1, <1>7, <1>10
  <2>2. CASE ~(x <= j + 1)
    <3>1. x \in j + 2 .. k + j /\ x - j \in 2 .. k /\ x - (j + 1) \in 1 .. k - 1 /\ x - (j + 1) + 1 = x - j
      BY <1>1, <2>2
    <3>2. t[x - (j + 1)] = ch[x - (j + 1) + 1]
      BY <3>1, <1>9
    <3> QED  BY <2>2, <3>1, <3>2, <1>10
  <2> QED  BY <2>1, <2>2
<1>12. Len(r) = k + j /\ r # <<>> /\ r[1] = ch[1]
  <2>1. Len(r) = k + j /\ Len(r) >= 1
    BY <1>1, <1>10
  <2>2. 1 \in 1 .. j + 1
    BY <1>1
  <2> QED  BY <2>1, <2>2, <1>7, <1>10
<1> QED  BY <1>1, <1>10, <1>11, <1>12 DEF IsMerged

\* The last chain q, whose head h is behind the object in hand, whose chain is ch
LastChild(w, n, ch, q, h) ==
  /\ n \in 0 .. Size(w) /\ n \in Nat
  /\ h \in Places(w, n) /\ h \in 1 .. n /\ h \in 1 .. Size(w) /\ q \in Seq(FieldType) /\ Len(q) \in Nat /\ Len(q) >= 1
  /\ q[1] = Link(w, h) /\ Count(w, h) \in Nat /\ Count(w, h - 1) \in Nat
  /\ ch \in Seq(FieldType) /\ Len(ch) \in Nat /\ Len(ch) >= 1
  /\ Rest(w, n, ch) = Count(w, n) - (Len(ch) - 1) /\ Count(w, n) \in Nat
  /\ Count(w, Inside(w, n)) \in Nat
  /\ IF IsOpen(w, h)
     THEN /\ Count(w, h) = Count(w, h - 1) + 1 /\ Count(w, h) > Count(w, Inside(w, n))
          /\ Reach(w, q) = Rest(w, n, ch) /\ Reach(w, q) = Count(w, h) + Len(q) - 1
          /\ \A x \in 1 .. Len(q) : OpenedAs(w, n, q[x], Count(w, h) + x - 1)
     ELSE Count(w, h) = Count(w, h - 1) /\ Reach(w, q) = Count(w, h)

\* What is known of the last chain when its head is a property of the object in hand
LEMMA JLastChild ==
  ASSUME NEW w, Written(w), NEW n \in 0 .. Size(w) - 1, w.text[n + 1].is = "close",
         NEW cs, cs \in Seq(Seq(FieldType)), cs # <<>>, NEW ch, ch # <<>>, ChainsOK(w, n, ch, cs),
         NEW q, q = Last(cs), NEW h, h = HeadOf(q), h > Inside(w, n)
  PROVE  LastChild(w, n, ch, q, h)
<1>1. /\ n \in 0 .. Size(w) /\ n \in Nat /\ Inside(w, n) \in 1 .. n /\ Size(w) \in Nat
  BY JAtEnd, JNext
<1>2. PICK l, in : l = Len(cs) /\ in = Inside(w, n)
  OBVIOUS
<1>3. l \in Nat /\ l >= 1 /\ q = cs[l] /\ l \in 1 .. l
  BY <1>2, JSeq
<1>4. ChainOK(w, n, q) /\ InHandOK(w, n, ch)
  BY <1>2, <1>3 DEF ChainsOK
<1>5. /\ h \in Places(w, n) /\ h \in 1 .. n /\ q \in Seq(FieldType) /\ Len(q) \in Nat /\ Len(q) >= 1
      /\ Count(w, h) \in Nat /\ Count(w, h - 1) \in Nat /\ Reach(w, q) = Count(w, h) + Len(q) - 1
  BY <1>1, <1>4, JChainFacts
<1>6. h \in 1 .. Size(w) /\ in \in 0 .. Size(w) /\ in < h
  BY <1>1, <1>2, <1>5
<1>7. ch \in Seq(FieldType) /\ Len(ch) \in Nat /\ Len(ch) >= 1
  <2>1. ch \in Seq(FieldType)
    BY <1>4 DEF InHandOK
  <2> QED  BY <2>1, JSeq
<1>8. Count(w, n) \in Nat /\ Count(w, in) \in Nat
  BY <1>1, <1>6, JTypes
<1>9. Rest(w, n, ch) = Count(w, n) - (Len(ch) - 1)
  BY DEF Rest
<1>10. CASE IsOpen(w, h)
  <2>1. Count(w, h) = Count(w, h - 1) + 1
    BY <1>6, <1>10, JOpened
  <2>2. Count(w, in) < Count(w, h)
    BY <1>6, <1>10, JRank
  <2>3. Reach(w, q) = Rest(w, n, ch)
    BY <1>10, JLastChain
  <2>4. q[1] = Link(w, h) /\ \A x \in 1 .. Len(q) : OpenedAs(w, n, q[x], Count(w, h) + x - 1)
    BY <1>4, <1>10 DEF ChainOK
  <2> QED  BY <1>1, <1>2, <1>5, <1>6, <1>7, <1>8, <1>9, <1>10, <2>1, <2>2, <2>3, <2>4 DEF LastChild
<1>11. CASE ~IsOpen(w, h)
  <2>1. Count(w, h) = Count(w, h - 1)
    BY <1>6, <1>11, JOpened
  <2>2. q[1] = Link(w, h) /\ Len(q) = 1
    BY <1>4, <1>11 DEF ChainOK
  <2>3. Reach(w, q) = Count(w, h)
    BY <1>5, <2>2
  <2> QED  BY <1>1, <1>2, <1>5, <1>6, <1>7, <1>8, <1>9, <1>11, <2>1, <2>2, <2>3 DEF LastChild
<1> QED  BY <1>10, <1>11

\* The chain of the last child goes into the chain of the object in hand.
LEMMA JMerge ==
  ASSUME NEW w, Written(w), NEW n \in 0 .. Size(w) - 1, w.text[n + 1].is = "close",
         NEW cs, cs \in Seq(Seq(FieldType)), cs # <<>>, NEW ch, ch # <<>>, ChainsOK(w, n, ch, cs),
         HeadOf(Last(cs)) > Inside(w, n), IsOpen(w, HeadOf(Last(cs))),
         NEW ch2, ch2 = Merged(ch, Last(cs)), NEW cs2, cs2 = Front(cs)
  PROVE  ChainsOK(w, n, ch2, cs2) /\ ch2 # <<>> /\ cs2 \in Seq(Seq(FieldType))
<1>1. PICK q, h, l, k, j : q = Last(cs) /\ h = HeadOf(q) /\ l = Len(cs) /\ k = Len(ch) /\ j = Len(q)
  OBVIOUS
<1>2. /\ n \in 0 .. Size(w) /\ n \in Nat /\ h \in 1 .. n
      /\ q \in Seq(FieldType) /\ j \in Nat /\ j >= 1 /\ Count(w, h) \in Nat /\ Count(w, h - 1) \in Nat
      /\ ch \in Seq(FieldType) /\ k \in Nat /\ k >= 1
      /\ Rest(w, n, ch) = Count(w, n) - (k - 1) /\ Count(w, n) \in Nat
      /\ Count(w, h) = Count(w, h - 1) + 1 /\ Count(w, h) > Count(w, Inside(w, n))
      /\ Reach(w, q) = Rest(w, n, ch) /\ Reach(w, q) = Count(w, h) + j - 1
      /\ \A x \in 1 .. j : OpenedAs(w, n, q[x], Count(w, h) + x - 1)
      /\ Count(w, Inside(w, n)) \in Nat
  <2>1. h > Inside(w, n) /\ IsOpen(w, h)
    BY <1>1
  <2>2. LastChild(w, n, ch, q, h)
    BY <1>1, <2>1, JLastChild
  <2> QED  BY <1>1, <2>1, <2>2 DEF LastChild
<1>3. /\ cs2 \in Seq(Seq(FieldType)) /\ l \in Nat /\ l >= 1 /\ Len(cs2) = l - 1 /\ q = cs[l]
      /\ \A c \in 1 .. Len(cs2) : c \in 1 .. l /\ c < l /\ cs2[c] = cs[c]
      /\ \A c \in 1 .. l : c = l \/ c \in 1 .. Len(cs2)
  BY <1>1, JFrontChains
<1>4. /\ ch2 \in Seq(FieldType) /\ ch2 # <<>> /\ Len(ch2) = k + j /\ ch2[1] = ch[1]
      /\ \A x \in 2 .. k + j : IF x <= j + 1 THEN x - 1 \in 1 .. j /\ ch2[x] = q[x - 1]
                               ELSE x - j \in 2 .. k /\ ch2[x] = ch[x - j]
  <2>1. ch2 = Merged(ch, q)
    BY <1>1
  <2>2. IsMerged(ch, q, k, j, ch2)
    BY <1>1, <1>2, <2>1, JMergedSeq
  <2> QED  BY <2>2 DEF IsMerged
<1>5. PICK R, R2, H : R = Rest(w, n, ch) /\ R2 = Rest(w, n, ch2) /\ H = Count(w, h)
  OBVIOUS
<1>6. R2 = H - 1 /\ R = H + j - 1 /\ R2 = Count(w, h - 1) /\ R \in Nat /\ R2 \in Nat /\ H \in Nat /\ R2 = R - j
      /\ R2 >= Count(w, Inside(w, n))
  <2>1. R2 = Count(w, n) - (k + j - 1)
    <3>1. Rest(w, n, ch2) = Count(w, n) - (Len(ch2) - 1)
      BY <1>4 DEF Rest
    <3>2. PICK c2 : c2 = Len(ch2)
      OBVIOUS
    <3>3. R2 = Count(w, n) - (c2 - 1)
      BY <3>1, <3>2, <1>5
    <3>4. c2 = k + j
      BY <3>2, <1>4
    <3>5. k \in Nat /\ j \in Nat
      BY <1>2
    <3>6. c2 - 1 = k + j - 1
      BY <3>4, <3>5
    <3> QED  BY <3>3, <3>6
  <2>2. PICK N, G, I : N = Count(w, n) /\ G = Count(w, h - 1) /\ I = Count(w, Inside(w, n))
    OBVIOUS
  <2>3. N \in Nat /\ G \in Nat /\ I \in Nat /\ H \in Nat /\ k \in Nat /\ j \in Nat /\ j >= 1 /\ k >= 1
    BY <1>2, <1>5, <2>2
  <2>4. R2 = N - (k + j - 1) /\ R = N - (k - 1) /\ R = H + j - 1 /\ H = G + 1 /\ H > I
    BY <1>2, <1>5, <2>1, <2>2
  <2>5. R2 = H - 1 /\ R2 = G /\ R \in Nat /\ R2 \in Nat /\ R2 = R - j /\ R2 >= I
    <3>1. N = R + (k - 1)
      BY <2>3, <2>4
    <3>2. R \in Nat
      BY <2>3, <2>4
    <3>3. R2 = R - j
      BY <2>3, <2>4, <3>1, <3>2
    <3>4. R2 = H - 1
      BY <2>3, <2>4, <3>3
    <3>5. R2 = G /\ R2 >= I /\ R2 \in Nat
      BY <2>3, <2>4, <3>4
    <3> QED  BY <3>2, <3>3, <3>4, <3>5
  <2> QED  BY <2>2, <2>3, <2>4, <2>5
<1>7. /\ InHandOK(w, n, ch)
      /\ \A c \in 1 .. l : ChainOK(w, n, cs[c]) /\ Reach(w, cs[c]) <= R
      /\ \A b, c \in 1 .. l :
           b < c => HeadOf(cs[b]) < HeadOf(cs[c]) /\ Reach(w, cs[b]) <= Count(w, HeadOf(cs[c]) - 1)
      /\ \A c \in 1 .. l : \A d \in 1 .. Len(Stack(w, n)) :
           HeadOf(cs[c]) < Stack(w, n)[d].open => Reach(w, cs[c]) <= Count(w, Stack(w, n)[d].open - 1)
      /\ \A x \in 1 .. Count(w, n) : Covered(w, n, ch, cs, x)
  BY <1>1, <1>5 DEF ChainsOK
<1>8. InHandOK(w, n, ch2)
  <2>1. /\ w.text[n + 1].is = "close" /\ Stack(w, n) # <<>>
        /\ ch[1] = Link(w, Inside(w, n))
        /\ \A x \in 2 .. k : OpenedAs(w, n, ch[x], R + x - 1)
    BY <1>1, <1>5, <1>7 DEF InHandOK
  <2>2. ASSUME NEW x \in 2 .. k + j PROVE OpenedAs(w, n, ch2[x], R2 + x - 1)
    <3>1. CASE x <= j + 1
      <4>1. PICK y : y = x - 1
        OBVIOUS
      <4>2. y \in 1 .. j /\ ch2[x] = q[y]
        BY <1>4, <3>1, <4>1
      <4>3. OpenedAs(w, n, q[y], H + y - 1)
        BY <1>2, <1>5, <4>2
      <4>4. H + y - 1 = R2 + x - 1
        BY <1>6, <4>1
      <4> QED  BY <4>2, <4>3, <4>4
    <3>2. CASE ~(x <= j + 1)
      <4>1. PICK y : y = x - j
        OBVIOUS
      <4>2. y \in 2 .. k /\ ch2[x] = ch[y]
        BY <1>4, <3>2, <4>1
      <4>3. OpenedAs(w, n, ch[y], R + y - 1)
        BY <2>1, <4>2
      <4>4. R + y - 1 = R2 + x - 1
        BY <1>2, <1>6, <4>1
      <4> QED  BY <4>2, <4>3, <4>4
    <3> QED  BY <3>1, <3>2
  <2> QED  BY <1>4, <1>5, <1>6, <2>1, <2>2 DEF InHandOK
<1>9. \A c \in 1 .. Len(cs2) : ChainOK(w, n, cs2[c]) /\ Reach(w, cs2[c]) <= R2
  <2> SUFFICES ASSUME NEW c \in 1 .. Len(cs2) PROVE ChainOK(w, n, cs2[c]) /\ Reach(w, cs2[c]) <= R2
    OBVIOUS
  <2>1. c \in 1 .. l /\ c < l /\ cs2[c] = cs[c] /\ l \in 1 .. l
    BY <1>3
  <2>2. Reach(w, cs[c]) <= Count(w, HeadOf(cs[l]) - 1)
    BY <2>1, <1>7
  <2> QED  BY <2>1, <2>2, <1>1, <1>3, <1>6, <1>7
<1>10. ASSUME NEW x \in 1 .. Count(w, n) PROVE Covered(w, n, ch2, cs2, x)
  <2>1. \/ \E d \in 1 .. Len(Stack(w, n)) : Count(w, Stack(w, n)[d].open) = x
        \/ \E c \in 1 .. l : Count(w, HeadOf(cs[c]) - 1) < x /\ x <= Reach(w, cs[c])
        \/ x > R
    BY <1>1, <1>5, <1>7 DEF Covered
  <2>2. CASE \E d \in 1 .. Len(Stack(w, n)) : Count(w, Stack(w, n)[d].open) = x
    BY <2>2 DEF Covered
  <2>3. CASE x > R
    <3>1. x > R2
      BY <2>3, <1>2, <1>6
    <3> QED  BY <3>1, <1>5 DEF Covered
  <2>4. CASE \E c \in 1 .. l : Count(w, HeadOf(cs[c]) - 1) < x /\ x <= Reach(w, cs[c])
    <3>1. PICK c \in 1 .. l : Count(w, HeadOf(cs[c]) - 1) < x /\ x <= Reach(w, cs[c])
      BY <2>4
    <3>2. CASE c = l
      <4>1. x > R2
        BY <3>1, <3>2, <1>1, <1>3, <1>6
      <4> QED  BY <4>1, <1>5 DEF Covered
    <3>3. CASE c # l
      <4>1. c \in 1 .. Len(cs2) /\ cs2[c] = cs[c]
        BY <3>3, <1>3
      <4> QED  BY <3>1, <4>1 DEF Covered
    <3> QED  BY <3>2, <3>3
  <2> QED  BY <2>1, <2>2, <2>3, <2>4
<1>11. \A b, c \in 1 .. Len(cs2) :
         b < c => HeadOf(cs2[b]) < HeadOf(cs2[c]) /\ Reach(w, cs2[b]) <= Count(w, HeadOf(cs2[c]) - 1)
  BY <1>3, <1>7
<1>12. \A c \in 1 .. Len(cs2) : \A d \in 1 .. Len(Stack(w, n)) :
         HeadOf(cs2[c]) < Stack(w, n)[d].open => Reach(w, cs2[c]) <= Count(w, Stack(w, n)[d].open - 1)
  BY <1>3, <1>7
<1>13. ChainsOK(w, n, ch2, cs2)
  BY <1>5, <1>8, <1>9, <1>10, <1>11, <1>12 DEF ChainsOK
<1> QED  BY <1>3, <1>4, <1>13

\* The chain of a reference is no longer needed.
LEMMA JKeep ==
  ASSUME NEW w, Written(w), NEW n \in 0 .. Size(w) - 1, w.text[n + 1].is = "close",
         NEW cs, cs \in Seq(Seq(FieldType)), cs # <<>>, NEW ch, ch # <<>>, ChainsOK(w, n, ch, cs),
         HeadOf(Last(cs)) > Inside(w, n), ~IsOpen(w, HeadOf(Last(cs))),
         NEW cs2, cs2 = Front(cs)
  PROVE  ChainsOK(w, n, ch, cs2) /\ cs2 \in Seq(Seq(FieldType))
<1>1. PICK q, h, l : q = Last(cs) /\ h = HeadOf(q) /\ l = Len(cs)
  OBVIOUS
<1>2. /\ n \in 0 .. Size(w) /\ n \in Nat
      /\ Count(w, h) \in Nat /\ Count(w, h - 1) \in Nat
      /\ Count(w, h) = Count(w, h - 1) /\ Reach(w, q) = Count(w, h)
  <2>1. h > Inside(w, n) /\ ~IsOpen(w, h)
    BY <1>1
  <2>2. LastChild(w, n, ch, q, h)
    BY <1>1, <2>1, JLastChild
  <2> QED  BY <1>1, <2>1, <2>2 DEF LastChild
<1>3. /\ cs2 \in Seq(Seq(FieldType)) /\ l \in Nat /\ l >= 1 /\ Len(cs2) = l - 1 /\ q = cs[l]
      /\ \A c \in 1 .. Len(cs2) : c \in 1 .. l /\ c < l /\ cs2[c] = cs[c]
      /\ \A c \in 1 .. l : c = l \/ c \in 1 .. Len(cs2)
  BY <1>1, JFrontChains
<1>4. /\ InHandOK(w, n, ch)
      /\ \A c \in 1 .. l : ChainOK(w, n, cs[c]) /\ Reach(w, cs[c]) <= Rest(w, n, ch)
      /\ \A b, c \in 1 .. l :
           b < c => HeadOf(cs[b]) < HeadOf(cs[c]) /\ Reach(w, cs[b]) <= Count(w, HeadOf(cs[c]) - 1)
      /\ \A c \in 1 .. l : \A d \in 1 .. Len(Stack(w, n)) :
           HeadOf(cs[c]) < Stack(w, n)[d].open => Reach(w, cs[c]) <= Count(w, Stack(w, n)[d].open - 1)
      /\ \A x \in 1 .. Count(w, n) : Covered(w, n, ch, cs, x)
  BY <1>1 DEF ChainsOK
<1>5. ASSUME NEW x \in 1 .. Count(w, n) PROVE Covered(w, n, ch, cs2, x)
  <2>1. \/ \E d \in 1 .. Len(Stack(w, n)) : Count(w, Stack(w, n)[d].open) = x
        \/ \E c \in 1 .. l : Count(w, HeadOf(cs[c]) - 1) < x /\ x <= Reach(w, cs[c])
        \/ x > Rest(w, n, ch)
    BY <1>1, <1>4 DEF Covered
  <2>2. CASE \E c \in 1 .. l : Count(w, HeadOf(cs[c]) - 1) < x /\ x <= Reach(w, cs[c])
    <3>1. PICK c \in 1 .. l : Count(w, HeadOf(cs[c]) - 1) < x /\ x <= Reach(w, cs[c])
      BY <2>2
    <3>2. c # l
      <4>1. SUFFICES ASSUME c = l PROVE FALSE
        OBVIOUS
      <4>2. Count(w, h) < x /\ x <= Count(w, h)
        BY <3>1, <4>1, <1>1, <1>2, <1>3
      <4>3. x \in Int
        OBVIOUS
      <4> QED  BY <4>2, <4>3, <1>2
    <3>3. c \in 1 .. Len(cs2) /\ cs2[c] = cs[c]
      BY <3>2, <1>3
    <3> QED  BY <3>1, <3>3 DEF Covered
  <2> QED  BY <2>1, <2>2 DEF Covered
<1>6. \A b, c \in 1 .. Len(cs2) :
         b < c => HeadOf(cs2[b]) < HeadOf(cs2[c]) /\ Reach(w, cs2[b]) <= Count(w, HeadOf(cs2[c]) - 1)
  BY <1>3, <1>4
<1>7. \A c \in 1 .. Len(cs2) : \A d \in 1 .. Len(Stack(w, n)) :
         HeadOf(cs2[c]) < Stack(w, n)[d].open => Reach(w, cs2[c]) <= Count(w, Stack(w, n)[d].open - 1)
  BY <1>3, <1>4
<1>8. \A c \in 1 .. Len(cs2) : ChainOK(w, n, cs2[c]) /\ Reach(w, cs2[c]) <= Rest(w, n, ch)
  BY <1>3, <1>4
<1>9. ChainsOK(w, n, ch, cs2)
  BY <1>4, <1>5, <1>6, <1>7, <1>8 DEF ChainsOK
<1> QED  BY <1>3, <1>9

\* What is known while the chain of an object is built
Chaining(w, n, rd, ob, ds, hs, ch, cs, rf) ==
  /\ n \in 0 .. Size(w) - 1 /\ rd = Path(w, n)
  /\ ObjectsOK(w, n, TRUE, ob) /\ ChildrenOK(w, n, ob) /\ ListsOK(w, n, TRUE, ob, ds, hs)
  /\ cs \in Seq(Seq(FieldType)) /\ ch # <<>>
  /\ ChainsOK(w, n, ch, cs) /\ RefsOK(w, n, cs, rf)
  /\ w.text[n + 1].is = "close"

\* It is what is known while the text is read, with a chain in hand.
LEMMA JChaining ==
  ASSUME NEW w, NEW n, NEW rd, NEW ob, NEW ds, NEW hs, NEW ch, ch # <<>>, NEW cs, NEW rf
  PROVE  ReadingOK(w, n, rd, ob, ds, hs, ch, cs, rf) <=> Chaining(w, n, rd, ob, ds, hs, ch, cs, rf)
<1>1. (ch # <<>>) = TRUE
  OBVIOUS
<1>2. ASSUME ReadingOK(w, n, rd, ob, ds, hs, ch, cs, rf) PROVE Chaining(w, n, rd, ob, ds, hs, ch, cs, rf)
  <2>1. ChainsOK(w, n, ch, cs)
    BY <1>2 DEF ReadingOK
  <2>2. w.text[n + 1].is = "close"
    BY <2>1 DEF ChainsOK, InHandOK
  <2> QED  BY <1>1, <1>2, <2>2 DEF ReadingOK, Chaining
<1>3. ASSUME Chaining(w, n, rd, ob, ds, hs, ch, cs, rf) PROVE ReadingOK(w, n, rd, ob, ds, hs, ch, cs, rf)
  BY <1>1, <1>3 DEF ReadingOK, Chaining
<1> QED  BY <1>2, <1>3

\* The last chain, when its head is a property of the object in hand
IsLast(w, n, ob, cs, q, h, l) ==
  /\ l \in Nat /\ l >= 1 /\ l \in 1 .. l /\ l = Len(cs) /\ q = cs[l] /\ h = HeadOf(q)
  /\ h > Inside(w, n) /\ Parent(w, h) = Inside(w, n) /\ h \in Places(w, n)
  /\ q[1] = Link(w, h) /\ q[1].k = w.text[h].k
  /\ RefIn(ob[h]) <=> ~IsOpen(w, h)
  /\ ~IsOpen(w, h) => RefersIn(ob[h]) = w.text[h].id

\* The last chain is the one of the last child when that child is a property of the object in hand.
LEMMA JIsLast ==
  ASSUME NEW w, Written(w), NEW n, NEW rd, NEW ob, NEW ds, NEW hs, NEW ch, NEW cs, NEW rf,
         Chaining(w, n, rd, ob, ds, hs, ch, cs, rf), cs # <<>>, Begets(w, n, ob, Last(cs)),
         NEW q, q = Last(cs), NEW h, h = HeadOf(q), NEW l, l = Len(cs)
  PROVE  IsLast(w, n, ob, cs, q, h, l)
<1>1. /\ n \in 0 .. Size(w) - 1 /\ cs \in Seq(Seq(FieldType)) /\ ChainsOK(w, n, ch, cs)
      /\ ChildrenOK(w, n, ob) /\ ObjectsOK(w, n, TRUE, ob) /\ w.text[n + 1].is = "close"
  BY DEF Chaining
<1>2. l \in Nat /\ l >= 1 /\ q = cs[l] /\ l \in 1 .. l
  BY <1>1, JSeq
<1>3. ChainOK(w, n, q)
  BY <1>1, <1>2 DEF ChainsOK
<1>4. h > Inside(w, n) /\ Parent(w, h) = Inside(w, n)
  BY <1>1, <1>3, JParent
<1>5. h \in Places(w, n) /\ q[1] = Link(w, h) /\ n \in 0 .. Size(w)
  BY <1>1, <1>3, JNext DEF ChainOK
<1>6. q[1].k = w.text[h].k
  BY <1>5, JKeys
<1>7. /\ RefIn(ob[h]) <=> ~IsOpen(w, h)
      /\ ~IsOpen(w, h) => RefersIn(ob[h]) = w.text[h].id
  BY <1>1, <1>5, JRefIn
<1> QED  BY <1>2, <1>4, <1>5, <1>6, <1>7 DEF IsLast

\* MergeChain.
LEMMA JMerged ==
  ASSUME NEW w, Written(w), NEW n, NEW rd, NEW ob, NEW ds, NEW hs, NEW ch, NEW cs, NEW rf,
         Chaining(w, n, rd, ob, ds, hs, ch, cs, rf), cs # <<>>, Begets(w, n, ob, Last(cs)),
         ~RefIn(ob[HeadOf(Last(cs))]),
         NEW ch2, ch2 = Merged(ch, Last(cs)), NEW cs2, cs2 = Front(cs)
  PROVE  Chaining(w, n, rd, ob, ds, hs, ch2, cs2, rf)
<1>1. /\ n \in 0 .. Size(w) - 1 /\ rd = Path(w, n)
      /\ ObjectsOK(w, n, TRUE, ob) /\ ChildrenOK(w, n, ob) /\ ListsOK(w, n, TRUE, ob, ds, hs)
      /\ cs \in Seq(Seq(FieldType)) /\ ch # <<>>
      /\ ChainsOK(w, n, ch, cs) /\ RefsOK(w, n, cs, rf)
      /\ w.text[n + 1].is = "close"
  BY DEF Chaining
<1>2. PICK q, h, l : q = Last(cs) /\ h = HeadOf(q) /\ l = Len(cs)
  OBVIOUS
<1>3. IsLast(w, n, ob, cs, q, h, l)
  BY <1>2, JIsLast
<1>4. h > Inside(w, n) /\ IsOpen(w, h) /\ q = cs[l]
  BY <1>2, <1>3 DEF IsLast
<1>5. ChainsOK(w, n, ch2, cs2) /\ ch2 # <<>> /\ cs2 \in Seq(Seq(FieldType))
  BY <1>1, <1>2, <1>4, JMerge
<1>6. RefsOK(w, n, cs2, rf)
  <2>1. ASSUME NEW p \in Places(w, n), ~IsOpen(w, p)
        PROVE  (\E c \in 1 .. Len(cs2) : HeadOf(cs2[c]) = p) \/ RefOf(w, p) \in rf
    <3>1. CASE RefOf(w, p) \in rf
      BY <3>1
    <3>2. CASE \E c \in 1 .. l : HeadOf(cs[c]) = p
      <4>1. PICK c \in 1 .. l : HeadOf(cs[c]) = p
        BY <3>2
      <4>2. c # l
        BY <2>1, <4>1, <1>2, <1>4
      <4>3. c \in 1 .. Len(cs2) /\ cs2[c] = cs[c]
        <5>1. \A e \in 1 .. l : e = l \/ e \in 1 .. Len(cs2)
          BY <1>1, <1>2, JFrontChains
        <5>2. \A e \in 1 .. Len(cs2) : cs2[e] = cs[e]
          BY <1>1, <1>2, JFrontChains
        <5> QED  BY <4>2, <5>1, <5>2
      <4> QED  BY <4>1, <4>3
    <3> QED  BY <2>1, <3>1, <3>2, <1>1, <1>2 DEF RefsOK
  <2> QED  BY <2>1, <1>1 DEF RefsOK
<1> QED  BY <1>1, <1>5, <1>6 DEF Chaining

\* KeepReference.
LEMMA JKept ==
  ASSUME NEW w, Written(w), NEW n, NEW rd, NEW ob, NEW ds, NEW hs, NEW ch, NEW cs, NEW rf,
         Chaining(w, n, rd, ob, ds, hs, ch, cs, rf), cs # <<>>, Begets(w, n, ob, Last(cs)),
         RefIn(ob[HeadOf(Last(cs))]),
         NEW rf2,
         rf2 = rf \cup {[parent |-> Inside(w, n), key |-> Last(cs)[1].k, id |-> RefersIn(ob[HeadOf(Last(cs))])]},
         NEW cs2, cs2 = Front(cs)
  PROVE  Chaining(w, n, rd, ob, ds, hs, ch, cs2, rf2)
<1>1. /\ n \in 0 .. Size(w) - 1 /\ rd = Path(w, n)
      /\ ObjectsOK(w, n, TRUE, ob) /\ ChildrenOK(w, n, ob) /\ ListsOK(w, n, TRUE, ob, ds, hs)
      /\ cs \in Seq(Seq(FieldType)) /\ ch # <<>>
      /\ ChainsOK(w, n, ch, cs) /\ RefsOK(w, n, cs, rf)
      /\ w.text[n + 1].is = "close"
  BY DEF Chaining
<1>2. PICK q, h, l : q = Last(cs) /\ h = HeadOf(q) /\ l = Len(cs)
  OBVIOUS
<1>3. IsLast(w, n, ob, cs, q, h, l)
  BY <1>2, JIsLast
<1>4. /\ h > Inside(w, n) /\ ~IsOpen(w, h) /\ q = cs[l] /\ h \in Places(w, n)
      /\ Inside(w, n) = Parent(w, h) /\ q[1].k = w.text[h].k /\ RefersIn(ob[h]) = w.text[h].id
  BY <1>2, <1>3 DEF IsLast
<1>5. ChainsOK(w, n, ch, cs2) /\ cs2 \in Seq(Seq(FieldType))
  BY <1>1, <1>2, <1>4, JKeep
<1>6. rf2 = rf \cup {RefOf(w, h)}
  BY <1>2, <1>4 DEF RefOf
<1>7. RefsOK(w, n, cs2, rf2)
  <2>1. ASSUME NEW p \in Places(w, n), ~IsOpen(w, p)
        PROVE  (\E c \in 1 .. Len(cs2) : HeadOf(cs2[c]) = p) \/ RefOf(w, p) \in rf2
    <3>1. CASE RefOf(w, p) \in rf
      BY <3>1, <1>6
    <3>2. CASE \E c \in 1 .. l : HeadOf(cs[c]) = p
      <4>1. PICK c \in 1 .. l : HeadOf(cs[c]) = p
        BY <3>2
      <4>2. CASE c = l
        BY <4>1, <4>2, <1>2, <1>4, <1>6
      <4>3. CASE c # l
        <5>1. \A e \in 1 .. l : e = l \/ e \in 1 .. Len(cs2)
          BY <1>1, <1>2, JFrontChains
        <5>2. \A e \in 1 .. Len(cs2) : cs2[e] = cs[e]
          BY <1>1, <1>2, JFrontChains, SMTT(30)
        <5> QED  BY <4>1, <4>3, <5>1, <5>2
      <4> QED  BY <4>2, <4>3
    <3> QED  BY <2>1, <3>1, <3>2, <1>1, <1>2 DEF RefsOK
  <2>2. \A r \in rf2 : \E p \in Places(w, n) : ~IsOpen(w, p) /\ r = RefOf(w, p)
    BY <1>1, <1>4, <1>6 DEF RefsOK
  <2> QED  BY <2>1, <2>2 DEF RefsOK
<1> QED  BY <1>1, <1>5, <1>7 DEF Chaining

\* The l objects that are inside one another before an object is closed, in is
\* the one that is closed
Closing(w, n, in, l) ==
  /\ n \in Nat /\ n \in 0 .. Size(w) - 1 /\ n \in 0 .. Size(w) /\ n + 1 \in 0 .. Size(w)
  /\ l \in Nat /\ l >= 1 /\ l = Len(Stack(w, n)) /\ in = Inside(w, n) /\ in = Stack(w, n)[l].open
  /\ in \in Places(w, n) /\ in \in 1 .. n /\ IsOpen(w, in)
  /\ Len(Stack(w, n + 1)) = l - 1
  /\ \A d \in 1 .. l - 1 : /\ d \in 1 .. l /\ Stack(w, n + 1)[d] = Stack(w, n)[d]
                           /\ Stack(w, n)[d].open < in
  /\ \A d \in 1 .. l : Stack(w, n)[d].open \in 1 .. n /\ Stack(w, n)[d].open <= in
  /\ Places(w, n + 1) = Places(w, n)
  /\ Count(w, n) \in Nat /\ Count(w, n + 1) = Count(w, n) /\ Count(w, in) \in Nat /\ Count(w, in - 1) \in Nat
  /\ Count(w, in) = Count(w, in - 1) + 1 /\ Count(w, in) <= Count(w, n)

\* At the end of an object the token closes what stringify was inside of.
LEMMA JClosing ==
  ASSUME NEW w, Written(w), NEW n \in 0 .. Size(w) - 1, w.text[n + 1].is = "close",
         NEW in, in = Inside(w, n), NEW l, l = Len(Stack(w, n))
  PROVE  Closing(w, n, in, l)
<1> DEFINE S == Stack(w, n)
           T == Stack(w, n + 1)
<1>1. /\ S # <<>> /\ n \in 0 .. Size(w) /\ n \in Nat /\ n + 1 \in 0 .. Size(w)
      /\ in \in Places(w, n) /\ in \in 1 .. n /\ IsOpen(w, in) /\ Size(w) \in Nat
  BY JAtEnd, JNext
<1>2. l \in Nat /\ l >= 1
  BY <1>1, JStack
<1>3. in = S[l].open /\ \A d \in 1 .. l : S[d].open <= in
  BY <1>1, JInside
<1>4. \A d \in 1 .. l : S[d].open \in 1 .. n
  BY <1>1, JStack
<1>5. \A d, e \in 1 .. l : d < e => S[d].open < S[e].open
  BY <1>1, JStack
<1>6. Len(T) = l - 1
  BY JFrames
<1>7. \A d \in 1 .. l - 1 : d \in 1 .. l /\ d < l /\ l \in 1 .. l
  BY <1>2
<1>8. ASSUME NEW d \in 1 .. l - 1 PROVE T[d] = S[d]
  <2>1. d \in 1 .. l /\ d # l /\ d <= l
    BY <1>2, <1>7
  <2>2. T[d].open = S[d].open /\ T[d].of = S[d].of /\ T[d].at = S[d].at
    BY <1>6, <2>1, JFrames
  <2>3. S[d] \in FrameType(w) /\ T[d] \in FrameType(w)
    <3>1. PICK m : m = n + 1
      OBVIOUS
    <3>2. \A e \in 1 .. Len(Stack(w, m)) : Stack(w, m)[e] \in FrameType(w)
      BY <1>1, <3>1, JTypes
    <3>3. S[d] \in FrameType(w)
      BY <1>1, <2>1, JTypes
    <3> QED  BY <3>1, <3>2, <3>3, <1>6
  <2>4. PICK r, t : r = S[d] /\ t = T[d]
    OBVIOUS
  <2>5. /\ r = [of |-> r.of, open |-> r.open, at |-> r.at]
        /\ t = [of |-> t.of, open |-> t.open, at |-> t.at]
    BY <2>3, <2>4, JFrame
  <2> QED  BY <2>2, <2>4, <2>5
<1>9. Places(w, n + 1) = Places(w, n)
  <2>1. n + 1 \notin Places(w, n + 1)
    BY JNext
  <2>2. /\ Places(w, n) \subseteq Places(w, n + 1)
        /\ \A p \in Places(w, n + 1) : p # n + 1 => p \in Places(w, n)
    BY JNext
  <2> QED  BY <2>1, <2>2
<1>10. Count(w, n) \in Nat /\ Count(w, n + 1) = Count(w, n) /\ Count(w, in) \in Nat /\ Count(w, in) <= Count(w, n)
  <2>1. Count(w, n) \in Nat /\ Count(w, n + 1) = Count(w, n)
    BY JCountStep
  <2>2. in \in 0 .. n
    BY <1>1
  <2>3. Count(w, in) \in Nat /\ Count(w, in) <= Count(w, n)
    BY <2>2, JCountStep
  <2> QED  BY <2>1, <2>3
<1>11. Count(w, in - 1) \in Nat /\ Count(w, in) = Count(w, in - 1) + 1
  <2>1. in \in 1 .. Size(w)
    BY <1>1
  <2> QED  BY <1>1, <2>1, JOpened
<1>12. \A d \in 1 .. l - 1 : S[d].open < in
  BY <1>3, <1>5, <1>7
<1> QED  BY <1>1, <1>2, <1>3, <1>4, <1>6, <1>7, <1>8, <1>9, <1>10, <1>11, <1>12 DEF Closing

\* The chains are of other objects than the one that is closed
Childless(w, n, ob, cs) == cs = <<>> \/ ~Begets(w, n, ob, Last(cs))

\* When no child is left, all chains are of objects before it, and what was opened
\* after it is in its chain.
IsFull(w, n, ch, cs, in) ==
  /\ \A c \in 1 .. Len(cs) : HeadOf(cs[c]) < in /\ HeadOf(cs[c]) \in Nat /\ Reach(w, cs[c]) <= Count(w, in - 1)
                             /\ Reach(w, cs[c]) \in Nat
  /\ Rest(w, n, ch) = Count(w, in)
  /\ Rest(w, n, ch) = Count(w, n) - (Len(ch) - 1) /\ Len(ch) \in Nat /\ Len(ch) >= 1
  /\ Len(cs) \in Nat

\* When no chain of a child is left, the chain in hand lists all objects met since its own.
LEMMA JFull ==
  ASSUME NEW w, Written(w), NEW n, NEW rd, NEW ob, NEW ds, NEW hs, NEW ch, NEW cs, NEW rf,
         Chaining(w, n, rd, ob, ds, hs, ch, cs, rf), Childless(w, n, ob, cs),
         NEW in, in = Inside(w, n)
  PROVE  IsFull(w, n, ch, cs, in)
<1> DEFINE S == Stack(w, n)
<1>1. /\ n \in 0 .. Size(w) - 1 /\ cs \in Seq(Seq(FieldType)) /\ ch # <<>> /\ ChainsOK(w, n, ch, cs)
      /\ ChildrenOK(w, n, ob) /\ w.text[n + 1].is = "close"
  BY DEF Chaining
<1>2. PICK l, k : l = Len(S) /\ k = Len(cs)
  OBVIOUS
<1>3. Closing(w, n, in, l)
  BY <1>1, <1>2, JClosing
<1>4. k \in Nat
  BY <1>1, <1>2, JSeq
<1>5. /\ InHandOK(w, n, ch)
      /\ \A c \in 1 .. k : ChainOK(w, n, cs[c]) /\ Reach(w, cs[c]) <= Rest(w, n, ch)
      /\ \A b, c \in 1 .. k : b < c => HeadOf(cs[b]) < HeadOf(cs[c])
      /\ \A c \in 1 .. k : \A d \in 1 .. l :
           HeadOf(cs[c]) < S[d].open => Reach(w, cs[c]) <= Count(w, S[d].open - 1)
      /\ \A x \in 1 .. Count(w, n) : Covered(w, n, ch, cs, x)
  BY <1>1, <1>2 DEF ChainsOK
<1>6. n \in 0 .. Size(w) /\ l \in 1 .. l /\ S[l].open = in /\ in \in Nat
  BY <1>3 DEF Closing
<1>7. ASSUME NEW c \in 1 .. k
      PROVE  HeadOf(cs[c]) < in /\ HeadOf(cs[c]) \in Nat /\ Reach(w, cs[c]) <= Count(w, in - 1) /\ Reach(w, cs[c]) \in Nat
  <2>1. PICK q, h : q = cs[c] /\ h = HeadOf(q)
    OBVIOUS
  <2>2. ChainOK(w, n, q)
    BY <1>5, <2>1
  <2>3. h \in 1 .. n /\ Reach(w, q) \in Nat
    BY <1>6, <2>1, <2>2, JChainFacts
  <2>4. h < in
    <3>1. PICK z, g : z = cs[k] /\ g = HeadOf(z)
      OBVIOUS
    <3>2. k \in 1 .. k /\ cs # <<>> /\ z = Last(cs)
      BY <1>1, <1>2, <1>4, <3>1, JSeq
    <3>3. ChainOK(w, n, z) /\ ~Begets(w, n, ob, z)
      BY <1>5, <3>1, <3>2 DEF Childless
    <3>4. g < in
      BY <1>1, <3>1, <3>3, JParent
    <3>5. c = k \/ c < k
      BY <1>4
    <3>6. CASE c = k
      BY <2>1, <3>1, <3>4, <3>6
    <3>7. CASE c < k
      <4>1. h < g
        BY <1>5, <2>1, <3>1, <3>2, <3>7
      <4>2. g \in 1 .. n
        BY <1>6, <3>1, <3>3, JChainFacts
      <4> QED  BY <1>6, <2>3, <3>4, <4>1, <4>2
    <3> QED  BY <3>5, <3>6, <3>7
  <2>5. h \in Nat
    BY <2>3, <1>3 DEF Closing
  <2>6. Reach(w, q) <= Count(w, in - 1)
    BY <1>5, <1>6, <2>1, <2>4
  <2> QED  BY <2>1, <2>3, <2>4, <2>5, <2>6
<1>8. Len(ch) \in Nat /\ Len(ch) >= 1
  <2>1. ch \in Seq(FieldType)
    BY <1>5 DEF InHandOK
  <2> QED  BY <1>1, <2>1, JSeq
<1>9. Rest(w, n, ch) = Count(w, n) - (Len(ch) - 1)
  BY <1>1 DEF Rest
<1>10. Rest(w, n, ch) = Count(w, in)
  <2>1. PICK R, C, D, N : R = Rest(w, n, ch) /\ C = Count(w, in) /\ D = Count(w, in - 1) /\ N = Count(w, n)
    OBVIOUS
  <2>2. C \in Nat /\ D \in Nat /\ N \in Nat /\ C = D + 1 /\ C <= N
    BY <1>3, <2>1 DEF Closing
  <2>3. R \in Int /\ R <= N
    BY <1>8, <1>9, <2>1, <2>2
  <2>4. R >= C
    BY <1>1, <1>5, <2>1 DEF InHandOK
  <2>5. ASSUME R # C PROVE FALSE
    <3>1. PICK x : x = C + 1
      OBVIOUS
    <3>2. x \in 1 .. N /\ x <= R /\ x > C
      BY <2>2, <2>3, <2>4, <2>5, <3>1
    <3>3. \/ \E d \in 1 .. l : Count(w, S[d].open) = x
          \/ \E c \in 1 .. k : x <= Reach(w, cs[c])
          \/ x > R
      BY <1>2, <1>5, <2>1, <3>2 DEF Covered
    <3>4. CASE \E d \in 1 .. l : Count(w, S[d].open) = x
      <4>1. PICK d \in 1 .. l : Count(w, S[d].open) = x
        BY <3>4
      <4>2. PICK p : p = S[d].open
        OBVIOUS
      <4>3. p \in 1 .. n /\ p <= in /\ in \in 1 .. n
        BY <1>3, <4>2 DEF Closing
      <4>4. p \in 0 .. in /\ in \in 0 .. Size(w)
        <5>1. n \in Nat /\ Size(w) \in Nat
          BY <1>1, JNext
        <5> QED  BY <5>1, <1>6, <4>3
      <4>5. Count(w, p) <= Count(w, in)
        BY <4>4, JCounts
      <4> QED  BY <2>1, <2>2, <3>2, <4>1, <4>2, <4>5
    <3>5. CASE \E c \in 1 .. k : x <= Reach(w, cs[c])
      <4>1. PICK c \in 1 .. k : x <= Reach(w, cs[c])
        BY <3>5
      <4>2. PICK y : y = Reach(w, cs[c])
        OBVIOUS
      <4>3. y \in Nat /\ y <= D /\ x <= y
        BY <1>7, <2>1, <4>1, <4>2
      <4> QED  BY <2>2, <3>1, <4>3
    <3>6. CASE x > R
      BY <2>2, <2>3, <3>1, <3>2, <3>6
    <3> QED  BY <3>3, <3>4, <3>5, <3>6
  <2> QED  BY <2>1, <2>5
<1> QED  BY <1>2, <1>4, <1>7, <1>8, <1>9, <1>10 DEF IsFull

\* The chain in hand when it is done: all that was opened since its head
IsDone(w, n, ch, in) ==
  /\ ch \in Seq(FieldType) /\ ch[1] = Link(w, in) /\ HeadOf(ch) = in
  /\ Reach(w, ch) = Count(w, n)
  /\ \A x \in 1 .. Len(ch) : OpenedAs(w, n + 1, ch[x], Count(w, in) + x - 1)

\* Then it is what the chain of a finished object must be.
LEMMA JDone ==
  ASSUME NEW w, Written(w), NEW n, NEW cs, NEW ch, NEW in, NEW l, Closing(w, n, in, l), IsFull(w, n, ch, cs, in),
         ch # <<>>, InHandOK(w, n, ch)
  PROVE  IsDone(w, n, ch, in)
<1>1. PICK k, C, N, R : k = Len(ch) /\ C = Count(w, in) /\ N = Count(w, n) /\ R = Rest(w, n, ch)
  OBVIOUS
<1>2. k \in Nat /\ k >= 1 /\ C \in Nat /\ N \in Nat /\ R = C /\ R = N - (k - 1)
  BY <1>1 DEF Closing, IsFull
<1>3. /\ ch \in Seq(FieldType) /\ ch[1] = Link(w, in)
      /\ \A x \in 2 .. k : OpenedAs(w, n, ch[x], R + x - 1)
  BY <1>1 DEF Closing, InHandOK
<1>4. n \in 0 .. Size(w) /\ n \in Nat /\ in \in Places(w, n) /\ in \in 1 .. n /\ IsOpen(w, in)
  BY DEF Closing
<1>5. Link(w, in).v.v = in
  BY <1>4, JKeys
<1>6. HeadOf(ch) = in
  BY <1>3, <1>5 DEF HeadOf
<1>7. Reach(w, ch) = N
  <2>1. Reach(w, ch) = C + k - 1
    BY <1>1, <1>6 DEF Reach
  <2>2. C + k - 1 = N
    BY <1>2
  <2> QED  BY <2>1, <2>2
<1>8. ASSUME NEW x \in 1 .. k PROVE OpenedAs(w, n + 1, ch[x], C + x - 1)
  <2>1. CASE x = 1
    <3>1. in \in 1 .. n + 1
      BY <1>4
    <3>2. C + x - 1 = C
      BY <1>2, <2>1
    <3>3. OpenedAs(w, n + 1, ch[1], C)
      BY <3>1, <1>1, <1>3, <1>4, <1>5 DEF OpenedAs
    <3> QED  BY <3>2, <3>3, <2>1
  <2>2. CASE x # 1
    <3>1. x \in 2 .. k
      BY <2>2, <1>2
    <3>2. OpenedAs(w, n, ch[x], R + x - 1)
      BY <3>1, <1>3
    <3>3. PICK y, f : y = R + x - 1 /\ f = ch[x]
      OBVIOUS
    <3>4. OpenedAs(w, n + 1, f, y)
      BY <3>2, <3>3, <1>4, JOpenedAsStep
    <3> QED  BY <3>3, <3>4, <1>2
  <2> QED  BY <2>1, <2>2
<1> QED  BY <1>1, <1>3, <1>6, <1>7, <1>8 DEF IsDone

\* A chain whose head is before the closed object is one still.
LEMMA JChainKept ==
  ASSUME NEW w, Written(w), NEW n, NEW in, NEW l, Closing(w, n, in, l), NEW q, ChainOK(w, n, q), HeadOf(q) < in
  PROVE  ChainOK(w, n + 1, q)
<1> DEFINE S == Stack(w, n)
           T == Stack(w, n + 1)
<1>1. PICK h, m : h = HeadOf(q) /\ m = n + 1
  OBVIOUS
<1>2. /\ q \in Seq(FieldType) /\ q # <<>>
      /\ h \in Places(w, n) /\ q[1] = Link(w, h)
      /\ IF IsOpen(w, h) THEN \A x \in 1 .. Len(q) : OpenedAs(w, n, q[x], Count(w, h) + x - 1) ELSE Len(q) = 1
      /\ h > 1 /\ \E d \in 1 .. Len(S) :
                /\ Parent(w, h) = S[d].open /\ h > S[d].open
                /\ d < Len(S) => h < S[d + 1].open
  BY <1>1 DEF ChainOK
<1>3. /\ l \in Nat /\ l >= 1 /\ l = Len(S) /\ Len(T) = l - 1 /\ in = S[l].open /\ n \in Nat /\ in \in 1 .. n
      /\ \A d \in 1 .. l - 1 : d \in 1 .. l /\ T[d] = S[d] /\ S[d].open < in
      /\ Places(w, n + 1) = Places(w, n)
  BY DEF Closing
<1>4. PICK d \in 1 .. l : Parent(w, h) = S[d].open /\ h > S[d].open /\ (d < l => h < S[d + 1].open)
  BY <1>2, <1>3
<1>5. h \in Nat /\ in \in Nat
  <2>1. Places(w, n) \subseteq Nat
    BY <1>3 DEF Places
  <2> QED  BY <2>1, <1>2, <1>3
<1>6. d # l
  BY <1>1, <1>3, <1>4, <1>5
<1>7. d \in 1 .. l - 1
  BY <1>3, <1>6
<1>8. d < Len(T) => h < T[d + 1].open
  <2>1. PICK e : e = d + 1
    OBVIOUS
  <2>2. ASSUME d < Len(T) PROVE e \in 1 .. l - 1 /\ d < l
    BY <2>1, <2>2, <1>3, <1>7
  <2> QED  BY <2>1, <2>2, <1>3, <1>4
<1>9. \E e \in 1 .. Len(T) : /\ Parent(w, h) = T[e].open /\ h > T[e].open
                             /\ e < Len(T) => h < T[e + 1].open
  <2>1. T[d] = S[d]
    BY <1>3, <1>7
  <2>2. Parent(w, h) = T[d].open /\ h > T[d].open
    BY <2>1, <1>4
  <2> QED  BY <2>2, <1>3, <1>7, <1>8
<1>10. ASSUME NEW x \in 1 .. Len(q), IsOpen(w, h) PROVE OpenedAs(w, m, q[x], Count(w, h) + x - 1)
  <2>1. PICK y, f : y = Count(w, h) + x - 1 /\ f = q[x]
    OBVIOUS
  <2>2. OpenedAs(w, n, f, y)
    BY <1>2, <1>10, <2>1
  <2> QED  BY <2>1, <2>2, <1>1, <1>3, JOpenedAsStep
<1> QED  BY <1>1, <1>2, <1>3, <1>9, <1>10 DEF ChainOK

\* The chain that is done is one of the chains.
LEMMA JChainPushed ==
  ASSUME NEW w, Written(w), NEW n, NEW in, NEW l, Closing(w, n, in, l), NEW ch, ch # <<>>, IsDone(w, n, ch, in), in # 1
  PROVE  ChainOK(w, n + 1, ch)
<1> DEFINE S == Stack(w, n)
           T == Stack(w, n + 1)
<1>1. /\ l \in Nat /\ l >= 1 /\ l = Len(S) /\ Len(T) = l - 1 /\ in = S[l].open /\ n \in Nat /\ in \in 1 .. n
      /\ \A d \in 1 .. l - 1 : d \in 1 .. l /\ T[d] = S[d] /\ S[d].open < in
      /\ Places(w, n + 1) = Places(w, n) /\ n \in 0 .. Size(w) /\ in \in Places(w, n) /\ IsOpen(w, in)
  BY DEF Closing
<1>2. \A d \in 1 .. l : IF d = 1 THEN S[d].open = 1 ELSE Parent(w, S[d].open) = S[d - 1].open
  BY <1>1, JStack
<1>3. l # 1 /\ l \in 1 .. l
  BY <1>1, <1>2
<1>4. Parent(w, in) = S[l - 1].open
  BY <1>1, <1>2, <1>3
<1>5. PICK d : d = l - 1
  OBVIOUS
<1>6. d \in 1 .. l - 1 /\ d \in 1 .. Len(T) /\ ~(d < Len(T))
  BY <1>1, <1>3, <1>5
<1>7. T[d] = S[d] /\ S[d].open < in /\ S[d].open \in 1 .. n
  BY <1>1, <1>6, JStack
<1>8. Parent(w, in) = T[d].open /\ in > T[d].open
  BY <1>1, <1>4, <1>5, <1>7
<1>9. in > 1
  BY <1>1
<1>10. PICK m : m = n + 1
  OBVIOUS
<1>11. /\ ch \in Seq(FieldType) /\ ch[1] = Link(w, in) /\ HeadOf(ch) = in
       /\ \A x \in 1 .. Len(ch) : OpenedAs(w, m, ch[x], Count(w, in) + x - 1)
  BY <1>10 DEF IsDone
<1>12. \E e \in 1 .. Len(T) : /\ Parent(w, in) = T[e].open /\ in > T[e].open
                              /\ e < Len(T) => in < T[e + 1].open
  BY <1>6, <1>8
<1> QED  BY <1>1, <1>9, <1>10, <1>11, <1>12 DEF ChainOK

\* cs2 is cs and behind it ch
Pushed(cs, ch, k, cs2) ==
  /\ cs2 \in Seq(Seq(FieldType)) /\ k \in Nat /\ Len(cs2) = k + 1 /\ cs2[k + 1] = ch
  /\ \A c \in 1 .. k : c \in 1 .. k + 1 /\ cs2[c] = cs[c]
  /\ \A c \in 1 .. k + 1 : c = k + 1 \/ c \in 1 .. k

\* The chain in hand becomes the last of the chains.
LEMMA JPushed ==
  ASSUME NEW cs \in Seq(Seq(FieldType)), NEW ch \in Seq(FieldType), NEW k, k = Len(cs), NEW cs2, cs2 = Append(cs, ch)
  PROVE  Pushed(cs, ch, k, cs2)
<1>1. PICK S : S = Seq(FieldType)
  OBVIOUS
<1>2. cs \in Seq(S) /\ ch \in S /\ k \in Nat
  BY <1>1, JSeq
<1>3. cs2 \in Seq(S) /\ Len(cs2) = k + 1 /\ cs2[k + 1] = ch /\ \A c \in 1 .. k : cs2[c] = cs[c]
  BY <1>2, JSeqAppend
<1>4. /\ \A c \in 1 .. k : c \in 1 .. k + 1
      /\ \A c \in 1 .. k + 1 : c = k + 1 \/ c \in 1 .. k
  BY <1>2
<1> QED  BY <1>1, <1>2, <1>3, <1>4 DEF Pushed

\* The chains when a chain that is done is pushed.
LEMMA JChainsPushed ==
  ASSUME NEW w, Written(w), NEW n, NEW in, in # 1, NEW l, Closing(w, n, in, l),
         NEW cs, cs \in Seq(Seq(FieldType)), NEW ch, ch # <<>>, ChainsOK(w, n, ch, cs),
         IsFull(w, n, ch, cs, in), IsDone(w, n, ch, in), NEW cs2, cs2 = Append(cs, ch)
  PROVE  ChainsOK(w, n + 1, <<>>, cs2)
<1> DEFINE S == Stack(w, n)
           T == Stack(w, n + 1)
<1>1. PICK k, m, N, D, C : /\ k = Len(cs) /\ m = n + 1 /\ N = Count(w, n) /\ D = Count(w, in - 1) /\ C = Count(w, in)
  OBVIOUS
<1>2. Pushed(cs, ch, k, cs2)
  BY <1>1, JPushed DEF IsDone
<1>3. /\ cs2 \in Seq(Seq(FieldType)) /\ k \in Nat /\ Len(cs2) = k + 1 /\ cs2[k + 1] = ch
      /\ \A c \in 1 .. k : c \in 1 .. k + 1 /\ cs2[c] = cs[c]
      /\ \A c \in 1 .. k + 1 : c = k + 1 \/ c \in 1 .. k
  BY <1>2 DEF Pushed
<1>4. /\ HeadOf(ch) = in /\ Reach(w, ch) = N
  BY <1>1 DEF IsDone
<1>5. /\ n \in Nat /\ l \in Nat /\ l >= 1 /\ l = Len(S) /\ in = S[l].open /\ in \in 1 .. n /\ l \in 1 .. l
      /\ Len(T) = l - 1
      /\ \A d \in 1 .. l - 1 : d \in 1 .. l /\ T[d] = S[d] /\ S[d].open < in
      /\ \A d \in 1 .. l : S[d].open \in 1 .. n /\ S[d].open <= in
      /\ Places(w, m) = Places(w, n)
      /\ N \in Nat /\ Count(w, m) = N /\ C \in Nat /\ D \in Nat /\ C = D + 1 /\ C <= N
  BY <1>1 DEF Closing
<1>6. /\ \A c \in 1 .. k : HeadOf(cs[c]) < in /\ HeadOf(cs[c]) \in Nat /\ Reach(w, cs[c]) <= D /\ Reach(w, cs[c]) \in Nat
      /\ Rest(w, n, ch) = C
  BY <1>1 DEF IsFull
<1>7. Rest(w, m, <<>>) = N
  BY <1>5 DEF Rest
<1>8. /\ \A c \in 1 .. k : ChainOK(w, n, cs[c])
      /\ \A b, c \in 1 .. k :
           b < c => HeadOf(cs[b]) < HeadOf(cs[c]) /\ Reach(w, cs[b]) <= Count(w, HeadOf(cs[c]) - 1)
      /\ \A c \in 1 .. k : \A d \in 1 .. l :
           HeadOf(cs[c]) < S[d].open => Reach(w, cs[c]) <= Count(w, S[d].open - 1)
      /\ \A x \in 1 .. N : Covered(w, n, ch, cs, x)
  BY <1>1, <1>5 DEF ChainsOK
<1>9. InHandOK(w, m, <<>>)
  BY DEF InHandOK
<1>10. ASSUME NEW c \in 1 .. k + 1 PROVE ChainOK(w, m, cs2[c]) /\ Reach(w, cs2[c]) <= N
  <2>1. CASE c = k + 1
    <3>1. ChainOK(w, m, ch)
      BY <1>1, JChainPushed
    <3> QED  BY <2>1, <3>1, <1>3, <1>4, <1>5
  <2>2. CASE c \in 1 .. k
    <3>1. PICK q : q = cs[c]
      OBVIOUS
    <3>2. ChainOK(w, n, q) /\ HeadOf(q) < in
      BY <2>2, <3>1, <1>6, <1>8
    <3>3. ChainOK(w, m, q)
      BY <3>2, <1>1, JChainKept
    <3>4. Reach(w, q) <= N
      <4>1. Reach(w, q) \in Nat /\ Reach(w, q) <= D
        BY <2>2, <3>1, <1>6
      <4> QED  BY <4>1, <1>5
    <3> QED  BY <2>2, <3>1, <3>3, <3>4, <1>3
  <2> QED  BY <2>1, <2>2, <1>3
<1>11. ASSUME NEW b \in 1 .. k + 1, NEW c \in 1 .. k + 1, b < c
       PROVE  HeadOf(cs2[b]) < HeadOf(cs2[c]) /\ Reach(w, cs2[b]) <= Count(w, HeadOf(cs2[c]) - 1)
  <2>1. b \in 1 .. k
    BY <1>3, <1>11
  <2>2. CASE c \in 1 .. k
    BY <2>1, <2>2, <1>3, <1>8, <1>11
  <2>3. CASE c = k + 1
    <3>1. HeadOf(cs[b]) < in /\ Reach(w, cs[b]) <= D
      BY <2>1, <1>6
    <3> QED  BY <2>1, <2>3, <3>1, <1>1, <1>3, <1>4
  <2> QED  BY <2>2, <2>3, <1>3
<1>12. ASSUME NEW c \in 1 .. k + 1, NEW d \in 1 .. l - 1, HeadOf(cs2[c]) < T[d].open
       PROVE  Reach(w, cs2[c]) <= Count(w, T[d].open - 1)
  <2>1. d \in 1 .. l /\ T[d] = S[d] /\ S[d].open < in /\ S[d].open \in 1 .. n
    BY <1>5
  <2>2. c # k + 1
    <3>1. SUFFICES ASSUME c = k + 1 PROVE FALSE
      OBVIOUS
    <3>2. in < S[d].open
      BY <2>1, <3>1, <1>3, <1>4, <1>12
    <3> QED  BY <2>1, <3>2, <1>5
  <2>3. c \in 1 .. k /\ cs2[c] = cs[c]
    BY <2>2, <1>3
  <2> QED  BY <2>1, <2>3, <1>8, <1>12
<1>13. ASSUME NEW x \in 1 .. N PROVE Covered(w, m, <<>>, cs2, x)
  <2>1. \/ \E d \in 1 .. l : Count(w, S[d].open) = x
        \/ \E c \in 1 .. k : Count(w, HeadOf(cs[c]) - 1) < x /\ x <= Reach(w, cs[c])
        \/ x > C
    BY <1>1, <1>5, <1>6, <1>8 DEF Covered
  <2>2. ASSUME x >= C PROVE \E c \in 1 .. Len(cs2) : Count(w, HeadOf(cs2[c]) - 1) < x /\ x <= Reach(w, cs2[c])
    <3>1. k + 1 \in 1 .. k + 1 /\ D < x /\ x <= N
      BY <2>2, <1>3, <1>5
    <3>2. HeadOf(cs2[k + 1]) = in /\ Reach(w, cs2[k + 1]) = N
      BY <1>3, <1>4
    <3>3. Count(w, HeadOf(cs2[k + 1]) - 1) < x /\ x <= Reach(w, cs2[k + 1])
      BY <3>1, <3>2, <1>1
    <3> QED  BY <3>1, <3>3, <1>3
  <2>3. CASE \E d \in 1 .. l : Count(w, S[d].open) = x
    <3>1. PICK d \in 1 .. l : Count(w, S[d].open) = x
      BY <2>3
    <3>2. CASE d = l
      <4>1. x = C
        BY <3>1, <3>2, <1>1, <1>5
      <4>2. x >= C
        BY <4>1, <1>5
      <4> QED  BY <4>2, <2>2 DEF Covered
    <3>3. CASE d # l
      <4>1. d \in 1 .. l - 1
        BY <3>3, <1>5
      <4>2. d \in 1 .. Len(T) /\ T[d] = S[d]
        BY <4>1, <1>5
      <4>3. Count(w, Stack(w, m)[d].open) = x /\ d \in 1 .. Len(Stack(w, m))
        BY <3>1, <4>2, <1>1
      <4> QED  BY <4>3 DEF Covered
    <3> QED  BY <3>2, <3>3
  <2>4. CASE \E c \in 1 .. k : Count(w, HeadOf(cs[c]) - 1) < x /\ x <= Reach(w, cs[c])
    <3>1. PICK c \in 1 .. k : Count(w, HeadOf(cs[c]) - 1) < x /\ x <= Reach(w, cs[c])
      BY <2>4
    <3>2. c \in 1 .. Len(cs2) /\ cs2[c] = cs[c]
      BY <1>3
    <3> QED  BY <3>1, <3>2 DEF Covered
  <2>5. CASE x > C
    <3>1. x >= C
      BY <2>5, <1>5
    <3> QED  BY <3>1, <2>2 DEF Covered
  <2> QED  BY <2>1, <2>3, <2>4, <2>5
<1>14. ChainsOK(w, m, <<>>, cs2)
  <2>1. \A c \in 1 .. Len(cs2) : ChainOK(w, m, cs2[c]) /\ Reach(w, cs2[c]) <= Rest(w, m, <<>>)
    BY <1>3, <1>7, <1>10
  <2>2. \A b, c \in 1 .. Len(cs2) :
          b < c => HeadOf(cs2[b]) < HeadOf(cs2[c]) /\ Reach(w, cs2[b]) <= Count(w, HeadOf(cs2[c]) - 1)
    BY <1>3, <1>11
  <2>3. \A c \in 1 .. Len(cs2) : \A d \in 1 .. Len(Stack(w, m)) :
          HeadOf(cs2[c]) < Stack(w, m)[d].open => Reach(w, cs2[c]) <= Count(w, Stack(w, m)[d].open - 1)
    BY <1>1, <1>3, <1>5, <1>12
  <2>4. \A x \in 1 .. Count(w, m) : Covered(w, m, <<>>, cs2, x)
    BY <1>5, <1>13
  <2> QED  BY <2>1, <2>2, <2>3, <2>4, <1>9 DEF ChainsOK
<1> QED  BY <1>1, <1>14

\* The parser is done with an object other than the root.
LEMMA JPushes ==
  ASSUME NEW w, Written(w), Stack(w, Size(w)) = <<>>,
         NEW n, NEW rd, NEW ob, NEW ds, NEW hs, NEW ch, NEW cs, NEW rf,
         Chaining(w, n, rd, ob, ds, hs, ch, cs, rf), Childless(w, n, ob, cs), Inside(w, n) # 1,
         NEW rd2, rd2 = Front(rd), NEW cs2, cs2 = Append(cs, ch)
  PROVE  ReadingOK(w, n + 1, rd2, ob, ds, hs, <<>>, cs2, rf)
<1> DEFINE S == Stack(w, n)
           T == Stack(w, n + 1)
<1>1. /\ n \in 0 .. Size(w) - 1 /\ rd = Path(w, n)
      /\ ObjectsOK(w, n, TRUE, ob) /\ ChildrenOK(w, n, ob) /\ ListsOK(w, n, TRUE, ob, ds, hs)
      /\ cs \in Seq(Seq(FieldType)) /\ ch # <<>>
      /\ ChainsOK(w, n, ch, cs) /\ RefsOK(w, n, cs, rf)
      /\ w.text[n + 1].is = "close"
  BY DEF Chaining
<1>2. PICK in, l, m, k : in = Inside(w, n) /\ l = Len(S) /\ m = n + 1 /\ k = Len(cs)
  OBVIOUS
<1>3. Closing(w, n, in, l) /\ in # 1
  BY <1>1, <1>2, JClosing
<1>4. IsFull(w, n, ch, cs, in)
  BY <1>2, JFull
<1>5. IsDone(w, n, ch, in)
  BY <1>1, <1>3, <1>4, JDone DEF ChainsOK
<1>6. ChainsOK(w, m, <<>>, cs2)
  BY <1>1, <1>2, <1>3, <1>4, <1>5, JChainsPushed
<1>7. Pushed(cs, ch, k, cs2)
  BY <1>1, <1>2, <1>5, JPushed DEF IsDone
<1>8. /\ n \in Nat /\ l \in Nat /\ l >= 1 /\ l = Len(S) /\ in = S[l].open /\ in \in 1 .. n /\ l \in 1 .. l
      /\ n \in 0 .. Size(w) /\ m \in 0 .. Size(w)
      /\ Len(T) = l - 1
      /\ \A d \in 1 .. l - 1 : d \in 1 .. l /\ T[d] = S[d] /\ S[d].open < in
      /\ Places(w, m) = Places(w, n)
  BY <1>2, <1>3 DEF Closing
<1>9. l # 1
  <2>1. \A d \in 1 .. l : IF d = 1 THEN S[d].open = 1 ELSE Parent(w, S[d].open) = S[d - 1].open
    BY <1>8, JStack
  <2> QED  BY <2>1, <1>3, <1>8
<1>10. l >= 2 /\ l - 1 \in 1 .. l - 1
  BY <1>8, <1>9
<1>11. m \in 0 .. Size(w) - 1 /\ T # <<>>
  <2>1. Size(w) \in Nat
    BY <1>1, JNext
  <2>2. T # <<>>
    <3>1. Len(Stack(w, m)) > 0
      BY <1>2, <1>8, <1>10
    <3> QED  BY <3>1, <1>2, <1>8, JStack
  <2>3. m # Size(w)
    BY <2>2, <1>2
  <2> QED  BY <2>1, <2>2, <2>3, <1>8
<1>12. rd2 = Path(w, m)
  BY <1>1, <1>2, JPath
<1>13. \A p \in Places(w, m) : IsOpen(w, p) => (IsRevived(w, m, FALSE, p) <=> IsRevived(w, n, TRUE, p))
  <2> SUFFICES ASSUME NEW p \in Places(w, m), IsOpen(w, p)
               PROVE  IsRevived(w, m, FALSE, p) <=> IsRevived(w, n, TRUE, p)
    OBVIOUS
  <2>1. p # m
    <3>1. m \notin Places(w, n)
      BY <1>1, <1>2, JNext
    <3> QED  BY <3>1, <1>8
  <2>2. OnPath(w, m, p) <=> OnPath(w, n, p) /\ ~(p = Inside(w, n))
    BY <2>1, <1>1, <1>2, JUpto
  <2>3. OnPath(w, m, p) \in BOOLEAN /\ OnPath(w, n, p) \in BOOLEAN
    BY DEF OnPath
  <2> QED  BY <2>2, <2>3 DEF IsRevived
<1>14. /\ \A inHand : ~Gone(w, n, inHand)
       /\ ~Gone(w, m, FALSE)
  BY <1>8, <1>9 DEF Gone
<1>15. Gone(w, n, TRUE) = FALSE /\ Gone(w, m, FALSE) = FALSE
  <2>1. Gone(w, n, TRUE) \in BOOLEAN /\ Gone(w, m, FALSE) \in BOOLEAN
    BY DEF Gone
  <2> QED  BY <1>14, <2>1
<1>16. ObjectsOK(w, m, FALSE, ob)
  <2>1. DOMAIN ob = Places(w, m)
    BY <1>1, <1>8 DEF ObjectsOK
  <2>2. ASSUME NEW p \in Places(w, m), IsOpen(w, p), NEW j \in Nat, Upto(w, m, p, j)
        PROVE  ObjectOK(w, ob[p], p, j, IsRevived(w, m, FALSE, p), Gone(w, m, FALSE))
    <3>1. p # m
      <4>1. m \notin Places(w, n)
        BY <1>1, <1>2, JNext
      <4> QED  BY <4>1, <1>8
    <3>2. Upto(w, n, p, j)
      BY <2>2, <3>1, <1>1, <1>2, JUpto
    <3>3. ObjectOK(w, ob[p], p, j, IsRevived(w, n, TRUE, p), Gone(w, n, TRUE))
      BY <2>2, <3>2, <1>1, <1>8 DEF ObjectsOK
    <3>4. IsRevived(w, m, FALSE, p) = IsRevived(w, n, TRUE, p)
      <4>1. IsRevived(w, m, FALSE, p) \in BOOLEAN /\ IsRevived(w, n, TRUE, p) \in BOOLEAN
        BY DEF IsRevived
      <4>2. IsRevived(w, m, FALSE, p) <=> IsRevived(w, n, TRUE, p)
        BY <2>2, <1>13
      <4>3. CASE IsRevived(w, m, FALSE, p)
        <5>1. IsRevived(w, m, FALSE, p) = TRUE /\ IsRevived(w, n, TRUE, p) = TRUE
          BY <4>1, <4>2, <4>3
        <5> QED  BY <5>1
      <4>4. CASE ~IsRevived(w, m, FALSE, p)
        <5>1. IsRevived(w, m, FALSE, p) = FALSE /\ IsRevived(w, n, TRUE, p) = FALSE
          BY <4>1, <4>2, <4>4
        <5> QED  BY <5>1
      <4> QED  BY <4>3, <4>4
    <3> QED  BY <3>3, <3>4, <1>15
  <2>3. \A p \in Places(w, m) : ~IsOpen(w, p) => ob[p] = Reference(w.text[p].id)
    BY <1>1, <1>8 DEF ObjectsOK
  <2> QED  BY <2>1, <2>2, <2>3 DEF ObjectsOK
<1>17. ChildrenOK(w, m, ob)
  BY <1>1, <1>8 DEF ChildrenOK, ChildOK
<1>18. ListsOK(w, m, FALSE, ob, ds, hs)
  <2>1. \A d \in 1 .. l - 1 : S[d].at <= Width(w, S[d].of) + 1
    BY <1>1, <1>8 DEF ListsOK
  <2>2. ASSUME NEW p \in Places(w, m), IsRevived(w, m, FALSE, p), ob[p].dates # {} PROVE p \in hs
    <3>1. CASE IsOpen(w, p)
      BY <2>2, <3>1, <1>1, <1>8, <1>13, <1>14 DEF ListsOK
    <3>2. CASE ~IsOpen(w, p)
      <4>1. ob[p] = Reference(w.text[p].id)
        BY <3>2, <1>1, <1>8 DEF ObjectsOK
      <4> QED  BY <2>2, <4>1 DEF Reference
    <3> QED  BY <3>1, <3>2
  <2>3. PICK e : e = l - 1
    OBVIOUS
  <2>4. Last(T) = S[e] /\ e \in 1 .. l - 1
    <3>1. Last(T) = T[e]
      BY <2>3, <1>8 DEF Last
    <3> QED  BY <2>3, <3>1, <1>8, <1>10
  <2>5. Last(T).at # Width(w, Last(T).of) + 2
    <3>1. PICK a, b : a = S[e].at /\ b = Width(w, S[e].of)
      OBVIOUS
    <3>2. a \in Nat /\ b \in Nat
      <4>1. S[e].at \in Nat /\ S[e].of \in DOMAIN w.given
        BY <2>4, <1>8, JStack
      <4>2. IsGraph(w.given)
        BY <1>1, JNext
      <4> QED  BY <3>1, <4>1, <4>2, JEncoded
    <3>3. a <= b + 1
      BY <2>1, <2>4, <3>1
    <3>4. a # b + 2
      BY <3>2, <3>3
    <3> QED  BY <3>1, <3>4, <2>4
  <2>6. \A d \in 1 .. Len(T) - 1 : T[d].at <= Width(w, T[d].of) + 1
    <3>1. \A d \in 1 .. Len(T) - 1 : d \in 1 .. l - 1
      BY <1>8
    <3> QED  BY <3>1, <2>1, <1>8
  <2>7. PICK U : U = T
    OBVIOUS
  <2>8. /\ Stack(w, m) = U /\ Last(U).at # Width(w, Last(U).of) + 2
        /\ \A d \in 1 .. Len(U) - 1 : U[d].at <= Width(w, U[d].of) + 1
    BY <2>5, <2>6, <2>7, <1>2
  <2> QED  BY <2>2, <2>8 DEF ListsOK
<1>19. RefsOK(w, m, cs2, rf)
  <2>1. k \in Nat /\ Len(cs2) = k + 1 /\ \A c \in 1 .. k : c \in 1 .. k + 1 /\ cs2[c] = cs[c]
    BY <1>7 DEF Pushed
  <2>2. \A p : (\E c \in 1 .. Len(cs) : HeadOf(cs[c]) = p) => \E c \in 1 .. Len(cs2) : HeadOf(cs2[c]) = p
    BY <2>1, <1>2
  <2> QED  BY <2>2, <1>1, <1>8 DEF RefsOK
<1>20. cs2 \in Seq(Seq(FieldType))
  BY <1>7 DEF Pushed
<1>21. (<<>> # <<>>) = FALSE
  OBVIOUS
<1>22. ReadingOK(w, m, rd2, ob, ds, hs, <<>>, cs2, rf)
  BY <1>6, <1>11, <1>12, <1>16, <1>17, <1>18, <1>19, <1>20, <1>21 DEF ReadingOK
<1> QED  BY <1>2, <1>22

\* A field of an object that is read is an object where it was one.
ObjectField(w, i, m, f) ==
  /\ f.k = Enc(w, i).own[m].k
  /\ f.v.is = "object" <=> Enc(w, i).own[m].v.is = "object"

\* A property that was read refers to an object exactly if the one that was written does.
LEMMA JObjectField ==
  ASSUME NEW w, NEW i, NEW m, NEW f, NEW b, FieldOK(w, i, m, f, b)
  PROVE  ObjectField(w, i, m, f)
<1>1. PICK v : v = Enc(w, i).own[m].v
  OBVIOUS
<1>2. f.k = Enc(w, i).own[m].k /\ IF v.is = "object" THEN f.v.is = "object" ELSE f.v = ValueOf(w, i, m, b)
  BY <1>1 DEF FieldOK
<1>3. v.is # "object" => ValueOf(w, i, m, b).is # "object"
  <2>1. ValueOf(w, i, m, b) = v \/ ValueOf(w, i, m, b) = Date(v.v)
    BY <1>1 DEF ValueOf
  <2>2. Date(v.v).is = "date"
    BY DEF Date
  <2> QED  BY <2>1, <2>2
<1> QED  BY <1>1, <1>2, <1>3 DEF ObjectField

\* A reference in an object that is read stands for what the property was.
LEMMA JRefOK ==
  ASSUME NEW w, Written(w), NEW n \in 0 .. Size(w), Places(w, n) = Places(w, Size(w)), NEW ob, ChildrenOK(w, n, ob),
         \A p \in Places(w, n) : IsOpen(w, p) => ObjectOK(w, ob[p], p, End(w, Of(w, p)), TRUE, TRUE),
         NEW p \in Places(w, n), ~IsOpen(w, p), NEW r, r = RefOf(w, p)
  PROVE  RefOK(w, r)
<1>1. PICK z, i : z = Parent(w, p) /\ i = Of(w, z)
  OBVIOUS
<1>2. /\ r.parent = z /\ r.key = w.text[p].k /\ r.id = w.text[p].id
  BY <1>1 DEF RefOf
<1>3. /\ p \in 1 .. n /\ Link(w, p).k = w.text[p].k /\ Link(w, p).v.is = "object" /\ Link(w, p).v.v = p /\ p # 1
  BY JKeys
<1>4. p > 1
  <2>1. n \in Nat
    OBVIOUS
  <2> QED  BY <2>1, <1>3
<1>5. z \in Places(w, n) /\ IsOpen(w, z) /\ \E m \in 1 .. Len(ob[z].own) : ob[z].own[m] = Link(w, p)
  BY <1>1, <1>4 DEF ChildrenOK
<1>6. PICK m \in 1 .. Len(ob[z].own) : ob[z].own[m] = Link(w, p)
  BY <1>5
<1>7. PICK f : f = Link(w, p)
  OBVIOUS
<1>8. ChildOK(w, n, z, m, f)
  BY <1>3, <1>5, <1>6, <1>7 DEF ChildrenOK
<1>9. StandsFor(w, p, Enc(w, i).own[m].v.v)
  BY <1>1, <1>3, <1>7, <1>8 DEF ChildOK
<1>10. r.id + 1 \in 1 .. Len(Final(w)) /\ Final(w)[r.id + 1] = Enc(w, i).own[m].v.v
  BY <1>2, <1>9 DEF StandsFor
<1>11. i \in DOMAIN w.given /\ IsGraph(w.given)
  <2>1. z \in 1 .. Size(w)
    <3>1. z \in 1 .. n /\ n \in 0 .. Size(w) /\ Size(w) \in Nat
      BY <1>5, JTypes, JKeys
    <3> QED  BY <3>1
  <2> QED  BY <2>1, <1>1, <1>5, JOpened DEF Written
<1>12. Len(ob[z].own) = Width(w, i) /\ \A x \in 1 .. Len(ob[z].own) : FieldOK(w, i, x, ob[z].own[x], TRUE)
  <2>1. ObjectOK(w, ob[z], z, End(w, i), TRUE, TRUE)
    BY <1>1, <1>5
  <2>2. Width(w, i) \in Nat /\ End(w, i) \in Nat /\ End(w, i) > Width(w, i)
    BY <1>11, JEnds
  <2>3. ~(End(w, i) <= Width(w, i))
    BY <2>2
  <2> QED  BY <2>1, <2>3, <1>1 DEF ObjectOK
<1>13. FieldOK(w, i, m, f, TRUE) /\ m \in 1 .. Width(w, i)
  BY <1>6, <1>7, <1>12
<1>14. f.k = Enc(w, i).own[m].k /\ Enc(w, i).own[m].v.is = "object"
  <2>1. ObjectField(w, i, m, f)
    BY <1>13, JObjectField
  <2> QED  BY <2>1, <1>3, <1>7 DEF ObjectField
<1>15. Enc(w, i).own[m].v = Object(Enc(w, i).own[m].v.v)
  BY <1>11, <1>13, <1>14, JEncoded
<1>16. ASSUME NEW x \in 1 .. Width(w, i), Enc(w, i).own[x].k = r.key
       PROVE  Enc(w, i).own[x].v = Object(Final(w)[r.id + 1])
  <2>1. Enc(w, i).own[x].k = Enc(w, i).own[m].k
    BY <1>2, <1>3, <1>7, <1>14, <1>16
  <2>2. x = m
    BY <2>1, <1>11, <1>13, JEncoded
  <2> QED  BY <2>2, <1>10, <1>15
<1> QED  BY <1>1, <1>2, <1>5, <1>10, <1>16 DEF RefOK

\* All objects are read when the root is closed.
LEMMA JAllRead ==
  ASSUME NEW w, Written(w), Stack(w, Size(w)) = <<>>,
         NEW n \in 0 .. Size(w) - 1, w.text[n + 1].is = "close", Inside(w, n) = 1, NEW ob, ObjectsOK(w, n, TRUE, ob)
  PROVE  /\ n + 1 = Size(w) /\ Places(w, n) = Places(w, Size(w)) /\ DOMAIN ob = Places(w, n) /\ Size(w) \in Nat
         /\ \A p \in Places(w, n) : IF IsOpen(w, p) THEN ObjectOK(w, ob[p], p, End(w, Of(w, p)), TRUE, TRUE)
                                    ELSE ob[p] = Reference(w.text[p].id)
<1>1. PICK l, m : l = Len(Stack(w, n)) /\ m = n + 1
  OBVIOUS
<1>2. Closing(w, n, 1, l)
  BY <1>1, JClosing
<1>3. /\ n \in 0 .. Size(w) /\ m \in 0 .. Size(w) /\ l \in Nat /\ Len(Stack(w, m)) = l - 1 /\ Places(w, m) = Places(w, n)
      /\ m \in 1 .. Size(w)
  BY <1>1, <1>2, JNext DEF Closing
<1>4. l = 1
  BY <1>1, JAtEnd, JInside
<1>10. \A d \in 1 .. Len(Stack(w, n)) : Stack(w, n)[d].open = 1
  <2>1. \A d \in 1 .. Len(Stack(w, n)) : d = 1
    BY <1>1, <1>4
  <2>2. \A d \in 1 .. Len(Stack(w, n)) :
          IF d = 1 THEN Stack(w, n)[d].open = 1 ELSE Parent(w, Stack(w, n)[d].open) = Stack(w, n)[d - 1].open
    BY <1>3, JStack
  <2> QED  BY <2>1, <2>2
<1>5. Stack(w, m) = <<>>
  <2>1. ~(Len(Stack(w, m)) > 0)
    BY <1>3, <1>4
  <2> QED  BY <2>1, <1>3, JStack
<1>6. m = Size(w)
  BY <1>3, <1>5, JEndOfText
<1>7. ASSUME NEW p \in Places(w, n), IsOpen(w, p) PROVE ObjectOK(w, ob[p], p, End(w, Of(w, p)), TRUE, TRUE)
  <2>1. IsRevived(w, n, TRUE, p) = TRUE
    <3>1. OnPath(w, n, p) => p = 1
      BY <1>10 DEF OnPath
    <3>2. IsRevived(w, n, TRUE, p)
      BY <3>1 DEF IsRevived
    <3>3. IsRevived(w, n, TRUE, p) \in BOOLEAN
      BY DEF IsRevived
    <3> QED  BY <3>2, <3>3
  <2>2. Gone(w, n, TRUE) = TRUE
    BY <1>1, <1>4 DEF Gone
  <2>3. PICK k : k = End(w, Of(w, p))
    OBVIOUS
  <2>4. Upto(w, n, p, k)
    <3>1. CASE OnPath(w, n, p)
      <4>1. p = 1
        BY <3>1, <1>10 DEF OnPath
      <4> QED  BY <4>1, <2>3, JAtEnd
    <3>2. CASE ~OnPath(w, n, p)
      BY <3>2, <2>3 DEF Upto
    <3> QED  BY <3>1, <3>2
  <2>5. k \in Nat
    <3>1. p \in 1 .. Size(w)
      BY <1>3, JKeys
    <3>2. Of(w, p) \in DOMAIN w.given /\ IsGraph(w.given)
      BY <3>1, <1>7, JOpened DEF Written
    <3> QED  BY <3>2, <2>3, JEnds
  <2>6. ObjectOK(w, ob[p], p, k, IsRevived(w, n, TRUE, p), Gone(w, n, TRUE))
    BY <2>4, <2>5, <1>7 DEF ObjectsOK
  <2> QED  BY <2>1, <2>2, <2>3, <2>6
<1>8. /\ DOMAIN ob = Places(w, n)
      /\ \A p \in Places(w, n) : ~IsOpen(w, p) => ob[p] = Reference(w.text[p].id)
  BY DEF ObjectsOK
<1>9. Size(w) \in Nat
  BY JNext
<1> QED  BY <1>1, <1>3, <1>6, <1>7, <1>8, <1>9

\* The chain of the root is all that was opened.
LEMMA JOneChain ==
  ASSUME NEW w, Written(w), NEW n, NEW l, Closing(w, n, 1, l), n + 1 = Size(w),
         NEW cs, cs \in Seq(Seq(FieldType)), NEW ch, ch # <<>>, ChainsOK(w, n, ch, cs),
         IsFull(w, n, ch, cs, 1), IsDone(w, n, ch, 1), NEW cs2, cs2 = Append(cs, ch)
  PROVE  OneChain(w, cs2) /\ cs = <<>>
<1>1. PICK k, c : k = Len(cs) /\ c = Len(ch)
  OBVIOUS
<1>2. n \in Nat /\ n \in 0 .. Size(w) /\ 1 \in 1 .. n /\ Count(w, n) \in Nat /\ Count(w, n + 1) = Count(w, n) /\ IsOpen(w, 1)
  BY DEF Closing
<1>3. k \in Nat
  BY <1>1, JSeq
<1>4. k = 0
  <2>1. SUFFICES ASSUME k # 0 PROVE FALSE
    OBVIOUS
  <2>2. 1 \in 1 .. k
    BY <2>1, <1>3
  <2>3. PICK q, h : q = cs[1] /\ h = HeadOf(q)
    OBVIOUS
  <2>4. ChainOK(w, n, q)
    BY <2>2, <2>3, <1>1 DEF ChainsOK
  <2>5. h \in 2 .. n
    BY <2>3, <2>4, <1>2, JChainFacts
  <2>6. h < 1
    BY <2>2, <2>3, <1>1 DEF IsFull
  <2> QED  BY <2>5, <2>6
<1>5. cs = <<>>
  <2>1. PICK S : S = Seq(FieldType)
    OBVIOUS
  <2>2. cs \in Seq(S)
    BY <2>1
  <2>3. cs # <<>> => Len(cs) >= 1
    BY <2>2, JSeq
  <2> QED  BY <2>3, <1>1, <1>4
<1>6. ch \in Seq(FieldType)
  BY DEF IsDone
<1>7. Len(cs2) = 1 /\ cs2[1] = ch
  <2>1. Pushed(cs, ch, k, cs2)
    BY <1>1, <1>6, JPushed
  <2>2. Len(cs2) = k + 1 /\ cs2[k + 1] = ch
    BY <2>1 DEF Pushed
  <2> QED  BY <2>2, <1>4
<1>8. Count(w, 1) = 1
  <2>1. 1 \in 1 .. Size(w)
    <3>1. Size(w) \in Nat
      BY <1>2, JTypes
    <3> QED  BY <3>1, <1>2
  <2>2. Count(w, 1) = Count(w, 1 - 1) + 1
    BY <2>1, <1>2, JOpened
  <2>3. Count(w, 0) = 0
    BY DEF Count, Met
  <2>4. 1 - 1 = 0
    OBVIOUS
  <2> QED  BY <2>2, <2>3, <2>4
<1>9. c \in Nat /\ c = Count(w, n)
  <2>1. c \in Nat /\ Count(w, 1) = Count(w, n) - (c - 1)
    BY <1>1 DEF IsFull
  <2> QED  BY <2>1, <1>2, <1>8
<1>10. Len(Final(w)) = c
  <2>1. PICK m : m = n + 1
    OBVIOUS
  <2>2. Len(Met(w, m)) = c
    BY <2>1, <1>2, <1>9 DEF Count
  <2> QED  BY <2>1, <2>2 DEF Final
<1>11. ASSUME NEW x \in 1 .. c PROVE OpenedAs(w, Size(w), cs2[1][x], x)
  <2>1. OpenedAs(w, n + 1, ch[x], Count(w, 1) + x - 1)
    BY <1>1 DEF IsDone
  <2>2. Count(w, 1) + x - 1 = x
    BY <1>8
  <2> QED  BY <2>1, <2>2, <1>7
<1> QED  BY <1>1, <1>5, <1>7, <1>10, <1>11 DEF OneChain

\* The parser is done with the root.
LEMMA JPushesRoot ==
  ASSUME NEW w, Written(w), Stack(w, Size(w)) = <<>>,
         NEW n, NEW rd, NEW ob, NEW ds, NEW hs, NEW ch, NEW cs, NEW rf,
         Chaining(w, n, rd, ob, ds, hs, ch, cs, rf), Childless(w, n, ob, cs), Inside(w, n) = 1,
         NEW cs2, cs2 = Append(cs, ch)
  PROVE  ResolvingOK(w, ob, cs2, rf) /\ n + 1 = Size(w)
<1>1. /\ n \in 0 .. Size(w) - 1
      /\ ObjectsOK(w, n, TRUE, ob) /\ ChildrenOK(w, n, ob)
      /\ cs \in Seq(Seq(FieldType)) /\ ch # <<>>
      /\ ChainsOK(w, n, ch, cs) /\ RefsOK(w, n, cs, rf)
      /\ w.text[n + 1].is = "close"
  BY DEF Chaining
<1>2. PICK l, N, in : l = Len(Stack(w, n)) /\ N = Size(w) /\ in = 1
  OBVIOUS
<1>3. Closing(w, n, in, l) /\ in = Inside(w, n)
  BY <1>1, <1>2, JClosing
<1>4. IsFull(w, n, ch, cs, in)
  BY <1>3, JFull
<1>5. IsDone(w, n, ch, in)
  BY <1>1, <1>3, <1>4, JDone DEF ChainsOK
<1>6. /\ n + 1 = N /\ Places(w, n) = Places(w, N) /\ DOMAIN ob = Places(w, n) /\ N \in Nat
      /\ \A p \in Places(w, n) : IF IsOpen(w, p) THEN ObjectOK(w, ob[p], p, End(w, Of(w, p)), TRUE, TRUE)
                                 ELSE ob[p] = Reference(w.text[p].id)
  BY <1>1, <1>2, JAllRead
<1>7. OneChain(w, cs2) /\ cs = <<>>
  BY <1>1, <1>2, <1>3, <1>4, <1>5, <1>6, JOneChain
<1>8. n \in 0 .. Size(w)
  BY <1>1, JNext
<1>9. ASSUME NEW r \in rf PROVE RefOK(w, r)
  <2>1. PICK p \in Places(w, n) : ~IsOpen(w, p) /\ r = RefOf(w, p)
    BY <1>1 DEF RefsOK
  <2>2. \A x \in Places(w, n) : IsOpen(w, x) => ObjectOK(w, ob[x], x, End(w, Of(w, x)), TRUE, TRUE)
    BY <1>6
  <2> QED  BY <2>1, <2>2, <1>1, <1>2, <1>6, <1>8, JRefOK
<1>10. ASSUME NEW p \in Places(w, n), IsOpen(w, p), NEW m \in 1 .. Width(w, Of(w, p))
       PROVE  FilledOK(w, ob, rf, p, m)
  <2>1. PICK i, f : i = Of(w, p) /\ f = ob[p].own[m]
    OBVIOUS
  <2>2. ObjectOK(w, ob[p], p, End(w, i), TRUE, TRUE)
    BY <1>6, <1>10, <2>1
  <2>3. Width(w, i) \in Nat /\ ~(End(w, i) <= Width(w, i))
    <3>1. p \in 1 .. Size(w)
      BY <1>2, <1>6, JKeys, <1>8
    <3>2. i \in DOMAIN w.given /\ IsGraph(w.given)
      BY <2>1, <3>1, <1>10, JOpened DEF Written
    <3>3. Width(w, i) \in Nat /\ End(w, i) \in Nat /\ End(w, i) > Width(w, i)
      BY <3>2, JEnds
    <3> QED  BY <3>3
  <2>4. m \in 1 .. Len(ob[p].own)
    BY <2>1, <2>2, <2>3 DEF ObjectOK
  <2>5. ASSUME f.v.is = "object"
        PROVE  /\ f.v.v \in Places(w, N) /\ StandsFor(w, f.v.v, Enc(w, i).own[m].v.v)
               /\ ~IsOpen(w, f.v.v) => [parent |-> p, key |-> f.k, id |-> w.text[f.v.v].id] \in rf
    <3>1. ChildOK(w, n, p, m, f)
      BY <2>1, <2>4, <2>5, <1>1 DEF ChildrenOK
    <3>2. PICK c : c = f.v.v
      OBVIOUS
    <3>3. c \in Places(w, n) /\ Parent(w, c) = p /\ f = Link(w, c) /\ StandsFor(w, c, Enc(w, i).own[m].v.v)
      BY <2>1, <3>1, <3>2 DEF ChildOK
    <3>4. f.k = w.text[c].k
      BY <1>8, <3>3, JKeys
    <3>5. ASSUME ~IsOpen(w, c) PROVE [parent |-> p, key |-> f.k, id |-> w.text[c].id] \in rf
      <4>1. Len(cs) = 0
        BY <1>7
      <4>2. ~\E e \in 1 .. Len(cs) : HeadOf(cs[e]) = c
        BY <4>1
      <4>3. RefOf(w, c) \in rf
        BY <4>2, <3>3, <3>5, <1>1 DEF RefsOK
      <4> QED  BY <4>3, <3>3, <3>4 DEF RefOf
    <3> QED  BY <3>2, <3>3, <3>5, <1>6
  <2> QED  BY <2>1, <2>5, <1>2 DEF FilledOK
<1>11. ResolvingOK(w, ob, cs2, rf)
  BY <1>2, <1>6, <1>7, <1>9, <1>10 DEF ResolvingOK
<1> QED  BY <1>2, <1>6, <1>11

\* What a reference refers to: the place c that was opened as the x-th
Target(w, cs, x, c) ==
  /\ c \in 1 .. Size(w) /\ c \in Places(w, Size(w)) /\ IsOpen(w, c) /\ cs[1][x].v = Object(c)
  /\ Of(w, c) = Final(w)[x] /\ c \in Nat

\* Entry x of the one chain that is left is the object met as x-th.
LEMMA JTarget ==
  ASSUME NEW w, Written(w), NEW cs, OneChain(w, cs), NEW x, x \in 1 .. Len(Final(w)), NEW c, c = cs[1][x].v.v
  PROVE  Target(w, cs, x, c)
<1>1. PICK N, f : N = Size(w) /\ f = cs[1][x]
  OBVIOUS
<1>2. OpenedAs(w, N, f, x)
  BY <1>1 DEF OneChain
<1>3. c \in 1 .. N /\ IsOpen(w, c) /\ Count(w, c) = x /\ f = Link(w, c)
  BY <1>1, <1>2 DEF OpenedAs
<1>4. N \in Nat /\ N \in 0 .. Size(w)
  <2>1. w.text \in Seq({w.text[p] : p \in DOMAIN w.text})
    BY DEF Written
  <2>2. N \in Nat
    BY <2>1, <1>1, JSeq DEF Size
  <2> QED  BY <2>2, <1>1
<1>5. c \in Places(w, N) /\ c \in Nat
  <2>1. w.text[c].is = "open"
    BY <1>3 DEF IsOpen
  <2> QED  BY <2>1, <1>3, <1>4 DEF Places
<1>6. f.v = Object(c)
  BY <1>3 DEF Link, Field
<1>7. Of(w, c) = Final(w)[x]
  <2>1. Of(w, c) = Met(w, c)[Count(w, c)]
    BY <1>1, <1>3, JOpened
  <2>2. c \in 0 .. N
    BY <1>3, <1>4
  <2>3. \A y \in 1 .. Count(w, c) : Met(w, N)[y] = Met(w, c)[y]
    BY <2>2, <1>4, JCounts
  <2>4. x \in 1 .. Count(w, c)
    <3>1. x \in Nat /\ x >= 1
      BY <1>3, <1>4, <2>2, JTypes
    <3> QED  BY <3>1, <1>3
  <2> QED  BY <2>1, <2>3, <2>4, <1>1, <1>3 DEF Final
<1> QED  BY <1>1, <1>3, <1>5, <1>6, <1>7 DEF Target

WithOwn(o, own, r) == r = [o EXCEPT !.own = own]
PutIn(o, key, v, r) ==
  /\ r \in ObjectType /\ r.array = o.array /\ r.dates = o.dates /\ Len(r.own) = Len(o.own) /\ Len(o.own) \in Nat
  /\ \A m \in 1 .. Len(o.own) : r.own[m] = IF o.own[m].k = key THEN Field(key, v) ELSE o.own[m]

\* A property gets another value.
LEMMA JPut ==
  ASSUME NEW o \in ObjectType, NEW key, NEW c \in Nat, NEW v, v = Object(c), NEW r, WithOwn(o, Put(o.own, key, v), r)
  PROVE  PutIn(o, key, v, r)
<1>1. PICK s, l, t : s = o.own /\ l = Len(s) /\ t = Put(s, key, v)
  OBVIOUS
<1>2. s \in Seq(FieldType) /\ l \in Nat /\ DOMAIN s = 1 .. l /\ \A m \in 1 .. l : s[m] \in FieldType
  BY <1>1, JObjectType, JSeq
<1>3. t = [m \in 1 .. l |-> IF s[m].k = key THEN Field(key, v) ELSE s[m]]
  BY <1>1, <1>2 DEF Put
<1>4. \A m \in 1 .. l : t[m] = IF s[m].k = key THEN Field(key, v) ELSE s[m]
  BY <1>3
<1>5. ASSUME NEW m \in 1 .. l PROVE t[m] \in FieldType
  <2>1. CASE s[m].k = key
    <3>1. t[m] = [k |-> key, v |-> [is |-> "object", v |-> c]]
      BY <2>1, <1>4 DEF Field, Object
    <3>2. key \in Keys \cup {NoKey, OBJECTREF_FIELD}
      BY <2>1, <1>2 DEF FieldType
    <3> QED  BY <3>1, <3>2 DEF FieldType
  <2>2. CASE s[m].k # key
    BY <2>2, <1>2, <1>4
  <2> QED  BY <2>1, <2>2
<1>6. t = [m \in 1 .. l |-> t[m]]
  BY <1>3
<1>7. t \in Seq(FieldType) /\ Len(t) = l
  BY <1>2, <1>5, <1>6, JSeqMade
<1>8. r \in ObjectType /\ r.own = t /\ r.array = o.array /\ r.dates = o.dates
  BY <1>1, <1>7, JObjectType DEF WithOwn
<1> QED  BY <1>1, <1>2, <1>4, <1>7, <1>8 DEF PutIn

\* An open place that is read, its object i and its width
Filled(w, ob, rf, p, i) ==
  /\ p \in 1 .. Size(w) /\ i = Of(w, p) /\ i \in DOMAIN w.given /\ IsGraph(w.given) /\ Width(w, i) \in Nat
  /\ ob[p] \in ObjectType /\ ob[p].array = w.given[i].array /\ ob[p].dates = {} /\ Len(ob[p].own) = Width(w, i)
  /\ \A m \in 1 .. Width(w, i) : FieldOK(w, i, m, ob[p].own[m], TRUE) /\ FilledOK(w, ob, rf, p, m)

\* When all references are resolved, an object holds what was read of it with its references filled in.
LEMMA JFilled ==
  ASSUME NEW w, Written(w), NEW ob, NEW cs, NEW rf, ResolvingOK(w, ob, cs, rf),
         NEW p \in Places(w, Size(w)), IsOpen(w, p), NEW i, i = Of(w, p)
  PROVE  Filled(w, ob, rf, p, i)
<1>1. PICK k : k = End(w, i)
  OBVIOUS
<1>2. ObjectOK(w, ob[p], p, k, TRUE, TRUE) /\ \A m \in 1 .. Width(w, i) : FilledOK(w, ob, rf, p, m)
  BY <1>1 DEF ResolvingOK
<1>3. p \in 1 .. Size(w)
  BY DEF Places
<1>4. i \in DOMAIN w.given /\ IsGraph(w.given)
  BY <1>3, JOpened DEF Written
<1>5. Width(w, i) \in Nat /\ ~(k <= Width(w, i))
  <2>1. Width(w, i) \in Nat /\ End(w, i) \in Nat /\ End(w, i) > Width(w, i)
    BY <1>4, JEnds
  <2> QED  BY <2>1, <1>1
<1>6. /\ ob[p] \in ObjectType /\ ob[p].array = w.given[i].array /\ ob[p].dates = {}
      /\ Len(ob[p].own) = Width(w, i)
      /\ \A m \in 1 .. Len(ob[p].own) : FieldOK(w, i, m, ob[p].own[m], TRUE)
  BY <1>2, <1>5 DEF ObjectOK
<1> QED  BY <1>2, <1>3, <1>4, <1>5, <1>6 DEF Filled

\* And the other way round.
LEMMA JFilledOK ==
  ASSUME NEW w, NEW ob, NEW rf, NEW p, NEW i, Filled(w, ob, rf, p, i)
  PROVE  ObjectOK(w, ob[p], p, End(w, Of(w, p)), TRUE, TRUE) /\ \A m \in 1 .. Width(w, Of(w, p)) : FilledOK(w, ob, rf, p, m)
<1>1. Width(w, i) \in Nat /\ ~(End(w, i) <= Width(w, i))
  <2>1. Width(w, i) \in Nat /\ End(w, i) \in Nat /\ End(w, i) > Width(w, i)
    BY JEnds DEF Filled
  <2> QED  BY <2>1
<1> QED  BY <1>1 DEF Filled, ObjectOK

Resolves(ob, cs, r, ob2) ==
  /\ DOMAIN ob2 = DOMAIN ob
  /\ \A p \in DOMAIN ob : IF p = r.parent THEN WithOwn(ob[p], Put(ob[p].own, r.key, cs[1][r.id + 1].v), ob2[p])
                          ELSE ob2[p] = ob[p]

\* A reference is replaced by the object it refers to.
LEMMA JResolve ==
  ASSUME NEW w, Written(w), NEW ob, NEW cs, NEW rf, ResolvingOK(w, ob, cs, rf),
         NEW r \in rf, NEW ob2, Resolves(ob, cs, r, ob2), NEW rf2, rf2 = rf \ {r}
  PROVE  ResolvingOK(w, ob2, cs, rf2)
<1>1. PICK P, i, x, c, K : P = r.parent /\ i = Of(w, P) /\ x = r.id + 1 /\ c = cs[1][x].v.v /\ K = r.key
  OBVIOUS
<1>2. /\ DOMAIN ob = Places(w, Size(w))
      /\ \A p \in Places(w, Size(w)) : ~IsOpen(w, p) => ob[p] = Reference(w.text[p].id)
      /\ \A q \in rf : RefOK(w, q)
      /\ OneChain(w, cs)
  BY DEF ResolvingOK
<1>3. RefOK(w, r)
  BY <1>2
<1>4. /\ P \in Places(w, Size(w)) /\ IsOpen(w, P) /\ x \in 1 .. Len(Final(w))
      /\ \A m \in 1 .. Width(w, i) : Enc(w, i).own[m].k = K => Enc(w, i).own[m].v = Object(Final(w)[x])
  BY <1>1, <1>3 DEF RefOK
<1>5. Target(w, cs, x, c)
  BY <1>1, <1>2, <1>4, JTarget
<1>6. /\ c \in Places(w, Size(w)) /\ IsOpen(w, c) /\ cs[1][x].v = Object(c)
      /\ Of(w, c) = Final(w)[x] /\ c \in Nat
  BY <1>5 DEF Target
<1>7. Filled(w, ob, rf, P, i)
  BY <1>1, <1>4, JFilled
<1>8. PICK o, r2, v : o = ob[P] /\ r2 = ob2[P] /\ v = cs[1][x].v
  OBVIOUS
<1>9. PutIn(o, K, v, r2)
  <2>1. WithOwn(o, Put(o.own, K, v), r2)
    BY <1>1, <1>2, <1>4, <1>8 DEF Resolves
  <2>2. o \in ObjectType /\ v = Object(c)
    BY <1>6, <1>7, <1>8 DEF Filled
  <2> QED  BY <2>1, <2>2, <1>6, JPut
<1>10. /\ P \in 1 .. Size(w) /\ i \in DOMAIN w.given /\ IsGraph(w.given) /\ Width(w, i) \in Nat
       /\ o \in ObjectType /\ o.array = w.given[i].array /\ o.dates = {} /\ Len(o.own) = Width(w, i)
       /\ \A m \in 1 .. Width(w, i) : FieldOK(w, i, m, o.own[m], TRUE) /\ FilledOK(w, ob, rf, P, m)
  BY <1>7, <1>8 DEF Filled
<1>11. /\ r2 \in ObjectType /\ r2.array = o.array /\ r2.dates = o.dates /\ Len(r2.own) = Len(o.own)
       /\ \A m \in 1 .. Len(o.own) : r2.own[m] = IF o.own[m].k = K THEN Field(K, v) ELSE o.own[m]
  BY <1>9 DEF PutIn
<1>12. ASSUME NEW m \in 1 .. Width(w, i), o.own[m].k = K
       PROVE  FieldOK(w, i, m, r2.own[m], TRUE) /\ FilledOK(w, ob2, rf2, P, m)
  <2>1. PICK f : f = r2.own[m]
    OBVIOUS
  <2>2. f.k = K /\ f.v = Object(c)
    BY <2>1, <1>6, <1>8, <1>10, <1>11, <1>12 DEF Field
  <2>3. f.v.is = "object" /\ f.v.v = c
    BY <2>2 DEF Object
  <2>4. Enc(w, i).own[m].k = K
    <3>1. PICK g : g = o.own[m]
      OBVIOUS
    <3>2. FieldOK(w, i, m, g, TRUE)
      BY <3>1, <1>10
    <3> QED  BY <3>1, <3>2, <1>12 DEF FieldOK
  <2>5. Enc(w, i).own[m].v = Object(Final(w)[x])
    BY <2>4, <1>4
  <2>6. Enc(w, i).own[m].v.is = "object" /\ Enc(w, i).own[m].v.v = Final(w)[x]
    BY <2>5 DEF Object
  <2>7. FieldOK(w, i, m, f, TRUE)
    BY <2>2, <2>3, <2>4, <2>6 DEF FieldOK
  <2>8. StandsFor(w, c, Enc(w, i).own[m].v.v)
    BY <2>6, <1>6 DEF StandsFor
  <2>9. FilledOK(w, ob2, rf2, P, m)
    BY <2>1, <2>3, <2>8, <1>1, <1>6, <1>8 DEF FilledOK
  <2> QED  BY <2>1, <2>7, <2>9
<1>13. ASSUME NEW m \in 1 .. Width(w, i), o.own[m].k # K
       PROVE  FieldOK(w, i, m, r2.own[m], TRUE) /\ FilledOK(w, ob2, rf2, P, m)
  <2>1. PICK f, d : f = o.own[m] /\ d = f.v.v
    OBVIOUS
  <2>2. r2.own[m] = f /\ f.k # K /\ FieldOK(w, i, m, f, TRUE)
    BY <2>1, <1>10, <1>11, <1>13
  <2>3. ASSUME f.v.is = "object"
        PROVE  /\ d \in Places(w, Size(w)) /\ StandsFor(w, d, Enc(w, i).own[m].v.v)
               /\ ~IsOpen(w, d) => [parent |-> P, key |-> f.k, id |-> w.text[d].id] \in rf
    BY <2>1, <2>3, <1>1, <1>8, <1>10 DEF FilledOK
  <2>4. PICK z : z = [parent |-> P, key |-> f.k, id |-> w.text[d].id]
    OBVIOUS
  <2>5. z # r
    <3>1. z.key = f.k
      BY <2>4
    <3> QED  BY <3>1, <2>2, <1>1
  <2>6. FilledOK(w, ob2, rf2, P, m)
    BY <2>1, <2>2, <2>3, <2>4, <2>5, <1>1, <1>8 DEF FilledOK
  <2> QED  BY <2>2, <2>6
<1>14. Filled(w, ob2, rf2, P, i)
  <2>1. \A m \in 1 .. Width(w, i) : FieldOK(w, i, m, r2.own[m], TRUE) /\ FilledOK(w, ob2, rf2, P, m)
    BY <1>12, <1>13
  <2> QED  BY <2>1, <1>1, <1>8, <1>10, <1>11 DEF Filled
<1>15. ASSUME NEW p \in Places(w, Size(w)), IsOpen(w, p), p # P
       PROVE  Filled(w, ob2, rf2, p, Of(w, p))
  <2>1. PICK j, q : j = Of(w, p) /\ q = ob[p]
    OBVIOUS
  <2>2. Filled(w, ob, rf, p, j)
    BY <2>1, <1>15, JFilled
  <2>3. ob2[p] = q
    BY <2>1, <1>1, <1>2, <1>15 DEF Resolves
  <2>4. ASSUME NEW m \in 1 .. Width(w, j) PROVE FilledOK(w, ob2, rf2, p, m)
    <3>1. FilledOK(w, ob, rf, p, m)
      BY <2>2 DEF Filled
    <3>2. PICK f, d : f = q.own[m] /\ d = f.v.v
      OBVIOUS
    <3>3. ASSUME f.v.is = "object"
          PROVE  /\ d \in Places(w, Size(w)) /\ StandsFor(w, d, Enc(w, j).own[m].v.v)
                 /\ ~IsOpen(w, d) => [parent |-> p, key |-> f.k, id |-> w.text[d].id] \in rf
      BY <2>1, <3>1, <3>2, <3>3 DEF FilledOK
    <3>4. PICK z : z = [parent |-> p, key |-> f.k, id |-> w.text[d].id]
      OBVIOUS
    <3>5. z # r
      <4>1. z.parent = p
        BY <3>4
      <4> QED  BY <4>1, <1>1, <1>15
    <3> QED  BY <2>1, <2>3, <3>2, <3>3, <3>4, <3>5 DEF FilledOK
  <2> QED  BY <2>1, <2>2, <2>3, <2>4 DEF Filled
<1>16. ASSUME NEW p \in Places(w, Size(w)), IsOpen(w, p)
       PROVE  /\ ObjectOK(w, ob2[p], p, End(w, Of(w, p)), TRUE, TRUE)
              /\ \A m \in 1 .. Width(w, Of(w, p)) : FilledOK(w, ob2, rf2, p, m)
  <2>1. PICK j : j = Of(w, p)
    OBVIOUS
  <2>2. Filled(w, ob2, rf2, p, j)
    BY <2>1, <1>1, <1>14, <1>15, <1>16
  <2> QED  BY <2>2, JFilledOK
<1>17. ASSUME NEW p \in Places(w, Size(w)), ~IsOpen(w, p) PROVE ob2[p] = Reference(w.text[p].id)
  BY <1>1, <1>2, <1>4, <1>17 DEF Resolves
<1>18. DOMAIN ob2 = Places(w, Size(w)) /\ \A q \in rf2 : RefOK(w, q)
  BY <1>2 DEF Resolves
<1> QED  BY <1>2, <1>16, <1>17, <1>18 DEF ResolvingOK

\* A property e of object i before it is encoded, and its value v after
WasField(w, i, m, e, v) ==
  /\ e = Field(e.k, e.v) /\ Enc(w, i).own[m].k = e.k /\ Enc(w, i).own[m].v = v /\ e.k \in Keys
  /\ v = IF e.v.is = "date" THEN Text(e.v.v) ELSE e.v
  /\ e.v.is \in {"text", "date", "object", "null"}
  /\ e.v.is = "date" => e.v = Date(e.v.v)
  /\ e.v.is = "object" => e.v = Object(e.v.v) /\ e.v.v \in DOMAIN w.given

\* A property as the sender had it and as it was written.
LEMMA JWasField ==
  ASSUME NEW w, IsGraph(w.given), NEW i \in DOMAIN w.given, NEW m \in 1 .. Width(w, i),
         NEW e, e = w.given[i].own[m], NEW v, v = Enc(w, i).own[m].v
  PROVE  WasField(w, i, m, e, v)
<1>1. PICK F : F = [k : Keys, v : Values(DOMAIN w.given)]
  OBVIOUS
<1>2. w.given[i].own \in Seq(F)
  <2>1. w.given[i] \in [array : BOOLEAN, own : Seq([k : Keys, v : Values(DOMAIN w.given)]), dates : {{}}]
    BY DEF IsGraph
  <2> QED  BY <2>1, <1>1
<1>3. e \in F
  BY <1>2 DEF Width
<1>4. e = Field(e.k, e.v) /\ e.v \in Values(DOMAIN w.given) /\ e.k \in Keys
  BY <1>1, <1>3 DEF Field
<1>5. /\ e.v.is \in {"text", "date", "object", "null"}
      /\ e.v.is = "date" => e.v = Date(e.v.v)
      /\ e.v.is = "object" => e.v = Object(e.v.v) /\ e.v.v \in DOMAIN w.given
  <2>1. PICK u : u = e.v
    OBVIOUS
  <2>2. u \in Values(DOMAIN w.given)
    BY <1>4, <2>1
  <2>3. /\ u.is \in {"text", "date", "object", "null"}
        /\ u.is = "date" => u = Date(u.v)
        /\ u.is = "object" => u = Object(u.v) /\ u.v \in DOMAIN w.given
    BY <2>2 DEF Values, Text, Date, Object, Null
  <2> QED  BY <2>1, <2>3
<1>6. Enc(w, i).own[m] = Field(e.k, IF e.v.is = "date" THEN Text(e.v.v) ELSE e.v)
  BY JEncoded
<1>7. PICK g, u : g = Enc(w, i).own[m] /\ u = IF e.v.is = "date" THEN Text(e.v.v) ELSE e.v
  OBVIOUS
<1>8. g = [k |-> e.k, v |-> u]
  BY <1>6, <1>7 DEF Field
<1>9. g.k = e.k /\ g.v = u
  BY <1>8
<1> QED  BY <1>4, <1>5, <1>7, <1>9 DEF WasField

\* The properties of an object of the sender.
LEMMA JGivenOwn ==
  ASSUME NEW w, IsGraph(w.given), NEW i \in DOMAIN w.given
  PROVE  /\ w.given[i] = [array |-> w.given[i].array, own |-> w.given[i].own, dates |-> {}]
         /\ DOMAIN w.given[i].own = 1 .. Width(w, i) /\ w.given[i].own = [m \in 1 .. Width(w, i) |-> w.given[i].own[m]]
<1>1. PICK F, g : F = [k : Keys, v : Values(DOMAIN w.given)] /\ g = w.given[i]
  OBVIOUS
<1>2. g \in [array : BOOLEAN, own : Seq(F), dates : {{}}]
  BY <1>1 DEF IsGraph
<1>3. g = [array |-> g.array, own |-> g.own, dates |-> {}] /\ g.own \in Seq(F)
  BY <1>2
<1>4. DOMAIN g.own = 1 .. Len(g.own) /\ g.own = [m \in 1 .. Len(g.own) |-> g.own[m]]
  BY <1>3, JSeq
<1> QED  BY <1>1, <1>3, <1>4 DEF Width

\* The place where an object was opened
PlaceOf(w, i) == CHOOSE p \in Places(w, Size(w)) : IsOpen(w, p) /\ Of(w, p) = i

\* Each object that was met has one place in the text, and each place that opens an object is its own.
LEMMA JPlaceOf ==
  ASSUME NEW w, Written(w)
  PROVE  /\ \A i \in Ids(w) : /\ PlaceOf(w, i) \in Places(w, Size(w)) /\ IsOpen(w, PlaceOf(w, i)) /\ Of(w, PlaceOf(w, i)) = i
                              /\ i \in DOMAIN w.given
         /\ \A p \in Places(w, Size(w)) : IsOpen(w, p) => Of(w, p) \in Ids(w) /\ PlaceOf(w, Of(w, p)) = p
<1>1. PICK N : N = Size(w)
  OBVIOUS
<1>2. N \in Nat /\ N \in 0 .. Size(w)
  <2>1. w.text \in Seq({w.text[p] : p \in DOMAIN w.text})
    BY DEF Written
  <2>2. N \in Nat
    BY <2>1, <1>1, JSeq DEF Size
  <2> QED  BY <2>2, <1>1
<1>3. MetOK(w, N) /\ Final(w) = Met(w, N) /\ Len(Final(w)) = Count(w, N) /\ Count(w, N) \in Nat
  BY <1>1, <1>2, JTypes DEF Final, Count
<1>4. ASSUME NEW p \in Places(w, N), IsOpen(w, p)
      PROVE  p \in 1 .. N /\ Count(w, p) \in 1 .. Count(w, N) /\ Of(w, p) = Final(w)[Count(w, p)]
  <2>1. p \in 1 .. N /\ p \in 1 .. Size(w) /\ p \in 0 .. N
    BY <1>1, <1>2 DEF Places
  <2>2. /\ Count(w, p) = Count(w, p - 1) + 1 /\ Of(w, p) = Met(w, p)[Count(w, p)]
        /\ Count(w, p) \in Nat /\ Count(w, p - 1) \in Nat
    BY <2>1, <1>4, JOpened
  <2>3. /\ Count(w, p) <= Count(w, N)
        /\ \A x \in 1 .. Count(w, p) : Met(w, N)[x] = Met(w, p)[x]
    BY <2>1, <1>2, JCounts
  <2>4. Count(w, p) \in 1 .. Count(w, p)
    BY <2>2
  <2>5. Count(w, p) \in 1 .. Count(w, N)
    BY <2>2, <2>3, <1>3
  <2> QED  BY <2>1, <2>2, <2>3, <2>4, <2>5, <1>3
<1>5. ASSUME NEW p \in Places(w, N), IsOpen(w, p) PROVE Of(w, p) \in Ids(w)
  BY <1>3, <1>4, <1>5 DEF Ids
<1>6. ASSUME NEW p \in Places(w, N), NEW q \in Places(w, N), IsOpen(w, p), IsOpen(w, q), Of(w, p) = Of(w, q)
      PROVE  p = q
  <2>1. /\ p \in 1 .. N /\ Count(w, p) \in 1 .. Count(w, N) /\ Of(w, p) = Met(w, N)[Count(w, p)]
        /\ q \in 1 .. N /\ Count(w, q) \in 1 .. Count(w, N) /\ Of(w, q) = Met(w, N)[Count(w, q)]
    BY <1>3, <1>4, <1>6
  <2>2. PICK x, y : x = Count(w, p) /\ y = Count(w, q)
    OBVIOUS
  <2>3. Met(w, N)[x] = Met(w, N)[y] /\ x \in 1 .. Count(w, N) /\ y \in 1 .. Count(w, N)
    BY <2>1, <2>2, <1>6
  <2>4. x = y
    BY <2>3, <1>3 DEF MetOK
  <2>5. p \in 1 .. Size(w) /\ q \in 0 .. Size(w) /\ q # 0
    BY <2>1, <1>1, <1>2
  <2> QED  BY <2>2, <2>4, <2>5, <1>6, JRank
<1>7. ASSUME NEW i \in Ids(w) PROVE \E p \in Places(w, N) : IsOpen(w, p) /\ Of(w, p) = i
  <2>1. PICK x \in 1 .. Count(w, N) : i = Met(w, N)[x]
    BY <1>3 DEF Ids
  <2>2. PICK q \in 1 .. N : IsOpen(w, q) /\ Of(w, q) = Met(w, N)[x]
    BY <1>3 DEF MetOK
  <2>3. q \in Places(w, N)
    BY <2>2 DEF Places, IsOpen
  <2> QED  BY <2>1, <2>2, <2>3
<1>8. ASSUME NEW i \in Ids(w)
      PROVE  PlaceOf(w, i) \in Places(w, N) /\ IsOpen(w, PlaceOf(w, i)) /\ Of(w, PlaceOf(w, i)) = i /\ i \in DOMAIN w.given
  <2>1. PlaceOf(w, i) \in Places(w, N) /\ IsOpen(w, PlaceOf(w, i)) /\ Of(w, PlaceOf(w, i)) = i
    BY <1>1, <1>7 DEF PlaceOf
  <2>2. PICK p : p = PlaceOf(w, i)
    OBVIOUS
  <2>3. p \in 1 .. Size(w)
    BY <2>1, <2>2, <1>1, <1>4
  <2>4. Of(w, p) \in DOMAIN w.given
    BY <2>1, <2>2, <2>3, JOpened
  <2> QED  BY <2>1, <2>2, <2>4
<1>9. ASSUME NEW p \in Places(w, N), IsOpen(w, p) PROVE Of(w, p) \in Ids(w) /\ PlaceOf(w, Of(w, p)) = p
  <2>1. PICK i : i = Of(w, p)
    OBVIOUS
  <2>2. i \in Ids(w)
    BY <2>1, <1>5, <1>9
  <2>3. PlaceOf(w, i) \in Places(w, N) /\ IsOpen(w, PlaceOf(w, i)) /\ Of(w, PlaceOf(w, i)) = i
    BY <2>2, <1>8
  <2> QED  BY <2>1, <2>2, <2>3, <1>6, <1>9
<1> QED  BY <1>1, <1>8, <1>9

\* The root was opened first.
LEMMA JRoot ==
  ASSUME NEW w, Written(w), Size(w) # 0
  PROVE  Root \in Ids(w) /\ PlaceOf(w, Root) = 1
<1>1. Size(w) \in Nat
  <2>1. w.text \in Seq({w.text[p] : p \in DOMAIN w.text})
    BY DEF Written
  <2> QED  BY <2>1, JSeq DEF Size
<1>2. 0 \in 0 .. Size(w) - 1 /\ 1 \in 1 .. Size(w) /\ 0 + 1 = 1
  BY <1>1
<1>3. PICK n : n = 0
  OBVIOUS
<1>4. n \in 0 .. Size(w) - 1
  BY <1>2, <1>3
<1>5. w.text[n + 1].is = "open" /\ Of(w, 1) = Root
  BY <1>3, <1>4, JFrames
<1>6. IsOpen(w, 1) /\ 1 \in Places(w, Size(w))
  BY <1>2, <1>3, <1>5 DEF IsOpen, Places
<1> QED  BY <1>5, <1>6, JPlaceOf

\* A property is what it was.
LEMMA JFieldBack ==
  ASSUME NEW w, Written(w), NEW ob, NEW p, NEW i, Filled(w, ob, {}, p, i), IsEncodable(w.given[i]),
         NEW m \in 1 .. Width(w, i), NEW e, e = w.given[i].own[m], NEW f, f = ob[p].own[m]
  PROVE  /\ f = IF e.v.is = "object" THEN Field(e.k, Object(PlaceOf(w, e.v.v))) ELSE e
         /\ e.v.is = "object" => e.v.v \in Ids(w)
         /\ f.k \in Keys
<1>1. PICK v, c : v = Enc(w, i).own[m].v /\ c = f.v.v
  OBVIOUS
<1>2. /\ i \in DOMAIN w.given /\ IsGraph(w.given) /\ Width(w, i) \in Nat
      /\ ob[p] \in ObjectType /\ Len(ob[p].own) = Width(w, i)
      /\ FieldOK(w, i, m, f, TRUE) /\ FilledOK(w, ob, {}, p, m) /\ i = Of(w, p)
  BY DEF Filled
<1>3. WasField(w, i, m, e, v)
  BY <1>1, <1>2, JWasField
<1>4. /\ e = Field(e.k, e.v) /\ Enc(w, i).own[m].k = e.k /\ Enc(w, i).own[m].v = v /\ e.k \in Keys
      /\ v = IF e.v.is = "date" THEN Text(e.v.v) ELSE e.v
      /\ e.v.is \in {"text", "date", "object", "null"}
      /\ e.v.is = "date" => e.v = Date(e.v.v)
      /\ e.v.is = "object" => e.v = Object(e.v.v)
  BY <1>3 DEF WasField
<1>5. f \in FieldType
  BY <1>2, JObjectType
<1>6. f = Field(f.k, f.v) /\ f.v = [is |-> f.v.is, v |-> f.v.v]
  BY <1>5 DEF FieldType, Field
<1>7. f.k = e.k /\ IF v.is = "object" THEN f.v.is = "object" ELSE f.v = ValueOf(w, i, m, TRUE)
  BY <1>1, <1>2, <1>4 DEF FieldOK
<1>8. CASE e.v.is = "object"
  <2>1. v = e.v /\ v.is = "object" /\ f.v.is = "object"
    BY <1>4, <1>7, <1>8
  <2>2. c \in Places(w, Size(w)) /\ StandsFor(w, c, v.v) /\ IsOpen(w, c)
    <3>1. PICK rf : rf = {}
      OBVIOUS
    <3>2. FilledOK(w, ob, rf, p, m)
      BY <1>2, <3>1
    <3>3. /\ c \in Places(w, Size(w)) /\ StandsFor(w, c, v.v)
          /\ ~IsOpen(w, c) => [parent |-> p, key |-> f.k, id |-> w.text[c].id] \in rf
      BY <1>1, <1>2, <2>1, <3>2 DEF FilledOK
    <3> QED  BY <3>1, <3>3
  <2>3. Of(w, c) = e.v.v
    BY <2>1, <2>2 DEF StandsFor
  <2>4. e.v.v \in Ids(w) /\ PlaceOf(w, e.v.v) = c
    BY <2>2, <2>3, JPlaceOf
  <2>5. f.v = Object(c)
    BY <2>1, <1>1, <1>6 DEF Object
  <2> QED  BY <2>4, <2>5, <1>4, <1>6, <1>7, <1>8
<1>9. CASE e.v.is # "object"
  <2>1. v.is # "object"
    BY <1>4, <1>9 DEF Text
  <2>2. f.v = IF HasList(w, i) /\ v.is = "text" /\ v.v \in Enc(w, i).dates THEN Date(v.v) ELSE v
    BY <1>1, <1>7, <2>1 DEF ValueOf
  <2>3. Enc(w, i).dates = DatesOf(w.given[i].own) /\ w.given[i].array \in BOOLEAN
    BY <1>2, JEncoded
  <2>4. m \in DOMAIN w.given[i].own
    BY <1>2, JGivenOwn
  <2>5. f.v = e.v
    <3>1. CASE e.v.is = "date"
      <4>1. v.is = "text" /\ v.v = e.v.v
        BY <3>1, <1>4 DEF Text
      <4>2. e.v.v \in DatesOf(w.given[i].own)
        BY <3>1, <2>4 DEF DatesOf
      <4>3. HasList(w, i)
        BY <4>2, <2>3 DEF HasList, IsEncodable
      <4> QED  BY <4>1, <4>2, <4>3, <3>1, <2>2, <2>3, <1>4
    <3>2. CASE e.v.is = "text"
      <4>1. v = e.v
        BY <3>2, <1>4
      <4>2. e.v.v \notin DatesOf(w.given[i].own)
        BY <3>2, <2>4 DEF IsEncodable
      <4> QED  BY <4>1, <4>2, <2>2, <2>3
    <3>3. CASE e.v.is = "null"
      BY <3>3, <2>2, <1>4
    <3> QED  BY <3>1, <3>2, <3>3, <1>4, <1>9
  <2> QED  BY <2>5, <1>4, <1>6, <1>7, <1>9
<1> QED  BY <1>8, <1>9

IsBack(w, ob) ==
  /\ Root \in Ids(w)
  /\ \A i \in Ids(w) : \A m \in DOMAIN w.given[i].own :
       w.given[i].own[m].v.is = "object" => w.given[i].own[m].v.v \in Ids(w)
  /\ \E name \in [Ids(w) -> {p \in DOMAIN ob : ~RefIn(ob[p])}] :
       /\ name[Root] = Root
       /\ \A i, j \in Ids(w) : name[i] = name[j] => i = j
       /\ \A i \in Ids(w) : ob[name[i]] = [w.given[i] EXCEPT !.own = Renamed(@, name)]

\* What was written is read.
LEMMA JBack ==
  ASSUME NEW w, Written(w), Size(w) # 0, NEW ob, NEW cs, ResolvingOK(w, ob, cs, {}),
         \A i \in DOMAIN w.given : IsEncodable(w.given[i])
  PROVE  IsBack(w, ob)
<1>1. PICK name : name = [i \in Ids(w) |-> PlaceOf(w, i)]
  OBVIOUS
<1>2. /\ \A i \in Ids(w) : /\ name[i] \in Places(w, Size(w)) /\ IsOpen(w, name[i]) /\ Of(w, name[i]) = i
                           /\ i \in DOMAIN w.given /\ name[i] = PlaceOf(w, i)
      /\ DOMAIN name = Ids(w)
  BY <1>1, JPlaceOf
<1>3. IsGraph(w.given) /\ DOMAIN ob = Places(w, Size(w))
  BY DEF Written, ResolvingOK
<1>4. Root \in Ids(w) /\ name[Root] = Root
  BY <1>2, JRoot DEF Root
<1>5. ASSUME NEW i \in Ids(w)
      PROVE  /\ Filled(w, ob, {}, name[i], i)
             /\ \A m \in 1 .. Width(w, i) :
                  LET e == w.given[i].own[m]
                      f == ob[name[i]].own[m]
                  IN  /\ f = IF e.v.is = "object" THEN Field(e.k, Object(name[e.v.v])) ELSE e
                      /\ e.v.is = "object" => e.v.v \in Ids(w)
                      /\ f.k \in Keys
  <2>1. PICK p : p = name[i]
    OBVIOUS
  <2>2. p \in Places(w, Size(w)) /\ IsOpen(w, p) /\ i = Of(w, p) /\ i \in DOMAIN w.given
    BY <2>1, <1>2
  <2>3. PICK rf : rf = {}
    OBVIOUS
  <2>4. Filled(w, ob, rf, p, i)
    BY <2>2, <2>3, JFilled
  <2>5. ASSUME NEW m \in 1 .. Width(w, i), NEW e, e = w.given[i].own[m], NEW f, f = ob[p].own[m]
        PROVE  /\ f = IF e.v.is = "object" THEN Field(e.k, Object(name[e.v.v])) ELSE e
               /\ e.v.is = "object" => e.v.v \in Ids(w)
               /\ f.k \in Keys
    <3>1. Filled(w, ob, {}, p, i) /\ IsEncodable(w.given[i])
      BY <2>2, <2>3, <2>4
    <3>2. /\ f = IF e.v.is = "object" THEN Field(e.k, Object(PlaceOf(w, e.v.v))) ELSE e
          /\ e.v.is = "object" => e.v.v \in Ids(w)
          /\ f.k \in Keys
      BY <2>5, <3>1, JFieldBack
    <3> QED  BY <3>2, <1>2
  <2> QED  BY <2>1, <2>3, <2>4, <2>5
<1>6. ASSUME NEW i \in Ids(w) PROVE ~RefIn(ob[name[i]])
  <2>1. PICK o : o = ob[name[i]]
    OBVIOUS
  <2>2. o \in ObjectType /\ Len(o.own) = Width(w, i) /\ \A m \in 1 .. Width(w, i) : o.own[m].k \in Keys
    BY <2>1, <1>5 DEF Filled
  <2>3. DOMAIN o.own = 1 .. Width(w, i)
    <3>1. o.own \in Seq(FieldType)
      BY <2>2, JObjectType
    <3> QED  BY <3>1, <2>2, JSeq
  <2>4. OBJECTREF_FIELD \notin Keys
    BY KeyAssumption
  <2> QED  BY <2>1, <2>2, <2>3, <2>4 DEF RefIn
<1>7. name \in [Ids(w) -> {p \in DOMAIN ob : ~RefIn(ob[p])}]
  <2>1. \A i \in Ids(w) : name[i] \in {p \in DOMAIN ob : ~RefIn(ob[p])}
    BY <1>2, <1>3, <1>6
  <2>2. name = [i \in Ids(w) |-> name[i]]
    BY <1>1
  <2> QED  BY <2>1, <2>2
<1>8. \A i, j \in Ids(w) : name[i] = name[j] => i = j
  BY <1>2
<1>9. ASSUME NEW i \in Ids(w) PROVE ob[name[i]] = [w.given[i] EXCEPT !.own = Renamed(@, name)]
  <2>1. PICK o, g, k : o = ob[name[i]] /\ g = w.given[i] /\ k = Width(w, i)
    OBVIOUS
  <2>2. /\ g = [array |-> g.array, own |-> g.own, dates |-> {}]
        /\ DOMAIN g.own = 1 .. k
    BY <2>1, <1>2, <1>3, JGivenOwn
  <2>3. o \in ObjectType /\ o.array = g.array /\ o.dates = {} /\ Len(o.own) = k
    BY <2>1, <1>5 DEF Filled
  <2>4. o = [array |-> o.array, own |-> o.own, dates |-> o.dates]
    BY <2>3 DEF ObjectType
  <2>5. o.own = [m \in 1 .. k |-> o.own[m]]
    <3>1. o.own \in Seq(FieldType)
      BY <2>3, JObjectType
    <3> QED  BY <3>1, <2>3, JSeq
  <2>6. \A m \in 1 .. k : o.own[m] = IF g.own[m].v.is = "object" THEN Field(g.own[m].k, Object(name[g.own[m].v.v])) ELSE g.own[m]
    BY <2>1, <1>5
  <2>7. o.own = Renamed(g.own, name)
    <3>1. PICK s : s = o.own
      OBVIOUS
    <3>2. s = [m \in 1 .. k |-> IF g.own[m].v.is = "object" THEN Field(g.own[m].k, Object(name[g.own[m].v.v])) ELSE g.own[m]]
      BY <3>1, <2>5, <2>6
    <3> QED  BY <3>1, <3>2, <2>2 DEF Renamed
  <2>8. PICK a, s : a = g.array /\ s = Renamed(g.own, name)
    OBVIOUS
  <2>9. [g EXCEPT !.own = Renamed(@, name)] = [array |-> a, own |-> s, dates |-> {}]
    BY <2>2, <2>8
  <2>10. o = [array |-> a, own |-> s, dates |-> {}]
    BY <2>3, <2>4, <2>7, <2>8
  <2> QED  BY <2>1, <2>9, <2>10
<1>10. ASSUME NEW i \in Ids(w), NEW m \in DOMAIN w.given[i].own, w.given[i].own[m].v.is = "object"
       PROVE  w.given[i].own[m].v.v \in Ids(w)
  <2>1. m \in 1 .. Width(w, i)
    BY <1>2, <1>3, JGivenOwn
  <2> QED  BY <2>1, <1>5, <1>10
<1> QED  BY <1>4, <1>7, <1>8, <1>9, <1>10 DEF IsBack

\* What is known of an object that has been encoded
EncodedAs(o, r) ==
  /\ IsRecord(r) /\ r.array = o.array /\ r.dates = o.dates \cup DatesOf(o.own)
  /\ r.own = [m \in DOMAIN o.own |-> IF o.own[m].v.is = "date" THEN Field(o.own[m].k, Text(o.own[m].v.v)) ELSE o.own[m]]

\* What the replacer does to an object.
LEMMA JResolved ==
  ASSUME NEW o, IsRecord(o), NEW r, r = Resolved(o)
  PROVE  EncodedAs(o, r)
<1>1. PICK a, s, d : a = o.array /\ s = o.own /\ d = o.dates
  OBVIOUS
<1>2. o = [array |-> a, own |-> s, dates |-> d]
  BY <1>1 DEF IsRecord
<1>3. PICK s2, d2 : s2 = [m \in DOMAIN s |-> IF s[m].v.is = "date" THEN Field(s[m].k, Text(s[m].v.v)) ELSE s[m]]
                    /\ d2 = d \cup DatesOf(s)
  OBVIOUS
<1>4. r = [array |-> a, own |-> s2, dates |-> d2]
  BY <1>1, <1>2, <1>3 DEF Resolved
<1>5. IsRecord(r) /\ r.array = a /\ r.own = s2 /\ r.dates = d2
  BY <1>4 DEF IsRecord
<1> QED  BY <1>1, <1>3, <1>5 DEF EncodedAs

\* Where there are no dates, encoding changes nothing.
LEMMA JUndated ==
  ASSUME NEW o, IsRecord(o), o.own = [m \in DOMAIN o.own |-> o.own[m]],
         \A m \in DOMAIN o.own : o.own[m].v.is # "date"
  PROVE  Resolved(o) = o
<1>1. PICK r, s, t : r = Resolved(o) /\ s = o.own /\ t = r.own
  OBVIOUS
<1>2. EncodedAs(o, r)
  BY <1>1, JResolved
<1>3. t = [m \in DOMAIN s |-> IF s[m].v.is = "date" THEN Field(s[m].k, Text(s[m].v.v)) ELSE s[m]]
  BY <1>1, <1>2 DEF EncodedAs
<1>4. t = [m \in DOMAIN s |-> s[m]]
  BY <1>1, <1>3
<1>5. t = s
  BY <1>1, <1>4
<1>6. DatesOf(s) = {}
  BY <1>1 DEF DatesOf
<1>7. r.array = o.array /\ r.dates = o.dates /\ IsRecord(r)
  BY <1>1, <1>2, <1>6 DEF EncodedAs
<1>8. PICK a, d : a = o.array /\ d = o.dates
  OBVIOUS
<1>9. o = [array |-> a, own |-> s, dates |-> d] /\ r = [array |-> a, own |-> s, dates |-> d]
  BY <1>1, <1>5, <1>7, <1>8 DEF IsRecord
<1> QED  BY <1>1, <1>9

\* An object of the sender is encoded once.
LEMMA JTwice ==
  ASSUME NEW w, IsGraph(w.given), NEW i \in DOMAIN w.given
  PROVE  Resolved(Enc(w, i)) = Enc(w, i) /\ IsRecord(Enc(w, i)) /\ IsRecord(w.given[i])
<1>1. PICK g, r, k : g = w.given[i] /\ r = Enc(w, i) /\ k = Width(w, i)
  OBVIOUS
<1>2. IsRecord(g) /\ g.own = [m \in 1 .. k |-> g.own[m]] /\ DOMAIN g.own = 1 .. k
  <2>1. g = [array |-> g.array, own |-> g.own, dates |-> {}]
    BY <1>1, JGivenOwn
  <2>2. PICK a, s : a = g.array /\ s = g.own
    OBVIOUS
  <2>3. g = [array |-> a, own |-> s, dates |-> {}]
    BY <2>1, <2>2
  <2>4. IsRecord(g)
    BY <2>3 DEF IsRecord
  <2> QED  BY <2>4, <1>1, JGivenOwn
<1>3. EncodedAs(g, r)
  <2>1. r = Resolved(g)
    BY <1>1 DEF Enc
  <2> QED  BY <2>1, <1>2, JResolved
<1>4. PICK s : s = r.own
  OBVIOUS
<1>5. s = [m \in 1 .. k |-> IF g.own[m].v.is = "date" THEN Field(g.own[m].k, Text(g.own[m].v.v)) ELSE g.own[m]]
  BY <1>2, <1>3, <1>4 DEF EncodedAs
<1>6. s = [m \in DOMAIN s |-> s[m]] /\ DOMAIN s = 1 .. k
  BY <1>5
<1>7. \A m \in 1 .. k : s[m].v.is # "date"
  <2>1. \A m \in 1 .. k : Enc(w, i).own[m].v.is \in {"text", "object", "null"}
    BY <1>1, JEncoded
  <2> QED  BY <2>1, <1>1, <1>4
<1>8. Resolved(r) = r
  BY <1>3, <1>4, <1>6, <1>7, JUndated DEF EncodedAs
<1> QED  BY <1>1, <1>2, <1>3, <1>8 DEF EncodedAs

\* An object that is like one that was encoded is encoded once.
LEMMA JAlikeTwice ==
  ASSUME NEW w, IsGraph(w.given), NEW i \in DOMAIN w.given, NEW name, NEW o, IsRecord(o), Alike(w, name, o, i)
  PROVE  Resolved(o) = o
<1>1. PICK s, k : s = o.own /\ k = Width(w, i)
  OBVIOUS
<1>2. DOMAIN Enc(w, i).own = 1 .. k /\ \A m \in 1 .. k : Enc(w, i).own[m].v.is \in {"text", "object", "null"}
  BY <1>1, JEncoded
<1>3. s = [m \in 1 .. k |-> IF Enc(w, i).own[m].v.is = "object"
                            THEN Field(Enc(w, i).own[m].k, Object(name[Enc(w, i).own[m].v.v])) ELSE Enc(w, i).own[m]]
  BY <1>1, <1>2 DEF Alike, Renamed
<1>4. s = [m \in DOMAIN s |-> s[m]] /\ DOMAIN s = 1 .. k
  BY <1>3
<1>5. \A m \in 1 .. k : s[m].v.is # "date"
  BY <1>2, <1>3 DEF Field, Object
<1> QED  BY <1>1, <1>4, <1>5, JUndated

\* A property f that is read, of what was encoded as e
ReadField(w, i, name, e, f) ==
  /\ f = Field(f.k, f.v) /\ f.k = e.k /\ e = Field(e.k, e.v)
  /\ e.v.is = "object" => f.v = Object(name[e.v.v]) /\ e.v.v \in Ids(w)
  /\ e.v.is # "object" => f.v = IF HasList(w, i) /\ e.v.is = "text" /\ e.v.v \in Enc(w, i).dates THEN Date(e.v.v) ELSE e.v
  /\ e.v.is \in {"text", "object", "null"} /\ (e.v.is = "text" => e.v = Text(e.v.v))

\* A property that was read, against the one that was written.
LEMMA JReadField ==
  ASSUME NEW w, Written(w), NEW ob, NEW p, NEW i, Filled(w, ob, {}, p, i),
         NEW name, \A j \in Ids(w) : name[j] = PlaceOf(w, j),
         NEW m \in 1 .. Width(w, i), NEW e, e = Enc(w, i).own[m], NEW f, f = ob[p].own[m]
  PROVE  ReadField(w, i, name, e, f)
<1>1. PICK c : c = f.v.v
  OBVIOUS
<1>2. /\ i \in DOMAIN w.given /\ IsGraph(w.given) /\ Width(w, i) \in Nat
      /\ ob[p] \in ObjectType /\ Len(ob[p].own) = Width(w, i)
      /\ FieldOK(w, i, m, f, TRUE) /\ FilledOK(w, ob, {}, p, m) /\ i = Of(w, p)
  BY DEF Filled
<1>3. f \in FieldType
  BY <1>2, JObjectType
<1>4. f = Field(f.k, f.v) /\ f.v = [is |-> f.v.is, v |-> f.v.v]
  BY <1>3 DEF FieldType, Field
<1>5. f.k = e.k /\ IF e.v.is = "object" THEN f.v.is = "object" ELSE f.v = ValueOf(w, i, m, TRUE)
  BY <1>2 DEF FieldOK
<1>6. /\ e.v.is \in {"text", "object", "null"} /\ (e.v.is = "text" => e.v = Text(e.v.v))
      /\ e = Field(e.k, e.v)
  <2>1. PICK g, v : g = w.given[i].own[m] /\ v = IF g.v.is = "date" THEN Text(g.v.v) ELSE g.v
    OBVIOUS
  <2>2. e = Field(g.k, v)
    BY <1>2, <2>1, JEncoded
  <2>3. e = [k |-> g.k, v |-> v]
    BY <2>2 DEF Field
  <2>4. e = Field(e.k, e.v)
    BY <2>3 DEF Field
  <2> QED  BY <2>4, <1>2, JEncoded
<1>7. ASSUME e.v.is = "object" PROVE f.v = Object(name[e.v.v]) /\ e.v.v \in Ids(w)
  <2>1. f.v.is = "object"
    BY <1>5, <1>7
  <2>2. c \in Places(w, Size(w)) /\ StandsFor(w, c, e.v.v) /\ IsOpen(w, c)
    <3>1. PICK rf : rf = {}
      OBVIOUS
    <3>2. FilledOK(w, ob, rf, p, m)
      BY <1>2, <3>1
    <3>3. /\ c \in Places(w, Size(w)) /\ StandsFor(w, c, e.v.v)
          /\ ~IsOpen(w, c) => [parent |-> p, key |-> f.k, id |-> w.text[c].id] \in rf
      BY <1>1, <1>2, <2>1, <3>2 DEF FilledOK
    <3> QED  BY <3>1, <3>3
  <2>3. Of(w, c) = e.v.v
    BY <2>2 DEF StandsFor
  <2>4. e.v.v \in Ids(w) /\ PlaceOf(w, e.v.v) = c
    BY <2>2, <2>3, JPlaceOf
  <2>5. f.v = Object(c)
    BY <2>1, <1>1, <1>4 DEF Object
  <2> QED  BY <2>4, <2>5
<1>8. ASSUME e.v.is # "object"
      PROVE  f.v = IF HasList(w, i) /\ e.v.is = "text" /\ e.v.v \in Enc(w, i).dates THEN Date(e.v.v) ELSE e.v
  BY <1>5, <1>8 DEF ValueOf
<1> QED  BY <1>4, <1>5, <1>6, <1>7, <1>8 DEF ReadField

\* An object that was read is encoded as the one that was written.
LEMMA JAlikeRead ==
  ASSUME NEW w, Written(w), NEW ob, NEW p, NEW i, Filled(w, ob, {}, p, i),
         NEW name, \A j \in Ids(w) : name[j] = PlaceOf(w, j), NEW o, o = ob[p]
  PROVE  IsRecord(o) /\ Alike(w, name, Resolved(o), i)
<1>1. PICK k, s, d, en : k = Width(w, i) /\ s = o.own /\ d = Enc(w, i).dates /\ en = Enc(w, i).own
  OBVIOUS
<1>2. /\ i \in DOMAIN w.given /\ IsGraph(w.given) /\ k \in Nat
      /\ o \in ObjectType /\ Len(s) = k /\ o.array = w.given[i].array /\ o.dates = {}
  BY <1>1 DEF Filled
<1>3. o = [array |-> o.array, own |-> o.own, dates |-> o.dates]
  BY <1>2 DEF ObjectType
<1>4. s \in Seq(FieldType) /\ DOMAIN s = 1 .. k
  <2>1. s \in Seq(FieldType)
    BY <1>1, <1>2, JObjectType
  <2> QED  BY <2>1, <1>2, JSeq
<1>5. \A m \in 1 .. k : ReadField(w, i, name, en[m], s[m])
  BY <1>1, JReadField
<1>6. PICK r : r = Resolved(o)
  OBVIOUS
<1>7. EncodedAs(o, r) /\ IsRecord(o)
  <2>1. IsRecord(o)
    BY <1>3 DEF IsRecord
  <2> QED  BY <2>1, <1>6, JResolved
<1>8. /\ r.array = o.array /\ r.dates = o.dates \cup DatesOf(s)
      /\ r.own = [m \in 1 .. k |-> IF s[m].v.is = "date" THEN Field(s[m].k, Text(s[m].v.v)) ELSE s[m]]
  BY <1>1, <1>4, <1>7 DEF EncodedAs
<1>9. DOMAIN en = 1 .. k /\ d = DatesOf(w.given[i].own) /\ w.given[i].array \in BOOLEAN
  BY <1>1, <1>2, JEncoded
<1>10. ASSUME NEW m \in 1 .. k
       PROVE  (IF s[m].v.is = "date" THEN Field(s[m].k, Text(s[m].v.v)) ELSE s[m]) =
              (IF en[m].v.is = "object" THEN Field(en[m].k, Object(name[en[m].v.v])) ELSE en[m])
  <2>1. PICK e, f : e = en[m] /\ f = s[m]
    OBVIOUS
  <2>2. /\ f = Field(f.k, f.v) /\ f.k = e.k /\ e = Field(e.k, e.v)
        /\ e.v.is = "object" => f.v = Object(name[e.v.v])
        /\ e.v.is # "object" => f.v = IF HasList(w, i) /\ e.v.is = "text" /\ e.v.v \in Enc(w, i).dates THEN Date(e.v.v) ELSE e.v
        /\ e.v.is \in {"text", "object", "null"} /\ (e.v.is = "text" => e.v = Text(e.v.v))
    BY <2>1, <1>5 DEF ReadField
  <2>3. CASE e.v.is = "object"
    <3>1. f.v.is # "date"
      BY <2>2, <2>3 DEF Object
    <3>2. f = Field(e.k, Object(name[e.v.v]))
      BY <2>2, <2>3
    <3> QED  BY <2>1, <2>3, <3>1, <3>2
  <2>4. CASE e.v.is # "object"
    <3>1. CASE f.v = Date(e.v.v) /\ e.v.is = "text"
      <4>1. f.v.is = "date" /\ f.v.v = e.v.v
        BY <3>1 DEF Date
      <4>2. Field(f.k, Text(f.v.v)) = e
        BY <4>1, <2>2, <3>1
      <4> QED  BY <4>1, <4>2, <2>1, <2>4
    <3>2. CASE f.v = e.v
      <4>1. f.v.is # "date" /\ f = e
        BY <2>2, <3>2
      <4> QED  BY <4>1, <2>1, <2>4
    <3> QED  BY <2>2, <2>4, <3>1, <3>2
  <2> QED  BY <2>3, <2>4
<1>11. r.own = Renamed(en, name)
  <2>1. Renamed(en, name) = [m \in 1 .. k |-> IF en[m].v.is = "object" THEN Field(en[m].k, Object(name[en[m].v.v])) ELSE en[m]]
    BY <1>9 DEF Renamed
  <2> QED  BY <2>1, <1>8, <1>10
<1>12. ASSUME ~o.array PROVE r.dates = d
  <2>1. ASSUME NEW x \in DatesOf(s) PROVE x \in d
    <3>1. PICK m \in 1 .. k : s[m].v.is = "date" /\ s[m].v.v = x
      BY <1>4, <2>1 DEF DatesOf
    <3>2. PICK e, f : e = en[m] /\ f = s[m]
      OBVIOUS
    <3>3. ReadField(w, i, name, e, f) /\ f.v.is = "date" /\ f.v.v = x
      BY <3>1, <3>2, <1>5
    <3>4. e.v.is # "object" /\ e.v.is # "date"
      BY <3>3 DEF ReadField, Object
    <3>5. f.v = IF HasList(w, i) /\ e.v.is = "text" /\ e.v.v \in Enc(w, i).dates THEN Date(e.v.v) ELSE e.v
      BY <3>3, <3>4 DEF ReadField
    <3>6. f.v = Date(e.v.v) /\ e.v.v \in d
      BY <3>3, <3>4, <3>5, <1>1
    <3> QED  BY <3>3, <3>6 DEF Date
  <2>2. ASSUME NEW x \in d PROVE x \in DatesOf(s)
    <3>1. PICK m \in DOMAIN w.given[i].own : w.given[i].own[m].v.is = "date" /\ w.given[i].own[m].v.v = x
      BY <1>9, <2>2 DEF DatesOf
    <3>2. m \in 1 .. k
      <4>1. DOMAIN w.given[i].own = 1 .. Width(w, i)
        BY <1>2, JGivenOwn
      <4> QED  BY <4>1, <1>1
    <3>3. PICK g, v, e, f : g = w.given[i].own[m] /\ v = Enc(w, i).own[m].v /\ e = en[m] /\ f = s[m]
      OBVIOUS
    <3>4. WasField(w, i, m, g, v)
      BY <1>1, <1>2, <3>2, <3>3, JWasField
    <3>5. e.v = Text(x)
      BY <3>1, <3>3, <3>4, <1>1 DEF WasField
    <3>6. HasList(w, i)
      BY <1>1, <1>2, <1>12, <2>2 DEF HasList
    <3>7. e.v.is = "text" /\ e.v.v = x
      BY <3>5 DEF Text
    <3>8. ReadField(w, i, name, e, f)
      BY <3>2, <3>3, <1>5
    <3>9. f.v = Date(x)
      BY <3>6, <3>7, <3>8, <1>1, <2>2 DEF ReadField
    <3>10. f.v.is = "date" /\ f.v.v = x
      BY <3>9 DEF Date
    <3> QED  BY <3>2, <3>3, <3>10, <1>4 DEF DatesOf
  <2>3. DatesOf(s) = d
    BY <2>1, <2>2
  <2> QED  BY <2>3, <1>2, <1>8
<1>13. Alike(w, name, r, i)
  BY <1>1, <1>2, <1>8, <1>11, <1>12 DEF Alike
<1> QED  BY <1>6, <1>7, <1>13

\* Before anything is written again.
LEMMA JNothingYet ==
  ASSUME NEW w, Written(w), Size(w) # 0, NEW h, NEW name, name[Root] = Root,
         \A i, j \in Ids(w) : name[i] = name[j] => i = j,
         \A i \in Ids(w) : name[i] \in DOMAIN h /\ IsRecord(h[name[i]]) /\ Alike(w, name, Resolved(h[name[i]]), i)
  PROVE  RewritingOK(w, h, name, 0, <<>>, <<>>, <<>>)
<1>1. Stack(w, 0) = <<>> /\ Met(w, 0) = <<>>
  BY DEF Stack, Met
<1>2. Len(Stack(w, 0)) = 0 /\ Count(w, 0) = 0
  BY <1>1 DEF Count
<1>3. <<>> = [d \in 1 .. Len(Stack(w, 0)) |-> [Stack(w, 0)[d] EXCEPT !.of = name[@]]]
  BY <1>2
<1>4. <<>> = [x \in 1 .. Count(w, 0) |-> name[Met(w, 0)[x]]]
  BY <1>2
<1>5. 0 \in 0 .. Size(w) /\ <<>> = SubSeq(w.text, 1, 0)
  <2>1. PICK T : T = {w.text[p] : p \in DOMAIN w.text}
    OBVIOUS
  <2>2. w.text \in Seq(T)
    BY <2>1 DEF Written
  <2>3. Len(w.text) \in Nat
    BY <2>2, JSeq
  <2> QED  BY <2>2, <2>3 DEF Size
<1>6. \A x \in 1 .. Count(w, 0) : Alike(w, name, h[<<>>[x]], Met(w, 0)[x])
  BY <1>2
<1> QED  BY <1>3, <1>4, <1>5, <1>6 DEF RewritingOK

\* The receiver's objects are encoded again.
LEMMA JReceiver ==
  ASSUME NEW w, Written(w), Size(w) # 0, NEW ob, NEW cs, ResolvingOK(w, ob, cs, {})
  PROVE  \E name \in [Ids(w) -> DOMAIN ob] : RewritingOK(w, ob, name, 0, <<>>, <<>>, <<>>)
<1>1. PICK name : name = [i \in Ids(w) |-> PlaceOf(w, i)]
  OBVIOUS
<1>2. \A i \in Ids(w) : /\ name[i] \in Places(w, Size(w)) /\ IsOpen(w, name[i]) /\ Of(w, name[i]) = i
                        /\ name[i] = PlaceOf(w, i)
  BY <1>1, JPlaceOf
<1>3. DOMAIN ob = Places(w, Size(w))
  BY DEF ResolvingOK
<1>4. name \in [Ids(w) -> DOMAIN ob]
  BY <1>1, <1>2, <1>3
<1>5. name[Root] = Root
  BY <1>2, JRoot DEF Root
<1>6. \A i, j \in Ids(w) : name[i] = name[j] => i = j
  BY <1>2
<1>7. ASSUME NEW i \in Ids(w)
      PROVE  name[i] \in DOMAIN ob /\ IsRecord(ob[name[i]]) /\ Alike(w, name, Resolved(ob[name[i]]), i)
  <2>1. PICK p, rf, o : p = name[i] /\ rf = {} /\ o = ob[p]
    OBVIOUS
  <2>2. p \in Places(w, Size(w)) /\ IsOpen(w, p) /\ i = Of(w, p)
    BY <2>1, <1>2
  <2>3. Filled(w, ob, rf, p, i)
    BY <2>1, <2>2, JFilled
  <2>4. Filled(w, ob, {}, p, i)
    BY <2>1, <2>3
  <2>5. \A j \in Ids(w) : name[j] = PlaceOf(w, j)
    BY <1>2
  <2>6. IsRecord(o) /\ Alike(w, name, Resolved(o), i)
    BY <2>1, <2>4, <2>5, JAlikeRead
  <2> QED  BY <2>1, <2>2, <2>6, <1>3
<1>8. RewritingOK(w, ob, name, 0, <<>>, <<>>, <<>>)
  BY <1>5, <1>6, <1>7, JNothingYet
<1> QED  BY <1>4, <1>8

\* The sender's objects are encoded again.
LEMMA JSender ==
  ASSUME NEW w, Written(w), Size(w) # 0, NEW h, HeapOK(w.given, h, Final(w)),
         NEW ob, NEW cs, ResolvingOK(w, ob, cs, {})
  PROVE  \E name \in [Ids(w) -> DOMAIN h] : RewritingOK(w, h, name, 0, <<>>, <<>>, <<>>)
<1>1. PICK name : name = [i \in Ids(w) |-> i]
  OBVIOUS
<1>2. IsGraph(w.given) /\ DOMAIN h = DOMAIN w.given /\ \A i \in Ids(w) : i \in DOMAIN w.given
  BY JPlaceOf DEF Written, HeapOK
<1>3. name \in [Ids(w) -> DOMAIN h]
  BY <1>1, <1>2
<1>4. Root \in Ids(w)
  BY JRoot
<1>5. name[Root] = Root /\ \A i, j \in Ids(w) : name[i] = name[j] => i = j
  BY <1>1, <1>4
<1>6. ASSUME NEW i \in Ids(w)
      PROVE  name[i] \in DOMAIN h /\ IsRecord(h[name[i]]) /\ Alike(w, name, Resolved(h[name[i]]), i)
  <2>1. PICK r : r = Enc(w, i)
    OBVIOUS
  <2>2. h[i] = r
    <3>1. \E x \in 1 .. Len(Final(w)) : Final(w)[x] = i
      BY DEF Ids
    <3> QED  BY <3>1, <2>1, <1>2 DEF HeapOK, Enc
  <2>3. Resolved(r) = r /\ IsRecord(r) /\ r.array = w.given[i].array
    BY <2>1, <1>2, JTwice, JEncoded
  <2>4. r.own = Renamed(r.own, name)
    <3>1. PICK k, s : k = Width(w, i) /\ s = r.own
      OBVIOUS
    <3>2. PICK g : g = w.given[i]
      OBVIOUS
    <3>3. DOMAIN s = 1 .. k /\ s = [m \in 1 .. k |-> s[m]]
      <4>1. EncodedAs(g, r)
        BY <2>1, <3>2, <1>2, JTwice, JResolved DEF Enc
      <4>2. s = [m \in DOMAIN g.own |-> IF g.own[m].v.is = "date" THEN Field(g.own[m].k, Text(g.own[m].v.v)) ELSE g.own[m]]
        BY <3>1, <4>1 DEF EncodedAs
      <4>3. DOMAIN g.own = 1 .. k
        BY <3>1, <3>2, <1>2, JGivenOwn
      <4> QED  BY <4>2, <4>3
    <3>4. ASSUME NEW m \in 1 .. k PROVE s[m] = IF s[m].v.is = "object" THEN Field(s[m].k, Object(name[s[m].v.v])) ELSE s[m]
      <4>1. PICK e, f, v : e = s[m] /\ f = w.given[i].own[m] /\ v = e.v
        OBVIOUS
      <4>2. WasField(w, i, m, f, v)
        BY <2>1, <3>1, <4>1, <1>2, JWasField
      <4>3. e.k = f.k /\ e = Field(f.k, v) /\ (v.is = "object" => v = Object(v.v))
        <5>1. e.k = f.k
          BY <2>1, <3>1, <4>1, <4>2 DEF WasField
        <5>2. v.is = "object" => v = Object(v.v)
          BY <2>1, <3>1, <4>1, <1>2, JEncoded
        <5>3. PICK u : u = IF f.v.is = "date" THEN Text(f.v.v) ELSE f.v
          OBVIOUS
        <5>4. e = Field(f.k, u)
          BY <2>1, <3>1, <4>1, <5>3, <1>2, JEncoded
        <5>5. v = u
          BY <4>2, <5>3 DEF WasField
        <5> QED  BY <5>1, <5>2, <5>4, <5>5
      <4>4. ASSUME v.is = "object" PROVE v.v \in Ids(w)
        <5>1. PICK p, rf, at, g2 : /\ p = PlaceOf(w, i) /\ rf = {} /\ at = [j \in Ids(w) |-> PlaceOf(w, j)]
                                   /\ g2 = ob[p].own[m]
          OBVIOUS
        <5>2. p \in Places(w, Size(w)) /\ IsOpen(w, p) /\ i = Of(w, p)
          BY <5>1, JPlaceOf
        <5>3. Filled(w, ob, rf, p, i)
          BY <5>1, <5>2, JFilled
        <5>4. Filled(w, ob, {}, p, i) /\ \A j \in Ids(w) : at[j] = PlaceOf(w, j)
          BY <5>1, <5>3
        <5>5. ReadField(w, i, at, e, g2)
          BY <2>1, <3>1, <4>1, <5>1, <5>4, JReadField
        <5> QED  BY <4>1, <4>4, <5>5 DEF ReadField
      <4> QED  BY <4>1, <4>3, <4>4, <1>1
    <3>5. s = Renamed(s, name)
      BY <3>3, <3>4 DEF Renamed
    <3> QED  BY <3>1, <3>5
  <2>5. Alike(w, name, r, i)
    BY <2>1, <2>3, <2>4 DEF Alike
  <2> QED  BY <2>2, <2>3, <2>5, <1>1, <1>2
<1>7. RewritingOK(w, h, name, 0, <<>>, <<>>, <<>>)
  BY <1>5, <1>6, JNothingYet
<1> QED  BY <1>3, <1>7

\* The replacer is called with object i of h, when m has been met
ReplacesIn(h, m, key, i, stack, p, token, h2, s2, m2) ==
  /\ h2 = [h EXCEPT ![i] = Resolved(@)]
  /\ IF \E x \in DOMAIN m : m[x] = i
     THEN /\ m2 = m /\ s2 = stack
          /\ token = [is |-> "ref", k |-> key, id |-> (CHOOSE x \in DOMAIN m : m[x] = i) - 1]
     ELSE /\ m2 = Append(m, i) /\ s2 = Append(stack, [of |-> i, open |-> p, at |-> 1])
          /\ token = [is |-> "open", k |-> key, array |-> h[i].array]

OwnIn(h, s) == h[Last(s).of].own
HasDatesIn(h, s) == h[Last(s).of].dates # {} /\ ~h[Last(s).of].array

\* Token p is written of the objects h, inside s
RootIn(h, s, m, p, token, h2, s2, m2) == p = 1 /\ ReplacesIn(h, m, NoKey, Root, <<>>, p, token, h2, s2, m2)
ObjectIn(h, s, m, p, token, h2, s2, m2) ==
  /\ s # <<>> /\ Last(s).at <= Len(OwnIn(h, s)) /\ OwnIn(h, s)[Last(s).at].v.is = "object"
  /\ ReplacesIn(h, m, OwnIn(h, s)[Last(s).at].k, OwnIn(h, s)[Last(s).at].v.v, Past(s), p, token, h2, s2, m2)
ValueIn(h, s, m, token, h2, s2, m2) ==
  /\ s # <<>> /\ Last(s).at <= Len(OwnIn(h, s)) /\ OwnIn(h, s)[Last(s).at].v.is # "object"
  /\ h2 = h /\ m2 = m /\ s2 = Past(s)
  /\ token = [is |-> "value", k |-> OwnIn(h, s)[Last(s).at].k, v |-> OwnIn(h, s)[Last(s).at].v]
DatesIn(h, s, m, token, h2, s2, m2) ==
  /\ s # <<>> /\ Last(s).at = Len(OwnIn(h, s)) + 1 /\ HasDatesIn(h, s)
  /\ h2 = h /\ m2 = m /\ s2 = Past(s)
  /\ token = [is |-> "dates", v |-> h[Last(s).of].dates]
EndIn(h, s, m, token, h2, s2, m2) ==
  /\ s # <<>> /\ Last(s).at = Len(OwnIn(h, s)) + (IF HasDatesIn(h, s) THEN 2 ELSE 1)
  /\ h2 = h /\ m2 = m /\ s2 = Front(s)
  /\ token = [is |-> "close"]
WritesIn(h, s, m, p, token, h2, s2, m2) ==
  \/ RootIn(h, s, m, p, token, h2, s2, m2) \/ ObjectIn(h, s, m, p, token, h2, s2, m2)
  \/ ValueIn(h, s, m, token, h2, s2, m2) \/ DatesIn(h, s, m, token, h2, s2, m2) \/ EndIn(h, s, m, token, h2, s2, m2)

\* A step of stringify writes one token.
Spelled(token) ==
  /\ text' = Append(text, token)
  /\ trace' = IF step = "write" THEN Append(trace, [writing |-> writing', seen |-> seen']) ELSE trace
  /\ UNCHANGED <<step, given, reader>>

\* Spell appends one token.
LEMMA JSpell ==
  ASSUME NEW token, NEW stack, Spell(token, stack)
  PROVE  Spelled(token) /\ writing' = stack
BY DEF Spell, Spelled

\* Each call of the replacer with an object is a step of the relation ReplacesIn.
LEMMA JReplaces ==
  ASSUME NEW key, NEW i, NEW stack, NEW p, p = Len(text) + 1, Replace(key, i, stack)
  PROVE  \E token : Spelled(token) /\ ReplacesIn(heap, seen, key, i, stack, p, token, heap', writing', seen')
<1>1. CASE IsMet(i)
  <2>1. PICK token : token = [is |-> "ref", k |-> key, id |-> (CHOOSE n \in DOMAIN seen : seen[n] = i) - 1]
    OBVIOUS
  <2>2. Spell(token, stack) /\ heap' = [heap EXCEPT ![i] = Resolved(@)] /\ seen' = seen
    BY <1>1, <2>1 DEF Replace
  <2>3. Spelled(token) /\ writing' = stack
    BY <2>2, JSpell
  <2>4. \E x \in DOMAIN seen : seen[x] = i
    BY <1>1 DEF IsMet
  <2> QED  BY <2>1, <2>2, <2>3, <2>4 DEF ReplacesIn
<1>2. CASE ~IsMet(i)
  <2>1. PICK token, st : /\ token = [is |-> "open", k |-> key, array |-> heap[i].array]
                         /\ st = Append(stack, [of |-> i, open |-> p, at |-> 1])
    OBVIOUS
  <2>2. Spell(token, st) /\ heap' = [heap EXCEPT ![i] = Resolved(@)] /\ seen' = Append(seen, i)
    BY <1>2, <2>1 DEF Replace
  <2>3. Spelled(token) /\ writing' = st
    BY <2>2, JSpell
  <2>4. ~\E x \in DOMAIN seen : seen[x] = i
    BY <1>2 DEF IsMet
  <2> QED  BY <2>1, <2>2, <2>3, <2>4 DEF ReplacesIn
<1> QED  BY <1>1, <1>2

\* Each step of stringify is a step of the relation WritesIn.
LEMMA JStringify ==
  ASSUME Stringify, NEW p, p = Len(text) + 1
  PROVE  IsWriting /\ \E token : Spelled(token) /\ WritesIn(heap, writing, seen, p, token, heap', writing', seen')
<1>1. CASE WriteRoot
  <2>1. IsWriting /\ text = <<>> /\ Replace(NoKey, Root, <<>>)
    BY <1>1 DEF WriteRoot
  <2>2. PICK token : Spelled(token) /\ ReplacesIn(heap, seen, NoKey, Root, <<>>, p, token, heap', writing', seen')
    BY <2>1, JReplaces
  <2>3. p = 1
    BY <2>1
  <2> QED  BY <2>1, <2>2, <2>3 DEF WritesIn, RootIn
<1>2. CASE WriteObject
  <2>1. PICK key, i, stack : key = Own[Inner.at].k /\ i = Own[Inner.at].v.v /\ stack = Passed
    OBVIOUS
  <2>2. /\ IsWriting /\ writing # <<>> /\ Inner.at <= Len(Own) /\ Own[Inner.at].v.is = "object"
        /\ Replace(key, i, stack)
    BY <1>2, <2>1 DEF WriteObject
  <2>3. PICK token : Spelled(token) /\ ReplacesIn(heap, seen, key, i, stack, p, token, heap', writing', seen')
    BY <2>2, JReplaces
  <2>4. stack = Past(writing)
    BY <2>1 DEF Passed, Past
  <2>5. ObjectIn(heap, writing, seen, p, token, heap', writing', seen')
    BY <2>1, <2>2, <2>3, <2>4 DEF ObjectIn, OwnIn, Own, Inner
  <2> QED  BY <2>2, <2>3, <2>5 DEF WritesIn
<1>3. CASE WriteValue
  <2>1. PICK token, stack : token = [is |-> "value", k |-> Own[Inner.at].k, v |-> Own[Inner.at].v] /\ stack = Passed
    OBVIOUS
  <2>2. /\ IsWriting /\ writing # <<>> /\ Inner.at <= Len(Own) /\ Own[Inner.at].v.is # "object"
        /\ heap' = heap /\ seen' = seen /\ Spell(token, stack)
    BY <1>3, <2>1 DEF WriteValue
  <2>3. Spelled(token) /\ writing' = stack
    BY <2>2, JSpell
  <2>4. stack = Past(writing)
    BY <2>1 DEF Passed, Past
  <2>5. ValueIn(heap, writing, seen, token, heap', writing', seen')
    BY <2>1, <2>2, <2>3, <2>4 DEF ValueIn, OwnIn, Own, Inner
  <2> QED  BY <2>2, <2>3, <2>5 DEF WritesIn
<1>4. CASE WriteDates
  <2>1. PICK token, stack : token = [is |-> "dates", v |-> heap[Inner.of].dates] /\ stack = Passed
    OBVIOUS
  <2>2. /\ IsWriting /\ writing # <<>> /\ Inner.at = Len(Own) + 1 /\ HasDatesToWrite
        /\ heap' = heap /\ seen' = seen /\ Spell(token, stack)
    BY <1>4, <2>1 DEF WriteDates
  <2>3. Spelled(token) /\ writing' = stack
    BY <2>2, JSpell
  <2>4. stack = Past(writing)
    BY <2>1 DEF Passed, Past
  <2>5. DatesIn(heap, writing, seen, token, heap', writing', seen')
    BY <2>1, <2>2, <2>3, <2>4 DEF DatesIn, HasDatesIn, HasDatesToWrite, OwnIn, Own, Inner
  <2> QED  BY <2>2, <2>3, <2>5 DEF WritesIn
<1>5. CASE WriteEnd
  <2>1. PICK token, stack : token = [is |-> "close"] /\ stack = Front(writing)
    OBVIOUS
  <2>2. /\ IsWriting /\ writing # <<>> /\ Inner.at = Len(Own) + (IF HasDatesToWrite THEN 2 ELSE 1)
        /\ heap' = heap /\ seen' = seen /\ Spell(token, stack)
    BY <1>5, <2>1 DEF WriteEnd
  <2>3. Spelled(token) /\ writing' = stack
    BY <2>2, JSpell
  <2>4. EndIn(heap, writing, seen, token, heap', writing', seen')
    BY <2>1, <2>2, <2>3 DEF EndIn, HasDatesIn, HasDatesToWrite, OwnIn, Own, Inner
  <2> QED  BY <2>2, <2>3, <2>4 DEF WritesIn
<1> QED  BY <1>1, <1>2, <1>3, <1>4, <1>5 DEF Stringify

\* The object that is written has been met.
LEMMA JMetInside ==
  ASSUME NEW w, Written(w), NEW n \in 0 .. Size(w), Stack(w, n) # <<>>
  PROVE  \E x \in 1 .. Count(w, n) : Met(w, n)[x] = Last(Stack(w, n)).of
<1>1. PICK q : q = Inside(w, n)
  OBVIOUS
<1>2. q \in 1 .. n /\ IsOpen(w, q) /\ Last(Stack(w, n)).of = Of(w, q) /\ n \in Nat /\ Size(w) \in Nat
  BY <1>1, JInside, JStack
<1>3. q \in 1 .. Size(w) /\ q \in 0 .. n
  BY <1>2
<1>4. Count(w, q - 1) \in Nat /\ Count(w, q) = Count(w, q - 1) + 1 /\ Of(w, q) = Met(w, q)[Count(w, q)]
  BY <1>2, <1>3, JOpened
<1>5. Count(w, q) \in Nat /\ Count(w, n) \in Nat /\ Count(w, q) <= Count(w, n)
      /\ \A x \in 1 .. Count(w, q) : Met(w, n)[x] = Met(w, q)[x]
  BY <1>3, JCounts
<1>6. PICK x : x = Count(w, q)
  OBVIOUS
<1>7. x \in 1 .. Count(w, q) /\ x \in 1 .. Count(w, n)
  BY <1>4, <1>5, <1>6
<1>8. Met(w, n)[x] = Last(Stack(w, n)).of
  BY <1>2, <1>4, <1>5, <1>6, <1>7
<1> QED  BY <1>7, <1>8

IsIn(m, i) == \E x \in 1 .. Len(m) : m[x] = i

\* An object is as it was given until it is met, and encoded from then on.
HeapOf(w, h, m, i) ==
  /\ DOMAIN h = DOMAIN w.given
  /\ IsIn(m, i) => h[i] = Enc(w, i)
  /\ Resolved(h[i]) = Enc(w, i) /\ h[i].array = w.given[i].array

\* The objects of the sender while they are encoded.
LEMMA JHeap ==
  ASSUME NEW w, IsGraph(w.given), NEW h, NEW m, HeapOK(w.given, h, m), NEW i \in DOMAIN w.given
  PROVE  HeapOf(w, h, m, i)
<1>1. DOMAIN h = DOMAIN w.given /\ h[i] = IF IsIn(m, i) THEN Enc(w, i) ELSE w.given[i]
  BY DEF HeapOK, IsIn, Enc
<1>2. Resolved(Enc(w, i)) = Enc(w, i) /\ Enc(w, i).array = w.given[i].array
  BY JTwice, JEncoded
<1>3. Resolved(w.given[i]) = Enc(w, i)
  BY DEF Enc
<1>4. CASE IsIn(m, i)
  BY <1>1, <1>2, <1>4 DEF HeapOf
<1>5. CASE ~IsIn(m, i)
  BY <1>1, <1>3, <1>5 DEF HeapOf
<1> QED  BY <1>4, <1>5

\* The replacer encodes the object it is called with.
LEMMA JHeapKept ==
  ASSUME NEW w, IsGraph(w.given), NEW h, NEW m, HeapOK(w.given, h, m), NEW i \in DOMAIN w.given,
         NEW h2, h2 = [h EXCEPT ![i] = Resolved(@)],
         NEW m2, \A j : IsIn(m2, j) <=> (IsIn(m, j) \/ j = i)
  PROVE  HeapOK(w.given, h2, m2)
<1> DEFINE old(j) == IF IsIn(m, j) THEN Resolved(w.given[j]) ELSE w.given[j]
           new(j) == IF IsIn(m2, j) THEN Resolved(w.given[j]) ELSE w.given[j]
<1>1. h = [j \in DOMAIN w.given |-> old(j)]
  BY DEF HeapOK, IsIn
<1>2. Resolved(h[i]) = Resolved(w.given[i])
  BY JHeap DEF HeapOf, Enc
<1>3. ASSUME NEW j \in DOMAIN w.given
      PROVE  h2[j] = new(j)
  <2>1. CASE j = i
    <3>1. new(j) = Resolved(w.given[i])
      BY <2>1
    <3>2. h2[j] = Resolved(h[i])
      BY <1>1, <2>1
    <3> QED  BY <3>1, <3>2, <1>2
  <2>2. CASE j # i
    <3>1. h2[j] = h[j] /\ h[j] = old(j)
      BY <1>1, <2>2
    <3>2. IsIn(m2, j) <=> IsIn(m, j)
      BY <2>2
    <3>3. old(j) = new(j)
      BY <3>2
    <3> QED  BY <3>1, <3>3
  <2> QED  BY <2>1, <2>2
<1>4. h2 = [j \in DOMAIN w.given |-> new(j)]
  <2>1. DOMAIN h2 = DOMAIN w.given /\ h2 = [j \in DOMAIN h2 |-> h2[j]]
    BY <1>1
  <2> QED  BY <2>1, <1>3
<1> QED  BY <1>4 DEF HeapOK, IsIn

IsOldOrNew(w, key, i, stack, p, token, s2, m, m2) ==
  \/ Opens(w, key, i, stack, token, p, s2, m, m2)
  \/ /\ token = [is |-> "ref", k |-> key, id |-> token.id]
     /\ token.id \in Nat /\ token.id + 1 \in DOMAIN m /\ m[token.id + 1] = i
     /\ m2 = m /\ s2 = stack

\* The replacer opens an object that was not met, and refers to another.
LEMMA JReplacing ==
  ASSUME NEW w, IsGraph(w.given), NEW h, NEW m \in Seq(DOMAIN w.given), HeapOK(w.given, h, m),
         NEW i \in DOMAIN w.given, NEW key, NEW stack, NEW p, NEW token, NEW h2, NEW s2, NEW m2,
         ReplacesIn(h, m, key, i, stack, p, token, h2, s2, m2)
  PROVE  IsOldOrNew(w, key, i, stack, p, token, s2, m, m2) /\ HeapOK(w.given, h2, m2)
<1>1. h2 = [h EXCEPT ![i] = Resolved(@)] /\ h[i].array = w.given[i].array
  BY JHeap DEF ReplacesIn, HeapOf
<1>2. DOMAIN m = 1 .. Len(m) /\ Len(m) \in Nat
  BY JSeq
<1>3. CASE IsIn(m, i)
  <2>1. PICK x : x = CHOOSE y \in DOMAIN m : m[y] = i
    OBVIOUS
  <2>2. x \in DOMAIN m /\ m[x] = i
    BY <1>2, <1>3, <2>1 DEF IsIn
  <2>3. m2 = m /\ s2 = stack /\ token = [is |-> "ref", k |-> key, id |-> x - 1]
    BY <1>2, <1>3, <2>1 DEF ReplacesIn, IsIn
  <2>4. token.id = x - 1 /\ token.id \in Nat /\ token.id + 1 = x
    BY <1>2, <2>2, <2>3
  <2>5. IsOldOrNew(w, key, i, stack, p, token, s2, m, m2)
    BY <2>2, <2>3, <2>4 DEF IsOldOrNew
  <2>6. \A j : IsIn(m2, j) <=> (IsIn(m, j) \/ j = i)
    BY <1>3, <2>3
  <2> QED  BY <1>1, <2>5, <2>6, JHeapKept
<1>4. CASE ~IsIn(m, i)
  <2>1. /\ m2 = Append(m, i) /\ s2 = Append(stack, [of |-> i, open |-> p, at |-> 1])
        /\ token = [is |-> "open", k |-> key, array |-> h[i].array]
    BY <1>2, <1>4 DEF ReplacesIn, IsIn
  <2>2. \A x \in DOMAIN m : m[x] # i
    BY <1>2, <1>4 DEF IsIn
  <2>3. IsOldOrNew(w, key, i, stack, p, token, s2, m, m2)
    BY <1>1, <2>1, <2>2 DEF IsOldOrNew, Opens
  <2>4. /\ Len(m2) = Len(m) + 1 /\ m2[Len(m) + 1] = i
        /\ \A x \in 1 .. Len(m) : m2[x] = m[x]
    BY <2>1, JSeqAppend
  <2>5. ASSUME NEW j
        PROVE  IsIn(m2, j) <=> (IsIn(m, j) \/ j = i)
    <3>1. IsIn(m2, j) => (IsIn(m, j) \/ j = i)
      BY <1>2, <2>4 DEF IsIn
    <3>2. IsIn(m, j) => IsIn(m2, j)
      BY <1>2, <2>4 DEF IsIn
    <3>3. j = i => IsIn(m2, j)
      BY <1>2, <2>4 DEF IsIn
    <3> QED  BY <3>1, <3>2, <3>3
  <2> QED  BY <1>1, <2>3, <2>5, JHeapKept
<1> QED  BY <1>3, <1>4

IsInner(w, h, s, p, i, k) ==
  /\ i = Last(s).of /\ k = Last(s).at /\ i \in DOMAIN w.given /\ p > 1
  /\ OwnIn(h, s) = Enc(w, i).own /\ Len(OwnIn(h, s)) = Width(w, i)
  /\ HasDatesIn(h, s) <=> HasList(w, i)
  /\ h[i].dates = Enc(w, i).dates
  /\ k \in 1 .. End(w, i) /\ Width(w, i) \in Nat /\ k \in Nat \ {0}

\* What is left to write of the innermost object.
LEMMA JInner ==
  ASSUME NEW w, Written(w), NEW h, NEW m, m = Met(w, Size(w)), HeapOK(w.given, h, m),
         NEW s, s = Stack(w, Size(w)), s # <<>>, NEW p, p = Size(w) + 1,
         NEW i, i = Last(s).of, NEW k, k = Last(s).at
  PROVE  IsInner(w, h, s, p, i, k)
<1>1. PICK n : n = Size(w)
  OBVIOUS
<1>2. IsGraph(w.given) /\ n \in Nat
  BY <1>1 DEF Written, Size
<1>3. n \in 0 .. Size(w)
  BY <1>1, <1>2
<1>4. i \in DOMAIN w.given /\ k \in 1 .. End(w, i) /\ k \in Nat \ {0}
  BY <1>1, <1>3, JInside
<1>5. IsIn(m, i)
  BY <1>1, <1>3, JMetInside DEF IsIn, Count
<1>11. HeapOf(w, h, m, i)
  BY <1>2, <1>4, JHeap
<1>12. h[i] = Enc(w, i)
  BY <1>5, <1>11 DEF HeapOf
<1>6. h[i] = Enc(w, i) /\ Enc(w, i).array = w.given[i].array /\ Len(Enc(w, i).own) = Width(w, i) /\ Width(w, i) \in Nat
  <2>1. Enc(w, i).array = w.given[i].array /\ Len(Enc(w, i).own) = Width(w, i) /\ Width(w, i) \in Nat
    BY <1>2, <1>4, JEncoded
  <2> QED  BY <1>12, <2>1
<1>7. n # 0
  BY <1>1 DEF Stack
<1>8. p > 1
  BY <1>1, <1>2, <1>7
<1>9. HasDatesIn(h, s) <=> HasList(w, i)
  BY <1>6 DEF HasDatesIn, HasList
<1>10. OwnIn(h, s) = Enc(w, i).own
  BY <1>6 DEF OwnIn
<1> QED  BY <1>4, <1>6, <1>8, <1>9, <1>10 DEF IsInner

\* What is written first continues the text.
LEMMA JFirst ==
  ASSUME NEW w, Written(w), NEW h, NEW m, m = Met(w, Size(w)), HeapOK(w.given, h, m),
         NEW s, s = Stack(w, Size(w)), NEW p, p = Size(w) + 1,
         NEW token, NEW h2, NEW s2, NEW m2, WritesIn(h, s, m, p, token, h2, s2, m2)
  PROVE  Continues(w, token, p, s, s2, m, m2) /\ HeapOK(w.given, h2, m2)
<1>1. PICK n : n = Size(w)
  OBVIOUS
<1>2. IsGraph(w.given) /\ n \in Nat /\ n \in 0 .. Size(w)
  BY <1>1 DEF Written, Size
<1>3. m \in Seq(DOMAIN w.given) /\ s \in Seq(FrameType(w))
  BY <1>1, <1>2, JTypes
<1>4. CASE RootIn(h, s, m, p, token, h2, s2, m2)
  <2>1. p = 1 /\ ReplacesIn(h, m, NoKey, Root, <<>>, p, token, h2, s2, m2)
    BY <1>4 DEF RootIn
  <2>2. n = 0
    BY <1>1, <1>2, <2>1
  <2>3. s = <<>> /\ m = <<>>
    BY <1>1, <2>2 DEF Stack, Met
  <2>4. Root \in DOMAIN w.given
    BY <1>2 DEF IsGraph
  <2>5. PICK key, i, stack : key = NoKey /\ i = Root /\ stack = s
    OBVIOUS
  <2>6. ReplacesIn(h, m, key, i, stack, p, token, h2, s2, m2) /\ i \in DOMAIN w.given
    BY <2>1, <2>3, <2>4, <2>5
  <2>7. IsOldOrNew(w, key, i, stack, p, token, s2, m, m2) /\ HeapOK(w.given, h2, m2)
    BY <1>2, <1>3, <2>6, JReplacing
  <2>8. ~(token.id + 1 \in DOMAIN m)
    BY <2>3
  <2>9. Opens(w, key, i, stack, token, p, s2, m, m2)
    BY <2>7, <2>8 DEF IsOldOrNew
  <2>10. OpensRoot(w, token, p, s, s2, m, m2)
    BY <2>1, <2>3, <2>5, <2>9 DEF OpensRoot
  <2> QED  BY <2>7, <2>10 DEF Continues
<1>5. ASSUME s # <<>>, ~RootIn(h, s, m, p, token, h2, s2, m2)
      PROVE  Continues(w, token, p, s, s2, m, m2) /\ HeapOK(w.given, h2, m2)
  <2>1. PICK j, k : j = Last(s).of /\ k = Last(s).at
    OBVIOUS
  <2>2. IsInner(w, h, s, p, j, k)
    BY <1>5, <2>1, JInner
  <2>3. CASE ObjectIn(h, s, m, p, token, h2, s2, m2)
    <3>1. PICK f, key, i, stack : f = NextField(w, s) /\ key = f.k /\ i = f.v.v /\ stack = Past(s)
      OBVIOUS
    <3>2. f = Enc(w, j).own[k] /\ f = OwnIn(h, s)[Last(s).at]
      BY <2>1, <2>2, <3>1 DEF NextField, IsInner
    <3>3. k <= Width(w, j) /\ f.v.is = "object" /\ ReplacesIn(h, m, key, i, stack, p, token, h2, s2, m2)
      BY <2>1, <2>2, <2>3, <3>1, <3>2 DEF ObjectIn, IsInner
    <3>4. k \in 1 .. Width(w, j) /\ j \in DOMAIN w.given
      BY <2>2, <3>3 DEF IsInner
    <3>5. i \in DOMAIN w.given
      BY <1>2, <3>1, <3>2, <3>3, <3>4, JEncoded
    <3>6. IsOldOrNew(w, key, i, stack, p, token, s2, m, m2) /\ HeapOK(w.given, h2, m2)
      BY <1>2, <1>3, <3>3, <3>5, JReplacing
    <3>7. InFields(w, s) /\ p > 1
      BY <1>5, <2>1, <2>2, <3>3 DEF InFields, IsInner
    <3>8. CASE Opens(w, key, i, stack, token, p, s2, m, m2)
      <4>1. OpensObject(w, token, p, s, s2, m, m2)
        BY <3>1, <3>3, <3>7, <3>8 DEF OpensObject
      <4> QED  BY <3>6, <4>1 DEF Continues
    <3>9. CASE ~Opens(w, key, i, stack, token, p, s2, m, m2)
      <4>1. Refers(w, token, p, s, s2, m, m2)
        BY <3>1, <3>3, <3>6, <3>7, <3>9 DEF Refers, IsOldOrNew
      <4> QED  BY <3>6, <4>1 DEF Continues
    <3> QED  BY <3>8, <3>9
  <2>4. CASE ValueIn(h, s, m, token, h2, s2, m2)
    <3>1. PICK f : f = NextField(w, s)
      OBVIOUS
    <3>2. f = OwnIn(h, s)[Last(s).at]
      BY <2>1, <2>2, <3>1 DEF NextField, IsInner
    <3>3. Tells(w, token, p, s, s2, m, m2) /\ h2 = h /\ m2 = m
      BY <1>5, <2>1, <2>2, <2>4, <3>1, <3>2 DEF ValueIn, IsInner, Tells, InFields
    <3> QED  BY <3>3 DEF Continues
  <2>5. CASE DatesIn(h, s, m, token, h2, s2, m2)
    <3>1. Lists(w, token, p, s, s2, m, m2) /\ h2 = h /\ m2 = m
      BY <1>5, <2>1, <2>2, <2>5 DEF DatesIn, IsInner, Lists
    <3> QED  BY <3>1 DEF Continues
  <2>6. CASE EndIn(h, s, m, token, h2, s2, m2)
    <3>1. Last(s).at = End(w, Last(s).of)
      BY <2>1, <2>2, <2>6 DEF EndIn, IsInner, End
    <3>2. Closes(w, token, p, s, s2, m, m2) /\ h2 = h /\ m2 = m
      BY <1>5, <2>2, <2>6, <3>1 DEF EndIn, IsInner, Closes
    <3> QED  BY <3>2 DEF Continues
  <2> QED  BY <1>5, <2>3, <2>4, <2>5, <2>6 DEF WritesIn
<1>6. s # <<>> \/ RootIn(h, s, m, p, token, h2, s2, m2)
  BY DEF WritesIn, ObjectIn, ValueIn, DatesIn, EndIn
<1> QED  BY <1>4, <1>5, <1>6

\* A stack, and what was met, by other names
Named(name, st) == [d \in 1 .. Len(st) |-> [st[d] EXCEPT !.of = name[@]]]
NamedMet(name, m) == [x \in 1 .. Len(m) |-> name[m[x]]]

\* Two sequences with the same elements are the same.
LEMMA JSameSeq ==
  ASSUME NEW S, NEW a \in Seq(S), NEW b \in Seq(S), Len(a) = Len(b), \A d \in 1 .. Len(a) : a[d] = b[d]
  PROVE  a = b
<1>1. a = [d \in 1 .. Len(a) |-> a[d]] /\ b = [d \in 1 .. Len(b) |-> b[d]]
  BY JSeq
<1> QED  BY <1>1

IsNamed(v, name, st, s) ==
  /\ s \in Seq(FrameType(v)) /\ Len(s) = Len(st) /\ Len(s) \in Nat
  /\ \A d \in 1 .. Len(st) : s[d] = [of |-> name[st[d].of], open |-> st[d].open, at |-> st[d].at]

\* The frames keep their places.
LEMMA JNamed ==
  ASSUME NEW w, NEW name, NEW st \in Seq(FrameType(w)), NEW v, DOMAIN v.given = {name[i] : i \in DOMAIN w.given},
         NEW s, s = Named(name, st)
  PROVE  IsNamed(v, name, st, s)
<1>1. Len(st) \in Nat /\ \A d \in 1 .. Len(st) : st[d] \in FrameType(w)
  BY JSeq
<1>2. ASSUME NEW d \in 1 .. Len(st)
      PROVE  s[d] = [of |-> name[st[d].of], open |-> st[d].open, at |-> st[d].at] /\ s[d] \in FrameType(v)
  <2>1. PICK r : r = st[d]
    OBVIOUS
  <2>2. r \in FrameType(w)
    BY <1>1, <2>1
  <2>3. /\ r.of \in DOMAIN w.given /\ r.open \in Nat \ {0} /\ r.at \in Nat \ {0}
        /\ r = [of |-> r.of, open |-> r.open, at |-> r.at]
    BY <2>2, JFrame
  <2>4. [r EXCEPT !.of = name[@]] = [of |-> name[r.of], open |-> r.open, at |-> r.at]
    BY <2>3
  <2>5. s[d] = [r EXCEPT !.of = name[@]]
    BY <2>1 DEF Named
  <2>6. name[r.of] \in DOMAIN v.given
    BY <2>3
  <2>7. s[d] \in FrameType(v)
    BY <2>3, <2>4, <2>5, <2>6 DEF FrameType
  <2> QED  BY <2>1, <2>4, <2>5, <2>7
<1>3. s = [d \in 1 .. Len(st) |-> s[d]]
  BY DEF Named
<1>4. PICK n, S : n = Len(st) /\ S = FrameType(v)
  OBVIOUS
<1>5. n \in Nat /\ s = [d \in 1 .. n |-> s[d]] /\ \A d \in 1 .. n : s[d] \in S
  BY <1>1, <1>2, <1>3, <1>4
<1>6. s \in Seq(S) /\ Len(s) = n
  BY <1>5, JSeqMade
<1> QED  BY <1>1, <1>2, <1>4, <1>6 DEF IsNamed

NamedPast(name, st, s) ==
  /\ Past(s) = Named(name, Past(st)) /\ s # <<>>
  /\ Last(s).of = name[Last(st).of] /\ Last(s).at = Last(st).at

\* The next property is passed under either name.
LEMMA JNamedPast ==
  ASSUME NEW w, NEW name, NEW st \in Seq(FrameType(w)), st # <<>>, NEW s, s = Named(name, st)
  PROVE  NamedPast(name, st, s)
<1>1. PICK v : v = [given |-> [x \in {name[i] : i \in DOMAIN w.given} |-> x]]
  OBVIOUS
<1>2. DOMAIN v.given = {name[i] : i \in DOMAIN w.given}
  BY <1>1
<1>3. PICK t, u : t = Past(st) /\ u = Named(name, t)
  OBVIOUS
<1>4. IsNamed(v, name, st, s)
  BY <1>2, <1>3, JNamed
<1>5. /\ t \in Seq(FrameType(w)) /\ Len(t) = Len(st)
      /\ \A d \in 1 .. Len(st) : /\ t[d].of = st[d].of /\ t[d].open = st[d].open
                                 /\ t[d].at = IF d = Len(st) THEN st[d].at + 1 ELSE st[d].at
  BY <1>3, JPast
<1>6. IsNamed(v, name, t, u)
  BY <1>2, <1>3, <1>5, JNamed
<1>7. Len(st) \in Nat /\ Len(st) >= 1 /\ Last(st) = st[Len(st)]
  BY JSeq
<1>8. s \in Seq(FrameType(v)) /\ Len(s) = Len(st) /\ s # <<>>
  BY <1>4, <1>7 DEF IsNamed
<1>9. Last(s) = s[Len(s)]
  BY DEF Last
<1>10. s[Len(st)] = [of |-> name[st[Len(st)].of], open |-> st[Len(st)].open, at |-> st[Len(st)].at]
  BY <1>4, <1>7 DEF IsNamed
<1>11. Last(s).of = name[Last(st).of] /\ Last(s).at = Last(st).at
  BY <1>7, <1>8, <1>9, <1>10
<1>12. PICK r : r = Past(s)
  OBVIOUS
<1>13. /\ r \in Seq(FrameType(v)) /\ Len(r) = Len(s)
       /\ \A d \in 1 .. Len(s) : /\ r[d].of = s[d].of /\ r[d].open = s[d].open
                                 /\ r[d].at = IF d = Len(s) THEN s[d].at + 1 ELSE s[d].at
  BY <1>8, <1>12, JPast
<1>14. ASSUME NEW d \in 1 .. Len(st)
       PROVE  r[d] = u[d]
  <2>7. s[d] = [of |-> name[st[d].of], open |-> st[d].open, at |-> st[d].at]
    BY <1>4 DEF IsNamed
  <2>1. s[d].of = name[st[d].of] /\ s[d].open = st[d].open /\ s[d].at = st[d].at
    BY <2>7
  <2>2. u[d] = [of |-> name[t[d].of], open |-> t[d].open, at |-> t[d].at]
    BY <1>5, <1>6 DEF IsNamed
  <2>3. r[d] \in FrameType(v)
    BY <1>8, <1>13, JSeq
  <2>4. r[d] = [of |-> r[d].of, open |-> r[d].open, at |-> r[d].at]
    BY <2>3, JFrame
  <2>6. r[d].of = name[t[d].of] /\ r[d].open = t[d].open /\ r[d].at = t[d].at
    <3>1. d \in 1 .. Len(s)
      BY <1>8
    <3>2. /\ r[d].of = s[d].of /\ r[d].open = s[d].open
          /\ r[d].at = IF d = Len(s) THEN s[d].at + 1 ELSE s[d].at
      BY <1>13, <3>1
    <3>3. /\ t[d].of = st[d].of /\ t[d].open = st[d].open
          /\ t[d].at = IF d = Len(st) THEN st[d].at + 1 ELSE st[d].at
      BY <1>5
    <3> QED  BY <1>8, <2>1, <3>2, <3>3
  <2> QED  BY <2>2, <2>4, <2>6
<1>15. u \in Seq(FrameType(v)) /\ Len(u) = Len(t)
  BY <1>6 DEF IsNamed
<1>16. r = u
  BY <1>5, <1>8, <1>13, <1>14, <1>15, JSameSeq
<1> QED  BY <1>3, <1>8, <1>11, <1>12, <1>16 DEF NamedPast

\* So is an object closed,
LEMMA JNamedFront ==
  ASSUME NEW w, NEW name, NEW st \in Seq(FrameType(w)), st # <<>>
  PROVE  Front(Named(name, st)) = Named(name, Front(st))
<1>1. PICK v : v = [given |-> [x \in {name[i] : i \in DOMAIN w.given} |-> x]]
  OBVIOUS
<1>2. DOMAIN v.given = {name[i] : i \in DOMAIN w.given}
  BY <1>1
<1>3. PICK s, t, u, r : s = Named(name, st) /\ t = Front(st) /\ u = Named(name, t) /\ r = Front(s)
  OBVIOUS
<1>4. IsNamed(v, name, st, s)
  BY <1>2, <1>3, JNamed
<1>5. /\ t \in Seq(FrameType(w)) /\ Len(t) = Len(st) - 1
      /\ \A d \in 1 .. Len(st) - 1 : t[d] = st[d]
  BY <1>3, JSeqFront
<1>6. IsNamed(v, name, t, u)
  BY <1>2, <1>3, <1>5, JNamed
<1>7. Len(st) \in Nat /\ Len(st) >= 1
  BY JSeq
<1>8. s \in Seq(FrameType(v)) /\ Len(s) = Len(st) /\ s # <<>>
  BY <1>4, <1>7 DEF IsNamed
<1>9. /\ r \in Seq(FrameType(v)) /\ Len(r) = Len(s) - 1
      /\ \A d \in 1 .. Len(s) - 1 : r[d] = s[d]
  BY <1>3, <1>8, JSeqFront
<1>10. ASSUME NEW d \in 1 .. Len(st) - 1
       PROVE  r[d] = u[d]
  <2>1. d \in 1 .. Len(st) /\ d \in 1 .. Len(t) /\ d \in 1 .. Len(s) - 1
    BY <1>5, <1>7, <1>8
  <2>2. s[d] = [of |-> name[st[d].of], open |-> st[d].open, at |-> st[d].at]
    BY <1>4, <2>1 DEF IsNamed
  <2>3. u[d] = [of |-> name[t[d].of], open |-> t[d].open, at |-> t[d].at]
    BY <1>6, <2>1 DEF IsNamed
  <2>4. t[d] = st[d] /\ r[d] = s[d]
    BY <1>5, <1>9, <2>1
  <2> QED  BY <2>2, <2>3, <2>4
<1>11. u \in Seq(FrameType(v)) /\ Len(u) = Len(t)
  BY <1>6 DEF IsNamed
<1>12. Len(r) = Len(u) /\ \A d \in 1 .. Len(r) : r[d] = u[d]
  BY <1>5, <1>8, <1>9, <1>10, <1>11
<1> QED  BY <1>3, <1>9, <1>11, <1>12, JSameSeq

\* or opened.
LEMMA JNamedAppend ==
  ASSUME NEW w, NEW name, NEW st \in Seq(FrameType(w)), NEW i \in DOMAIN w.given, NEW p \in Nat \ {0}
  PROVE  Append(Named(name, st), [of |-> name[i], open |-> p, at |-> 1])
           = Named(name, Append(st, [of |-> i, open |-> p, at |-> 1]))
<1>1. PICK v : v = [given |-> [x \in {name[j] : j \in DOMAIN w.given} |-> x]]
  OBVIOUS
<1>2. DOMAIN v.given = {name[j] : j \in DOMAIN w.given}
  BY <1>1
<1>3. PICK e, g : e = [of |-> i, open |-> p, at |-> 1] /\ g = [of |-> name[i], open |-> p, at |-> 1]
  OBVIOUS
<1>4. e \in FrameType(w) /\ g \in FrameType(v)
  BY <1>2, <1>3 DEF FrameType
<1>5. PICK s, t, u, r : s = Named(name, st) /\ t = Append(st, e) /\ u = Named(name, t) /\ r = Append(s, g)
  OBVIOUS
<1>6. IsNamed(v, name, st, s)
  BY <1>2, <1>5, JNamed
<1>7. t \in Seq(FrameType(w)) /\ Len(t) = Len(st) + 1 /\ t[Len(st) + 1] = e /\ \A d \in 1 .. Len(st) : t[d] = st[d]
  BY <1>4, <1>5, JSeqAppend
<1>8. IsNamed(v, name, t, u)
  BY <1>2, <1>5, <1>7, JNamed
<1>9. Len(st) \in Nat
  BY JSeq
<1>10. s \in Seq(FrameType(v)) /\ Len(s) = Len(st)
  BY <1>6 DEF IsNamed
<1>11. r \in Seq(FrameType(v)) /\ Len(r) = Len(s) + 1 /\ r[Len(s) + 1] = g /\ \A d \in 1 .. Len(s) : r[d] = s[d]
  BY <1>4, <1>5, <1>10, JSeqAppend
<1>12. ASSUME NEW d \in 1 .. Len(t)
       PROVE  r[d] = u[d]
  <2>1. u[d] = [of |-> name[t[d].of], open |-> t[d].open, at |-> t[d].at]
    BY <1>8 DEF IsNamed
  <2>2. CASE d = Len(st) + 1
    <3>1. t[d] = e /\ r[d] = g
      BY <1>7, <1>10, <1>11, <2>2
    <3> QED  BY <1>3, <2>1, <3>1
  <2>3. CASE d # Len(st) + 1
    <3>1. d \in 1 .. Len(st)
      BY <1>7, <1>9, <2>3
    <3>2. t[d] = st[d] /\ r[d] = s[d]
      BY <1>7, <1>10, <1>11, <3>1
    <3>3. s[d] = [of |-> name[st[d].of], open |-> st[d].open, at |-> st[d].at]
      BY <1>6, <3>1 DEF IsNamed
    <3> QED  BY <2>1, <3>2, <3>3
  <2> QED  BY <2>2, <2>3
<1>13. u \in Seq(FrameType(v)) /\ Len(u) = Len(t)
  BY <1>8 DEF IsNamed
<1>14. Len(r) = Len(u) /\ \A d \in 1 .. Len(r) : r[d] = u[d]
  BY <1>7, <1>10, <1>11, <1>12, <1>13
<1>15. r = u
  BY <1>11, <1>13, <1>14, JSameSeq
<1> QED  BY <1>3, <1>5, <1>15

\* What was met is met under the other name.
LEMMA JNamedMet ==
  ASSUME NEW S, NEW m \in Seq(S), NEW name, NEW i \in S
  PROVE  /\ Append(NamedMet(name, m), name[i]) = NamedMet(name, Append(m, i))
         /\ Len(NamedMet(name, m)) = Len(m) /\ DOMAIN NamedMet(name, m) = 1 .. Len(m)
         /\ \A x \in 1 .. Len(m) : NamedMet(name, m)[x] = name[m[x]]
<1>1. PICK T : T = {name[j] : j \in S}
  OBVIOUS
<1>2. PICK a, b, u, r : a = NamedMet(name, m) /\ b = Append(m, i) /\ u = NamedMet(name, b) /\ r = Append(a, name[i])
  OBVIOUS
<1>3. Len(m) \in Nat /\ \A x \in 1 .. Len(m) : m[x] \in S
  BY JSeq
<1>4. \A x \in 1 .. Len(m) : a[x] = name[m[x]] /\ a[x] \in T
  BY <1>1, <1>2, <1>3 DEF NamedMet
<1>5. a = [x \in 1 .. Len(m) |-> a[x]]
  BY <1>2 DEF NamedMet
<1>6. a \in Seq(T) /\ Len(a) = Len(m) /\ DOMAIN a = 1 .. Len(m)
  BY <1>3, <1>4, <1>5, JSeqMade
<1>7. b \in Seq(S) /\ Len(b) = Len(m) + 1 /\ b[Len(m) + 1] = i /\ \A x \in 1 .. Len(m) : b[x] = m[x]
  BY <1>2, JSeqAppend
<1>8. Len(b) \in Nat /\ \A x \in 1 .. Len(b) : b[x] \in S
  BY <1>7, JSeq
<1>9. \A x \in 1 .. Len(b) : u[x] = name[b[x]] /\ u[x] \in T
  BY <1>1, <1>2, <1>8 DEF NamedMet
<1>10. u = [x \in 1 .. Len(b) |-> u[x]]
  BY <1>2 DEF NamedMet
<1>11. u \in Seq(T) /\ Len(u) = Len(b)
  BY <1>8, <1>9, <1>10, JSeqMade
<1>12. name[i] \in T
  BY <1>1
<1>13. r \in Seq(T) /\ Len(r) = Len(a) + 1 /\ r[Len(a) + 1] = name[i] /\ \A x \in 1 .. Len(a) : r[x] = a[x]
  BY <1>2, <1>6, <1>12, JSeqAppend
<1>14. ASSUME NEW x \in 1 .. Len(r)
       PROVE  r[x] = u[x]
  <2>1. CASE x = Len(m) + 1
    BY <1>3, <1>6, <1>7, <1>9, <1>13, <2>1
  <2>2. CASE x # Len(m) + 1
    <3>1. x \in 1 .. Len(m) /\ x \in 1 .. Len(b)
      BY <1>3, <1>6, <1>7, <1>13, <2>2
    <3> QED  BY <1>4, <1>6, <1>7, <1>9, <1>13, <3>1
  <2> QED  BY <2>1, <2>2
<1>15. r = u
  BY <1>6, <1>7, <1>11, <1>13, <1>14, JSameSeq
<1> QED  BY <1>2, <1>4, <1>6, <1>15

\* h holds what was given by other names, and encoded
Renames(w, h, name) ==
  /\ name[Root] = Root
  /\ \A i, j \in Ids(w) : name[i] = name[j] => i = j
  /\ \A i \in Ids(w) : name[i] \in DOMAIN h /\ IsRecord(h[name[i]]) /\ Alike(w, name, Resolved(h[name[i]]), i)
Rewrites(w, h, name, n, s, m) ==
  /\ s = Named(name, Stack(w, n)) /\ m = NamedMet(name, Met(w, n))
  /\ \A x \in 1 .. Count(w, n) : Alike(w, name, h[name[Met(w, n)[x]]], Met(w, n)[x])

\* The text is written again as it was written first.
LEMMA JRewriting ==
  ASSUME NEW w, NEW h, NEW name, NEW n, NEW t, NEW s, NEW m
  PROVE  RewritingOK(w, h, name, n, t, s, m) <=>
           Renames(w, h, name) /\ n \in 0 .. Size(w) /\ t = SubSeq(w.text, 1, n) /\ Rewrites(w, h, name, n, s, m)
<1>1. Named(name, Stack(w, n)) = [d \in 1 .. Len(Stack(w, n)) |-> [Stack(w, n)[d] EXCEPT !.of = name[@]]]
  BY DEF Named
<1>2. NamedMet(name, Met(w, n)) = [x \in 1 .. Count(w, n) |-> name[Met(w, n)[x]]]
  BY DEF NamedMet, Count
<1>3. ASSUME m = NamedMet(name, Met(w, n))
      PROVE  \A x \in 1 .. Count(w, n) : m[x] = name[Met(w, n)[x]]
  BY <1>2, <1>3
<1>4. ASSUME RewritingOK(w, h, name, n, t, s, m)
      PROVE  Renames(w, h, name) /\ n \in 0 .. Size(w) /\ t = SubSeq(w.text, 1, n) /\ Rewrites(w, h, name, n, s, m)
  <2>1. Renames(w, h, name) /\ n \in 0 .. Size(w) /\ t = SubSeq(w.text, 1, n)
    BY <1>4 DEF RewritingOK, Renames
  <2>2. /\ s = Named(name, Stack(w, n)) /\ m = NamedMet(name, Met(w, n))
        /\ \A x \in 1 .. Count(w, n) : Alike(w, name, h[m[x]], Met(w, n)[x])
    BY <1>1, <1>2, <1>4 DEF RewritingOK
  <2>3. \A x \in 1 .. Count(w, n) : Alike(w, name, h[name[Met(w, n)[x]]], Met(w, n)[x])
    BY <1>3, <2>2
  <2> QED  BY <2>1, <2>2, <2>3 DEF Rewrites
<1>5. ASSUME Renames(w, h, name) /\ n \in 0 .. Size(w) /\ t = SubSeq(w.text, 1, n) /\ Rewrites(w, h, name, n, s, m)
      PROVE  RewritingOK(w, h, name, n, t, s, m)
  <2>1. /\ s = Named(name, Stack(w, n)) /\ m = NamedMet(name, Met(w, n))
        /\ \A x \in 1 .. Count(w, n) : Alike(w, name, h[name[Met(w, n)[x]]], Met(w, n)[x])
    BY <1>5 DEF Rewrites
  <2>2. \A x \in 1 .. Count(w, n) : Alike(w, name, h[m[x]], Met(w, n)[x])
    BY <1>3, <2>1
  <2> QED  BY <1>1, <1>2, <1>5, <2>1, <2>2 DEF RewritingOK, Renames
<1> QED  BY <1>4, <1>5

\* Whatever was met is among the objects that are written.
LEMMA JIds ==
  ASSUME NEW w, Written(w), NEW n \in 0 .. Size(w)
  PROVE  /\ \A x \in 1 .. Count(w, n) : Met(w, n)[x] \in Ids(w) /\ Met(w, n)[x] \in DOMAIN w.given
         /\ Ids(w) \subseteq DOMAIN w.given
         /\ \A x, y \in 1 .. Count(w, n) : Met(w, n)[x] = Met(w, n)[y] => x = y
<1>1. PICK N : N = Size(w)
  OBVIOUS
<1>2. N \in Nat /\ N \in 0 .. Size(w)
  BY <1>1 DEF Written, Size
<1>3. n \in 0 .. N
  BY <1>1
<1>4. Count(w, n) \in Nat /\ Count(w, N) \in Nat /\ Count(w, n) <= Count(w, N)
      /\ \A x \in 1 .. Count(w, n) : Met(w, N)[x] = Met(w, n)[x]
  BY <1>2, <1>3, JCounts
<1>5. \A x \in 1 .. Count(w, N) : Met(w, N)[x] \in Ids(w)
  BY <1>1 DEF Ids, Final, Count
<1>6. Met(w, N) \in Seq(DOMAIN w.given)
  BY <1>2, JTypes
<1>7. \A x \in 1 .. Count(w, N) : Met(w, N)[x] \in DOMAIN w.given
  BY <1>6, JSeq DEF Count
<1>8. Ids(w) \subseteq DOMAIN w.given
  BY <1>1, <1>7 DEF Ids, Final, Count
<1>9. \A x \in 1 .. Count(w, n) : Met(w, n)[x] \in Ids(w)
  BY <1>4, <1>5
<1>10. \A x, y \in 1 .. Count(w, n) : Met(w, n)[x] = Met(w, n)[y] => x = y
  <2>1. MetOK(w, n)
    BY JTypes
  <2> QED  BY <2>1 DEF MetOK
<1> QED  BY <1>8, <1>9, <1>10

StillRenames(w, h, name, j, h2) ==
  /\ Renames(w, h2, name) /\ DOMAIN h2 = DOMAIN h
  /\ \A i \in Ids(w) : i = j \/ Alike(w, name, h[name[i]], i) => Alike(w, name, h2[name[i]], i)

\* The replacer leaves encoded objects as they are.
LEMMA JReplacedHeap ==
  ASSUME NEW w, Written(w), NEW h, NEW name, Renames(w, h, name), NEW j \in Ids(w),
         NEW a, a = name[j], NEW h2, h2 = [h EXCEPT ![a] = Resolved(@)]
  PROVE  StillRenames(w, h, name, j, h2)
<1>1. DOMAIN h2 = DOMAIN h
  OBVIOUS
<1>2. Ids(w) \subseteq DOMAIN w.given /\ IsGraph(w.given) /\ Size(w) \in Nat
  <2>1. Size(w) \in Nat /\ IsGraph(w.given)
    BY DEF Written, Size
  <2> QED  BY <2>1, JIds
<1>3. PICK o, r : o = h[name[j]] /\ r = Resolved(o)
  OBVIOUS
<1>4. IsRecord(o) /\ Alike(w, name, r, j) /\ name[j] \in DOMAIN h
  BY <1>3 DEF Renames
<1>5. EncodedAs(o, r)
  BY <1>3, <1>4, JResolved
<1>6. IsRecord(r)
  BY <1>5 DEF EncodedAs
<1>7. Resolved(r) = r
  BY <1>2, <1>4, <1>6, JAlikeTwice
<1>8. ASSUME NEW i \in Ids(w)
      PROVE  /\ name[i] \in DOMAIN h2 /\ IsRecord(h2[name[i]]) /\ Alike(w, name, Resolved(h2[name[i]]), i)
             /\ i = j \/ Alike(w, name, h[name[i]], i) => Alike(w, name, h2[name[i]], i)
  <2>1. name[i] \in DOMAIN h /\ IsRecord(h[name[i]]) /\ Alike(w, name, Resolved(h[name[i]]), i)
    BY DEF Renames
  <2>2. CASE i = j
    <3>1. h2[name[i]] = r
      BY <1>3, <1>4, <2>2
    <3>2. Resolved(h2[name[i]]) = r
      BY <1>7, <3>1
    <3> QED  BY <1>1, <1>4, <1>6, <2>1, <2>2, <3>1, <3>2
  <2>3. CASE i # j
    <3>1. name[i] # name[j]
      BY <2>3 DEF Renames
    <3>2. h2[name[i]] = h[name[i]]
      BY <2>1, <3>1
    <3> QED  BY <1>1, <2>1, <2>3, <3>2
  <2> QED  BY <2>2, <2>3
<1>9. Renames(w, h2, name)
  <2>1. /\ name[Root] = Root
        /\ \A i, k \in Ids(w) : name[i] = name[k] => i = k
    BY DEF Renames
  <2> QED  BY <1>8, <2>1 DEF Renames
<1> QED  BY <1>1, <1>8, <1>9 DEF StillRenames

Rewritten(w, h2, name, n, token, s2, m2) ==
  token = w.text[n + 1] /\ Renames(w, h2, name) /\ Rewrites(w, h2, name, n + 1, s2, m2)

\* An object that was opened first is opened again,
LEMMA JOpensAgain ==
  ASSUME NEW w, Written(w), NEW n \in 0 .. Size(w) - 1, NEW h, NEW name, NEW s, NEW m,
         Renames(w, h, name), Rewrites(w, h, name, n, s, m),
         NEW j \in DOMAIN w.given, NEW key, NEW st \in Seq(FrameType(w)), NEW p, p = n + 1,
         Opens(w, key, j, st, w.text[p], p, Stack(w, p), Met(w, n), Met(w, p)),
         NEW u, u = Named(name, st), NEW a, a = name[j], NEW token, NEW h2, NEW s2, NEW m2,
         ReplacesIn(h, m, key, a, u, p, token, h2, s2, m2)
  PROVE  Rewritten(w, h2, name, n, token, s2, m2)
<1>1. /\ w.text[p] = [is |-> "open", k |-> key, array |-> w.given[j].array]
      /\ \A x \in DOMAIN Met(w, n) : Met(w, n)[x] # j
      /\ Met(w, p) = Append(Met(w, n), j)
      /\ Stack(w, p) = Append(st, [of |-> j, open |-> p, at |-> 1])
  BY DEF Opens
<1>2. /\ n \in Nat /\ n \in 0 .. Size(w) /\ p \in 0 .. Size(w) /\ p \in Nat \ {0} /\ Size(w) \in Nat
      /\ IsGraph(w.given)
  BY JNext
<1>3. Met(w, n) \in Seq(DOMAIN w.given) /\ Count(w, n) \in Nat /\ DOMAIN Met(w, n) = 1 .. Count(w, n)
  BY <1>2, JTypes
<1>4. Count(w, p) = Count(w, n) + 1 /\ Met(w, p)[Count(w, n) + 1] = j
      /\ \A x \in 1 .. Count(w, n) : Met(w, p)[x] = Met(w, n)[x]
  <2>1. PICK M, N, S : M = Met(w, n) /\ N = Met(w, p) /\ S = DOMAIN w.given
    OBVIOUS
  <2>2. M \in Seq(S) /\ j \in S /\ N = Append(M, j) /\ Count(w, n) = Len(M) /\ Count(w, p) = Len(N)
    BY <1>1, <1>3, <2>1 DEF Count
  <2>3. Len(N) = Len(M) + 1 /\ N[Len(M) + 1] = j /\ \A x \in 1 .. Len(M) : N[x] = M[x]
    BY <2>2, JSeqAppend
  <2> QED  BY <2>1, <2>2, <2>3
<1>5. Count(w, n) + 1 \in 1 .. Count(w, p)
  BY <1>3, <1>4
<1>6. j \in Ids(w)
  BY <1>2, <1>4, <1>5, JIds
<1>7. /\ Append(NamedMet(name, Met(w, n)), name[j]) = NamedMet(name, Append(Met(w, n), j))
      /\ DOMAIN NamedMet(name, Met(w, n)) = 1 .. Len(Met(w, n))
      /\ \A x \in 1 .. Len(Met(w, n)) : NamedMet(name, Met(w, n))[x] = name[Met(w, n)[x]]
  BY <1>3, JNamedMet
<1>8. m = NamedMet(name, Met(w, n)) /\ \A x \in 1 .. Count(w, n) : Alike(w, name, h[name[Met(w, n)[x]]], Met(w, n)[x])
  BY DEF Rewrites
<1>9. ASSUME NEW x \in DOMAIN m
      PROVE  m[x] # a
  <2>1. x \in 1 .. Count(w, n) /\ m[x] = name[Met(w, n)[x]]
    BY <1>7, <1>8 DEF Count
  <2>2. Met(w, n)[x] # j /\ Met(w, n)[x] \in Ids(w)
    BY <1>1, <1>2, <1>3, <2>1, JIds
  <2>3. name[Met(w, n)[x]] # name[j]
    BY <1>6, <2>2 DEF Renames
  <2> QED  BY <2>1, <2>3
<1>10. /\ h2 = [h EXCEPT ![a] = Resolved(@)]
       /\ m2 = Append(m, a) /\ s2 = Append(u, [of |-> a, open |-> p, at |-> 1])
       /\ token = [is |-> "open", k |-> key, array |-> h[a].array]
  BY <1>9 DEF ReplacesIn
<1>11. h[a].array = w.given[j].array
  <2>1. PICK o, r : o = h[a] /\ r = Resolved(o)
    OBVIOUS
  <2>2. IsRecord(o) /\ Alike(w, name, r, j)
    BY <1>6, <2>1 DEF Renames
  <2>3. EncodedAs(o, r)
    BY <2>1, <2>2, JResolved
  <2> QED  BY <2>1, <2>2, <2>3 DEF Alike, EncodedAs
<1>12. token = w.text[n + 1]
  BY <1>1, <1>10, <1>11
<1>13. m2 = NamedMet(name, Met(w, p))
  BY <1>1, <1>7, <1>8, <1>10
<1>14. s2 = Named(name, Stack(w, p))
  <2>1. Append(Named(name, st), [of |-> name[j], open |-> p, at |-> 1])
          = Named(name, Append(st, [of |-> j, open |-> p, at |-> 1]))
    BY <1>2, JNamedAppend
  <2> QED  BY <1>1, <1>10, <2>1
<1>15. /\ Renames(w, h2, name)
       /\ \A i \in Ids(w) : i = j \/ Alike(w, name, h[name[i]], i) => Alike(w, name, h2[name[i]], i)
  <2>1. StillRenames(w, h, name, j, h2)
    BY <1>6, <1>10, JReplacedHeap
  <2> QED  BY <2>1 DEF StillRenames
<1>16. ASSUME NEW x \in 1 .. Count(w, p)
       PROVE  Alike(w, name, h2[name[Met(w, p)[x]]], Met(w, p)[x])
  <2>1. PICK i : i = Met(w, p)[x]
    OBVIOUS
  <2>2. i \in Ids(w)
    BY <1>2, <2>1, JIds
  <2>3. i = j \/ Alike(w, name, h[name[i]], i)
    <3>1. CASE x = Count(w, n) + 1
      BY <1>4, <2>1, <3>1
    <3>2. CASE x # Count(w, n) + 1
      <4>1. x \in 1 .. Count(w, n)
        BY <1>3, <1>4, <3>2
      <4>2. i = Met(w, n)[x]
        BY <1>4, <2>1, <4>1
      <4> QED  BY <1>8, <4>1, <4>2
    <3> QED  BY <3>1, <3>2
  <2>4. Alike(w, name, h2[name[i]], i)
    BY <1>15, <2>2, <2>3
  <2> QED  BY <2>1, <2>4
<1> QED  BY <1>12, <1>13, <1>14, <1>15, <1>16 DEF Rewritten, Rewrites

\* and one that was referred to is referred to by the same number.
LEMMA JRefersAgain ==
  ASSUME NEW w, Written(w), NEW n \in 0 .. Size(w) - 1, NEW h, NEW name, NEW s, NEW m,
         Renames(w, h, name), Rewrites(w, h, name, n, s, m),
         NEW j \in DOMAIN w.given, NEW key, NEW st \in Seq(FrameType(w)), NEW p, p = n + 1,
         NEW id, id \in Nat, id + 1 \in DOMAIN Met(w, n), Met(w, n)[id + 1] = j,
         w.text[p] = [is |-> "ref", k |-> key, id |-> id],
         Met(w, p) = Met(w, n), Stack(w, p) = st,
         NEW u, u = Named(name, st), NEW a, a = name[j], NEW token, NEW h2, NEW s2, NEW m2,
         ReplacesIn(h, m, key, a, u, p, token, h2, s2, m2)
  PROVE  Rewritten(w, h2, name, n, token, s2, m2)
<1>1. n \in 0 .. Size(w) /\ p \in 0 .. Size(w)
  BY JNext
<1>2. Met(w, n) \in Seq(DOMAIN w.given) /\ Count(w, n) \in Nat /\ DOMAIN Met(w, n) = 1 .. Count(w, n)
  BY <1>1, JTypes
<1>3. PICK y : y = id + 1
  OBVIOUS
<1>4. y \in 1 .. Count(w, n) /\ Met(w, n)[y] = j /\ y - 1 = id
  BY <1>2, <1>3
<1>5. j \in Ids(w)
  BY <1>1, <1>4, JIds
<1>6. /\ DOMAIN NamedMet(name, Met(w, n)) = 1 .. Len(Met(w, n))
      /\ \A x \in 1 .. Len(Met(w, n)) : NamedMet(name, Met(w, n))[x] = name[Met(w, n)[x]]
  BY <1>2, JNamedMet
<1>7. m = NamedMet(name, Met(w, n)) /\ \A x \in 1 .. Count(w, n) : Alike(w, name, h[name[Met(w, n)[x]]], Met(w, n)[x])
  BY DEF Rewrites
<1>8. DOMAIN m = 1 .. Count(w, n) /\ \A x \in 1 .. Count(w, n) : m[x] = name[Met(w, n)[x]]
  BY <1>6, <1>7 DEF Count
<1>9. y \in DOMAIN m /\ m[y] = a
  BY <1>4, <1>8
<1>10. PICK x : x = CHOOSE z \in DOMAIN m : m[z] = a
  OBVIOUS
<1>11. x \in DOMAIN m /\ m[x] = a
  BY <1>9, <1>10
<1>12. x = y
  <2>1. x \in 1 .. Count(w, n) /\ name[Met(w, n)[x]] = name[j]
    BY <1>8, <1>11
  <2>2. Met(w, n)[x] \in Ids(w)
    BY <1>1, <2>1, JIds
  <2>3. Met(w, n)[x] = Met(w, n)[y]
    BY <1>4, <1>5, <2>1, <2>2 DEF Renames
  <2> QED  BY <1>1, <1>4, <2>1, <2>3, JIds
<1>13. /\ h2 = [h EXCEPT ![a] = Resolved(@)] /\ m2 = m /\ s2 = u
       /\ token = [is |-> "ref", k |-> key, id |-> x - 1]
  <2>1. \E z \in DOMAIN m : m[z] = a
    BY <1>9
  <2> QED  BY <1>10, <2>1 DEF ReplacesIn
<1>14. token = w.text[n + 1]
  BY <1>4, <1>12, <1>13
<1>15. /\ Renames(w, h2, name)
       /\ \A i \in Ids(w) : i = j \/ Alike(w, name, h[name[i]], i) => Alike(w, name, h2[name[i]], i)
  <2>1. StillRenames(w, h, name, j, h2)
    BY <1>5, <1>13, JReplacedHeap
  <2> QED  BY <2>1 DEF StillRenames
<1>16. \A z \in 1 .. Count(w, p) : Alike(w, name, h2[name[Met(w, p)[z]]], Met(w, p)[z])
  <2>1. \A z \in 1 .. Count(w, n) : Met(w, n)[z] \in Ids(w)
    BY <1>1, JIds
  <2>2. \A z \in 1 .. Count(w, n) : Alike(w, name, h2[name[Met(w, n)[z]]], Met(w, n)[z])
    BY <1>7, <1>15, <2>1
  <2>3. Count(w, p) = Count(w, n)
    BY DEF Count
  <2> QED  BY <2>2, <2>3
<1>17. s2 = Named(name, Stack(w, p)) /\ m2 = NamedMet(name, Met(w, p))
  BY <1>7, <1>13
<1> QED  BY <1>14, <1>15, <1>16, <1>17 DEF Rewritten, Rewrites

\* What is not an object is written as it was.
LEMMA JTellsAgain ==
  ASSUME NEW w, Written(w), NEW n \in 0 .. Size(w) - 1, NEW h, NEW name, NEW s, NEW m,
         Renames(w, h, name), Rewrites(w, h, name, n, s, m),
         NEW p, p = n + 1, Met(w, p) = Met(w, n),
         NEW token, NEW s2, token = w.text[p], s2 = Named(name, Stack(w, p))
  PROVE  Rewritten(w, h, name, n, token, s2, m)
<1>1. Count(w, p) = Count(w, n)
  BY DEF Count
<1>2. m = NamedMet(name, Met(w, p)) /\ \A x \in 1 .. Count(w, p) : Alike(w, name, h[name[Met(w, p)[x]]], Met(w, p)[x])
  BY <1>1 DEF Rewrites
<1> QED  BY <1>2 DEF Rewritten, Rewrites

KindOf(w, token, p, s, t, m, n, i, k) ==
  /\ k <= Width(w, i) /\ NextField(w, s).v.is = "object" =>
       OpensObject(w, token, p, s, t, m, n) \/ Refers(w, token, p, s, t, m, n)
  /\ k <= Width(w, i) /\ NextField(w, s).v.is # "object" => Tells(w, token, p, s, t, m, n)
  /\ k = Width(w, i) + 1 /\ HasList(w, i) => Lists(w, token, p, s, t, m, n)
  /\ k = End(w, i) => Closes(w, token, p, s, t, m, n)

\* What comes next decides which token is written.
LEMMA JKind ==
  ASSUME NEW w, NEW token, NEW p, NEW s, NEW t, NEW m, NEW n, Continues(w, token, p, s, t, m, n), s # <<>>,
         NEW i, i = Last(s).of, NEW k, k = Last(s).at, k \in Nat, Width(w, i) \in Nat
  PROVE  KindOf(w, token, p, s, t, m, n, i, k)
<1>1. ~OpensRoot(w, token, p, s, t, m, n)
  BY DEF OpensRoot
<1>2. End(w, i) = IF HasList(w, i) THEN Width(w, i) + 2 ELSE Width(w, i) + 1
  BY DEF End
<1>3. OpensObject(w, token, p, s, t, m, n) \/ Refers(w, token, p, s, t, m, n) =>
        k <= Width(w, i) /\ NextField(w, s).v.is = "object"
  BY DEF OpensObject, Refers, InFields
<1>4. Tells(w, token, p, s, t, m, n) => k <= Width(w, i) /\ NextField(w, s).v.is # "object"
  BY DEF Tells, InFields
<1>5. Lists(w, token, p, s, t, m, n) => k = Width(w, i) + 1 /\ HasList(w, i)
  BY DEF Lists
<1>6. Closes(w, token, p, s, t, m, n) => k = End(w, i)
  BY DEF Closes
<1> QED  BY <1>1, <1>2, <1>3, <1>4, <1>5, <1>6 DEF Continues, KindOf

RenamedField(w, name, e, f) ==
  /\ f.k = e.k /\ f.v.is = e.v.is
  /\ e.v.is = "object" => f.v.v = name[e.v.v] /\ e.v.v \in DOMAIN w.given
  /\ e.v.is # "object" => f.v = e.v

IsInnerAgain(w, h, name, st, s, i, k) ==
  /\ i \in DOMAIN w.given /\ k \in Nat /\ k \in 1 .. End(w, i) /\ Width(w, i) \in Nat
  /\ s = Named(name, st) /\ s # <<>> /\ Last(s).of = name[i] /\ Last(s).at = k
  /\ Len(OwnIn(h, s)) = Width(w, i)
  /\ k <= Width(w, i) => RenamedField(w, name, NextField(w, st), OwnIn(h, s)[k])
  /\ HasDatesIn(h, s) <=> HasList(w, i)
  /\ HasList(w, i) => h[Last(s).of].dates = Enc(w, i).dates

\* What is left to write of the innermost object, when it is written again.
LEMMA JInnerAgain ==
  ASSUME NEW w, Written(w), NEW n \in 0 .. Size(w), NEW h, NEW name, NEW s, NEW m,
         Rewrites(w, h, name, n, s, m),
         NEW st, st = Stack(w, n), st # <<>>, NEW i, i = Last(st).of, NEW k, k = Last(st).at
  PROVE  IsInnerAgain(w, h, name, st, s, i, k)
<1>1. i \in DOMAIN w.given /\ k \in 1 .. End(w, i) /\ k \in Nat \ {0}
  BY JInside
<1>2. st \in Seq(FrameType(w)) /\ IsGraph(w.given)
  BY JTypes DEF Written
<1>3. s = Named(name, st) /\ s # <<>> /\ Last(s).of = name[i] /\ Last(s).at = k
  <2>1. s = Named(name, st)
    BY DEF Rewrites
  <2>3. NamedPast(name, st, s)
    BY <1>2, <2>1, JNamedPast
  <2> QED  BY <2>1, <2>3 DEF NamedPast
<1>4. PICK x \in 1 .. Count(w, n) : Met(w, n)[x] = i
  BY JMetInside
<1>5. PICK o, e : o = h[name[i]] /\ e = Enc(w, i)
  OBVIOUS
<1>6. Alike(w, name, o, i)
  BY <1>4, <1>5 DEF Rewrites
<1>7. o.array = w.given[i].array /\ o.own = Renamed(e.own, name) /\ (~o.array => o.dates = e.dates)
  BY <1>5, <1>6 DEF Alike
<1>8. Width(w, i) \in Nat /\ DOMAIN e.own = 1 .. Width(w, i)
  BY <1>1, <1>2, <1>5, JEncoded
<1>9. OwnIn(h, s) = o.own /\ h[Last(s).of] = o
  BY <1>3, <1>5 DEF OwnIn
<1>10. o.own = [y \in 1 .. Width(w, i) |-> IF e.own[y].v.is = "object" THEN Field(e.own[y].k, Object(name[e.own[y].v.v]))
                                           ELSE e.own[y]]
  BY <1>7, <1>8 DEF Renamed
<1>11. Len(o.own) = Width(w, i)
  <2>1. PICK q, N, S : q = o.own /\ N = Width(w, i) /\ S = {o.own[y] : y \in 1 .. Width(w, i)}
    OBVIOUS
  <2>2. q = [y \in 1 .. N |-> q[y]] /\ N \in Nat /\ \A y \in 1 .. N : q[y] \in S
    BY <1>8, <1>10, <2>1
  <2>3. Len(q) = N
    BY <2>2, JSeqMade
  <2> QED  BY <2>1, <2>3
<1>12. ASSUME k <= Width(w, i)
       PROVE  RenamedField(w, name, NextField(w, st), OwnIn(h, s)[k])
  <2>1. PICK f, g : f = e.own[k] /\ g = o.own[k]
    OBVIOUS
  <2>2. k \in 1 .. Width(w, i)
    BY <1>1, <1>8, <1>12
  <2>3. f.v.is = "object" => f.v.v \in DOMAIN w.given
    BY <1>1, <1>2, <1>5, <2>1, <2>2, JEncoded
  <2>4. g = IF f.v.is = "object" THEN Field(f.k, Object(name[f.v.v])) ELSE f
    BY <1>10, <2>1, <2>2
  <2>5. RenamedField(w, name, f, g)
    BY <2>3, <2>4 DEF RenamedField, Field, Object
  <2>6. f = NextField(w, st)
    BY <1>5, <2>1 DEF NextField
  <2> QED  BY <1>9, <2>1, <2>5, <2>6
<1>13. HasDatesIn(h, s) <=> HasList(w, i)
  BY <1>5, <1>7, <1>9 DEF HasDatesIn, HasList
<1>14. HasList(w, i) => h[Last(s).of].dates = Enc(w, i).dates
  BY <1>5, <1>7, <1>9 DEF HasList
<1> QED  BY <1>1, <1>3, <1>8, <1>9, <1>11, <1>12, <1>13, <1>14 DEF IsInnerAgain

\* Inside an object, the same token is written again.
LEMMA JAgainInside ==
  ASSUME NEW w, Written(w), NEW n \in 0 .. Size(w) - 1, NEW h, NEW name, NEW s, NEW m,
         Renames(w, h, name), Rewrites(w, h, name, n, s, m),
         NEW p, p = n + 1, NEW st, st = Stack(w, n), st # <<>>,
         NEW token, NEW h2, NEW s2, NEW m2, WritesIn(h, s, m, p, token, h2, s2, m2),
         ~RootIn(h, s, m, p, token, h2, s2, m2)
  PROVE  Rewritten(w, h2, name, n, token, s2, m2)
<1>1. PICK i, k, x, t, M, N : /\ i = Last(st).of /\ k = Last(st).at
                              /\ x = w.text[p] /\ t = Stack(w, p) /\ M = Met(w, n) /\ N = Met(w, p)
  OBVIOUS
<1>2. n \in 0 .. Size(w) /\ p \in 0 .. Size(w) /\ st \in Seq(FrameType(w))
  <2>1. n \in 0 .. Size(w) /\ p \in 0 .. Size(w)
    BY JNext
  <2> QED  BY <2>1, JTypes
<1>3. IsInnerAgain(w, h, name, st, s, i, k)
  BY <1>1, <1>2, JInnerAgain
<1>4. Continues(w, x, p, st, t, M, N)
  BY <1>1, JContinues
<1>5. KindOf(w, x, p, st, t, M, N, i, k)
  BY <1>1, <1>3, <1>4, JKind DEF IsInnerAgain
<1>6. s = Named(name, st) /\ s # <<>> /\ Last(s).at = k /\ Len(OwnIn(h, s)) = Width(w, i)
  BY <1>3 DEF IsInnerAgain
<1>7. NamedPast(name, st, s)
  BY <1>2, <1>6, JNamedPast
<1>8. Past(s) = Named(name, Past(st)) /\ Front(s) = Named(name, Front(st))
  BY <1>2, <1>6, <1>7, JNamedFront DEF NamedPast
<1>9. PICK f, g : f = NextField(w, st) /\ g = OwnIn(h, s)[k]
  OBVIOUS
<1>10. k <= Width(w, i) => RenamedField(w, name, f, g)
  BY <1>3, <1>9 DEF IsInnerAgain
<1>11. CASE ObjectIn(h, s, m, p, token, h2, s2, m2)
  <2>1. PICK key, a, u, j, pt : key = g.k /\ a = g.v.v /\ u = Past(s) /\ j = f.v.v /\ pt = Past(st)
    OBVIOUS
  <2>2. k <= Width(w, i) /\ g.v.is = "object" /\ ReplacesIn(h, m, key, a, u, p, token, h2, s2, m2)
    BY <1>6, <1>9, <1>11, <2>1 DEF ObjectIn
  <2>3. f.v.is = "object" /\ key = f.k /\ a = name[j] /\ j \in DOMAIN w.given
    BY <1>10, <2>1, <2>2 DEF RenamedField
  <2>4. u = Named(name, pt) /\ pt \in Seq(FrameType(w))
    BY <1>2, <1>8, <2>1, JPast
  <2>5. CASE OpensObject(w, x, p, st, t, M, N)
    <3>1. Opens(w, key, j, pt, x, p, t, M, N)
      BY <1>9, <2>1, <2>3, <2>5 DEF OpensObject
    <3> QED  BY <1>1, <2>2, <2>3, <2>4, <3>1, JOpensAgain
  <2>6. CASE Refers(w, x, p, st, t, M, N)
    <3>1. PICK id : id = x.id
      OBVIOUS
    <3>2. /\ x = [is |-> "ref", k |-> key, id |-> id]
          /\ id \in Nat /\ id + 1 \in DOMAIN M /\ M[id + 1] = j
          /\ N = M /\ t = pt
      BY <1>9, <2>1, <2>3, <2>6, <3>1 DEF Refers
    <3> QED  BY <1>1, <2>2, <2>3, <2>4, <3>2, JRefersAgain
  <2> QED  BY <1>5, <1>9, <2>2, <2>3, <2>5, <2>6 DEF KindOf
<1>12. CASE ValueIn(h, s, m, token, h2, s2, m2)
  <2>1. /\ k <= Width(w, i) /\ g.v.is # "object" /\ h2 = h /\ m2 = m /\ s2 = Past(s)
        /\ token = [is |-> "value", k |-> g.k, v |-> g.v]
    BY <1>6, <1>9, <1>12 DEF ValueIn
  <2>2. f.v.is # "object" /\ g.k = f.k /\ g.v = f.v
    BY <1>10, <2>1 DEF RenamedField
  <2>3. Tells(w, x, p, st, t, M, N)
    BY <1>5, <1>9, <2>1, <2>2 DEF KindOf
  <2>4. x = [is |-> "value", k |-> f.k, v |-> f.v] /\ N = M /\ t = Past(st)
    BY <1>9, <2>3 DEF Tells
  <2>5. token = x /\ s2 = Named(name, t)
    BY <1>8, <2>1, <2>2, <2>4
  <2>6. Rewritten(w, h, name, n, token, s2, m)
    BY <1>1, <2>4, <2>5, JTellsAgain
  <2> QED  BY <2>1, <2>6
<1>13. CASE DatesIn(h, s, m, token, h2, s2, m2)
  <2>1. /\ k = Width(w, i) + 1 /\ HasList(w, i) /\ h2 = h /\ m2 = m /\ s2 = Past(s)
        /\ token = [is |-> "dates", v |-> Enc(w, i).dates]
    BY <1>3, <1>6, <1>13 DEF DatesIn, IsInnerAgain
  <2>2. Lists(w, x, p, st, t, M, N)
    BY <1>5, <2>1 DEF KindOf
  <2>3. x = [is |-> "dates", v |-> Enc(w, i).dates] /\ N = M /\ t = Past(st)
    BY <1>1, <2>2 DEF Lists
  <2>4. token = x /\ s2 = Named(name, t)
    BY <1>8, <2>1, <2>3
  <2>5. Rewritten(w, h, name, n, token, s2, m)
    BY <1>1, <2>3, <2>4, JTellsAgain
  <2> QED  BY <2>1, <2>5
<1>14. CASE EndIn(h, s, m, token, h2, s2, m2)
  <2>1. k = End(w, i)
    BY <1>3, <1>6, <1>14 DEF EndIn, IsInnerAgain, End
  <2>2. h2 = h /\ m2 = m /\ s2 = Front(s) /\ token = [is |-> "close"]
    BY <1>14 DEF EndIn
  <2>3. Closes(w, x, p, st, t, M, N)
    BY <1>5, <2>1 DEF KindOf
  <2>4. x = [is |-> "close"] /\ N = M /\ t = Front(st)
    BY <2>3 DEF Closes
  <2>5. token = x /\ s2 = Named(name, t)
    BY <1>8, <2>2, <2>4
  <2>6. Rewritten(w, h, name, n, token, s2, m)
    BY <1>1, <2>4, <2>5, JTellsAgain
  <2> QED  BY <2>2, <2>6
<1> QED  BY <1>11, <1>12, <1>13, <1>14 DEF WritesIn

\* Every token is the one that was written first.
LEMMA JAgain ==
  ASSUME NEW w, Written(w), Stack(w, Size(w)) = <<>>, Size(w) # 0,
         NEW h, NEW name, NEW n, NEW s, NEW m,
         n \in 0 .. Size(w), Renames(w, h, name), Rewrites(w, h, name, n, s, m),
         NEW p, p = n + 1, NEW token, NEW h2, NEW s2, NEW m2, WritesIn(h, s, m, p, token, h2, s2, m2)
  PROVE  n \in 0 .. Size(w) - 1 /\ Rewritten(w, h2, name, n, token, s2, m2)
<1>1. Size(w) \in Nat /\ n \in Nat /\ IsGraph(w.given)
  BY DEF Written, Size
<1>2. PICK st : st = Stack(w, n)
  OBVIOUS
<1>3. s = Named(name, st)
  BY <1>2 DEF Rewrites
<1>4. CASE RootIn(h, s, m, p, token, h2, s2, m2)
  <2>1. p = 1 /\ ReplacesIn(h, m, NoKey, Root, <<>>, p, token, h2, s2, m2)
    BY <1>4 DEF RootIn
  <2>2. n = 0 /\ n \in 0 .. Size(w) - 1
    BY <1>1, <2>1
  <2>3. st = <<>> /\ st \in Seq(FrameType(w)) /\ w.text[p].is = "open"
    <3>1. w.text[n + 1].is = "open" /\ Stack(w, n) = <<>>
      BY <2>2, JNext
    <3>2. Stack(w, n) \in Seq(FrameType(w))
      BY JTypes
    <3> QED  BY <1>2, <3>1, <3>2
  <2>4. PICK x, t, M, N : x = w.text[p] /\ t = Stack(w, p) /\ M = Met(w, n) /\ N = Met(w, p)
    OBVIOUS
  <2>5. Continues(w, x, p, st, t, M, N)
    BY <1>2, <2>2, <2>4, JContinues
  <2>6. OpensRoot(w, x, p, st, t, M, N) \/ OpensObject(w, x, p, st, t, M, N)
    BY <2>3, <2>4, <2>5, JKinds
  <2>7. PICK key, j, u, a : key = NoKey /\ j = Root /\ u = <<>> /\ a = Root
    OBVIOUS
  <2>8. Opens(w, key, j, st, x, p, t, M, N)
    BY <2>3, <2>6, <2>7 DEF OpensRoot, OpensObject, InFields
  <2>9. j \in DOMAIN w.given /\ a = name[j]
    BY <1>1, <2>7 DEF IsGraph, Renames
  <2>10. u = Named(name, st)
    BY <2>3, <2>7 DEF Named
  <2>11. ReplacesIn(h, m, key, a, u, p, token, h2, s2, m2)
    BY <2>1, <2>7
  <2> QED  BY <2>2, <2>3, <2>4, <2>8, <2>9, <2>10, <2>11, JOpensAgain
<1>5. CASE ~RootIn(h, s, m, p, token, h2, s2, m2)
  <2>1. s # <<>>
    BY <1>5 DEF WritesIn, ObjectIn, ValueIn, DatesIn, EndIn
  <2>2. st # <<>>
    <3>1. st = <<>> => Named(name, st) = <<>>
      BY DEF Named
    <3> QED  BY <1>3, <2>1, <3>1
  <2>3. n # Size(w)
    BY <1>2, <2>2
  <2>4. n \in 0 .. Size(w) - 1
    BY <1>1, <2>3
  <2> QED  BY <1>2, <1>5, <2>2, <2>4, JAgainInside
<1> QED  BY <1>4, <1>5

\* The beginning of a text, and one token more.
LEMMA JBeginning ==
  ASSUME NEW w, Written(w), NEW n \in 0 .. Size(w)
  PROVE  /\ Len(SubSeq(w.text, 1, n)) = n /\ n \in Nat
         /\ n # Size(w) => Append(SubSeq(w.text, 1, n), w.text[n + 1]) = SubSeq(w.text, 1, n + 1)
         /\ SubSeq(w.text, 1, Size(w)) = w.text
<1>1. PICK T, s : T = {w.text[p] : p \in DOMAIN w.text} /\ s = w.text
  OBVIOUS
<1>2. s \in Seq(T) /\ Len(s) = Size(w)
  BY <1>1 DEF Written, Size
<1>3. Len(s) \in Nat /\ DOMAIN s = 1 .. Len(s) /\ s = [d \in 1 .. Len(s) |-> s[d]]
      /\ \A d \in 1 .. Len(s) : s[d] \in T
  BY <1>2, JSeq
<1>4. n \in Nat /\ n \in 0 .. Len(s)
  BY <1>2, <1>3
<1>5. \A k \in 0 .. Len(s) : /\ SubSeq(s, 1, k) \in Seq(T) /\ Len(SubSeq(s, 1, k)) = k
                             /\ \A d \in 1 .. k : SubSeq(s, 1, k)[d] = s[d]
  BY <1>2, <1>3
<1>6. SubSeq(s, 1, Len(s)) = s
  <2>1. PICK a : a = SubSeq(s, 1, Len(s))
    OBVIOUS
  <2>2. a \in Seq(T) /\ Len(a) = Len(s) /\ \A d \in 1 .. Len(a) : a[d] = s[d]
    BY <1>3, <1>5, <2>1
  <2> QED  BY <1>2, <2>1, <2>2, JSameSeq
<1>7. ASSUME n # Size(w)
      PROVE  Append(SubSeq(s, 1, n), s[n + 1]) = SubSeq(s, 1, n + 1)
  <2>1. n + 1 \in 0 .. Len(s) /\ n + 1 \in 1 .. Len(s)
    BY <1>2, <1>3, <1>4, <1>7
  <2>2. PICK a, e, b, c : a = SubSeq(s, 1, n) /\ e = s[n + 1] /\ b = SubSeq(s, 1, n + 1) /\ c = Append(a, e)
    OBVIOUS
  <2>3. a \in Seq(T) /\ Len(a) = n /\ (\A d \in 1 .. n : a[d] = s[d]) /\ e \in T
    BY <1>3, <1>4, <1>5, <2>1, <2>2
  <2>4. b \in Seq(T) /\ Len(b) = n + 1 /\ (\A d \in 1 .. n + 1 : b[d] = s[d])
    BY <1>5, <2>1, <2>2
  <2>5. c \in Seq(T) /\ Len(c) = n + 1 /\ c[n + 1] = e /\ \A d \in 1 .. n : c[d] = a[d]
    BY <2>2, <2>3, JSeqAppend
  <2>6. ASSUME NEW d \in 1 .. Len(c)
        PROVE  c[d] = b[d]
    <3>1. CASE d = n + 1
      BY <1>4, <2>2, <2>4, <2>5, <3>1
    <3>2. CASE d # n + 1
      <4>1. d \in 1 .. n /\ d \in 1 .. n + 1
        BY <1>4, <2>5, <3>2
      <4> QED  BY <2>3, <2>4, <2>5, <4>1
    <3> QED  BY <3>1, <3>2
  <2> QED  BY <2>2, <2>4, <2>5, <2>6, JSameSeq
<1> QED  BY <1>1, <1>2, <1>4, <1>5, <1>6, <1>7

IsRewritten(w, h, name, n, t, s, m) ==
  RewritingOK(w, h, name, n, t, s, m) /\ n = Len(t) /\ \A i \in Ids(w) : name[i] \in DOMAIN h

\* Whoever writes again writes the next token of the text.
LEMMA JWritesAgain ==
  ASSUME NEW w, Written(w), Stack(w, Size(w)) = <<>>, Size(w) # 0,
         NEW h, NEW name, NEW t, NEW s, NEW m, NEW n, n = Len(t), RewritingOK(w, h, name, n, t, s, m),
         NEW p, p = n + 1, NEW token, NEW h2, NEW s2, NEW m2, WritesIn(h, s, m, p, token, h2, s2, m2),
         NEW t2, t2 = Append(t, token)
  PROVE  IsRewritten(w, h2, name, p, t2, s2, m2)
<1>1. Renames(w, h, name) /\ n \in 0 .. Size(w) /\ t = SubSeq(w.text, 1, n) /\ Rewrites(w, h, name, n, s, m)
  BY JRewriting
<1>2. n \in 0 .. Size(w) - 1 /\ Rewritten(w, h2, name, n, token, s2, m2)
  BY <1>1, JAgain
<1>3. token = w.text[n + 1] /\ Renames(w, h2, name) /\ Rewrites(w, h2, name, p, s2, m2)
  BY <1>2 DEF Rewritten
<1>4. p \in 0 .. Size(w) /\ n # Size(w)
  BY <1>2, JNext
<1>5. t2 = SubSeq(w.text, 1, p)
  BY <1>1, <1>3, <1>4, JBeginning
<1>6. Len(t2) = p
  BY <1>4, <1>5, JBeginning
<1>7. RewritingOK(w, h2, name, p, t2, s2, m2)
  BY <1>3, <1>4, <1>5, JRewriting
<1>8. \A i \in Ids(w) : name[i] \in DOMAIN h2
  BY <1>3 DEF Renames
<1> QED  BY <1>6, <1>7, <1>8 DEF IsRewritten

\* Each step of stringify continues the text, or writes the same one again.
LEMMA JWriteStep ==
  ASSUME Inv, Stringify
  PROVE  Inv'
<1>1. PICK p : p = Len(text) + 1
  OBVIOUS
<1>2. PICK token : IsWriting /\ Spelled(token) /\ WritesIn(heap, writing, seen, p, token, heap', writing', seen')
  BY <1>1, JStringify
<1>3. /\ text' = Append(text, token) /\ step' = step /\ given' = given
      /\ sent' = sent /\ read' = read /\ reading' = reading /\ objects' = objects /\ dates' = dates
      /\ holders' = holders /\ chain' = chain /\ chains' = chains /\ refs' = refs
  BY <1>2 DEF Spelled, reader
<1>4. PICK h, s, m, h2, s2, m2, g, x, x2, tr, tr2 :
        /\ h = heap /\ s = writing /\ m = seen /\ h2 = heap' /\ s2 = writing' /\ m2 = seen'
        /\ g = given /\ x = text /\ x2 = text' /\ tr = trace /\ tr2 = trace'
  OBVIOUS
<1>5. WritesIn(h, s, m, p, token, h2, s2, m2)
  BY <1>2, <1>4
<1>6. CASE step = "write"
  <2>1. PICK w, v : w = [given |-> g, text |-> x, trace |-> tr] /\ v = [given |-> g, text |-> x2, trace |-> tr2]
    OBVIOUS
  <2>2. w = Writing
    BY <1>4, <2>1 DEF Writing
  <2>3. Written(w) /\ s = Stack(w, Len(x)) /\ m = Met(w, Len(x)) /\ HeapOK(g, h, m)
    BY <1>4, <1>6, <2>2 DEF Inv, WriteInv, SentInv
  <2>4. Size(w) = Len(x) /\ w.given = g /\ w.text = x /\ w.trace = tr
    BY <2>1 DEF Size
  <2>5. Continues(w, token, p, s, s2, m, m2) /\ HeapOK(w.given, h2, m2)
    <3>1. s = Stack(w, Size(w)) /\ m = Met(w, Size(w)) /\ HeapOK(w.given, h, m) /\ p = Size(w) + 1
      BY <1>1, <1>4, <2>3, <2>4
    <3> QED  BY <1>5, <2>3, <3>1, JFirst
  <2>6. tr2 = Append(tr, [writing |-> s2, seen |-> m2])
    BY <1>2, <1>4, <1>6 DEF Spelled
  <2>7. v.given = w.given /\ v.text = Append(w.text, token) /\ v.trace = Append(w.trace, [writing |-> s2, seen |-> m2])
    BY <1>3, <1>4, <2>1, <2>4, <2>6
  <2>8. Continues(w, token, Size(w) + 1, Stack(w, Size(w)), s2, Met(w, Size(w)), m2)
    BY <1>1, <1>4, <2>3, <2>4, <2>5
  <2>9. Written(v) /\ Size(v) = Size(w) + 1 /\ Stack(v, Size(v)) = s2 /\ Met(v, Size(v)) = m2
    BY <2>3, <2>7, <2>8, JGrows
  <2>10. v = Writing' /\ Size(v) = Len(text')
    BY <1>3, <1>4, <2>1 DEF Writing, Size
  <2>11. WriteInv'
    <3>1. /\ sent = <<>> /\ read = 0 /\ reading = <<>> /\ objects = <<>> /\ dates = {} /\ holders = {}
          /\ chain = <<>> /\ chains = <<>> /\ refs = {}
      BY <1>6 DEF Inv, WriteInv
    <3>2. Written(Writing') /\ writing' = Stack(Writing', Len(text')) /\ seen' = Met(Writing', Len(text'))
      BY <1>4, <2>9, <2>10
    <3> QED  BY <1>3, <3>1, <3>2 DEF WriteInv
  <2>12. SentInv'
    <3>1. HeapOK(given', heap', seen')
      BY <1>3, <1>4, <2>4, <2>5
    <3> QED  BY <1>3, <1>6, <3>1 DEF SentInv
  <2> QED  BY <1>3, <1>6, <2>11, <2>12 DEF Inv, ReadInv, RewriteInv
<1>7. CASE step = "rewrite"
  <2>1. PICK w : w = Sent
    OBVIOUS
  <2>2. Sent' = w
    BY <1>2, <1>3, <1>7, <2>1 DEF Sent, Spelled
  <2>3. Written(w) /\ Stack(w, Len(sent)) = <<>> /\ sent # <<>>
    BY <1>7, <2>1 DEF Inv, SentInv
  <2>4. w.text = sent
    BY <2>1 DEF Sent
  <2>5. Size(w) = Len(sent) /\ Size(w) # 0
    BY <2>3, <2>4, JSeq DEF Size, Written
  <2>6. PICK n : n = Len(x)
    OBVIOUS
  <2>7. PICK name \in [Ids(w) -> DOMAIN h] : RewritingOK(w, h, name, n, x, s, m)
    BY <1>4, <1>7, <2>1, <2>6 DEF Inv, RewriteInv
  <2>8. x2 = Append(x, token) /\ p = n + 1 /\ Stack(w, Size(w)) = <<>>
    BY <1>1, <1>3, <1>4, <2>3, <2>5, <2>6
  <2>9. IsRewritten(w, h2, name, p, x2, s2, m2)
    BY <1>5, <2>3, <2>5, <2>6, <2>7, <2>8, JWritesAgain
  <2>10. name \in [Ids(w) -> DOMAIN h2] /\ RewritingOK(w, h2, name, Len(x2), x2, s2, m2)
    BY <2>7, <2>9 DEF IsRewritten
  <2>11. \E nm \in [Ids(w) -> DOMAIN heap'] : RewritingOK(w, heap', nm, Len(text'), text', writing', seen')
    BY <1>4, <2>10
  <2>12. RewriteInv'
    BY <2>2, <2>11 DEF RewriteInv
  <2>13. SentInv'
    <3>1. Written(Sent') /\ sent' # <<>> /\ Stack(Sent', Len(sent')) = <<>>
      BY <1>3, <2>2, <2>3
    <3> QED  BY <1>3, <1>7, <3>1 DEF SentInv
  <2> QED  BY <1>3, <1>7, <2>12, <2>13 DEF Inv, WriteInv, ReadInv
<1> QED  BY <1>2, <1>6, <1>7 DEF IsWriting

ReadsIn(w, n, ob, in) ==
  /\ n \in 0 .. Size(w) - 1 /\ n \in Nat /\ DOMAIN ob = Places(w, n) /\ in = Inside(w, n)
  /\ n # 0 => in \in Places(w, n)
  /\ n + 1 \notin Places(w, n)
  /\ Places(w, n + 1) = IF w.text[n + 1].is \in {"open", "ref"} THEN Places(w, n) \cup {n + 1} ELSE Places(w, n)
  /\ w.text[n + 1].is # "open" => n # 0

\* Where the parser is when it reads on.
LEMMA JReadsIn ==
  ASSUME NEW w, Written(w), NEW n \in 0 .. Size(w) - 1, NEW ob, DOMAIN ob = Places(w, n), NEW in, in = Inside(w, n)
  PROVE  ReadsIn(w, n, ob, in)
<1>1. /\ n \in Nat /\ n \in 0 .. Size(w) /\ Places(w, n) \subseteq Places(w, n + 1)
      /\ \A p \in Places(w, n + 1) : p # n + 1 => p \in Places(w, n)
      /\ n + 1 \in Places(w, n + 1) <=> w.text[n + 1].is \in {"open", "ref"}
      /\ n + 1 \notin Places(w, n)
      /\ n = 0 <=> Stack(w, n) = <<>>
      /\ n = 0 => w.text[n + 1].is = "open"
  BY JNext
<1>2. n # 0 => in \in Places(w, n)
  BY <1>1, JInside
<1>3. Places(w, n + 1) = IF w.text[n + 1].is \in {"open", "ref"} THEN Places(w, n) \cup {n + 1} ELSE Places(w, n)
  BY <1>1
<1> QED  BY <1>1, <1>2, <1>3 DEF ReadsIn

HasObject(n, ob, added, x, ob2) == ob2 = [p \in DOMAIN ob \cup {n + 1} |-> IF p = n + 1 THEN x ELSE added[p]]
HasProperty(n, in, ob, f, added) == added = IF n = 0 THEN ob ELSE [ob EXCEPT ![in].own = Append(@, f)]

\* An object and a reference are read as properties of the object they are in,
LEMMA JBuildsObject ==
  ASSUME NEW w, Written(w), NEW n \in 0 .. Size(w) - 1, NEW ob, DOMAIN ob = Places(w, n),
         NEW in, in = Inside(w, n), NEW f, f = Link(w, n + 1),
         NEW added, HasProperty(n, in, ob, f, added),
         w.text[n + 1].is \in {"open", "ref"},
         NEW x, w.text[n + 1].is = "open" => x = [array |-> w.text[n + 1].array, own |-> <<>>, dates |-> {}],
         w.text[n + 1].is = "ref" => x = Reference(w.text[n + 1].id),
         NEW ob2, HasObject(n, ob, added, x, ob2)
  PROVE  Builds(w, n, ob, ob2)
<1>1. ReadsIn(w, n, ob, in)
  BY JReadsIn
<1>2. DOMAIN ob2 = Places(w, n + 1) /\ ob2[n + 1] = x
  BY <1>1 DEF ReadsIn, HasObject
<1>3. \A p \in Places(w, n) : ob2[p] = added[p]
  BY <1>1 DEF ReadsIn, HasObject
<1>4. \A p \in Places(w, n) : p # in => ob2[p] = ob[p]
  <2>1. CASE n = 0
    BY <1>3, <2>1 DEF HasProperty
  <2>2. CASE n # 0
    <3>1. \A p \in DOMAIN ob : p # in => added[p] = ob[p]
      BY <2>2 DEF HasProperty
    <3> QED  BY <1>3, <3>1
  <2> QED  BY <2>1, <2>2
<1>5. ASSUME n # 0
      PROVE  AddsTo(w, n, ob[in], ob2[in])
  <2>1. in \in DOMAIN ob /\ ob2[in] = added[in]
    BY <1>1, <1>3, <1>5 DEF ReadsIn
  <2>2. added[in] = [ob[in] EXCEPT !.own = Append(@, f)]
    BY <1>5, <2>1 DEF HasProperty
  <2>3. w.text[n + 1].is # "dates" /\ w.text[n + 1].is # "value"
    OBVIOUS
  <2> QED  BY <2>1, <2>2, <2>3 DEF AddsTo
<1>6. in = Inside(w, n)
  OBVIOUS
<1> QED  BY <1>2, <1>4, <1>5, <1>6 DEF Builds

\* and so are values,
LEMMA JBuildsValue ==
  ASSUME NEW w, Written(w), NEW n \in 0 .. Size(w) - 1, NEW ob, DOMAIN ob = Places(w, n),
         NEW in, in = Inside(w, n), w.text[n + 1].is = "value",
         NEW f, f = Field(w.text[n + 1].k, w.text[n + 1].v),
         NEW ob2, ob2 = [ob EXCEPT ![in].own = Append(@, f)]
  PROVE  Builds(w, n, ob, ob2)
<1>1. ReadsIn(w, n, ob, in)
  BY JReadsIn
<1>2. DOMAIN ob2 = Places(w, n + 1)
  BY <1>1 DEF ReadsIn
<1>3. \A p \in Places(w, n) : p # in => ob2[p] = ob[p]
  BY <1>1 DEF ReadsIn
<1>4. in \in DOMAIN ob
  BY <1>1 DEF ReadsIn
<1>5. ob2[in] = [ob[in] EXCEPT !.own = Append(@, f)]
  BY <1>4
<1>6. AddsTo(w, n, ob[in], ob2[in])
  BY <1>5 DEF AddsTo
<1> QED  BY <1>2, <1>3, <1>6 DEF Builds

\* and the list of dates is taken.
LEMMA JBuildsList ==
  ASSUME NEW w, Written(w), NEW n \in 0 .. Size(w) - 1, NEW ob, DOMAIN ob = Places(w, n),
         NEW in, in = Inside(w, n), w.text[n + 1].is = "dates",
         NEW d, d = w.text[n + 1].v,
         NEW ob2, ob2 = [ob EXCEPT ![in].dates = d]
  PROVE  Builds(w, n, ob, ob2)
<1>1. ReadsIn(w, n, ob, in)
  BY JReadsIn
<1>2. DOMAIN ob2 = Places(w, n + 1)
  BY <1>1 DEF ReadsIn
<1>3. \A p \in Places(w, n) : p # in => ob2[p] = ob[p]
  BY <1>1 DEF ReadsIn
<1>4. in \in DOMAIN ob
  BY <1>1 DEF ReadsIn
<1>5. ob2[in] = [ob[in] EXCEPT !.dates = d]
  BY <1>4
<1>6. AddsTo(w, n, ob[in], ob2[in])
  BY <1>5 DEF AddsTo
<1> QED  BY <1>2, <1>3, <1>6 DEF Builds

DatedOnes(ob, ds, in, rev) == rev = IF ob[in].dates # {} THEN [ob EXCEPT ![in].own = Revived(@, ds)] ELSE ob
UnlistedOnes(ob, rev, root, hold, ob2) ==
  ob2 = [p \in DOMAIN ob |-> IF root /\ p \in hold THEN [rev[p] EXCEPT !.dates = {}] ELSE rev[p]]

\* The innermost object is revived, and the lists go with the root.
LEMMA JReviving ==
  ASSUME NEW w, NEW n, NEW ob, NEW ds, NEW hs, NEW in, in = Inside(w, n), in \in DOMAIN ob,
         NEW rev, DatedOnes(ob, ds, in, rev),
         NEW hold, hold = IF ob[in].dates # {} THEN hs \cup {in} ELSE hs,
         NEW root, root <=> IsRootInside(w, n), NEW ob2, UnlistedOnes(ob, rev, root, hold, ob2),
         NEW hs2, hs2 = IF IsRootInside(w, n) THEN {} ELSE hold
  PROVE  Revives(w, n, ob, ds, hs, ob2, hs2)
<1>1. hold = HoldersOf(w, n, ob, hs) /\ DOMAIN ob2 = DOMAIN ob
  BY DEF HoldersOf, UnlistedOnes
<1>2. Dated(ob[in], ds, rev[in])
  <2>1. CASE ob[in].dates # {}
    <3>1. rev[in] = [ob[in] EXCEPT !.own = Revived(@, ds)]
      BY <2>1 DEF DatedOnes
    <3> QED  BY <2>1, <3>1 DEF Dated
  <2>2. CASE ob[in].dates = {}
    <3>1. rev[in] = ob[in]
      BY <2>2 DEF DatedOnes
    <3> QED  BY <2>2, <3>1 DEF Dated
  <2> QED  BY <2>1, <2>2
<1>3. \A p \in DOMAIN ob : p # in => rev[p] = ob[p]
  BY DEF DatedOnes
<1>4. ASSUME NEW p \in DOMAIN ob
      PROVE  \E o : /\ IF p = Inside(w, n) THEN Dated(ob[p], ds, o) ELSE o = ob[p]
                    /\ IF IsRootInside(w, n) /\ p \in HoldersOf(w, n, ob, hs) THEN Unlisted(o, ob2[p]) ELSE ob2[p] = o
  <2>1. PICK o : o = rev[p]
    OBVIOUS
  <2>2. IF p = Inside(w, n) THEN Dated(ob[p], ds, o) ELSE o = ob[p]
    BY <1>2, <1>3, <2>1
  <2>3. IF IsRootInside(w, n) /\ p \in HoldersOf(w, n, ob, hs) THEN Unlisted(o, ob2[p]) ELSE ob2[p] = o
    <3>1. CASE IsRootInside(w, n) /\ p \in hold
      <4>1. ob2[p] = [o EXCEPT !.dates = {}]
        BY <2>1, <3>1 DEF UnlistedOnes
      <4> QED  BY <1>1, <3>1, <4>1 DEF Unlisted
    <3>2. CASE ~(IsRootInside(w, n) /\ p \in hold)
      <4>1. ob2[p] = o
        BY <2>1, <3>2 DEF UnlistedOnes
      <4> QED  BY <1>1, <3>2, <4>1
    <3> QED  BY <3>1, <3>2
  <2> QED  BY <2>2, <2>3
<1>5. hs2 = IF IsRootInside(w, n) THEN {} ELSE HoldersOf(w, n, ob, hs)
  BY <1>1
<1> QED  BY <1>1, <1>4, <1>5 DEF Revives

AtRead(w, n, in) ==
  /\ w = Sent /\ w.text = sent /\ Size(w) = Len(sent) /\ Len(sent) \in Nat
  /\ Written(w) /\ Stack(w, Size(w)) = <<>>
  /\ n = read /\ n \in 0 .. Size(w) - 1 /\ in = Inside(w, n)
  /\ ReadingOK(w, n, reading, objects, dates, holders, chain, chains, refs)
  /\ (n = 0 <=> reading = <<>>) /\ (n # 0 => Here = in)
  /\ Token = w.text[n + 1] /\ Place = n + 1
  /\ DOMAIN objects = Places(w, n)

\* What the parser has read.
LEMMA JAtRead ==
  ASSUME Inv, step = "read", NEW w, w = Sent, NEW n, n = read, NEW in, in = Inside(w, n)
  PROVE  AtRead(w, n, in)
<1>1. Written(w) /\ Stack(w, Len(sent)) = <<>> /\ w.text = sent
  BY DEF Inv, SentInv, Sent
<1>2. Size(w) = Len(sent) /\ Len(sent) \in Nat
  BY <1>1, JSeq DEF Size, Written
<1>3. ReadingOK(w, n, reading, objects, dates, holders, chain, chains, refs)
  BY DEF Inv, ReadInv
<1>4. n \in 0 .. Size(w) - 1 /\ reading = Path(w, n) /\ DOMAIN objects = Places(w, n)
  BY <1>3 DEF ReadingOK, ObjectsOK
<1>5. (Path(w, n) = <<>> <=> n = 0) /\ (n # 0 => Last(Path(w, n)) = Inside(w, n))
  BY <1>1, <1>4, JPath
<1>6. (n = 0 <=> reading = <<>>) /\ (n # 0 => Here = in)
  BY <1>4, <1>5 DEF Here
<1>7. Token = w.text[n + 1] /\ Place = n + 1
  BY <1>1 DEF Token, Place
<1> QED  BY <1>1, <1>2, <1>3, <1>4, <1>6, <1>7 DEF AtRead

\* The sender does nothing meanwhile.
LEMMA JParsed ==
  ASSUME Inv, step = "read", step' = "read", UNCHANGED <<given, writer, sent>>, NEW w, w = Sent,
         NEW n2, n2 = read', NEW rd2, rd2 = reading', NEW ob2, ob2 = objects', NEW ds2, ds2 = dates',
         NEW hs2, hs2 = holders', NEW ch2, ch2 = chain', NEW cs2, cs2 = chains', NEW rf2, rf2 = refs',
         ReadingOK(w, n2, rd2, ob2, ds2, hs2, ch2, cs2, rf2)
  PROVE  Inv'
<1>1. given' = given /\ heap' = heap /\ writing' = writing /\ seen' = seen /\ text' = text /\ trace' = trace /\ sent' = sent
  BY DEF writer
<1>2. Sent' = w
  BY <1>1 DEF Sent
<1>3. Written(w) /\ sent # <<>> /\ Stack(w, Len(sent)) = <<>> /\ HeapOK(given, heap, seen) /\ seen = Final(w)
  BY DEF Inv, SentInv
<1>4. SentInv'
  <2>1. Written(Sent') /\ sent' # <<>> /\ Stack(Sent', Len(sent')) = <<>> /\ seen' = Final(Sent')
    BY <1>1, <1>2, <1>3
  <2>2. HeapOK(given', heap', seen')
    BY <1>1, <1>3
  <2> QED  BY <2>1, <2>2 DEF SentInv
<1>5. ReadingOK(Sent', read', reading', objects', dates', holders', chain', chains', refs')
  BY <1>2
<1> QED  BY <1>4, <1>5 DEF Inv, WriteInv, ReadInv, RewriteInv

\* Each token that is read
LEMMA JReadOn ==
  ASSUME Inv, step = "read", chain = <<>>, step' = "read", UNCHANGED <<given, writer, sent, holders, chain, refs>>,
         NEW w, w = Sent, NEW n, n = read, NEW in, AtRead(w, n, in), w.text[n + 1].is # "close", read' = n + 1,
         NEW rd2, rd2 = reading', rd2 = IF w.text[n + 1].is = "open" THEN Append(reading, n + 1) ELSE reading,
         NEW ob2, ob2 = objects', Builds(w, n, objects, ob2),
         NEW ds2, ds2 = dates', ds2 = IF w.text[n + 1].is = "dates" THEN w.text[n + 1].v ELSE dates,
         NEW cs2, cs2 = chains',
         cs2 = IF w.text[n + 1].is = "ref" THEN Append(chains, <<Link(w, n + 1)>>) ELSE chains
  PROVE  Inv'
<1>1. PICK rd, ob, ds, hs, cs, rf, m, ch2 : /\ rd = reading /\ ob = objects /\ ds = dates /\ hs = holders /\ cs = chains
                                            /\ rf = refs /\ m = n + 1 /\ ch2 = <<>>
  OBVIOUS
<1>2. Written(w) /\ Stack(w, Size(w)) = <<>> /\ ReadingOK(w, n, rd, ob, ds, hs, <<>>, cs, rf)
  BY <1>1 DEF AtRead
<1>3. ReadingOK(w, n + 1, rd2, ob2, ds2, hs, <<>>, cs2, rf)
  BY <1>1, <1>2, JReads
<1>4. ReadingOK(w, m, rd2, ob2, ds2, hs, ch2, cs2, rf)
  BY <1>1, <1>3
<1>5. m = read' /\ hs = holders' /\ ch2 = chain' /\ rf = refs' /\ UNCHANGED <<given, writer, sent>>
  BY <1>1
<1> QED  BY <1>4, <1>5, JParsed

\* is one step: an object,
LEMMA JReadObjectStep ==
  ASSUME Inv, ReadObject
  PROVE  Inv'
<1>1. PICK w, n, in : w = Sent /\ n = read /\ in = Inside(w, n)
  OBVIOUS
<1>2. step = "read" /\ chain = <<>> /\ Token.is = "open" /\ read' = Place /\ reading' = Append(reading, Place)
      /\ objects' = AddedObject([array |-> Token.array, own |-> <<>>, dates |-> {}])
      /\ step' = "read" /\ UNCHANGED <<given, writer, sent, dates, holders, chain, chains, refs>>
  BY DEF ReadObject, IsReading
<1>3. AtRead(w, n, in)
  BY <1>1, <1>2, JAtRead
<1>4. /\ Written(w) /\ n \in 0 .. Size(w) - 1 /\ Token = w.text[n + 1] /\ Place = n + 1 /\ DOMAIN objects = Places(w, n)
      /\ (n = 0 <=> reading = <<>>) /\ (n # 0 => Here = in) /\ in = Inside(w, n)
  BY <1>3 DEF AtRead
<1>5. PICK ob, x, f, added, ob2 :
        /\ ob = objects /\ x = [array |-> Token.array, own |-> <<>>, dates |-> {}] /\ f = Field(Token.k, Object(Place))
        /\ added = (IF reading = <<>> THEN objects ELSE Added(f)) /\ ob2 = objects'
  OBVIOUS
<1>6. f = Link(w, n + 1)
  BY <1>4, <1>5 DEF Link
<1>7. HasProperty(n, in, ob, f, added)
  BY <1>4, <1>5 DEF Added, HasProperty
<1>8. HasObject(n, ob, added, x, ob2)
  BY <1>2, <1>4, <1>5 DEF AddedObject, HasObject
<1>9. /\ w.text[n + 1].is \in {"open", "ref"}
      /\ w.text[n + 1].is = "open" => x = [array |-> w.text[n + 1].array, own |-> <<>>, dates |-> {}]
      /\ w.text[n + 1].is = "ref" => x = Reference(w.text[n + 1].id)
      /\ w.text[n + 1].is = "open"
  BY <1>2, <1>4, <1>5
<1>10. Builds(w, n, ob, ob2)
  BY <1>4, <1>5, <1>6, <1>7, <1>8, <1>9, JBuildsObject
<1>11. PICK rd2, ds2, cs2 : rd2 = reading' /\ ds2 = dates' /\ cs2 = chains'
  OBVIOUS
<1>12. /\ rd2 = IF w.text[n + 1].is = "open" THEN Append(reading, n + 1) ELSE reading
       /\ ds2 = IF w.text[n + 1].is = "dates" THEN w.text[n + 1].v ELSE dates
       /\ cs2 = IF w.text[n + 1].is = "ref" THEN Append(chains, <<Link(w, n + 1)>>) ELSE chains
  BY <1>2, <1>4, <1>9, <1>11
<1> QED  BY <1>1, <1>2, <1>3, <1>4, <1>5, <1>9, <1>10, <1>11, <1>12, JReadOn

\* a reference,
LEMMA JReadReferenceStep ==
  ASSUME Inv, ReadReference
  PROVE  Inv'
<1>1. PICK w, n, in : w = Sent /\ n = read /\ in = Inside(w, n)
  OBVIOUS
<1>2. step = "read" /\ chain = <<>> /\ Token.is = "ref" /\ read' = Place /\ reading' = reading
      /\ objects' = AddedObject(Reference(Token.id)) /\ chains' = Append(chains, <<Field(Token.k, Object(Place))>>)
      /\ step' = "read" /\ UNCHANGED <<given, writer, sent, dates, holders, chain, refs>>
  BY DEF ReadReference, IsReading
<1>3. AtRead(w, n, in)
  BY <1>1, <1>2, JAtRead
<1>4. /\ Written(w) /\ n \in 0 .. Size(w) - 1 /\ Token = w.text[n + 1] /\ Place = n + 1 /\ DOMAIN objects = Places(w, n)
      /\ (n = 0 <=> reading = <<>>) /\ (n # 0 => Here = in) /\ in = Inside(w, n)
  BY <1>3 DEF AtRead
<1>5. PICK ob, x, f, added, ob2 :
        /\ ob = objects /\ x = Reference(Token.id) /\ f = Field(Token.k, Object(Place))
        /\ added = (IF reading = <<>> THEN objects ELSE Added(f)) /\ ob2 = objects'
  OBVIOUS
<1>6. f = Link(w, n + 1)
  BY <1>4, <1>5 DEF Link
<1>7. HasProperty(n, in, ob, f, added)
  BY <1>4, <1>5 DEF Added, HasProperty
<1>8. HasObject(n, ob, added, x, ob2)
  BY <1>2, <1>4, <1>5 DEF AddedObject, HasObject
<1>9. /\ w.text[n + 1].is \in {"open", "ref"}
      /\ w.text[n + 1].is = "open" => x = [array |-> w.text[n + 1].array, own |-> <<>>, dates |-> {}]
      /\ w.text[n + 1].is = "ref" => x = Reference(w.text[n + 1].id)
      /\ w.text[n + 1].is = "ref"
  BY <1>2, <1>4, <1>5
<1>10. Builds(w, n, ob, ob2)
  BY <1>4, <1>5, <1>6, <1>7, <1>8, <1>9, JBuildsObject
<1>11. PICK rd2, ds2, cs2 : rd2 = reading' /\ ds2 = dates' /\ cs2 = chains'
  OBVIOUS
<1>12. /\ rd2 = IF w.text[n + 1].is = "open" THEN Append(reading, n + 1) ELSE reading
       /\ ds2 = IF w.text[n + 1].is = "dates" THEN w.text[n + 1].v ELSE dates
       /\ cs2 = IF w.text[n + 1].is = "ref" THEN Append(chains, <<Link(w, n + 1)>>) ELSE chains
  BY <1>2, <1>4, <1>5, <1>6, <1>9, <1>11
<1> QED  BY <1>1, <1>2, <1>3, <1>4, <1>5, <1>9, <1>10, <1>11, <1>12, JReadOn

\* a value,
LEMMA JReadValueStep ==
  ASSUME Inv, ReadValue
  PROVE  Inv'
<1>1. PICK w, n, in : w = Sent /\ n = read /\ in = Inside(w, n)
  OBVIOUS
<1>2. step = "read" /\ chain = <<>> /\ Token.is = "value" /\ read' = Place /\ reading' = reading
      /\ objects' = Added(Field(Token.k, Token.v)) /\ chains' = chains
      /\ step' = "read" /\ UNCHANGED <<given, writer, sent, dates, holders, chain, refs>>
  BY DEF ReadValue, IsReading
<1>3. AtRead(w, n, in)
  BY <1>1, <1>2, JAtRead
<1>4. /\ Written(w) /\ n \in 0 .. Size(w) - 1 /\ Token = w.text[n + 1] /\ Place = n + 1 /\ DOMAIN objects = Places(w, n)
      /\ (n # 0 => Here = in) /\ in = Inside(w, n)
  BY <1>3 DEF AtRead
<1>5. PICK ob, f, ob2 : ob = objects /\ f = Field(Token.k, Token.v) /\ ob2 = objects'
  OBVIOUS
<1>6. w.text[n + 1].is = "value" /\ f = Field(w.text[n + 1].k, w.text[n + 1].v) /\ n # 0
  <2>1. w.text[n + 1].is = "value" /\ f = Field(w.text[n + 1].k, w.text[n + 1].v)
    BY <1>2, <1>4, <1>5
  <2>2. n = 0 => w.text[n + 1].is = "open"
    BY <1>4, JNext
  <2> QED  BY <2>1, <2>2
<1>7. ob2 = [ob EXCEPT ![in].own = Append(@, f)]
  BY <1>2, <1>4, <1>5, <1>6 DEF Added
<1>8. Builds(w, n, ob, ob2)
  BY <1>4, <1>5, <1>6, <1>7, JBuildsValue
<1>9. PICK rd2, ds2, cs2 : rd2 = reading' /\ ds2 = dates' /\ cs2 = chains'
  OBVIOUS
<1>10. /\ rd2 = IF w.text[n + 1].is = "open" THEN Append(reading, n + 1) ELSE reading
       /\ ds2 = IF w.text[n + 1].is = "dates" THEN w.text[n + 1].v ELSE dates
       /\ cs2 = IF w.text[n + 1].is = "ref" THEN Append(chains, <<Link(w, n + 1)>>) ELSE chains
  BY <1>2, <1>6, <1>9
<1> QED  BY <1>1, <1>2, <1>3, <1>4, <1>5, <1>6, <1>8, <1>9, <1>10, JReadOn

\* or the list of dates.
LEMMA JReadDatesStep ==
  ASSUME Inv, ReadDates
  PROVE  Inv'
<1>1. PICK w, n, in : w = Sent /\ n = read /\ in = Inside(w, n)
  OBVIOUS
<1>2. step = "read" /\ chain = <<>> /\ Token.is = "dates" /\ read' = Place /\ reading' = reading
      /\ objects' = [objects EXCEPT ![Here].dates = Token.v] /\ dates' = Token.v /\ chains' = chains
      /\ step' = "read" /\ UNCHANGED <<given, writer, sent, holders, chain, refs>>
  BY DEF ReadDates, IsReading
<1>3. AtRead(w, n, in)
  BY <1>1, <1>2, JAtRead
<1>4. /\ Written(w) /\ n \in 0 .. Size(w) - 1 /\ Token = w.text[n + 1] /\ Place = n + 1 /\ DOMAIN objects = Places(w, n)
      /\ (n # 0 => Here = in) /\ in = Inside(w, n)
  BY <1>3 DEF AtRead
<1>5. PICK ob, d, ob2 : ob = objects /\ d = Token.v /\ ob2 = objects'
  OBVIOUS
<1>6. w.text[n + 1].is = "dates" /\ d = w.text[n + 1].v /\ n # 0
  <2>1. w.text[n + 1].is = "dates" /\ d = w.text[n + 1].v
    BY <1>2, <1>4, <1>5
  <2>2. n = 0 => w.text[n + 1].is = "open"
    BY <1>4, JNext
  <2> QED  BY <2>1, <2>2
<1>7. ob2 = [ob EXCEPT ![in].dates = d]
  BY <1>2, <1>4, <1>5, <1>6
<1>8. Builds(w, n, ob, ob2)
  BY <1>4, <1>5, <1>6, <1>7, JBuildsList
<1>9. PICK rd2, ds2, cs2 : rd2 = reading' /\ ds2 = dates' /\ cs2 = chains'
  OBVIOUS
<1>10. /\ rd2 = IF w.text[n + 1].is = "open" THEN Append(reading, n + 1) ELSE reading
       /\ ds2 = IF w.text[n + 1].is = "dates" THEN w.text[n + 1].v ELSE dates
       /\ cs2 = IF w.text[n + 1].is = "ref" THEN Append(chains, <<Link(w, n + 1)>>) ELSE chains
  BY <1>2, <1>5, <1>6, <1>9
<1> QED  BY <1>1, <1>2, <1>3, <1>4, <1>5, <1>6, <1>8, <1>9, <1>10, JReadOn

\* An object that was read is revived, and begins its chain.
LEMMA JReviveStep ==
  ASSUME Inv, Revive
  PROVE  Inv'
<1>1. PICK w, n, in : w = Sent /\ n = read /\ in = Inside(w, n)
  OBVIOUS
<1>2. PICK ob, ds, hs, rd, cs, rf, ob2, ds2, hs2, ch2 :
        /\ ob = objects /\ ds = dates /\ hs = holders /\ rd = reading /\ cs = chains /\ rf = refs
        /\ ob2 = objects' /\ ds2 = dates' /\ hs2 = holders' /\ ch2 = chain'
  OBVIOUS
<1>3. step = "read" /\ chain = <<>> /\ Token.is = "close"
      /\ step' = "read" /\ UNCHANGED <<given, writer, sent, read, reading, chains, refs>>
  BY DEF Revive, IsReading
<1>4. AtRead(w, n, in)
  BY <1>1, <1>3, JAtRead
<1>5. /\ Written(w) /\ n \in 0 .. Size(w) - 1 /\ w.text[n + 1].is = "close" /\ w.text = sent
      /\ ReadingOK(w, n, rd, ob, ds, hs, <<>>, cs, rf) /\ (n # 0 => Here = in) /\ DOMAIN ob = Places(w, n)
  BY <1>2, <1>3, <1>4 DEF AtRead
<1>6. n # 0 /\ in \in Places(w, n)
  <2>1. n = 0 => w.text[n + 1].is = "open"
    BY <1>5, JNext
  <2> QED  BY <1>1, <1>5, <2>1, JAtEnd
<1>7. Here = in /\ KeyOf(Here) = w.text[in].k
  BY <1>5, <1>6 DEF KeyOf
<1>8. PICK rev, hold, root :
        /\ rev = (IF ob[in].dates # {} THEN [ob EXCEPT ![in].own = Revived(@, ds)] ELSE ob)
        /\ hold = IF ob[in].dates # {} THEN hs \cup {in} ELSE hs
        /\ root = (w.text[in].k = NoKey)
  OBVIOUS
<1>9. root <=> IsRootInside(w, n)
  BY <1>1, <1>8 DEF IsRootInside
<1>10. UnlistedOnes(ob, rev, root, hold, ob2) /\ hs2 = IF root THEN {} ELSE hold
  BY <1>2, <1>7, <1>8 DEF Revive, UnlistedOnes
<1>11. ch2 = <<Link(w, in)>>
  BY <1>2, <1>7 DEF Revive, Link
<1>12. Revives(w, n, ob, ds, hs, ob2, hs2)
  <2>1. DatedOnes(ob, ds, in, rev) /\ hs2 = IF IsRootInside(w, n) THEN {} ELSE hold
    BY <1>8, <1>9, <1>10 DEF DatedOnes
  <2> QED  BY <1>1, <1>5, <1>6, <1>8, <1>9, <1>10, <2>1, JReviving
<1>13. ReadingOK(w, n, rd, ob2, ds2, hs2, ch2, cs, rf)
  BY <1>1, <1>5, <1>11, <1>12, JRevive
<1>14. n = read' /\ rd = reading' /\ cs = chains' /\ rf = refs' /\ UNCHANGED <<given, writer, sent>>
  BY <1>1, <1>2, <1>3
<1> QED  BY <1>1, <1>2, <1>3, <1>13, <1>14, JParsed

AtChain(w, n, in) ==
  /\ AtRead(w, n, in) /\ Written(w) /\ Stack(w, Size(w)) = <<>>
  /\ Chaining(w, n, reading, objects, dates, holders, chain, chains, refs)
  /\ Here = in
  /\ IsParent <=> chains # <<>> /\ Begets(w, n, objects, Last(chains))
  /\ KeyOf(Here) = NoKey <=> in = 1

\* While a chain is in hand, an object has ended.
LEMMA JAtChain ==
  ASSUME Inv, IsChaining, NEW w, w = Sent, NEW n, n = read, NEW in, in = Inside(w, n)
  PROVE  AtChain(w, n, in)
<1>1. step = "read" /\ chain # <<>>
  BY DEF IsChaining
<1>2. AtRead(w, n, in)
  BY <1>1, JAtRead
<1>3. PICK rd, ob, ds, hs, ch, cs, rf :
        /\ rd = reading /\ ob = objects /\ ds = dates /\ hs = holders /\ ch = chain /\ cs = chains /\ rf = refs
  OBVIOUS
<1>4. Written(w) /\ ReadingOK(w, n, rd, ob, ds, hs, ch, cs, rf) /\ Stack(w, Size(w)) = <<>> /\ w.text = sent
  BY <1>2, <1>3 DEF AtRead
<1>5. Chaining(w, n, rd, ob, ds, hs, ch, cs, rf)
  BY <1>1, <1>3, <1>4, JChaining
<1>6. n \in 0 .. Size(w) - 1 /\ w.text[n + 1].is = "close" /\ ObjectsOK(w, n, TRUE, ob)
  BY <1>5 DEF Chaining
<1>7. in \in Places(w, n) /\ IsOpen(w, in) /\ n \in 0 .. Size(w)
      /\ Upto(w, n, in, End(w, Of(w, in))) /\ End(w, Of(w, in)) \in Nat
  BY <1>4, <1>6, JAtEnd
<1>8. ob[in].own \in Seq(FieldType)
  <2>1. PICK k : k = End(w, Of(w, in))
    OBVIOUS
  <2>2. k \in Nat /\ Upto(w, n, in, k)
    BY <1>7, <2>1
  <2>3. ObjectOK(w, ob[in], in, k, IsRevived(w, n, TRUE, in), Gone(w, n, TRUE))
    BY <1>6, <1>7, <2>2 DEF ObjectsOK
  <2>4. ob[in] \in ObjectType
    BY <2>3 DEF ObjectOK
  <2> QED  BY <2>4, JObjectType
<1>9. n # 0
  <2>1. n = 0 => w.text[n + 1].is = "open"
    BY <1>4, <1>6, JNext
  <2> QED  BY <1>6, <2>1
<1>10. Here = in
  BY <1>2, <1>9 DEF AtRead
<1>11. DOMAIN ob[in].own = 1 .. Len(ob[in].own)
  BY <1>8, JSeq
<1>12. IsParent <=> chains # <<>> /\ Begets(w, n, objects, Last(chains))
  BY <1>3, <1>10, <1>11 DEF IsParent, Begets
<1>13. KeyOf(Here) = NoKey <=> in = 1
  BY <1>4, <1>7, <1>10, JKeys DEF KeyOf
<1> QED  BY <1>2, <1>3, <1>4, <1>5, <1>10, <1>12, <1>13 DEF AtChain

\* A child's chain is merged,
LEMMA JMergeStep ==
  ASSUME Inv, MergeChain
  PROVE  Inv'
<1>1. PICK w, n, in : w = Sent /\ n = read /\ in = Inside(w, n)
  OBVIOUS
<1>2. PICK rd, ob, ds, hs, ch, cs, rf, ch2, cs2 :
        /\ rd = reading /\ ob = objects /\ ds = dates /\ hs = holders /\ ch = chain /\ cs = chains /\ rf = refs
        /\ ch2 = chain' /\ cs2 = chains'
  OBVIOUS
<1>3. /\ IsChaining /\ IsParent /\ ~IsReference(Child) /\ ch2 = Merged(ch, Last(cs)) /\ cs2 = Front(cs)
      /\ step = "read" /\ step' = "read" /\ UNCHANGED <<given, writer, sent, read, reading, objects, dates, holders, refs>>
  BY <1>2 DEF MergeChain, IsChaining
<1>4. AtChain(w, n, in)
  BY <1>1, <1>3, JAtChain
<1>5. Written(w) /\ Chaining(w, n, rd, ob, ds, hs, ch, cs, rf) /\ cs # <<>> /\ Begets(w, n, ob, Last(cs))
  BY <1>2, <1>3, <1>4 DEF AtChain
<1>6. ~RefIn(ob[HeadOf(Last(cs))])
  BY <1>2, <1>3 DEF IsReference, RefIn, Child, HeadOf
<1>7. Chaining(w, n, rd, ob, ds, hs, ch2, cs2, rf)
  BY <1>3, <1>5, <1>6, JMerged
<1>8. ch2 # <<>>
  BY <1>7 DEF Chaining
<1>9. ReadingOK(w, n, rd, ob, ds, hs, ch2, cs2, rf)
  BY <1>7, <1>8, JChaining
<1>10. n = read' /\ rd = reading' /\ ob = objects' /\ ds = dates' /\ hs = holders' /\ rf = refs' /\ UNCHANGED <<given, writer, sent>>
  BY <1>1, <1>2, <1>3
<1> QED  BY <1>1, <1>2, <1>3, <1>9, <1>10, JParsed

\* or kept, if it is a reference;
LEMMA JKeepStep ==
  ASSUME Inv, KeepReference
  PROVE  Inv'
<1>1. PICK w, n, in : w = Sent /\ n = read /\ in = Inside(w, n)
  OBVIOUS
<1>2. PICK rd, ob, ds, hs, ch, cs, rf, rf2, cs2 :
        /\ rd = reading /\ ob = objects /\ ds = dates /\ hs = holders /\ ch = chain /\ cs = chains /\ rf = refs
        /\ rf2 = refs' /\ cs2 = chains'
  OBVIOUS
<1>3. /\ IsChaining /\ IsParent /\ IsReference(Child) /\ cs2 = Front(cs)
      /\ rf2 = rf \cup {[parent |-> Here, key |-> Last(cs)[1].k, id |-> RefersTo(Child)]}
      /\ step = "read" /\ step' = "read" /\ UNCHANGED <<given, writer, sent, read, reading, objects, dates, holders, chain>>
  BY <1>2 DEF KeepReference, IsChaining
<1>4. AtChain(w, n, in)
  BY <1>1, <1>3, JAtChain
<1>5. Written(w) /\ Chaining(w, n, rd, ob, ds, hs, ch, cs, rf) /\ cs # <<>> /\ Begets(w, n, ob, Last(cs)) /\ Here = in
  BY <1>2, <1>3, <1>4 DEF AtChain
<1>6. RefIn(ob[HeadOf(Last(cs))])
  BY <1>2, <1>3 DEF IsReference, RefIn, Child, HeadOf
<1>7. RefersTo(Child) = RefersIn(ob[HeadOf(Last(cs))])
  BY <1>2 DEF RefersTo, RefersIn, Child, HeadOf
<1>8. rf2 = rf \cup {[parent |-> Inside(w, n), key |-> Last(cs)[1].k, id |-> RefersIn(ob[HeadOf(Last(cs))])]}
  BY <1>1, <1>3, <1>5, <1>7
<1>9. Chaining(w, n, rd, ob, ds, hs, ch, cs2, rf2)
  BY <1>3, <1>5, <1>6, <1>8, JKept
<1>10. ch # <<>>
  BY <1>9 DEF Chaining
<1>11. ReadingOK(w, n, rd, ob, ds, hs, ch, cs2, rf2)
  BY <1>9, <1>10, JChaining
<1>12. n = read' /\ rd = reading' /\ ob = objects' /\ ds = dates' /\ hs = holders' /\ ch = chain' /\ UNCHANGED <<given, writer, sent>>
  BY <1>1, <1>2, <1>3
<1> QED  BY <1>1, <1>2, <1>3, <1>11, <1>12, JParsed

\* When all is read, what was read is what is resolved.
LEMMA JResolvedInv ==
  ASSUME Inv, step \in {"read", "resolve"}, step' \in {"resolve", "decoded"}, UNCHANGED <<given, writer, sent>>,
         NEW w, w = Sent, NEW ob2, ob2 = objects', NEW cs2, cs2 = chains', NEW rf2, rf2 = refs',
         ResolvingOK(w, ob2, cs2, rf2), step' = "decoded" => rf2 = {}
  PROVE  Inv'
<1>1. given' = given /\ heap' = heap /\ writing' = writing /\ seen' = seen /\ text' = text /\ trace' = trace /\ sent' = sent
  BY DEF writer
<1>2. Sent' = w
  BY <1>1 DEF Sent
<1>3. Written(w) /\ sent # <<>> /\ Stack(w, Len(sent)) = <<>> /\ HeapOK(given, heap, seen) /\ seen = Final(w)
  BY DEF Inv, SentInv
<1>4. SentInv'
  <2>1. Written(Sent') /\ sent' # <<>> /\ Stack(Sent', Len(sent')) = <<>> /\ seen' = Final(Sent')
    BY <1>1, <1>2, <1>3
  <2>2. HeapOK(given', heap', seen')
    BY <1>1, <1>3
  <2> QED  BY <2>1, <2>2 DEF SentInv
<1>5. ResolvingOK(Sent', objects', chains', refs')
  BY <1>2
<1> QED  BY <1>4, <1>5 DEF Inv, WriteInv, ReadInv, RewriteInv

\* A chain is put to the others when no child is left in them.
LEMMA JPushStep ==
  ASSUME Inv, PushChain
  PROVE  Inv'
<1>1. PICK w, n, in : w = Sent /\ n = read /\ in = Inside(w, n)
  OBVIOUS
<1>2. PICK rd, ob, ds, hs, ch, cs, rf, m, rd2, ch2, cs2 :
        /\ rd = reading /\ ob = objects /\ ds = dates /\ hs = holders /\ ch = chain /\ cs = chains /\ rf = refs
        /\ m = read' /\ rd2 = reading' /\ ch2 = chain' /\ cs2 = chains'
  OBVIOUS
<1>3. /\ IsChaining /\ ~IsParent /\ cs2 = Append(cs, ch) /\ ch2 = <<>> /\ rd2 = Front(rd) /\ m = Place
      /\ step = "read" /\ step' = (IF KeyOf(Here) = NoKey THEN "resolve" ELSE "read")
      /\ UNCHANGED <<given, writer, sent, objects, dates, holders, refs>>
  BY <1>2 DEF PushChain, IsChaining
<1>4. AtChain(w, n, in)
  BY <1>1, <1>3, JAtChain
<1>5. /\ Written(w) /\ Stack(w, Size(w)) = <<>> /\ Chaining(w, n, rd, ob, ds, hs, ch, cs, rf)
      /\ (KeyOf(Here) = NoKey <=> in = 1)
  BY <1>2, <1>4 DEF AtChain
<1>6. Childless(w, n, ob, cs)
  BY <1>2, <1>3, <1>4 DEF AtChain, Childless
<1>7. CASE in = 1
  <2>1. ResolvingOK(w, ob, cs2, rf)
    BY <1>1, <1>3, <1>5, <1>6, <1>7, JPushesRoot
  <2>2. step' = "resolve" /\ ob = objects' /\ rf = refs' /\ UNCHANGED <<given, writer, sent>>
    BY <1>2, <1>3, <1>5, <1>7
  <2> QED  BY <1>1, <1>2, <1>3, <2>1, <2>2, JResolvedInv
<1>8. CASE in # 1
  <2>1. m = n + 1
    BY <1>1, <1>3 DEF Place
  <2>2. ReadingOK(w, n + 1, rd2, ob, ds, hs, <<>>, cs2, rf)
    BY <1>1, <1>3, <1>5, <1>6, <1>8, JPushes
  <2>3. ReadingOK(w, m, rd2, ob, ds, hs, ch2, cs2, rf)
    BY <1>3, <2>1, <2>2
  <2>4. step' = "read" /\ ob = objects' /\ ds = dates' /\ hs = holders' /\ rf = refs' /\ UNCHANGED <<given, writer, sent>>
    BY <1>2, <1>3, <1>5, <1>8
  <2> QED  BY <1>1, <1>2, <1>3, <2>3, <2>4, JParsed
<1> QED  BY <1>7, <1>8

\* A reference is replaced by what it refers to.
LEMMA JResolveStep ==
  ASSUME Inv, ResolveRef
  PROVE  Inv'
<1>1. PICK w, ob, cs, rf, ob2, rf2 :
        w = Sent /\ ob = objects /\ cs = chains /\ rf = refs /\ ob2 = objects' /\ rf2 = refs'
  OBVIOUS
<1>2. step = "resolve" /\ step' = "resolve" /\ UNCHANGED <<given, writer, sent, chains>>
  BY DEF ResolveRef
<1>3. PICK r \in rf : /\ ob2 = [ob EXCEPT ![r.parent].own = Put(@, r.key, cs[1][r.id + 1].v)]
                      /\ rf2 = rf \ {r}
  BY <1>1 DEF ResolveRef
<1>4. Written(w) /\ ResolvingOK(w, ob, cs, rf)
  BY <1>1, <1>2 DEF Inv, SentInv, ReadInv
<1>5. Resolves(ob, cs, r, ob2)
  <2>1. DOMAIN ob2 = DOMAIN ob
    BY <1>3
  <2>2. ASSUME NEW p \in DOMAIN ob
        PROVE  IF p = r.parent THEN WithOwn(ob[p], Put(ob[p].own, r.key, cs[1][r.id + 1].v), ob2[p]) ELSE ob2[p] = ob[p]
    <3>1. CASE p = r.parent
      <4>1. ob2[p] = [ob[p] EXCEPT !.own = Put(@, r.key, cs[1][r.id + 1].v)]
        BY <1>3, <3>1
      <4> QED  BY <3>1, <4>1 DEF WithOwn
    <3>2. CASE p # r.parent
      BY <1>3, <3>2
    <3> QED  BY <3>1, <3>2
  <2> QED  BY <2>1, <2>2 DEF Resolves
<1>6. ResolvingOK(w, ob2, cs, rf2)
  BY <1>3, <1>4, <1>5, JResolve
<1>7. step \in {"read", "resolve"} /\ step' \in {"resolve", "decoded"} /\ cs = chains'
      /\ (step' = "decoded" => rf2 = {}) /\ UNCHANGED <<given, writer, sent>>
  BY <1>1, <1>2
<1> QED  BY <1>1, <1>6, <1>7, JResolvedInv

\* No reference is left.
LEMMA JDecodedStep ==
  ASSUME Inv, Decoded
  PROVE  Inv'
<1>1. PICK w, ob, cs, rf : w = Sent /\ ob = objects' /\ cs = chains' /\ rf = refs'
  OBVIOUS
<1>2. step = "resolve" /\ step' = "decoded" /\ rf = {} /\ UNCHANGED <<given, writer, sent, objects, chains, refs>>
  BY <1>1 DEF Decoded, reader
<1>3. ResolvingOK(w, ob, cs, rf)
  BY <1>1, <1>2 DEF Inv, ReadInv
<1>4. step \in {"read", "resolve"} /\ step' \in {"resolve", "decoded"} /\ (step' = "decoded" => rf = {})
      /\ UNCHANGED <<given, writer, sent>>
  BY <1>2
<1> QED  BY <1>1, <1>3, <1>4, JResolvedInv

\* Before anything is read.
LEMMA JStart ==
  ASSUME NEW w, Written(w), Size(w) # 0, NEW n, n = 0, NEW e, e = <<>>, NEW f, f = {}
  PROVE  ReadingOK(w, n, e, e, f, f, e, e, f)
<1>1. Size(w) \in Nat /\ n \in 0 .. Size(w) - 1
  <2>1. Size(w) \in Nat
    BY JSeq DEF Written, Size
  <2> QED  BY <2>1
<1>2. Stack(w, n) = <<>> /\ Met(w, n) = <<>>
  BY DEF Stack, Met
<1>3. Len(Stack(w, n)) = 0 /\ Count(w, n) = 0 /\ Places(w, n) = {} /\ Len(e) = 0 /\ DOMAIN e = {}
  BY <1>2 DEF Count, Places
<1>4. e = Path(w, n)
  BY <1>3 DEF Path
<1>5. ~(e # <<>>)
  OBVIOUS
<1>6. ObjectsOK(w, n, e # <<>>, e) /\ ChildrenOK(w, n, e)
  BY <1>3 DEF ObjectsOK, ChildrenOK
<1>7. ListsOK(w, n, e # <<>>, e, f, f)
  BY <1>2, <1>3 DEF ListsOK
<1>8. e \in Seq(Seq(FieldType)) /\ e \in Seq(FieldType)
  OBVIOUS
<1>9. ChainsOK(w, n, e, e)
  <2>1. InHandOK(w, n, e)
    BY <1>5, <1>8 DEF InHandOK
  <2> QED  BY <1>3, <2>1 DEF ChainsOK
<1>10. RefsOK(w, n, e, f)
  BY <1>3 DEF RefsOK
<1> QED  BY <1>1, <1>4, <1>6, <1>7, <1>8, <1>9, <1>10 DEF ReadingOK

\* The text is sent.
LEMMA JSendStep ==
  ASSUME Inv, Send
  PROVE  Inv'
<1>1. PICK w : w = Writing
  OBVIOUS
<1>2. /\ step = "write" /\ step' = "read" /\ writing = <<>> /\ text # <<>> /\ sent' = text
      /\ UNCHANGED <<given, writer, read, reading, objects, dates, holders, chain, chains, refs>>
  BY DEF Send, IsWritten
<1>3. given' = given /\ heap' = heap /\ seen' = seen /\ trace' = trace
  BY <1>2 DEF writer
<1>4. Sent' = w
  BY <1>1, <1>2, <1>3 DEF Sent, Writing
<1>5. /\ Written(w) /\ writing = Stack(w, Len(text)) /\ seen = Met(w, Len(text)) /\ HeapOK(given, heap, seen)
      /\ read = 0 /\ reading = <<>> /\ objects = <<>> /\ dates = {} /\ holders = {}
      /\ chain = <<>> /\ chains = <<>> /\ refs = {}
  BY <1>1, <1>2 DEF Inv, WriteInv, SentInv
<1>6. w.text = text /\ Size(w) = Len(text)
  BY <1>1 DEF Writing, Size
<1>7. Size(w) # 0
  BY <1>2, <1>5, <1>6, JSeq DEF Written
<1>8. PICK n, e, f : n = 0 /\ e = <<>> /\ f = {}
  OBVIOUS
<1>9. ReadingOK(w, n, e, e, f, f, e, e, f)
  BY <1>5, <1>7, <1>8, JStart
<1>10. ReadingOK(w, read', reading', objects', dates', holders', chain', chains', refs')
  <2>1. /\ read' = n /\ reading' = e /\ objects' = e /\ dates' = f /\ holders' = f /\ chain' = e /\ chains' = e /\ refs' = f
    BY <1>2, <1>5, <1>8
  <2> QED  BY <1>9, <2>1
<1>11. SentInv'
  <2>1. Written(Sent') /\ sent' # <<>> /\ Stack(Sent', Len(sent')) = <<>> /\ seen' = Final(Sent')
    BY <1>2, <1>3, <1>4, <1>5, <1>6 DEF Final
  <2>2. HeapOK(given', heap', seen')
    BY <1>3, <1>5
  <2> QED  BY <1>2, <2>1, <2>2 DEF SentInv
<1>12. ReadInv'
  BY <1>2, <1>4, <1>10 DEF ReadInv
<1> QED  BY <1>2, <1>11, <1>12 DEF Inv, WriteInv, RewriteInv

\* Either side encodes its objects again.
LEMMA JAgainStep ==
  ASSUME Inv, EncodeAgain
  PROVE  Inv'
<1>1. PICK w, ob, cs, rf, h, h2 : w = Sent /\ ob = objects /\ cs = chains /\ rf = refs /\ h = heap /\ h2 = heap'
  OBVIOUS
<1>2. /\ step = "decoded" /\ step' = "rewrite" /\ h2 \in {h, ob} /\ writing' = <<>> /\ seen' = <<>> /\ text' = <<>>
      /\ given' = given /\ trace' = trace /\ sent' = sent
  BY <1>1 DEF EncodeAgain, reader
<1>3. Sent' = w
  BY <1>1, <1>2 DEF Sent
<1>4. /\ Written(w) /\ sent # <<>> /\ Stack(w, Len(sent)) = <<>> /\ HeapOK(given, h, seen) /\ seen = Final(w)
      /\ ResolvingOK(w, ob, cs, rf) /\ rf = {}
  BY <1>1, <1>2 DEF Inv, SentInv, ReadInv
<1>5. w.given = given /\ w.text = sent
  BY <1>1 DEF Sent
<1>6. Size(w) # 0
  BY <1>4, <1>5, JSeq DEF Written, Size
<1>7. ResolvingOK(w, ob, cs, {}) /\ HeapOK(w.given, h, Final(w))
  BY <1>4, <1>5
<1>8. \E name \in [Ids(w) -> DOMAIN h2] : RewritingOK(w, h2, name, 0, <<>>, <<>>, <<>>)
  <2>1. CASE h2 = h
    BY <1>4, <1>6, <1>7, <2>1, JSender
  <2>2. CASE h2 = ob
    BY <1>4, <1>6, <1>7, <2>2, JReceiver
  <2> QED  BY <1>2, <2>1, <2>2
<1>9. RewriteInv'
  <2>1. Len(text') = 0
    BY <1>2
  <2>2. \E name \in [Ids(w) -> DOMAIN heap'] : RewritingOK(w, heap', name, Len(text'), text', writing', seen')
    BY <1>1, <1>2, <1>8, <2>1
  <2> QED  BY <1>3, <2>2 DEF RewriteInv
<1>10. SentInv'
  <2>1. Written(Sent') /\ sent' # <<>> /\ Stack(Sent', Len(sent')) = <<>>
    BY <1>2, <1>3, <1>4
  <2> QED  BY <1>2, <2>1 DEF SentInv
<1> QED  BY <1>2, <1>9, <1>10 DEF Inv, WriteInv, ReadInv

\* Nothing is written at first.
LEMMA JInit ==
  ASSUME Init
  PROVE  Inv
<1>1. PICK w : w = Writing
  OBVIOUS
<1>2. /\ step = "write" /\ given \in Graphs /\ heap = given /\ writing = <<>> /\ seen = <<>> /\ text = <<>> /\ trace = <<>>
      /\ sent = <<>> /\ read = 0 /\ reading = <<>> /\ objects = <<>> /\ dates = {} /\ holders = {}
      /\ chain = <<>> /\ chains = <<>> /\ refs = {}
  BY DEF Init
<1>3. w.given = given /\ w.text = <<>> /\ w.trace = <<>> /\ IsGraph(w.given)
  BY <1>1, <1>2, GraphAssumption DEF Writing
<1>4. Stack(w, 0) = <<>> /\ Met(w, 0) = <<>> /\ Count(w, 0) = 0
  <2>1. Stack(w, 0) = <<>> /\ Met(w, 0) = <<>>
    BY DEF Stack, Met
  <2> QED  BY <2>1 DEF Count
<1>10. PICK e, S, T : e = <<>> /\ S = FrameType(w) /\ T = DOMAIN w.given
  OBVIOUS
<1>11. e \in Seq(S) /\ e \in Seq(T) /\ Len(e) = 0
  BY <1>10
<1>5. FramesOK(w, 0)
  <2>1. Len(Stack(w, 0)) = 0 /\ Stack(w, 0) \in Seq(FrameType(w))
    BY <1>4, <1>10, <1>11
  <2> QED  BY <2>1 DEF FramesOK
<1>6. MetOK(w, 0)
  <2>1. Met(w, 0) \in Seq(DOMAIN w.given)
    BY <1>4, <1>10, <1>11
  <2>2. \A q \in 0 .. 0 : q = 0
    OBVIOUS
  <2> QED  BY <1>4, <2>1, <2>2 DEF MetOK
<1>7. Written(w)
  <2>1. w.trace \in Seq([writing : Seq(FrameType(w)), seen : Seq(DOMAIN w.given)])
        /\ w.text \in Seq({w.text[p] : p \in DOMAIN w.text}) /\ Len(w.trace) = Len(w.text) /\ Len(w.text) = 0
    BY <1>3
  <2>2. \A p \in 0 .. Len(w.text) : FramesOK(w, p) /\ MetOK(w, p)
    <3>1. \A p \in 0 .. Len(w.text) : p = 0
      BY <2>1
    <3> QED  BY <1>5, <1>6, <3>1
  <2> QED  BY <1>3, <2>1, <2>2 DEF Written
<1>8. HeapOK(given, heap, seen)
  <2>1. PICK g, s : g = given /\ s = seen
    OBVIOUS
  <2>2. g = [i \in DOMAIN g |-> g[i]] /\ Len(s) = 0 /\ heap = g
    BY <1>2, <1>3, <2>1 DEF IsGraph
  <2> QED  BY <2>1, <2>2 DEF HeapOK
<1>9. writing = Stack(w, Len(text)) /\ seen = Met(w, Len(text))
  BY <1>2, <1>4
<1> QED  BY <1>1, <1>2, <1>7, <1>8, <1>9 DEF Inv, WriteInv, SentInv, ReadInv, RewriteInv

\* The invariant is inductive.
LEMMA JNextStep ==
  ASSUME Inv, [Next]_vars
  PROVE  Inv'
<1>1. CASE Stringify
  BY <1>1, JWriteStep
<1>2. CASE Send
  BY <1>2, JSendStep
<1>3. CASE Parse
  <2>1. CASE ReadObject
    BY <2>1, JReadObjectStep
  <2>2. CASE ReadReference
    BY <2>2, JReadReferenceStep
  <2>3. CASE ReadValue
    BY <2>3, JReadValueStep
  <2>4. CASE ReadDates
    BY <2>4, JReadDatesStep
  <2>5. CASE Revive
    BY <2>5, JReviveStep
  <2>6. CASE MergeChain
    BY <2>6, JMergeStep
  <2>7. CASE KeepReference
    BY <2>7, JKeepStep
  <2>8. CASE PushChain
    BY <2>8, JPushStep
  <2>9. CASE ResolveRef
    BY <2>9, JResolveStep
  <2> QED  BY <1>3, <2>1, <2>2, <2>3, <2>4, <2>5, <2>6, <2>7, <2>8, <2>9 DEF Parse
<1>4. CASE Decoded
  BY <1>4, JDecodedStep
<1>5. CASE EncodeAgain
  BY <1>5, JAgainStep
<1>6. CASE UNCHANGED vars
  <2>1. /\ step' = step /\ given' = given /\ heap' = heap /\ writing' = writing /\ seen' = seen /\ text' = text
        /\ trace' = trace /\ sent' = sent /\ read' = read /\ reading' = reading /\ objects' = objects /\ dates' = dates
        /\ holders' = holders /\ chain' = chain /\ chains' = chains /\ refs' = refs
    BY <1>6 DEF vars, writer, reader
  <2>2. Writing' = Writing /\ Sent' = Sent
    BY <2>1 DEF Writing, Sent
  <2>3. WriteInv'
    BY <2>1, <2>2 DEF Inv, WriteInv
  <2>4. SentInv'
    BY <2>1, <2>2 DEF Inv, SentInv
  <2>5. ReadInv'
    BY <2>1, <2>2 DEF Inv, ReadInv
  <2>6. RewriteInv'
    BY <2>1, <2>2 DEF Inv, RewriteInv
  <2> QED  BY <2>3, <2>4, <2>5, <2>6 DEF Inv
<1> QED  BY <1>1, <1>2, <1>3, <1>4, <1>5, <1>6 DEF Next

\* The text, what was read of it and what is written again are in step.
THEOREM JsonInvariant == Spec => []Inv
<1>1. Init => Inv
  BY JInit
<1>2. Inv /\ [Next]_vars => Inv'
  BY JNextStep
<1> QED  BY <1>1, <1>2, PTL DEF Spec

\* Of every graph of objects, arrays, strings and dates, cyclic or not, parse gives
\* back what stringify was given (json.js: stringify, parse).
THEOREM AlwaysRoundTrip == Spec => []RoundTrip
<1>1. Inv => RoundTrip
  <2> SUFFICES ASSUME Inv, step = "decoded", \A i \in DOMAIN given : IsEncodable(given[i])
               PROVE  RoundTrip
    BY DEF RoundTrip
  <2>1. PICK w, ob, cs, g, ids, copies :
          /\ w = Sent /\ ob = objects /\ cs = chains /\ g = given /\ ids = {seen[n] : n \in DOMAIN seen}
          /\ copies = {p \in DOMAIN objects : ~IsReference(p)}
    OBVIOUS
  <2>2. Written(w) /\ sent # <<>> /\ seen = Final(w) /\ ResolvingOK(w, ob, cs, {})
    BY <2>1 DEF Inv, SentInv, ReadInv
  <2>3. w.given = g /\ w.text = sent
    BY <2>1 DEF Sent
  <2>4. Size(w) # 0 /\ Size(w) \in Nat
    BY <2>2, <2>3, JSeq DEF Written, Size
  <2>5. \A i \in DOMAIN w.given : IsEncodable(w.given[i])
    BY <2>1, <2>3
  <2>6. IsBack(w, ob)
    BY <2>2, <2>4, <2>5, JBack
  <2>7. ids = Ids(w)
    <3>1. Size(w) \in 0 .. Size(w)
      BY <2>4
    <3>2. Final(w) \in Seq(DOMAIN w.given)
      BY <2>2, <3>1, JTypes DEF Final
    <3>3. DOMAIN Final(w) = 1 .. Len(Final(w))
      BY <3>2, JSeq
    <3> QED  BY <2>1, <2>2, <3>3 DEF Ids
  <2>8. copies = {p \in DOMAIN ob : ~RefIn(ob[p])}
    BY <2>1 DEF IsReference, RefIn
  <2>9. Reached(ids)
    BY <2>1, <2>3, <2>6, <2>7 DEF IsBack, Reached
  <2>10. \E name \in [ids -> copies] :
           /\ name[Root] = Root
           /\ \A i, j \in ids : name[i] = name[j] => i = j
           /\ \A i \in ids : ob[name[i]] = [g[i] EXCEPT !.own = Renamed(@, name)]
    BY <2>3, <2>6, <2>7, <2>8 DEF IsBack
  <2> QED  BY <2>1, <2>9, <2>10 DEF RoundTrip
<1> QED  BY <1>1, JsonInvariant, PTL

\* What was decoded, and what was encoded, is encoded in the same text again: the
\* list of dates is kept, and references have the numbers they had (json.js: stringify).
THEOREM AlwaysStableText == Spec => []StableText
<1>1. Inv => StableText
  <2> SUFFICES ASSUME Inv, step = "rewrite", IsWritten
               PROVE  text = sent
    BY DEF StableText
  <2>1. PICK w, n, t, s, m, h : w = Sent /\ n = Len(text) /\ t = text /\ s = writing /\ m = seen /\ h = heap
    OBVIOUS
  <2>2. Written(w) /\ w.text = sent
    BY <2>1 DEF Inv, SentInv, Sent
  <2>3. PICK name : RewritingOK(w, h, name, n, t, s, m)
    BY <2>1 DEF Inv, RewriteInv
  <2>4. n \in 0 .. Size(w) /\ t = SubSeq(w.text, 1, n) /\ Rewrites(w, h, name, n, s, m)
    BY <2>3, JRewriting
  <2>5. s = <<>> /\ t # <<>>
    BY <2>1 DEF IsWritten
  <2>6. Stack(w, n) = <<>>
    <3>1. PICK st : st = Stack(w, n)
      OBVIOUS
    <3>2. st \in Seq(FrameType(w)) /\ s = Named(name, st)
      BY <2>2, <2>4, <3>1, JTypes DEF Rewrites
    <3>3. st # <<>> => NamedPast(name, st, s)
      BY <3>2, JNamedPast
    <3> QED  BY <2>5, <3>1, <3>3 DEF NamedPast
  <2>7. n # 0
    <3>1. n = 0 => Len(SubSeq(w.text, 1, n)) = 0
      BY <2>2, <2>4, JBeginning
    <3>2. PICK T : T = {w.text[p] : p \in DOMAIN w.text}
      OBVIOUS
    <3>3. w.text \in Seq(T)
      BY <2>2, <3>2 DEF Written
    <3>4. t \in Seq(T)
      BY <2>4, <3>3 DEF Size
    <3> QED  BY <2>4, <2>5, <3>1, <3>4
  <2>8. n \in 1 .. Size(w)
    <3>1. n \in Nat /\ Size(w) \in Nat
      BY <2>2, <2>4, JSeq DEF Written, Size
    <3> QED  BY <2>4, <2>7, <3>1
  <2>9. n = Size(w)
    BY <2>2, <2>6, <2>8, JEndOfText
  <2>10. t = w.text
    BY <2>2, <2>4, <2>9, JBeginning
  <2> QED  BY <2>1, <2>2, <2>10
<1> QED  BY <1>1, JsonInvariant, PTL

=============================================================================
