---------------------------- MODULE CardList_proofs ----------------------------
(***************************************************************************)
(* The working window and the selection of a card list, for any results,   *)
(* any versions of their source, any pages, any demands, any retained      *)
(* state and any choices.                                                  *)
(*                                                                         *)
(* The window is one run of one sequence.  A read that continues a         *)
(* sequence is awaited only while the window is the run that ends where it *)
(* continues, or is empty (Awaited): whatever replaces the window or its   *)
(* description supersedes that read first, and a restart forgets every     *)
(* position of the sequence it leaves (Accepted).                          *)
(*                                                                         *)
(* The selection keeps the identities it was made at.  A presented key     *)
(* that is selected carries its own or is reported (Chosen); and every key *)
(* that waits for an answer is in the read under way or queued, whichever  *)
(* way the entries it was asked for left the list (Attended).              *)
(***************************************************************************)
EXTENDS CardListWindow, CardListSelection, FiniteSetTheorems, SequenceTheorems, TLAPS

--------
(* The inductive invariant.                                                *)

Continuations == [context : Contexts, version : Versions, at : Nat]
Reads == [context : Contexts, from : {None} \cup Continuations, offset : Nat, current : BOOLEAN]

KeysAt(c, v) == Results[c][v]

\* A continuation within a result the source had already reached.
Reached(from) ==
    /\ from \in Continuations
    /\ from.at <= Len(KeysAt(from.context, from.version))
    /\ from.version <= version

\* A position its source did not reject.
Accepted(p) ==
    /\ p \in Positions
    /\ p.from # None => Reached(p.from) /\ SequenceOf(p.from) \notin rejected

\* A position the list asks for, or failed to read: a continuation is the one
\* of the presented window, or nothing is presented yet.
Awaited(p) ==
    /\ Accepted(p)
    /\ p.from # None =>
          /\ p.from.context = context /\ ~firstPage /\ ~stale
          /\ entries = <<>> \/ (p.from = continuation /\ p.offset = 0)

PositionOf(read) == [from |-> read.from, offset |-> read.offset]

\* The entries of a result after its first a and up to its b-th.
Part(c, v, a, b) ==
    [i \in 1 .. (b - a) |->
        [key |-> KeysAt(c, v)[a + i], of |-> [context |-> c, version |-> v]]]

\* Where a result continues after its first b entries.
Ending(c, v, b) ==
    IF b = Len(KeysAt(c, v)) THEN None ELSE [context |-> c, version |-> v, at |-> b]

\* The window is the part of a result between two places.
Window(c, v, a, b) ==
    /\ a < b /\ b <= Len(KeysAt(c, v))
    /\ entries = Part(c, v, a, b) /\ continuation = Ending(c, v, b)
    /\ ~disposed /\ (stale \/ c = context)

Windowed ==
    entries # <<>> => \E c \in Contexts, v \in Versions, a, b \in Nat : Window(c, v, a, b)

ReadsSound ==
    /\ \A r \in reads : r \in Reads
    /\ \A r, q \in reads : r.current /\ q.current => r = q
    /\ \A r \in reads :
          r.current => r.context = context /\ Awaited(PositionOf(r)) /\ ~disposed

\* The continuation is asked for when the window is its description's and no
\* first page is outstanding.
ContinuationSound ==
    continuation # None =>
        /\ Reached(continuation)
        /\ ~stale => continuation.context = context
        /\ ~stale /\ ~firstPage => SequenceOf(continuation) \notin rejected

PositionsSound ==
    /\ failed # None => Awaited(failed)
    /\ \A k \in DOMAIN positions : Accepted(positions[k])
    /\ restart \in {None, Start}
    /\ kept # None =>
          kept \in [context : Contexts, window : Nat, position : Positions]
              /\ Accepted(kept.position)

ListTyped ==
    /\ version \in Versions /\ context \in Contexts
    /\ demand \in [met : Nat, awaited : Nat]
    /\ {firstPage, stale, stalled, disposed} \subseteq BOOLEAN
    /\ \A s \in rejected : s \in [context : Contexts, version : Versions] /\ s.version < version

\* A first page is outstanding only while it is read, or failed.
FirstPageOutstanding == firstPage => Loading \/ failed # None \/ disposed

ListInv ==
    /\ ListTyped /\ ReadsSound /\ ContinuationSound /\ PositionsSound
    /\ FirstPageOutstanding /\ Windowed
    /\ report = "none" => kept = None
    /\ FreshListAcquires

--------
(* Parts of a result.                                                      *)

Entries(c, v) == [key : Range(KeysAt(c, v)), of : [context : Contexts, version : Versions]]

LEMMA KeysAreSequence ==
    ASSUME NEW c \in Contexts, NEW v \in Versions
    PROVE  /\ KeysAt(c, v) \in Seq(Range(KeysAt(c, v)))
           /\ Len(KeysAt(c, v)) \in Nat /\ DOMAIN KeysAt(c, v) = 1 .. Len(KeysAt(c, v))
           /\ \A i, j \in 1 .. Len(KeysAt(c, v)) : KeysAt(c, v)[i] = KeysAt(c, v)[j] => i = j
<1>1. KeysAt(c, v) \in Seq(Range(KeysAt(c, v)))
  BY ResultsAssumption DEF KeysAt
<1>2. Len(KeysAt(c, v)) \in Nat /\ DOMAIN KeysAt(c, v) = 1 .. Len(KeysAt(c, v))
  BY <1>1, LenProperties
<1> QED
  BY <1>1, <1>2, ResultsAssumption DEF KeysAt

LEMMA PartFacts ==
    ASSUME NEW c \in Contexts, NEW v \in Versions, NEW a \in Nat, NEW b \in Nat,
           b <= Len(KeysAt(c, v))
    PROVE  /\ Part(c, v, a, b) \in Seq(Entries(c, v))
           /\ Len(Part(c, v, a, b)) = IF a < b THEN b - a ELSE 0
           /\ DOMAIN Part(c, v, a, b) = 1 .. (b - a)
           /\ \A i \in 1 .. (b - a) :
                 Part(c, v, a, b)[i] =
                     [key |-> KeysAt(c, v)[a + i], of |-> [context |-> c, version |-> v]]
           /\ ~(a < b) => Part(c, v, a, b) = <<>>
<1> DEFINE n == IF a < b THEN b - a ELSE 0
<1>1. n \in Nat /\ 1 .. n = 1 .. (b - a)
  OBVIOUS
<1>2. \A i \in 1 .. n : KeysAt(c, v)[a + i] \in Range(KeysAt(c, v))
  <2>1. Len(KeysAt(c, v)) \in Nat /\ DOMAIN KeysAt(c, v) = 1 .. Len(KeysAt(c, v))
    BY KeysAreSequence
  <2>2. \A i \in 1 .. n : a + i \in DOMAIN KeysAt(c, v)
    BY <2>1
  <2> QED
    BY <2>2 DEF Range
<1>3. Part(c, v, a, b) \in [1 .. n -> Entries(c, v)]
  BY <1>1, <1>2 DEF Part, Entries
<1>4. Part(c, v, a, b) \in Seq(Entries(c, v)) /\ Len(Part(c, v, a, b)) = n
  BY <1>1, <1>3
<1>5. ~(a < b) => Part(c, v, a, b) = <<>>
  BY <1>4, EmptySeq
<1> HIDE DEF n
<1> QED
  BY <1>1, <1>3, <1>4, <1>5 DEF Part, n

LEMMA PartTail ==
    ASSUME NEW c \in Contexts, NEW v \in Versions, NEW a \in Nat, NEW b \in Nat, NEW o \in Nat,
           a <= b, b <= Len(KeysAt(c, v))
    PROVE  SubSeq(Part(c, v, a, b), o + 1, Len(Part(c, v, a, b))) = Part(c, v, a + o, b)
<1> DEFINE whole == Part(c, v, a, b)
           rest == Part(c, v, a + o, b)
           cut == SubSeq(whole, o + 1, Len(whole))
<1>1. /\ whole \in Seq(Entries(c, v)) /\ Len(whole) = b - a
      /\ \A i \in 1 .. (b - a) :
            whole[i] = [key |-> KeysAt(c, v)[a + i], of |-> [context |-> c, version |-> v]]
  BY PartFacts
<1>2. /\ rest \in Seq(Entries(c, v)) /\ Len(rest) = IF a + o < b THEN b - (a + o) ELSE 0
      /\ \A i \in 1 .. (b - (a + o)) :
            rest[i] = [key |-> KeysAt(c, v)[a + o + i], of |-> [context |-> c, version |-> v]]
  <2>1. a + o \in Nat
    OBVIOUS
  <2> QED
    BY <2>1, PartFacts
<1> HIDE DEF whole, rest
<1>3. \A i \in o + 1 .. Len(whole) : whole[i] \in Entries(c, v)
  <2> SUFFICES ASSUME NEW i \in o + 1 .. Len(whole) PROVE whole[i] \in Entries(c, v)
    OBVIOUS
  <2>1. i \in 1 .. Len(whole)
    BY <1>1
  <2> QED
    BY <1>1, <2>1, ElementOfSeq
<1>4. /\ cut \in Seq(Entries(c, v))
      /\ Len(cut) = IF o + 1 <= Len(whole) THEN Len(whole) - (o + 1) + 1 ELSE 0
      /\ \A i \in 1 .. Len(whole) - (o + 1) + 1 : cut[i] = whole[(o + 1) + i - 1]
  <2>1. o + 1 \in Int /\ Len(whole) \in Int
    BY <1>1
  <2> QED
    BY <1>3, <2>1, SubSeqProperties
<1> HIDE DEF cut
<1>5. Len(cut) = Len(rest)
  BY <1>1, <1>2, <1>4
<1>6. ASSUME NEW i \in 1 .. Len(cut) PROVE cut[i] = rest[i]
  <2>1. /\ i \in 1 .. Len(whole) - (o + 1) + 1 /\ i \in 1 .. (b - (a + o))
        /\ o + i \in 1 .. (b - a)
    BY <1>1, <1>4
  <2>2. (o + 1) + i - 1 = o + i /\ a + (o + i) = a + o + i
    BY <2>1
  <2> QED
    BY <1>1, <1>2, <1>4, <2>1, <2>2
<1>7. cut = rest
  BY <1>2, <1>4, <1>5, <1>6, SeqEqual
<1> QED
  BY <1>7 DEF cut, whole, rest

\* A sequence of the entries of a result after its first a and up to its b-th.
IsPart(s, c, v, a, b) ==
    /\ s \in Seq(Entries(c, v)) /\ Len(s) = b - a
    /\ \A i \in 1 .. (b - a) :
          s[i] = [key |-> KeysAt(c, v)[a + i], of |-> [context |-> c, version |-> v]]

LEMMA PartIsPart ==
    ASSUME NEW c \in Contexts, NEW v \in Versions, NEW a \in Nat, NEW b \in Nat,
           a <= b, b <= Len(KeysAt(c, v))
    PROVE  IsPart(Part(c, v, a, b), c, v, a, b)
<1> DEFINE s == Part(c, v, a, b)
<1>1. /\ s \in Seq(Entries(c, v)) /\ Len(s) = IF a < b THEN b - a ELSE 0
      /\ \A i \in 1 .. (b - a) :
            s[i] = [key |-> KeysAt(c, v)[a + i], of |-> [context |-> c, version |-> v]]
  BY PartFacts
<1> HIDE DEF s
<1>2. Len(s) = b - a
  BY <1>1
<1>3. IsPart(s, c, v, a, b)
  BY <1>1, <1>2 DEF IsPart
<1> QED
  BY <1>3 DEF s

LEMMA PartJoined ==
    ASSUME NEW c \in Contexts, NEW v \in Versions, NEW a \in Nat, NEW b \in Nat, NEW d \in Nat,
           a <= b, b <= d, b <= Len(KeysAt(c, v)), d <= Len(KeysAt(c, v)),
           NEW left, NEW right, NEW both,
           IsPart(left, c, v, a, b), IsPart(right, c, v, b, d), IsPart(both, c, v, a, d)
    PROVE  left \o right = both
<1>1. /\ left \in Seq(Entries(c, v)) /\ Len(left) = b - a
      /\ \A i \in 1 .. (b - a) :
            left[i] = [key |-> KeysAt(c, v)[a + i], of |-> [context |-> c, version |-> v]]
  BY DEF IsPart
<1>2. /\ right \in Seq(Entries(c, v)) /\ Len(right) = d - b
      /\ \A i \in 1 .. (d - b) :
            right[i] = [key |-> KeysAt(c, v)[b + i], of |-> [context |-> c, version |-> v]]
  BY DEF IsPart
<1>3. /\ both \in Seq(Entries(c, v)) /\ Len(both) = d - a
      /\ \A i \in 1 .. (d - a) :
            both[i] = [key |-> KeysAt(c, v)[a + i], of |-> [context |-> c, version |-> v]]
  BY DEF IsPart
<1>4. /\ left \o right \in Seq(Entries(c, v)) /\ Len(left \o right) = Len(left) + Len(right)
      /\ \A i \in 1 .. Len(left) + Len(right) :
            (left \o right)[i] = IF i <= Len(left) THEN left[i] ELSE right[i - Len(left)]
  BY <1>1, <1>2, ConcatProperties
<1>5. ASSUME NEW i \in 1 .. Len(left \o right) PROVE (left \o right)[i] = both[i]
  <2>1. i \in 1 .. (d - a) /\ i \in 1 .. Len(left) + Len(right)
    BY <1>1, <1>2, <1>4
  <2>2. CASE i <= Len(left)
    <3>1. i \in 1 .. (b - a)
      BY <1>1, <2>1, <2>2
    <3> QED
      BY <1>1, <1>3, <1>4, <2>1, <2>2, <3>1
  <2>3. CASE ~(i <= Len(left))
    <3>1. PICK j \in 1 .. (d - b) : j = i - (b - a) /\ b + j = a + i
      BY <1>1, <2>1, <2>3
    <3>2. (left \o right)[i] = right[j]
      BY <1>1, <1>4, <2>1, <2>3, <3>1
    <3>3. right[j] = [key |-> KeysAt(c, v)[a + i], of |-> [context |-> c, version |-> v]]
      BY <1>2, <3>1
    <3> QED
      BY <1>3, <2>1, <3>2, <3>3
  <2> QED
    BY <2>2, <2>3
<1>6. Len(left \o right) = Len(both)
  BY <1>1, <1>2, <1>3, <1>4
<1> QED
  BY <1>3, <1>4, <1>5, <1>6, SeqEqual

LEMMA PartsJoin ==
    ASSUME NEW c \in Contexts, NEW v \in Versions, NEW a \in Nat, NEW b \in Nat, NEW d \in Nat,
           a <= b, b <= d, b <= Len(KeysAt(c, v)), d <= Len(KeysAt(c, v))
    PROVE  Part(c, v, a, b) \o Part(c, v, b, d) = Part(c, v, a, d)
<1>1. a <= d
  OBVIOUS
<1>2. IsPart(Part(c, v, a, b), c, v, a, b) /\ IsPart(Part(c, v, b, d), c, v, b, d)
      /\ IsPart(Part(c, v, a, d), c, v, a, d)
  BY <1>1, PartIsPart
<1>3. PICK left : left = Part(c, v, a, b)
  OBVIOUS
<1>4. PICK right : right = Part(c, v, b, d)
  OBVIOUS
<1>5. PICK both : both = Part(c, v, a, d)
  OBVIOUS
<1>6. left \o right = both
  BY <1>2, <1>3, <1>4, <1>5, PartJoined
<1> QED
  BY <1>3, <1>4, <1>5, <1>6

\* The window bound leaves the end of a part.
LEMMA PartBounded ==
    ASSUME NEW c \in Contexts, NEW v \in Versions, NEW a \in Nat, NEW b \in Nat,
           a <= b, b <= Len(KeysAt(c, v))
    PROVE  \E d \in Nat : d <= b /\ Bounded(Part(c, v, a, b)) = Part(c, v, d, b)
<1>1. Len(Part(c, v, a, b)) = b - a
  BY PartFacts
<1>2. CASE b - a > WindowLimit
  <2> DEFINE o == b - a - WindowLimit
  <2>1. o \in Nat /\ a + o \in Nat /\ a + o <= b /\ o = b - a - WindowLimit
    BY <1>2, BoundsAssumption
  <2> HIDE DEF o
  <2>2. SubSeq(Part(c, v, a, b), o + 1, Len(Part(c, v, a, b))) = Part(c, v, a + o, b)
    <3>1. o \in Nat
      BY <2>1
    <3> QED
      BY <3>1, PartTail, Zenon
  <2>3. Bounded(Part(c, v, a, b)) = SubSeq(Part(c, v, a, b), o + 1, Len(Part(c, v, a, b)))
    BY <1>1, <1>2, <2>1, BoundsAssumption DEF Bounded
  <2> QED
    BY <2>1, <2>2, <2>3
<1>3. CASE ~(b - a > WindowLimit)
  BY <1>1, <1>3 DEF Bounded
<1> QED
  BY <1>2, <1>3

\* A page none of whose keys the window holds is new, entry by entry.
LEMMA AllAreNew ==
    ASSUME NEW S, NEW es \in Seq(S), \A i \in DOMAIN es : es[i].key \notin KeysOf(entries)
    PROVE  NewEntries(es) = es
<1>1. Len(es) \in Nat /\ DOMAIN es = 1 .. Len(es) /\ es \in [1 .. Len(es) -> S]
  BY LenProperties
<1> DEFINE new == {i \in DOMAIN es : es[i].key \notin KeysOf(entries)}
           Nth(n) == CHOOSE i \in new : Cardinality({j \in new : j <= i}) = n
<1>2. new = 1 .. Len(es)
  BY <1>1
<1>3. Cardinality(new) = Len(es)
  <2>1. ASSUME NEW m \in Nat PROVE Cardinality(1 .. m) = m
    BY FS_Interval
  <2> QED
    BY <1>1, <1>2, <2>1
<1> HIDE DEF new
<1>4. ASSUME NEW i \in 1 .. Len(es) PROVE Cardinality({j \in new : j <= i}) = i
  <2>1. {j \in new : j <= i} = 1 .. i
    BY <1>1, <1>2
  <2>2. Cardinality(1 .. i) = i
    BY FS_Interval
  <2> QED
    BY <2>1, <2>2
<1>5. ASSUME NEW n \in 1 .. Len(es) PROVE Nth(n) = n
  <2>1. n \in new /\ Cardinality({j \in new : j <= n}) = n
    BY <1>2, <1>4
  <2>2. Nth(n) \in new /\ Cardinality({j \in new : j <= Nth(n)}) = n
    BY <2>1
  <2> HIDE DEF Nth
  <2> QED
    BY <1>2, <1>4, <2>2
<1>6. NewEntries(es) = [n \in 1 .. Len(es) |-> es[Nth(n)]]
  BY <1>3 DEF NewEntries, new
<1> HIDE DEF Nth
<1>7. [n \in 1 .. Len(es) |-> es[Nth(n)]] = [n \in 1 .. Len(es) |-> es[n]]
  BY <1>5
<1>8. [n \in 1 .. Len(es) |-> es[n]] = es
  BY <1>1
<1> QED
  BY <1>6, <1>7, <1>8

--------
(* Requests.                                                               *)

\* A request supersedes the read the list waited for.
LEMMA RequestSupersedes ==
    ASSUME NEW rs, \A r \in rs : r \in Reads, NEW what \in Contexts, NEW p \in Positions, NEW q,
           q = RequestedPage(rs, what, p)
    PROVE  \E new \in q :
              /\ new.current /\ new.context = what /\ PositionOf(new) = p
              /\ \A r \in q : r \in Reads /\ (r.current => r = new)
<1> DEFINE new == [context |-> what, from |-> p.from, offset |-> p.offset, current |-> TRUE]
<1>1. p.from \in {None} \cup Continuations /\ p.offset \in Nat
      /\ p = [from |-> p.from, offset |-> p.offset]
  BY DEF Positions, Continuations
<1>2. new \in Reads /\ new.current /\ new.context = what /\ PositionOf(new) = p
  BY <1>1 DEF Reads, PositionOf
<1>3. \A r \in Withdrawn(rs) : r \in Reads /\ ~r.current
  BY DEF Withdrawn, Reads
<1>4. q = Withdrawn(rs) \cup {new}
  BY DEF RequestedPage
<1> QED
  BY <1>2, <1>3, <1>4

LEMMA WithdrawnReads ==
    ASSUME \A r \in reads : r \in Reads
    PROVE  \A r \in Withdrawn(reads) : r \in Reads /\ ~r.current
BY DEF Withdrawn, Reads

LEMMA StartIsPosition == Start \in Positions /\ Start.from = None /\ Start # None
BY BoundsAssumption DEF Start, Positions

--------
(* Pages.                                                                  *)

LEMMA SomePage ==
    ASSUME NEW c \in Contexts, NEW v \in Versions, NEW a \in Nat, a <= Len(KeysAt(c, v)),
           NEW n \in PageLengths
    PROVE  LET page == PageOf([context |-> c, version |-> v], a, n)
           IN  \E b \in Nat : /\ a <= b /\ b <= Len(KeysAt(c, v))
                              /\ page.entries = Part(c, v, a, b)
                              /\ page.continuation = Ending(c, v, b)
<1> DEFINE end == IF a + n < Len(KeysAt(c, v)) THEN a + n ELSE Len(KeysAt(c, v))
           page == PageOf([context |-> c, version |-> v], a, n)
<1>1. Len(KeysAt(c, v)) \in Nat /\ n \in Nat
  BY KeysAreSequence, BoundsAssumption
<1>2. end \in Nat /\ a <= end /\ end <= Len(KeysAt(c, v))
  BY <1>1
<1>3. page.entries = Part(c, v, a, end) /\ page.continuation = Ending(c, v, end)
  BY DEF PageOf, Part, Ending, KeysAt
<1> HIDE DEF end, page
<1> QED
  BY <1>2, <1>3 DEF page

\* What is answered to the read the list waits for.
AnswerOf(read, page, v, a, b) ==
    /\ a <= b /\ b <= Len(KeysAt(context, v)) /\ v <= version
    /\ page.entries = Part(context, v, a, b) /\ page.continuation = Ending(context, v, b)
    /\ [context |-> context, version |-> v] \notin rejected
    /\ read.from # None => v = read.from.version /\ a = read.from.at

LEMMA Answered ==
    ASSUME ListInv, NEW read \in reads, read.current, NEW page \in Answers(read)
    PROVE  \E v \in Versions, a, b \in Nat : AnswerOf(read, page, v, a, b)
<1>1. /\ context \in Contexts /\ version \in Versions /\ read \in Reads /\ version \in Nat
      /\ \A s \in rejected : s.version < version
      /\ read.from # None => /\ Reached(read.from) /\ SequenceOf(read.from) \notin rejected
                             /\ read.from.context = context
  BY ResultsAssumption DEF ListInv, ListTyped, ReadsSound, Awaited, Accepted, PositionOf
<1>2. CASE read.from = None
  <2>1. PICK n \in PageLengths :
            page = PageOf([context |-> context, version |-> version], 0, n)
    <3>1. read.context = context
      BY DEF ListInv, ReadsSound
    <3> QED
      BY <1>2, <3>1 DEF Answers
  <2>2. 0 <= Len(KeysAt(context, version))
    BY <1>1, KeysAreSequence
  <2>3. PICK b \in Nat : /\ 0 <= b /\ b <= Len(KeysAt(context, version))
                         /\ page.entries = Part(context, version, 0, b)
                         /\ page.continuation = Ending(context, version, b)
                         /\ version <= version
    BY <1>1, <2>1, <2>2, SomePage
  <2>4. [context |-> context, version |-> version] \notin rejected
    BY <1>1
  <2>5. AnswerOf(read, page, version, 0, b)
    BY <1>2, <2>3, <2>4 DEF AnswerOf
  <2> QED
    BY <1>1, <2>5
<1>3. CASE read.from # None
  <2> DEFINE v == read.from.version
             a == read.from.at
  <2>1. v \in Versions /\ a \in Nat /\ a <= Len(KeysAt(context, v)) /\ v <= version
    BY <1>1, <1>3 DEF Reached, Continuations
  <2>2. SequenceOf(read.from) = [context |-> context, version |-> v]
    BY <1>1, <1>3 DEF SequenceOf
  <2>3. PICK n \in PageLengths : page = PageOf([context |-> context, version |-> v], a, n)
    BY <1>3, <2>2 DEF Answers
  <2> HIDE DEF v, a
  <2>4. PICK b \in Nat : /\ a <= b /\ b <= Len(KeysAt(context, v))
                         /\ page.entries = Part(context, v, a, b)
                         /\ page.continuation = Ending(context, v, b)
    BY <1>1, <2>1, <2>3, SomePage
  <2>5. [context |-> context, version |-> v] \notin rejected
    BY <1>1, <1>3, <2>2
  <2> QED
    BY <2>1, <2>4, <2>5 DEF AnswerOf, v, a
<1> QED
  BY <1>2, <1>3

LEMMA EndingFacts ==
    ASSUME NEW c \in Contexts, NEW v \in Versions, NEW b \in Nat, b <= Len(KeysAt(c, v)),
           Ending(c, v, b) # None
    PROVE  /\ Ending(c, v, b) = [context |-> c, version |-> v, at |-> b]
           /\ Ending(c, v, b) \in Continuations
BY DEF Ending, Continuations

\* The keys of a part are those of its places, so that what follows is new.
LEMMA FollowingIsNew ==
    ASSUME NEW c \in Contexts, NEW v \in Versions, NEW a \in Nat, NEW b \in Nat, NEW d \in Nat,
           a <= b, b <= d, d <= Len(KeysAt(c, v)), b <= Len(KeysAt(c, v)),
           entries = Part(c, v, a, b)
    PROVE  NewEntries(Part(c, v, b, d)) = Part(c, v, b, d)
<1>1. \A i \in DOMAIN entries : i \in 1 .. (b - a) /\ entries[i].key = KeysAt(c, v)[a + i]
  <2>1. DOMAIN Part(c, v, a, b) = 1 .. (b - a)
        /\ \A i \in 1 .. (b - a) :
              Part(c, v, a, b)[i] =
                  [key |-> KeysAt(c, v)[a + i], of |-> [context |-> c, version |-> v]]
    BY ONLY PartFacts, c \in Contexts, v \in Versions, a \in Nat, b \in Nat,
            b <= Len(KeysAt(c, v))
  <2> QED
    BY <2>1
<1>2. \A j \in DOMAIN Part(c, v, b, d) :
          j \in 1 .. (d - b) /\ Part(c, v, b, d)[j].key = KeysAt(c, v)[b + j]
  <2>1. DOMAIN Part(c, v, b, d) = 1 .. (d - b)
        /\ \A i \in 1 .. (d - b) :
              Part(c, v, b, d)[i] =
                  [key |-> KeysAt(c, v)[b + i], of |-> [context |-> c, version |-> v]]
    BY ONLY PartFacts, c \in Contexts, v \in Versions, b \in Nat, d \in Nat,
            d <= Len(KeysAt(c, v))
  <2> QED
    BY <2>1
<1>3. \A i \in 1 .. (b - a), j \in 1 .. (d - b) : KeysAt(c, v)[a + i] # KeysAt(c, v)[b + j]
  <2> SUFFICES ASSUME NEW i \in 1 .. (b - a), NEW j \in 1 .. (d - b),
                      KeysAt(c, v)[a + i] = KeysAt(c, v)[b + j]
               PROVE  FALSE
    OBVIOUS
  <2>1. Len(KeysAt(c, v)) \in Nat
    BY KeysAreSequence
  <2>2. a + i \in 1 .. Len(KeysAt(c, v)) /\ b + j \in 1 .. Len(KeysAt(c, v)) /\ a + i # b + j
    BY <2>1
  <2> QED
    BY <2>2, KeysAreSequence
<1>4. \A j \in DOMAIN Part(c, v, b, d) : Part(c, v, b, d)[j].key \notin KeysOf(entries)
  BY <1>1, <1>2, <1>3 DEF KeysOf
<1>5. Part(c, v, b, d) \in Seq(Entries(c, v))
  BY PartFacts
<1> QED
  BY <1>4, <1>5, AllAreNew

\* The window a page leaves is the end of what the page ends.
LEMMA PageShown ==
    ASSUME ListInv, NEW read \in reads, read.current, NEW page,
           NEW v \in Versions, NEW a \in Nat, NEW b \in Nat, AnswerOf(read, page, v, a, b)
    PROVE  \E d \in Nat :
              /\ d <= b
              /\ Shown(read, SubSeq(page.entries, read.offset + 1, Len(page.entries)))
                   = Part(context, v, d, b)
<1> DEFINE presented == SubSeq(page.entries, read.offset + 1, Len(page.entries))
<1>1. /\ context \in Contexts /\ read.offset \in Nat /\ b <= Len(KeysAt(context, v)) /\ a <= b
      /\ page.entries = Part(context, v, a, b) /\ Len(KeysAt(context, v)) \in Nat
  BY KeysAreSequence DEF ListInv, ListTyped, ReadsSound, Reads, AnswerOf
<1>2. PICK e \in Nat : e <= b /\ presented = Part(context, v, e, b)
                       /\ (read.offset = 0 => e = a)
  <2>0. PICK o \in Nat : o = read.offset
    BY <1>1
  <2>1. presented = Part(context, v, a + read.offset, b)
    <3>1. SubSeq(Part(context, v, a, b), o + 1, Len(Part(context, v, a, b)))
            = Part(context, v, a + o, b)
      <4>1. context \in Contexts /\ a <= b /\ b <= Len(KeysAt(context, v))
        BY <1>1
      <4> QED
        BY ONLY <4>1, PartTail, v \in Versions, a \in Nat, b \in Nat, o \in Nat
    <3> QED
      BY <1>1, <2>0, <3>1
  <2> HIDE DEF presented
  <2>2. CASE a + read.offset <= b
    <3>1. a + read.offset \in Nat /\ (read.offset = 0 => a + read.offset = a)
      BY <1>1
    <3> QED
      BY <2>1, <2>2, <3>1
  <2>3. CASE ~(a + read.offset <= b)
    <3>1. Part(context, v, a + read.offset, b) = <<>> /\ Part(context, v, b, b) = <<>>
      <4>1. a + read.offset \in Nat /\ ~(a + read.offset < b) /\ ~(b < b)
        BY <1>1, <2>3
      <4> QED
        BY <1>1, <4>1, PartFacts
    <3>2. presented = Part(context, v, b, b) /\ read.offset # 0
      BY <1>1, <2>1, <2>3, <3>1
    <3>3. b <= b
      OBVIOUS
    <3> QED
      BY <3>2, <3>3
  <2> QED
    BY <2>2, <2>3
<1> HIDE DEF presented
<1>3. CASE read.from = None
  <2>1. Shown(read, presented) = Bounded(Part(context, v, e, b))
    BY <1>2, <1>3 DEF Shown
  <2>2. \E d \in Nat : d <= b /\ Bounded(Part(context, v, e, b)) = Part(context, v, d, b)
    BY <1>1, <1>2, PartBounded
  <2> QED
    BY <2>1, <2>2 DEF presented
<1>4. CASE read.from # None /\ entries = <<>>
  <2>1. presented \in Seq(Entries(context, v))
    BY <1>1, <1>2, PartFacts
  <2>2. NewEntries(presented) = presented
    <3>1. KeysOf(entries) = {}
      BY <1>4 DEF KeysOf
    <3> QED
      BY <2>1, <3>1, AllAreNew
  <2>3. entries \o NewEntries(presented) = presented
    BY <1>4, <2>1, <2>2, ConcatEmptySeq
  <2>4. Shown(read, presented) = Bounded(Part(context, v, e, b))
    BY <1>2, <1>4, <2>3 DEF Shown
  <2>5. \E d \in Nat : d <= b /\ Bounded(Part(context, v, e, b)) = Part(context, v, d, b)
    BY <1>1, <1>2, PartBounded
  <2> QED
    BY <2>4, <2>5 DEF presented
<1>5. CASE read.from # None /\ entries # <<>>
  <2>1. read.from = continuation /\ read.offset = 0
    BY <1>5 DEF ListInv, ReadsSound, Awaited, PositionOf
  <2>2. PICK c \in Contexts, w \in Versions, f \in Nat, g \in Nat : Window(c, w, f, g)
    BY <1>5 DEF ListInv, Windowed
  <2>3. g <= Len(KeysAt(c, w)) /\ continuation = Ending(c, w, g) /\ continuation # None
        /\ f <= g /\ entries = Part(c, w, f, g)
    BY <1>5, <2>1, <2>2 DEF Window
  <2>4. continuation = [context |-> c, version |-> w, at |-> g]
    BY <2>3, EndingFacts
  <2>5. c = context /\ w = v /\ g = a
    <3>1. read.from.context = context /\ v = read.from.version /\ a = read.from.at
      BY <1>5 DEF ListInv, ReadsSound, Awaited, PositionOf, AnswerOf
    <3> QED
      BY <2>1, <2>4, <3>1
  <2>6. presented = Part(context, v, a, b)
    BY <1>2, <2>1
  <2>7. NewEntries(presented) = presented
    BY <1>1, <2>3, <2>5, <2>6, FollowingIsNew
  <2>8. entries \o NewEntries(presented) = Part(context, v, f, b)
    <3>1. entries = Part(context, v, f, a) /\ f <= a /\ a <= Len(KeysAt(context, v))
      BY <2>3, <2>5
    <3>2. Part(context, v, f, a) \o Part(context, v, a, b) = Part(context, v, f, b)
      <4>1. context \in Contexts /\ f <= a /\ a <= b /\ a <= Len(KeysAt(context, v))
            /\ b <= Len(KeysAt(context, v))
        BY <1>1, <3>1
      <4> QED
        BY ONLY <4>1, PartsJoin, v \in Versions, f \in Nat, a \in Nat, b \in Nat
    <3> QED
      BY <2>6, <2>7, <3>1, <3>2
  <2>9. Shown(read, presented) = Bounded(Part(context, v, f, b))
    BY <1>5, <2>8 DEF Shown
  <2>10. f <= b
    BY <1>1, <2>3, <2>5
  <2>11. \E d \in Nat : d <= b /\ Bounded(Part(context, v, f, b)) = Part(context, v, d, b)
    BY <1>1, <2>10, PartBounded
  <2> QED
    BY <2>9, <2>11 DEF presented
<1> QED
  BY <1>3, <1>4, <1>5

--------
(* Steps.                                                                  *)

LEMMA InitListInv == ListInit => ListInv
<1> SUFFICES ASSUME ListInit PROVE ListInv
  OBVIOUS
<1> DEFINE opening == IF kept = None THEN Start ELSE kept.position
<1>1. /\ version \in Versions /\ entries = <<>> /\ positions = <<>> /\ restart = None
      /\ continuation = None /\ stale = FALSE /\ demand = [met |-> 0, awaited |-> 0]
      /\ acquired = 0 /\ stalled = FALSE /\ failed = None /\ rejected = {} /\ disposed = FALSE
      /\ report = IF kept = None THEN "none" ELSE "pending"
      /\ context \in IF kept = None THEN Contexts ELSE {kept.context}
      /\ kept \in {None} \cup {r \in Restorable : r.position.from # None =>
                                                     r.position.from.version <= version}
      /\ firstPage = (opening.from = None) /\ reads = RequestedPage({}, context, opening)
  BY DEF ListInit
<1> HIDE DEF opening
<1>2. kept # None =>
          /\ kept \in [context : Contexts, window : Nat, position : Positions]
          /\ kept.position.from # None =>
                /\ kept.position.from.context = kept.context
                /\ kept.position.from.at <=
                      Len(KeysAt(kept.position.from.context, kept.position.from.version))
                /\ kept.position.from.version <= version
  BY <1>1, RestorableAssumption DEF KeysAt
<1>3. context \in Contexts
  BY <1>1, <1>2
<1>4. opening \in Positions /\ (opening.from # None => opening = kept.position /\ kept # None)
  BY <1>2, StartIsPosition DEF opening
<1>5. kept # None => Accepted(kept.position)
  BY <1>1, <1>2 DEF Accepted, Reached, Positions, Continuations
<1>6. Awaited(opening)
  <2>1. Accepted(opening)
    BY <1>4, <1>5 DEF Accepted
  <2>2. opening.from # None => opening.from.context = context
    BY <1>1, <1>2, <1>4
  <2> QED
    BY <1>1, <2>1, <2>2 DEF Awaited
<1>7. \E new \in reads :
          /\ new.current /\ new.context = context /\ PositionOf(new) = opening
          /\ \A r \in reads : r \in Reads /\ (r.current => r = new)
  BY <1>1, <1>3, <1>4, RequestSupersedes
<1>8. ReadsSound /\ Loading
  BY <1>1, <1>6, <1>7 DEF ReadsSound, Loading
<1>9. ListTyped
  BY <1>1, <1>3 DEF ListTyped
<1>10. PositionsSound
  BY <1>1, <1>2, <1>5 DEF PositionsSound
<1> QED
  BY <1>1, <1>8, <1>9, <1>10 DEF ListInv, ContinuationSound, FirstPageOutstanding, Windowed,
     FreshListAcquires, Underfilled

\* What a new request of a supported position leaves of the reads.
LEMMA RequestSound ==
    ASSUME ListInv, NEW rs \in SUBSET reads, ~disposed', context' \in Contexts,
           NEW p \in Positions, Awaited(p)', reads' = RequestedPage(rs, context', p)
    PROVE  ReadsSound' /\ Loading'
<1>1. PICK what : what = context'
  OBVIOUS
<1>2. PICK q : q = reads'
  OBVIOUS
<1>3. \A r \in rs : r \in Reads
  BY DEF ListInv, ReadsSound
<1>4. \E new \in q :
          /\ new.current /\ new.context = what /\ PositionOf(new) = p
          /\ \A r \in q : r \in Reads /\ (r.current => r = new)
  BY <1>1, <1>2, <1>3, RequestSupersedes
<1>5. PICK new \in q :
          /\ new.current /\ new.context = what /\ PositionOf(new) = p
          /\ \A r \in q : r \in Reads /\ (r.current => r = new)
  BY <1>4
<1>6. \A r \in q : r.current => r.context = what /\ PositionOf(r) = p
  BY <1>5
<1>7. \A r \in reads' : r.current => r.context = context' /\ Awaited(PositionOf(r))' /\ ~disposed'
  <2> SUFFICES ASSUME NEW r \in reads', r.current
               PROVE  r.context = context' /\ Awaited(PositionOf(r))'
    OBVIOUS
  <2>1. PositionOf(r) = p /\ r.context = context'
    BY <1>1, <1>2, <1>6
  <2> QED
    BY <2>1
<1> QED
  BY <1>2, <1>5, <1>7 DEF ReadsSound, Loading

LEMMA ReachedKept ==
    ASSUME ListInv, version' \in Versions, version <= version', NEW from, Reached(from)
    PROVE  Reached(from)'
<1>1. from.version \in Nat /\ version \in Nat /\ version' \in Nat
  BY ResultsAssumption DEF Reached, Continuations, ListInv, ListTyped
<1> QED
  BY <1>1 DEF Reached

LEMMA StartAccepted == Start \in Positions /\ Accepted(Start) /\ Awaited(Start)
BY StartIsPosition DEF Accepted, Awaited

\* A first page asked for again is accepted whatever the window is.
LEMMA ReplacementSound ==
    ASSUME ListInv, ~disposed, UNCHANGED <<version, entries, positions, restart, continuation,
                                 acquired, stalled, disposed, rejected>>,
           context' \in Contexts, stale' \in BOOLEAN, ~stale' => ~stale /\ context' = context,
           firstPage' = TRUE, failed' = None, demand' \in [met : Nat, awaited : Nat],
           reads' = RequestedPage(reads, context', Start),
           kept' = None \/ kept' = kept, report' = "none" => kept' = None,
           stale \/ context' = context \/ stale'
    PROVE  ListInv'
<1>1. Awaited(Start)'
  BY StartAccepted, StartIsPosition DEF Accepted, Awaited
<1>2. ReadsSound' /\ Loading'
  BY <1>1, StartIsPosition, RequestSound
<1>3. ListTyped'
  BY DEF ListInv, ListTyped
<1>4. ContinuationSound'
  BY DEF ListInv, ContinuationSound, Reached
<1>5. PositionsSound'
  BY DEF ListInv, PositionsSound, Accepted, Reached
<1>6. Windowed'
  <2> SUFFICES ASSUME entries' # <<>>
               PROVE  (\E c \in Contexts, v \in Versions, a, b \in Nat : Window(c, v, a, b))'
    BY DEF Windowed
  <2>1. PICK c \in Contexts, v \in Versions, a \in Nat, b \in Nat : Window(c, v, a, b)
    BY DEF ListInv, Windowed
  <2>2. stale' \/ c = context'
    BY <2>1 DEF Window, ListInv, ListTyped
  <2>3. Window(c, v, a, b)'
    BY <2>1, <2>2 DEF Window
  <2> QED
    BY <2>3
<1> QED
  BY <1>2, <1>3, <1>4, <1>5, <1>6 DEF ListInv, FirstPageOutstanding, FreshListAcquires, Underfilled

LEMMA RefreshStep == ASSUME ListInv, ~disposed, Refresh PROVE ListInv'
<1>1. /\ context' = context /\ stale' = stale /\ UNCHANGED <<version, entries, positions,
         restart, continuation, acquired, stalled, disposed, rejected>>
  BY DEF Refresh
<1>2. /\ firstPage' = TRUE /\ failed' = None /\ reads' = RequestedPage(reads, context, Start)
      /\ demand' = [demand EXCEPT !.awaited = 0]
  BY DEF Refresh, StartReplacement
<1>3. kept' = None
  BY DEF Refresh, AbandonRestoration
<1>4. demand' \in [met : Nat, awaited : Nat] /\ context \in Contexts /\ stale \in BOOLEAN
  BY <1>2 DEF ListInv, ListTyped
<1> QED
  BY <1>1, <1>2, <1>3, <1>4, ReplacementSound

LEMMA ChangedStep == ASSUME ListInv, ~disposed, CatalogChanged PROVE ListInv'
<1>1. /\ context' = context /\ stale' = stale /\ kept' = kept /\ report' = report
      /\ UNCHANGED <<version, entries, positions,
         restart, continuation, acquired, stalled, disposed, rejected>>
  BY DEF CatalogChanged
<1>2. /\ firstPage' = TRUE /\ failed' = None /\ reads' = RequestedPage(reads, context, Start)
      /\ demand' = [demand EXCEPT !.awaited = 0]
  BY DEF CatalogChanged, StartReplacement
<1>3. report' = "none" => kept' = None
  BY <1>1 DEF ListInv
<1>4. demand' \in [met : Nat, awaited : Nat] /\ context \in Contexts /\ stale \in BOOLEAN
  BY <1>2 DEF ListInv, ListTyped
<1> QED
  BY <1>1, <1>2, <1>3, <1>4, ReplacementSound

LEMMA RefineStep ==
    ASSUME ListInv, ~disposed, NEW next \in Contexts, RefineList(next) PROVE ListInv'
<1>1. /\ context' = next /\ stale' = TRUE
      /\ UNCHANGED <<version, entries, positions,
         restart, continuation, acquired, stalled, disposed, rejected>>
  BY DEF RefineList, Replaces
<1>2. /\ firstPage' = TRUE /\ failed' = None /\ reads' = RequestedPage(reads, context', Start)
      /\ demand' = [met |-> 0, awaited |-> 0]
  BY DEF RefineList
<1>3. kept' = None
  BY DEF RefineList, AbandonRestoration
<1>4. demand' \in [met : Nat, awaited : Nat]
  BY <1>2
<1> QED
  BY <1>1, <1>2, <1>3, <1>4, ReplacementSound

\* An answer to a superseded read changes nothing.
LEMMA DroppedStep ==
    ASSUME ListInv, NEW read \in reads, ~read.current, Dropped(read) PROVE ListInv'
<1>1. UNCHANGED <<version, context, entries, positions, restart, kept, continuation, stale,
                  demand, firstPage, acquired, stalled, failed, report, disposed, rejected>>
  BY DEF Dropped
<1>2. reads' = reads \ {read}
  BY DEF Dropped, Forgotten
<1>3. Loading' <=> Loading
  BY <1>2 DEF Loading
<1>4. ReadsSound'
  BY <1>1, <1>2 DEF ListInv, ReadsSound, Awaited, Accepted, Reached
<1>5. PositionsSound' /\ ContinuationSound' /\ ListTyped'
  BY <1>1 DEF ListInv, PositionsSound, ContinuationSound, ListTyped, Awaited, Accepted, Reached
<1>6. Windowed'
  BY <1>1 DEF ListInv, Windowed, Window
<1> QED
  BY <1>1, <1>3, <1>4, <1>5, <1>6 DEF ListInv, FirstPageOutstanding, FreshListAcquires,
     Underfilled

LEMMA ForgottenReads ==
    ASSUME ListInv, NEW read \in reads, read.current
    PROVE  \A r \in Forgotten(read) : r \in Reads /\ ~r.current
BY DEF ListInv, ReadsSound, Forgotten

LEMMA FailureStep ==
    ASSUME ListInv, NEW read \in reads, read.current, SettleFailure(read) PROVE ListInv'
<1>1. UNCHANGED <<version, context, entries, positions, restart, kept, continuation, stale,
                  demand, firstPage, acquired, stalled, disposed, rejected>>
  BY DEF SettleFailure
<1>2. reads' = Forgotten(read) /\ failed' = PositionOf(read)
      /\ (report' = "none" => report = "none")
  BY DEF SettleFailure, PositionOf
<1>3. PositionOf(read) \in Positions /\ PositionOf(read) # None
  BY BoundsAssumption DEF ListInv, ReadsSound, Awaited, Accepted
<1>4. ReadsSound'
  BY <1>2, ForgottenReads DEF ReadsSound
<1>5. Awaited(failed)'
  <2>1. Awaited(PositionOf(read))
    BY DEF ListInv, ReadsSound
  <2> HIDE DEF PositionOf
  <2> QED
    BY <1>1, <1>2, <2>1 DEF Awaited, Accepted, Reached
<1>6. PositionsSound' /\ ContinuationSound' /\ ListTyped'
  BY <1>1, <1>5 DEF ListInv, PositionsSound, ContinuationSound, ListTyped, Accepted, Reached
<1>7. Windowed'
  BY <1>1 DEF ListInv, Windowed, Window
<1> QED
  BY <1>1, <1>2, <1>3, <1>4, <1>6, <1>7 DEF ListInv, FirstPageOutstanding, FreshListAcquires,
     Underfilled

\* A restart forgets every position of the sequence it leaves.
LEMMA RestartStep ==
    ASSUME ListInv, NEW read \in reads, read.current, read.from # None,
           read.from.version # version, Restart(read)
    PROVE  ListInv'
<1>1. /\ UNCHANGED <<version, context, entries, continuation, stale, acquired, stalled, report,
                     disposed>>
      /\ demand' = [demand EXCEPT !.awaited = 0] /\ firstPage' = TRUE /\ failed' = None
      /\ reads' = RequestedPage(Forgotten(read), context, Start)
      /\ rejected' = rejected \cup {SequenceOf(read.from)}
  BY DEF Restart
<1>2. /\ positions' = <<>> /\ restart' = Start
      /\ kept' = IF kept = None THEN None ELSE [kept EXCEPT !.position = Start]
  BY DEF Restart, ForgetSequence
<1>3. /\ Reached(read.from) /\ ~disposed /\ context \in Contexts /\ version \in Nat
      /\ Awaited(PositionOf(read))
  BY ResultsAssumption
     DEF ListInv, ListTyped, ReadsSound, Awaited, Accepted, PositionOf
<1>4. /\ SequenceOf(read.from) \in [context : Contexts, version : Versions]
      /\ SequenceOf(read.from).version < version
  <2>1. read.from \in Continuations /\ read.from.version <= version
        /\ read.from.version \in Nat
    BY <1>3, ResultsAssumption DEF Reached, Continuations
  <2> QED
    BY <1>3, <2>1 DEF SequenceOf, Continuations
<1>5. ListTyped'
  BY <1>1, <1>4 DEF ListInv, ListTyped
<1>6. Awaited(Start)'
  BY StartIsPosition DEF Accepted, Awaited
<1>7. ReadsSound' /\ Loading'
  <2>1. Forgotten(read) \in SUBSET reads /\ reads' = RequestedPage(Forgotten(read), context', Start)
        /\ context' \in Contexts /\ ~disposed'
    BY <1>1, <1>3 DEF Forgotten
  <2> QED
    BY <1>6, <2>1, StartIsPosition, RequestSound
<1>8. ContinuationSound'
  BY <1>1 DEF ListInv, ContinuationSound, Reached
<1>9. PositionsSound'
  <2>1. kept' # None => kept' \in [context : Contexts, window : Nat, position : Positions]
                          /\ kept'.position = Start
    BY <1>2, StartIsPosition DEF ListInv, PositionsSound
  <2>2. Accepted(Start)'
    BY <1>6 DEF Awaited
  <2>3. \A k \in DOMAIN positions' : FALSE
    BY <1>2
  <2>4. kept' # None => Accepted(kept.position)'
    BY <2>1, <2>2
  <2> QED
    BY <1>1, <1>2, <2>1, <2>3, <2>4 DEF PositionsSound
<1>10. Windowed'
  BY <1>1 DEF ListInv, Windowed, Window
<1>11. report' = "none" => kept' = None
  BY <1>1, <1>2 DEF ListInv
<1> QED
  BY <1>1, <1>5, <1>7, <1>8, <1>9, <1>10, <1>11 DEF ListInv, FirstPageOutstanding,
     FreshListAcquires, Underfilled

LEMMA DemandStep ==
    ASSUME ListInv, ~disposed, NEW n \in Extents, Demand(n) PROVE ListInv'
<1> DEFINE wanted == IF firstPage THEN demand ELSE [demand EXCEPT !.met = IF n > @ THEN n ELSE @]
           acquires == Acquires(Loading, kept # None, continuation, stale, failed, FALSE,
                                acquired, wanted.met)
           next == [from |-> continuation, offset |-> 0]
<1>1. /\ UNCHANGED <<version, context, entries, positions, restart, kept, continuation, stale,
                     firstPage, acquired, failed, report, disposed, rejected>>
      /\ stalled' = FALSE
      /\ demand' = IF firstPage THEN [demand EXCEPT !.awaited = IF n > @ THEN n ELSE @]
                   ELSE wanted
      /\ reads' = IF acquires THEN RequestedPage(reads, context, next) ELSE reads
  BY DEF Demand
<1>2. demand' \in [met : Nat, awaited : Nat] /\ (~firstPage => demand'.met = wanted.met)
  BY <1>1, BoundsAssumption DEF ListInv, ListTyped
<1>3. ListTyped'
  BY <1>1, <1>2 DEF ListInv, ListTyped
<1>4. ContinuationSound' /\ PositionsSound' /\ Windowed'
  BY <1>1 DEF ListInv, PositionsSound, ContinuationSound, Awaited, Accepted, Reached, Windowed,
     Window
<1>5. CASE acquires
  <2>1. ~Loading /\ kept = None /\ continuation # None /\ ~stale /\ failed = None
    BY <1>5 DEF Acquires
  <2>2. ~firstPage
    BY <2>1 DEF ListInv, FirstPageOutstanding
  <2>3. /\ Reached(continuation) /\ SequenceOf(continuation) \notin rejected
        /\ continuation.context = context /\ context \in Contexts
    BY <2>1, <2>2 DEF ListInv, ListTyped, ContinuationSound
  <2>4. PICK p : p = next
    OBVIOUS
  <2>5. p \in Positions /\ p.from = continuation /\ p.offset = 0
    BY <2>3, <2>4 DEF Reached, Positions, Continuations
  <2>6. Awaited(p)
    BY <2>1, <2>2, <2>3, <2>5 DEF Awaited, Accepted
  <2>7. Awaited(p)'
    BY <1>1, <2>6 DEF Awaited, Accepted, Reached
  <2>8. reads' = RequestedPage(reads, context', p) /\ context' \in Contexts /\ ~disposed'
    BY <1>1, <1>5, <2>3, <2>4
  <2>9. ReadsSound' /\ Loading'
    BY <2>5, <2>7, <2>8, RequestSound
  <2> QED
    BY <1>1, <1>3, <1>4, <2>9 DEF ListInv, FirstPageOutstanding, FreshListAcquires, Underfilled
<1>6. CASE ~acquires
  <2>1. reads' = reads
    BY <1>1, <1>6
  <2>2. ReadsSound' /\ (Loading' <=> Loading)
    BY <1>1, <2>1 DEF ListInv, ReadsSound, Awaited, Accepted, Reached, Loading
  <2>3. FreshListAcquires'
    <3> SUFFICES ASSUME report' = "none", Underfilled' PROVE FALSE
      BY DEF FreshListAcquires
    <3>1. /\ ~Loading /\ failed = None /\ ~stale /\ kept = None /\ continuation # None
          /\ acquired < demand'.met
      BY <1>1, <2>2 DEF Underfilled
    <3>2. ~firstPage
      BY <3>1 DEF ListInv, FirstPageOutstanding
    <3>3. acquired < wanted.met
      BY <1>2, <3>1, <3>2
    <3> HIDE DEF wanted
    <3> QED
      BY <1>6, <3>1, <3>3 DEF Acquires
  <2> QED
    BY <1>1, <1>3, <1>4, <2>2, <2>3 DEF ListInv, FirstPageOutstanding
<1> QED
  BY <1>5, <1>6

LEMMA RetryStep == ASSUME ListInv, ~disposed, Retry PROVE ListInv'
<1>1. /\ failed # None /\ reads' = RequestedPage(reads, context, failed)
      /\ firstPage' = (firstPage \/ failed.from = None) /\ failed' = None
      /\ UNCHANGED <<version, context, entries, positions, restart, kept, continuation, stale,
                     demand, acquired, stalled, report, disposed, rejected>>
  BY DEF Retry
<1>2. PICK p : p = failed
  OBVIOUS
<1>3. Awaited(p) /\ p \in Positions /\ context \in Contexts /\ {firstPage, disposed} \subseteq BOOLEAN
  BY <1>1, <1>2 DEF ListInv, ListTyped, PositionsSound, Awaited, Accepted
<1>4. Awaited(p)'
  BY <1>1, <1>2, <1>3 DEF Awaited, Accepted, Reached
<1>5. ReadsSound' /\ Loading'
  <2>1. reads' = RequestedPage(reads, context', p) /\ context' \in Contexts /\ ~disposed'
    BY <1>1, <1>2, <1>3
  <2> QED
    BY <1>3, <1>4, <2>1, RequestSound
<1>6. ListTyped' /\ PositionsSound'
  BY <1>1 DEF ListInv, ListTyped, PositionsSound, Accepted, Reached
<1>7. ContinuationSound' /\ Windowed'
  BY <1>1, <1>3 DEF ListInv, ContinuationSound, Reached, Windowed, Window
<1> QED
  BY <1>1, <1>5, <1>6, <1>7 DEF ListInv, FirstPageOutstanding, FreshListAcquires, Underfilled

LEMMA ReleaseStep == ASSUME ListInv, ~disposed, Release PROVE ListInv'
<1>1. /\ kept # None /\ kept' = None /\ (report' = "none" => report = "none")
      /\ UNCHANGED <<version, reads, context, entries, positions, restart, continuation, stale,
                     demand, firstPage, acquired, stalled, failed, disposed, rejected>>
  BY DEF Release, AbandonRestoration
<1>2. report # "none" /\ report' # "none"
  BY <1>1 DEF ListInv
<1>3. ReadsSound' /\ (Loading' <=> Loading)
  BY <1>1 DEF ListInv, ReadsSound, Awaited, Accepted, Reached, Loading
<1>4. ListTyped' /\ ContinuationSound' /\ PositionsSound'
  BY <1>1 DEF ListInv, ListTyped, ContinuationSound, PositionsSound, Awaited, Accepted, Reached
<1>5. Windowed'
  BY <1>1 DEF ListInv, Windowed, Window
<1> QED
  BY <1>1, <1>2, <1>3, <1>4, <1>5 DEF ListInv, FirstPageOutstanding, FreshListAcquires

LEMMA DisposeStep == ASSUME ListInv, ~disposed, Dispose PROVE ListInv'
<1>1. /\ disposed' = TRUE /\ kept' = None /\ entries' = <<>> /\ positions' = <<>>
      /\ reads' = Withdrawn(reads)
      /\ UNCHANGED <<version, context, restart, continuation, stale, demand, firstPage,
                     acquired, stalled, failed, rejected>>
  BY DEF Dispose, AbandonRestoration
<1>2. \A r \in reads' : r \in Reads /\ ~r.current
  BY <1>1, WithdrawnReads DEF ListInv, ReadsSound
<1>3. ReadsSound'
  BY <1>2 DEF ReadsSound
<1>4. ListTyped' /\ ContinuationSound'
  BY <1>1 DEF ListInv, ListTyped, ContinuationSound, Reached
<1>5. PositionsSound'
  <2>1. \A k \in DOMAIN positions' : FALSE
    BY <1>1
  <2> QED
    BY <1>1, <2>1 DEF ListInv, PositionsSound, Awaited, Accepted, Reached
<1> QED
  BY <1>1, <1>3, <1>4, <1>5 DEF ListInv, FirstPageOutstanding, FreshListAcquires, Underfilled,
     Windowed

LEMMA PublishStep == ASSUME ListInv, Publish PROVE ListInv'
<1>1. /\ version' = version + 1 /\ version' \in Versions /\ version \in Nat
      /\ UNCHANGED <<reads, context, entries, positions, restart, kept, continuation, stale,
                     demand, firstPage, acquired, stalled, failed, report, disposed, rejected>>
  BY ResultsAssumption DEF Publish, ListInv, ListTyped
<1>2. ASSUME NEW from, Reached(from) PROVE Reached(from)'
  <2>1. version <= version'
    BY <1>1
  <2> QED
    BY <1>1, <1>2, <2>1, ReachedKept
<1>3. ASSUME NEW p, Accepted(p) PROVE Accepted(p)'
  BY <1>1, <1>2, <1>3 DEF Accepted
<1>4. ASSUME NEW p, Awaited(p) PROVE Awaited(p)'
  BY <1>1, <1>3, <1>4 DEF Awaited
<1>5. ListTyped'
  <2>1. \A s \in rejected : s.version \in Nat
    BY ResultsAssumption DEF ListInv, ListTyped
  <2> QED
    BY <1>1, <2>1 DEF ListInv, ListTyped
<1>6. ReadsSound' /\ (Loading' <=> Loading)
  BY <1>1, <1>4 DEF ListInv, ReadsSound, Loading
<1>7. ContinuationSound'
  <2>1. PICK from : from = continuation
    OBVIOUS
  <2> QED
    BY <1>1, <1>2, <2>1 DEF ListInv, ContinuationSound
<1>8. PositionsSound'
  <2>1. failed # None => Awaited(failed)'
    <3>1. PICK p : p = failed
      OBVIOUS
    <3>2. failed # None => Awaited(p)'
      BY <1>4, <3>1 DEF ListInv, PositionsSound
    <3> QED
      BY <1>1, <3>1, <3>2
  <2>2. kept # None => Accepted(kept.position)'
    <3>1. PICK p : p = kept.position
      OBVIOUS
    <3>2. kept # None => Accepted(p)'
      BY <1>3, <3>1 DEF ListInv, PositionsSound
    <3> QED
      BY <1>1, <3>1, <3>2
  <2>3. \A k \in DOMAIN positions : Accepted(positions[k])'
    <3> SUFFICES ASSUME NEW k \in DOMAIN positions PROVE Accepted(positions[k])'
      OBVIOUS
    <3>1. PICK p : p = positions[k]
      OBVIOUS
    <3>2. Accepted(p)'
      BY <1>3, <3>1 DEF ListInv, PositionsSound
    <3> QED
      BY <1>1, <3>1, <3>2
  <2> QED
    BY <1>1, <2>1, <2>2, <2>3 DEF ListInv, PositionsSound
<1>9. Windowed'
  BY <1>1 DEF ListInv, Windowed, Window
<1> QED
  BY <1>1, <1>5, <1>6, <1>7, <1>8, <1>9 DEF ListInv, FirstPageOutstanding, FreshListAcquires,
     Underfilled

\* The positions a page reports are those of a sequence its source accepts.
LEMMA ReportedAccepted ==
    ASSUME ListInv, NEW read \in reads, read.current, NEW supplied, NEW shown,
           DOMAIN supplied \subseteq Nat \ {0}
    PROVE  \A k \in DOMAIN Reported(read, supplied, shown) :
              Accepted(Reported(read, supplied, shown)[k])
<1> DEFINE index(k) == CHOOSE i \in DOMAIN supplied : supplied[i].key = k
           knows(k) == read.from # None /\ k \in DOMAIN positions
           found == KeysOf(supplied) \cup DOMAIN positions
           place(k) == [from |-> read.from, offset |-> index(k) - 1]
<1>1. Reported(read, supplied, shown) =
          [k \in KeysOf(shown) \cap found |->
              IF knows(k) \/ k \notin KeysOf(supplied) THEN positions[k] ELSE place(k)]
  BY DEF Reported
<1> SUFFICES ASSUME NEW k \in KeysOf(shown) \cap found
             PROVE  Accepted(IF knows(k) \/ k \notin KeysOf(supplied) THEN positions[k]
                             ELSE place(k))
  BY <1>1
<1>2. CASE knows(k) \/ k \notin KeysOf(supplied)
  BY <1>2 DEF ListInv, PositionsSound
<1>3. CASE ~(knows(k) \/ k \notin KeysOf(supplied))
  <2>1. \E i \in DOMAIN supplied : supplied[i].key = k
    BY <1>3 DEF KeysOf
  <2>2. index(k) \in DOMAIN supplied
    BY <2>1
  <2> HIDE DEF index
  <2>3. index(k) - 1 \in Nat
    BY <2>2
  <2>4. Accepted(PositionOf(read))
    BY DEF ListInv, ReadsSound, Awaited
  <2>5. place(k) \in Positions
    <3>1. read.from \in {None} \cup Continuations
      BY DEF ListInv, ReadsSound, Reads
    <3> QED
      BY <2>3, <3>1 DEF Positions, Continuations
  <2>6. Accepted(place(k))
    BY <2>4, <2>5 DEF Accepted, PositionOf
  <2> HIDE DEF knows, place
  <2> QED
    BY <1>3, <2>6
<1> QED
  BY <1>2, <1>3

LEMMA PageStep ==
    ASSUME ListInv, NEW read \in reads, read.current, NEW page \in Answers(read),
           SettlePage(read, page)
    PROVE  ListInv'
<1> DEFINE first == read.from = None
           presented == SubSeq(page.entries, read.offset + 1, Len(page.entries))
           shown == Shown(read, presented)
           added == Added(read, presented)
           got == IF first THEN added ELSE acquired + added
           wanted == IF first THEN demand.awaited ELSE demand.met
           baseline == IF first THEN 0 ELSE Len(entries)
           back == kept # None /\ Restored(shown, page.continuation, baseline)
           acquires == Acquires(FALSE, kept # None, page.continuation, FALSE, None,
                                ~first /\ added = 0, got, wanted)
           resumes == (kept # None /\ ~back) \/ acquires
           next == [from |-> page.continuation, offset |-> 0]
<1>1. /\ entries' = shown /\ positions' = Reported(read, page.entries, shown)
      /\ restart' = (IF first THEN None ELSE restart) /\ stale' = (~first /\ stale)
      /\ acquired' = got
      /\ demand' = [met |-> wanted, awaited |-> IF first THEN 0 ELSE demand.awaited]
      /\ firstPage' = (~first /\ firstPage) /\ stalled' = (~first /\ added = 0)
      /\ continuation' = page.continuation /\ failed' = None
      /\ kept' = (IF back THEN None ELSE kept)
      /\ report' = (IF back /\ report = "pending" THEN "presented" ELSE report)
      /\ reads' = (IF resumes THEN RequestedPage(Forgotten(read), context, next)
                   ELSE Forgotten(read))
      /\ UNCHANGED <<version, context, disposed, rejected>>
  BY DEF SettlePage
<1>2. PICK v \in Versions, a \in Nat, b \in Nat : AnswerOf(read, page, v, a, b)
  BY Answered
<1>3. PICK d \in Nat : d <= b /\ shown = Part(context, v, d, b)
  BY <1>2, PageShown
<1> HIDE DEF shown, added
<1>4. /\ b <= Len(KeysAt(context, v)) /\ v <= version /\ page.entries = Part(context, v, a, b)
      /\ page.continuation = Ending(context, v, b)
      /\ [context |-> context, version |-> v] \notin rejected
      /\ context \in Contexts /\ ~disposed /\ {firstPage, stale} \subseteq BOOLEAN
  BY <1>2 DEF AnswerOf, ListInv, ListTyped, ReadsSound
<1>5. ~stale' /\ ~firstPage'
  <2>1. ~first => ~stale /\ ~firstPage
    BY DEF ListInv, ReadsSound, Awaited, PositionOf
  <2> QED
    BY <1>1, <2>1
<1>6. ListTyped'
  <2>1. demand' \in [met : Nat, awaited : Nat]
    BY <1>1 DEF ListInv, ListTyped
  <2>2. stalled' \in BOOLEAN
    BY <1>1
  <2> QED
    BY <1>1, <1>5, <2>1, <2>2 DEF ListInv, ListTyped
\* The page ends where its continuation goes on.
<1>7. continuation' # None =>
          /\ Reached(continuation)' /\ continuation'.context = context'
          /\ SequenceOf(continuation') \notin rejected'
  <2> SUFFICES ASSUME continuation' # None
               PROVE  /\ Reached(continuation)' /\ continuation'.context = context'
                      /\ SequenceOf(continuation') \notin rejected'
    OBVIOUS
  <2>1. continuation' = [context |-> context, version |-> v, at |-> b]
        /\ continuation' \in Continuations
    BY <1>1, <1>4, EndingFacts
  <2> QED
    BY <1>1, <1>4, <2>1 DEF Reached, SequenceOf
<1>8. ContinuationSound'
  BY <1>7 DEF ContinuationSound
<1>9. Windowed'
  <2> SUFFICES ASSUME entries' # <<>>
               PROVE  (\E c \in Contexts, w \in Versions, f, g \in Nat : Window(c, w, f, g))'
    BY DEF Windowed
  <2>1. entries' = Part(context, v, d, b)
    BY <1>1, <1>3
  <2>2. d < b
    <3>1. ~(d < b) => Part(context, v, d, b) = <<>>
      BY <1>4, PartFacts
    <3> QED
      BY <2>1, <3>1
  <2>3. PICK c : c = context
    OBVIOUS
  <2>4. Window(c, v, d, b)'
    BY <1>1, <1>4, <2>1, <2>2, <2>3 DEF Window
  <2> QED
    BY <1>4, <2>3, <2>4
<1>10. PositionsSound'
  <2>1. DOMAIN page.entries \subseteq Nat \ {0}
    <3>1. DOMAIN Part(context, v, a, b) = 1 .. (b - a)
      BY <1>4, PartFacts
    <3> QED
      BY <1>4, <3>1
  <2>2. PICK q : q = Reported(read, page.entries, shown)
    OBVIOUS
  <2>3. \A k \in DOMAIN q : Accepted(q[k])
    BY <2>1, <2>2, ReportedAccepted
  <2>4. \A k \in DOMAIN positions' : Accepted(positions[k])'
    BY <1>1, <2>2, <2>3 DEF Accepted, Reached
  <2>5. kept' # None => kept' = kept /\ kept # None
    BY <1>1
  <2>6. kept' # None => kept' \in [context : Contexts, window : Nat, position : Positions]
                          /\ Accepted(kept.position)'
    BY <1>1, <2>5 DEF ListInv, PositionsSound, Accepted, Reached
  <2>7. restart' \in {None, Start}
    BY <1>1 DEF ListInv, PositionsSound
  <2> QED
    BY <1>1, <2>4, <2>6, <2>7 DEF PositionsSound
<1>11. report' = "none" => report = "none" /\ kept = None /\ kept' = None
  BY <1>1 DEF ListInv
<1>12. CASE resumes
  <2>1. PICK p : p = next
    OBVIOUS
  <2>2. p.from = continuation' /\ p.offset = 0 /\ p \in Positions
    BY <1>1, <1>7, <2>1 DEF Reached, Positions, Continuations
  <2>3. Awaited(p)'
    BY <1>5, <1>7, <2>2 DEF Awaited, Accepted
  <2>4. /\ Forgotten(read) \in SUBSET reads /\ reads' = RequestedPage(Forgotten(read), context', p)
        /\ context' \in Contexts /\ ~disposed'
    BY <1>1, <1>4, <1>12, <2>1 DEF Forgotten
  <2>5. ReadsSound' /\ Loading'
    BY <2>2, <2>3, <2>4, RequestSound
  <2> QED
    BY <1>5, <1>6, <1>8, <1>9, <1>10, <1>11, <2>5
       DEF ListInv, FirstPageOutstanding, FreshListAcquires, Underfilled
<1>13. CASE ~resumes
  <2>1. reads' = Forgotten(read)
    BY <1>1, <1>13
  <2>2. ReadsSound'
    BY <2>1, ForgottenReads DEF ReadsSound
  <2>3. FreshListAcquires'
    <3> SUFFICES ASSUME report' = "none", Underfilled' PROVE FALSE
      BY DEF FreshListAcquires
    <3>1. kept = None /\ continuation' # None /\ ~stalled' /\ acquired' < demand'.met
      BY <1>11 DEF Underfilled
    <3>2. page.continuation # None /\ ~(~first /\ added = 0)
      BY <1>1, <3>1
    <3>3. got < wanted
      BY <1>1, <3>1
    <3> HIDE DEF got, wanted
    <3>4. acquires
      BY <3>1, <3>2, <3>3 DEF Acquires
    <3> QED
      BY <1>13, <3>4
  <2> QED
    BY <1>5, <1>6, <1>8, <1>9, <1>10, <1>11, <2>2, <2>3
       DEF ListInv, FirstPageOutstanding
<1> QED
  BY <1>12, <1>13

LEMMA StepListInv == ListInv /\ [ListNext]_listVars => ListInv'
<1> SUFFICES ASSUME ListInv, [ListNext]_listVars PROVE ListInv'
  OBVIOUS
<1>1. ASSUME NEW read \in reads, AnswerPage(read) PROVE ListInv'
  <2>1. PICK page \in Answers(read) :
            IF Belongs(read) THEN SettlePage(read, page) ELSE Dropped(read)
    BY <1>1 DEF AnswerPage
  <2> QED
    BY <2>1, PageStep, DroppedStep DEF Belongs
<1>2. ASSUME NEW read \in reads, AnswerFailure(read) PROVE ListInv'
  BY <1>2, FailureStep, DroppedStep DEF AnswerFailure, Belongs
<1>3. ASSUME NEW read \in reads, AnswerInvalidated(read) PROVE ListInv'
  BY <1>3, FailureStep, RestartStep, DroppedStep DEF AnswerInvalidated, Belongs, SettleInvalidated
<1>4. ASSUME ~disposed, Calls PROVE ListInv'
  BY <1>4, DemandStep, RefreshStep, ChangedStep, RefineStep, RetryStep, ReleaseStep, DisposeStep
     DEF Calls
<1>5. CASE UNCHANGED listVars
  <2>1. ListTyped' /\ ReadsSound' /\ PositionsSound' /\ ContinuationSound'
    BY <1>5 DEF listVars, ListInv, ListTyped, ReadsSound, PositionsSound, ContinuationSound,
                Awaited, Accepted, Reached
  <2>2. Windowed' /\ FirstPageOutstanding' /\ FreshListAcquires'
    BY <1>5 DEF listVars, ListInv, Windowed, Window, FirstPageOutstanding, FreshListAcquires,
                Underfilled, Loading
  <2> QED
    BY <1>5, <2>1, <2>2 DEF listVars, ListInv
<1> QED
  BY <1>1, <1>2, <1>3, <1>4, <1>5, PublishStep DEF ListNext

\* Every step of the list keeps the invariant.
THEOREM ListInductive == ListSpec => []ListInv
<1> QED
  BY InitListInv, StepListInv, PTL DEF ListSpec

--------
(* What the list presents and what it asks for.                            *)

LEMMA RunByInv == ListInv => WindowIsOneRun
<1> SUFFICES ASSUME ListInv, entries # <<>> PROVE WindowIsOneRun
  BY DEF WindowIsOneRun
<1>1. PICK c \in Contexts, v \in Versions, a \in Nat, b \in Nat : Window(c, v, a, b)
  BY DEF ListInv, Windowed
<1> DEFINE of == entries[1].of
           keys == Results[of.context][of.version]
           start == CHOOSE i \in DOMAIN keys : keys[i] = entries[1].key
           end == start + Len(entries) - 1
<1>2. /\ a < b /\ b <= Len(KeysAt(c, v)) /\ entries = Part(c, v, a, b)
      /\ continuation = Ending(c, v, b) /\ ~disposed /\ (stale \/ c = context)
  BY <1>1 DEF Window
<1>3. /\ Len(entries) = b - a /\ DOMAIN entries = 1 .. (b - a)
      /\ \A i \in 1 .. (b - a) :
            entries[i] = [key |-> KeysAt(c, v)[a + i], of |-> [context |-> c, version |-> v]]
  <2>1. a <= b /\ b <= Len(KeysAt(c, v))
    BY <1>2
  <2>2. IsPart(Part(c, v, a, b), c, v, a, b)
    BY <2>1, PartIsPart
  <2>3. DOMAIN Part(c, v, a, b) = 1 .. (b - a)
    BY <2>1, PartFacts
  <2> QED
    BY <1>2, <2>2, <2>3 DEF IsPart
<1>4. 1 \in 1 .. (b - a) /\ a + 1 \in 1 .. Len(KeysAt(c, v))
  <2>1. Len(KeysAt(c, v)) \in Nat
    BY KeysAreSequence
  <2> QED
    BY <1>2, <2>1
<1>5. entries[1].key = KeysAt(c, v)[a + 1] /\ of = [context |-> c, version |-> v]
  BY <1>3, <1>4
<1>6. keys = KeysAt(c, v)
  BY <1>5 DEF KeysAt
<1>7. start = a + 1
  <2>1. a + 1 \in DOMAIN keys /\ keys[a + 1] = entries[1].key
    BY <1>4, <1>5, <1>6, KeysAreSequence
  <2>2. start \in DOMAIN keys /\ keys[start] = entries[1].key
    BY <2>1
  <2> HIDE DEF start, keys
  <2>3. start \in 1 .. Len(KeysAt(c, v)) /\ KeysAt(c, v)[start] = KeysAt(c, v)[a + 1]
    BY <1>5, <1>6, <2>2, KeysAreSequence
  <2> QED
    BY <1>4, <2>3, KeysAreSequence
<1> HIDE DEF start
<1>8. end = b /\ \A i \in 1 .. (b - a) : start + i - 1 = a + i
  BY <1>2, <1>3, <1>7
<1> HIDE DEF end
<1>9. \A i \in DOMAIN entries : entries[i].of = of /\ entries[i].key = keys[start + i - 1]
  BY <1>3, <1>5, <1>6, <1>8
<1>10. continuation = IF end = Len(keys) THEN None
                      ELSE [context |-> of.context, version |-> of.version, at |-> end]
  BY <1>2, <1>5, <1>6, <1>8 DEF Ending
<1>11. of.context = c
  BY <1>5
<1> HIDE DEF of, keys
<1> QED
  BY <1>2, <1>9, <1>10, <1>11 DEF WindowIsOneRun, of, keys, start, end

\* What a list presents is one unbroken run of one sequence, continued exactly
\* where it ends, whatever answers arrive late and whatever was restarted.
THEOREM PresentsOneRun == ListSpec => []WindowIsOneRun
<1> QED
  BY ListInductive, RunByInv, PTL

LEMMA ForgottenByInv == ListInv => RejectedIsForgotten
<1> SUFFICES ASSUME ListInv PROVE RejectedIsForgotten
  OBVIOUS
<1> DEFINE asked == {[from |-> r.from, offset |-> r.offset] : r \in {x \in reads : x.current}}
<1>1. \A p \in asked : Accepted(p)
  BY DEF ListInv, ReadsSound, PositionOf, Awaited
<1>2. failed # None => Accepted(failed)
  BY DEF ListInv, PositionsSound, Awaited
<1>3. Retained.position # None => Accepted(Retained.position)
  <2> DEFINE place ==
          IF stale THEN None
          ELSE IF kept # None THEN kept.position
          ELSE IF restart # None THEN restart
          ELSE IF entries = <<>> \/ Head(entries).key \notin DOMAIN positions THEN None
          ELSE positions[Head(entries).key]
  <2>1. Retained.position = place
    BY DEF Retained
  <2>2. place # None => Accepted(place)
    BY StartAccepted DEF ListInv, PositionsSound
  <2> HIDE DEF place
  <2> QED
    BY <2>1, <2>2
<1> HIDE DEF asked
<1>4. \A p \in asked \cup ({failed, Retained.position} \ {None}) : Accepted(p)
  BY <1>1, <1>2, <1>3
<1>5. \A p \in asked \cup ({failed, Retained.position} \ {None}) :
          p.from = None \/ SequenceOf(p.from) \notin rejected
  BY <1>4 DEF Accepted
<1> QED
  BY <1>5 DEF RejectedIsForgotten, asked

\* A list goes on from what its source still accepts, never from a sequence it
\* rejected, and one that restores nothing as far as its viewport demanded.
THEOREM GoesOn == ListSpec => []GoesOnAsDemanded
<1>1. ListInv => GoesOnAsDemanded
  BY ForgottenByInv DEF GoesOnAsDemanded, ListInv
<1> QED
  BY <1>1, ListInductive, PTL

--------
(* The selection and its fragment.                                         *)

Statuses == {"none", "loading", "refreshing", "ready", "failed", "refresh-failed"}
States == [status : Statuses, value : BOOLEAN \cup {Nothing}, fresh : BOOLEAN]
Fragments ==
    [states : [Keys -> States], queue : SUBSET Keys, live : SUBSET Keys,
     active : {Nothing} \cup [keys : SUBSET Keys, fresh : BOOLEAN], late : BOOLEAN]

\* What waits is read or queued, and nothing is kept of a key nobody needs.
Attended(f, needed) ==
    /\ f \in Fragments
    /\ f.active # Nothing => f.live \subseteq f.active.keys
    /\ \A k \in Keys \ needed : f.states[k].status = "none"
    /\ \A k \in Keys :
          f.states[k].status \in {"loading", "refreshing"} => k \in f.queue \cup Tokens(f)

\* What was answered or is being read was asked for since the last change.
UpToDate(f) ==
    /\ f.active # Nothing => f.active.fresh
    /\ \A k \in Keys : f.states[k].status = "ready" => f.states[k].fresh

Running(f) == f.queue # {} => f.active # Nothing

\* A selected key has a target or waits for its entry; a presented one has the
\* identity it was chosen at, or is reported as changed; and one the last
\* replacement did not hold is not available.
Chosen ==
    /\ selected \subseteq Keys /\ DOMAIN window \subseteq Keys /\ DOMAIN targets \subseteq Keys
    /\ selected \subseteq DOMAIN targets \cup awaiting
    /\ awaiting \subseteq selected /\ awaiting \cap DOMAIN window = {}
    /\ \A k \in selected \cap DOMAIN window :
          \/ targets[k] = window[k]
          \/ k \in DOMAIN unavailable /\ unavailable[k] = "changed"
    /\ unseen \subseteq DOMAIN unavailable
    /\ lapsed => unseen = {}
    /\ {demanded, replacing, lapsed} \subseteq BOOLEAN

SelectionInv ==
    /\ Chosen
    /\ Attended(fragments, Needed)
    /\ ~lapsed => UpToDate(fragments)
    /\ demanded /\ ~replacing => Running(fragments)

--------
(* The queue of the fragment.                                              *)

LEMMA StateTypes ==
    /\ NoState \in States /\ NoState.status = "none"
    /\ \A state \in States :
          /\ Pending(state) \in States
          /\ Pending(state).status \in {"loading", "refreshing"}
BY DEF NoState, States, Statuses, Pending

LEMMA PumpedFacts ==
    ASSUME NEW f \in Fragments, NEW g, g = Pumped(f)
    PROVE  \/ g = f /\ (f.active # Nothing \/ f.queue = {})
           \/ /\ f.active = Nothing /\ g \in Fragments /\ g.active # Nothing
              /\ g.active.fresh /\ g.live = g.active.keys /\ g.states = f.states
              /\ f.queue = g.queue \cup g.live
<1> DEFINE keys == {k \in f.queue : Cardinality({j \in f.queue : j < k}) < Batch}
<1>1. CASE f.active # Nothing \/ f.queue = {}
  BY <1>1 DEF Pumped
<1>2. CASE ~(f.active # Nothing \/ f.queue = {})
  <2>1. g = [f EXCEPT !.queue = @ \ keys, !.live = keys,
                      !.active = [keys |-> keys, fresh |-> TRUE]]
    BY <1>2 DEF Pumped
  <2>2. keys \subseteq f.queue /\ f.queue \subseteq Keys
    BY DEF Fragments
  <2> HIDE DEF keys
  <2>3. [keys |-> keys, fresh |-> TRUE] \in [keys : SUBSET Keys, fresh : BOOLEAN]
    BY <2>2
  <2>4. [keys |-> keys, fresh |-> TRUE] # Nothing
    BY <2>3, NothingIsNoAnswer
  <2>5. /\ g.queue = f.queue \ keys /\ g.live = keys /\ g.states = f.states
        /\ g.active = [keys |-> keys, fresh |-> TRUE]
    BY <2>1 DEF Fragments
  <2>6. g \in Fragments
    BY <2>1, <2>2, <2>3 DEF Fragments
  <2> QED
    BY <1>2, <2>2, <2>4, <2>5, <2>6
<1> QED
  BY <1>1, <1>2

LEMMA PumpedKeeps ==
    ASSUME NEW f, NEW needed, Attended(f, needed), NEW g, g = Pumped(f)
    PROVE  Attended(g, needed) /\ Running(g) /\ (UpToDate(f) => UpToDate(g))
<1>1. f \in Fragments
  BY DEF Attended
<1>2. CASE g = f /\ (f.active # Nothing \/ f.queue = {})
  BY <1>2 DEF Running
<1>3. CASE /\ f.active = Nothing /\ g \in Fragments /\ g.active # Nothing
           /\ g.active.fresh /\ g.live = g.active.keys /\ g.states = f.states
           /\ f.queue = g.queue \cup g.live
  <2>1. \A k \in Keys : g.states[k].status \in {"loading", "refreshing"} =>
            k \in g.queue \cup Tokens(g)
    BY <1>3 DEF Attended, Tokens
  <2> QED
    BY <1>3, <2>1 DEF Attended, Running, UpToDate
<1> QED
  BY <1>1, <1>2, <1>3, PumpedFacts

LEMMA SupersededFacts ==
    ASSUME NEW f \in Fragments, NEW g, g = Superseded(f)
    PROVE  g \in Fragments /\ g.active = Nothing
           /\ g.states = f.states /\ g.queue = f.queue /\ g.live = f.live
<1>1. CASE f.active = Nothing
  BY <1>1 DEF Superseded
<1>2. CASE f.active # Nothing
  <2>1. g = [f EXCEPT !.late = TRUE, !.active = Nothing]
    BY <1>2 DEF Superseded
  <2> QED
    BY <2>1 DEF Fragments
<1> QED
  BY <1>1, <1>2

\* What nobody asks for any more is neither queued nor awaited.
LEMMA InvalidatedKeeps ==
    ASSUME NEW f, NEW needed, Attended(f, needed), NEW keys, NEW g, g = Invalidated(f, keys)
    PROVE  /\ Attended(g, needed) /\ \A k \in Keys \cap keys : g.states[k].status = "none"
           /\ Running(f) => Running(g)
           /\ UpToDate(f) => UpToDate(g)
<1>1. g = [f EXCEPT !.states = [k \in Keys |-> IF k \in keys THEN NoState ELSE @[k]],
                    !.queue = @ \ keys, !.live = @ \ keys]
  BY DEF Invalidated
<1>2. f \in Fragments
  BY DEF Attended
<1>3. /\ g.states = [k \in Keys |-> IF k \in keys THEN NoState ELSE f.states[k]]
      /\ g.queue = f.queue \ keys /\ g.live = f.live \ keys /\ g.active = f.active
      /\ g.late = f.late
  BY <1>1, <1>2 DEF Fragments
<1>4. g.states \in [Keys -> States]
  BY <1>2, <1>3, StateTypes DEF Fragments
<1>5. g \in Fragments
  BY <1>1, <1>2, <1>3, <1>4 DEF Fragments
<1>6. \A k \in Keys : g.states[k] = IF k \in keys THEN NoState ELSE f.states[k]
  BY <1>3
<1>7. \A k \in Keys : g.states[k].status \in {"loading", "refreshing"} =>
          k \in g.queue \cup Tokens(g)
  BY <1>3, <1>6, StateTypes DEF Attended, Tokens
<1>8. \A k \in Keys : k \in keys \/ k \notin needed => g.states[k].status = "none"
  BY <1>6, StateTypes DEF Attended
<1>9. UpToDate(f) => UpToDate(g)
  BY <1>3, <1>6, StateTypes DEF UpToDate
<1> QED
  BY <1>3, <1>5, <1>7, <1>8, <1>9 DEF Attended, Running

\* Every needed answer is asked for again.
LEMMA StaleKindKeeps ==
    ASSUME NEW f, NEW needed, needed \subseteq Keys, Attended(f, needed),
           NEW g, g = StaleKind(f, needed)
    PROVE  Attended(g, needed) /\ UpToDate(g)
<1> DEFINE h == Superseded(f)
<1>1. f \in Fragments
  BY DEF Attended
<1>2. h \in Fragments /\ h.active = Nothing /\ h.states = f.states /\ h.queue = f.queue
  BY <1>1, SupersededFacts
<1>3. g = [h EXCEPT !.states = [k \in Keys |-> IF k \in needed THEN Pending(@[k]) ELSE @[k]],
                    !.queue = @ \cup needed, !.live = @ \ needed]
  BY DEF StaleKind
<1> HIDE DEF h
<1>4. /\ g.states = [k \in Keys |-> IF k \in needed THEN Pending(f.states[k]) ELSE f.states[k]]
      /\ g.queue = f.queue \cup needed /\ g.active = Nothing
  BY <1>2, <1>3 DEF Fragments
<1>5. g.states \in [Keys -> States]
  BY <1>1, <1>4, StateTypes DEF Fragments
<1>6. g \in Fragments
  BY <1>2, <1>3, <1>4, <1>5 DEF Fragments
<1>7. \A k \in Keys : g.states[k].status = "none" \/ k \in needed
  BY <1>4 DEF Attended
<1>8. \A k \in needed : g.states[k].status \in {"loading", "refreshing"}
  BY <1>1, <1>4, StateTypes DEF Fragments
<1>9. \A k \in Keys \ needed : g.states[k].status = "none"
  BY <1>7
<1>10. UpToDate(g)
  BY <1>4, <1>7, <1>8 DEF UpToDate
<1> QED
  BY <1>4, <1>6, <1>7, <1>9, <1>10 DEF Attended

\* A read that makes way leaves what is still wanted to the queue.
LEMMA RetiredKeeps ==
    ASSUME NEW f, NEW needed, needed \subseteq Keys, Attended(f, needed),
           NEW g, g = Retired(f, needed)
    PROVE  /\ Attended(g, needed)
           /\ Running(f) => Running(g)
           /\ UpToDate(f) => UpToDate(g)
<1>1. f \in Fragments
  BY DEF Attended
<1>2. CASE f.active = Nothing \/ (f.active.keys \subseteq needed \cap f.live)
  BY <1>2 DEF Retired
<1>3. CASE ~(f.active = Nothing \/ (f.active.keys \subseteq needed \cap f.live))
  <2> DEFINE h == Superseded(f)
             again == {k \in f.active.keys \cap needed : k \in f.live}
             left == [h EXCEPT !.queue = @ \cup again, !.live = @ \ f.active.keys]
  <2>1. h \in Fragments /\ h.active = Nothing /\ h.states = f.states /\ h.queue = f.queue
        /\ h.live = f.live
    BY <1>1, SupersededFacts
  <2>2. g = Pumped(left)
    BY <1>3 DEF Retired
  <2>3. again \subseteq Keys
    OBVIOUS
  <2> HIDE DEF h
  <2>4. /\ left \in Fragments /\ left.queue = f.queue \cup again /\ left.active = Nothing
        /\ left.states = f.states
    BY <2>1, <2>3 DEF Fragments
  <2>5. ASSUME NEW k \in Keys, f.states[k].status \in {"loading", "refreshing"}
        PROVE  k \in f.queue \cup again
    <3>1. k \in needed
      BY <2>5 DEF Attended
    <3>2. k \in f.queue \/ (k \in f.live /\ k \in f.active.keys)
      BY <1>3, <2>5 DEF Attended, Tokens
    <3> QED
      BY <3>1, <3>2
  <2> HIDE DEF left, again
  <2>6. Attended(left, needed)
    BY <2>4, <2>5 DEF Attended
  <2>7. UpToDate(f) => UpToDate(left)
    BY <2>4 DEF UpToDate
  <2> QED
    BY <2>2, <2>6, <2>7, PumpedKeeps
<1> QED
  BY <1>2, <1>3

\* Keys that carry nothing begin to wait, and are queued.
Queued(f, new) ==
    Pumped([f EXCEPT !.states = [k \in Keys |-> IF k \in new THEN Pending(@[k]) ELSE @[k]],
                     !.queue = @ \cup new])

LEMMA QueuedKeeps ==
    ASSUME NEW f, NEW needed, needed \subseteq Keys, Attended(f, needed),
           NEW new, new \subseteq needed, NEW g, g = Queued(f, new)
    PROVE  Attended(g, needed) /\ Running(g) /\ (UpToDate(f) => UpToDate(g))
<1> DEFINE h == [f EXCEPT !.states = [k \in Keys |-> IF k \in new THEN Pending(@[k]) ELSE @[k]],
                          !.queue = @ \cup new]
<1>1. f \in Fragments
  BY DEF Attended
<1>2. /\ h.states = [k \in Keys |-> IF k \in new THEN Pending(f.states[k]) ELSE f.states[k]]
      /\ h.queue = f.queue \cup new /\ h.active = f.active /\ h.live = f.live
  BY <1>1 DEF Fragments
<1>3. h.states \in [Keys -> States]
  BY <1>1, <1>2, StateTypes DEF Fragments
<1>4. h \in Fragments
  BY <1>1, <1>2, <1>3 DEF Fragments
<1> HIDE DEF h
<1>5. \A k \in Keys : h.states[k].status \in {"loading", "refreshing"} =>
          k \in h.queue \cup Tokens(h)
  BY <1>2 DEF Attended, Tokens
<1>6. \A k \in Keys \ needed : h.states[k].status = "none"
  BY <1>2 DEF Attended
<1>7. Attended(h, needed)
  BY <1>2, <1>4, <1>5, <1>6 DEF Attended
<1>8. \A k \in new : h.states[k].status \in {"loading", "refreshing"}
  BY <1>1, <1>2, StateTypes DEF Fragments
<1>9. UpToDate(f) => UpToDate(h)
  BY <1>2, <1>8 DEF UpToDate
<1>10. g = Pumped(h)
  BY DEF h, Queued
<1> QED
  BY <1>7, <1>9, <1>10, PumpedKeeps

LEMMA RequestedKeeps ==
    ASSUME NEW f, NEW needed, needed \subseteq Keys, Attended(f, needed),
           NEW g, g = Requested(f, needed)
    PROVE  /\ Attended(g, needed)
           /\ demanded => Running(g)
           /\ UpToDate(f) => UpToDate(g)
<1> DEFINE new == {k \in needed : f.states[k].status = "none"}
<1>1. CASE ~demanded
  BY <1>1 DEF Requested
<1>2. CASE demanded
  <2>1. g = Queued(f, new)
    BY <1>2 DEF Requested, Queued
  <2>2. new \subseteq needed
    OBVIOUS
  <2> HIDE DEF new
  <2> QED
    BY <2>1, <2>2, QueuedKeeps
<1> QED
  BY <1>1, <1>2

LEMMA OutdatedKeeps ==
    ASSUME NEW f, NEW needed, Attended(f, needed), NEW g, g = Outdated(f)
    PROVE  Attended(g, needed)
<1>1. g = [f EXCEPT !.states = [k \in Keys |-> [@[k] EXCEPT !.fresh = FALSE]],
                    !.active = IF @ = Nothing THEN Nothing ELSE [@ EXCEPT !.fresh = FALSE]]
  BY DEF Outdated
<1>2. f \in Fragments
  BY DEF Attended
<1>3. /\ g.states = [k \in Keys |-> [f.states[k] EXCEPT !.fresh = FALSE]]
      /\ g.active = IF f.active = Nothing THEN Nothing ELSE [f.active EXCEPT !.fresh = FALSE]
      /\ g.queue = f.queue /\ g.live = f.live
  BY <1>1, <1>2 DEF Fragments
<1>4. ASSUME NEW k \in Keys PROVE g.states[k] \in States /\ g.states[k].status = f.states[k].status
  <2>1. PICK q \in States : q = f.states[k]
    BY <1>2 DEF Fragments
  <2>2. [q EXCEPT !.fresh = FALSE] \in States /\ [q EXCEPT !.fresh = FALSE].status = q.status
    BY DEF States
  <2>3. g.states[k] = [q EXCEPT !.fresh = FALSE]
    BY <1>3, <2>1
  <2> QED
    BY <2>1, <2>2, <2>3
<1>5. g.states \in [Keys -> States]
  BY <1>3, <1>4
<1>6. g.active \in {Nothing} \cup [keys : SUBSET Keys, fresh : BOOLEAN]
      /\ (g.active # Nothing => f.active # Nothing /\ g.active.keys = f.active.keys)
      /\ (g.active = Nothing => f.active = Nothing)
  <2>1. CASE f.active = Nothing
    BY <1>3, <2>1
  <2>2. CASE f.active # Nothing
    <3>1. f.active \in [keys : SUBSET Keys, fresh : BOOLEAN]
      BY <1>2, <2>2 DEF Fragments
    <3>2. g.active = [f.active EXCEPT !.fresh = FALSE]
      BY <1>3, <2>2
    <3>3. g.active \in [keys : SUBSET Keys, fresh : BOOLEAN] /\ g.active.keys = f.active.keys
      BY <3>1, <3>2
    <3> QED
      BY <2>2, <3>3, NothingIsNoAnswer
  <2> QED
    BY <2>1, <2>2
<1>7. g \in Fragments
  BY <1>1, <1>2, <1>3, <1>5, <1>6 DEF Fragments
<1> QED
  BY <1>3, <1>4, <1>6, <1>7 DEF Attended, Tokens

LEMMA StaledKeeps ==
    ASSUME NEW f, NEW needed, needed \subseteq Keys, Attended(f, needed),
           NEW g, g = Staled(f, needed)
    PROVE  Attended(g, needed) /\ (demanded => UpToDate(g))
BY StaleKindKeeps DEF Staled

--------
(* The identities of the selection.                                        *)

LEMMA ReconciledFacts ==
    ASSUME NEW s, NEW win, NEW r, r = Reconciled(s, win),
           selected \subseteq DOMAIN s.targets \cup s.awaiting
    PROVE  /\ DOMAIN r.targets =
                 DOMAIN s.targets \cup (selected \cap DOMAIN win \cap s.awaiting)
           /\ \A k \in DOMAIN s.targets \ s.awaiting : r.targets[k] = s.targets[k]
           /\ r.awaiting = s.awaiting \ (selected \cap DOMAIN win)
           /\ \A k \in selected \cap DOMAIN win :
                 \/ r.targets[k] = win[k]
                 \/ k \in DOMAIN r.unavailable /\ r.unavailable[k] = "changed"
           /\ DOMAIN s.unavailable \ DOMAIN win \subseteq DOMAIN r.unavailable
<1> DEFINE present == selected \cap DOMAIN win
           captured == present \cap s.awaiting
           held == (present \ captured) \cap DOMAIN s.targets
           changed == {k \in held : s.targets[k] # win[k]}
<1>1. /\ r.targets = With(s.targets, [k \in captured |-> win[k]])
      /\ r.awaiting = s.awaiting \ captured
      /\ r.unavailable = With(Without(s.unavailable, captured \cup held),
                              [k \in changed |-> "changed"])
  BY DEF Reconciled
<1>2. /\ DOMAIN r.targets = DOMAIN s.targets \cup captured
      /\ \A k \in captured : r.targets[k] = win[k]
      /\ \A k \in DOMAIN s.targets \ captured : r.targets[k] = s.targets[k]
  BY <1>1 DEF With
<1>3. /\ DOMAIN r.unavailable = (DOMAIN s.unavailable \ (captured \cup held)) \cup changed
      /\ \A k \in changed : r.unavailable[k] = "changed"
  BY <1>1 DEF With, Without
<1>4. \A k \in present : k \in captured \/ k \in held
  OBVIOUS
<1> QED
  BY <1>1, <1>2, <1>3, <1>4

LEMMA CapturedFacts ==
    ASSUME NEW s, NEW retired, NEW r, r = Captured(s, retired),
           selected \subseteq DOMAIN s.targets \cup s.awaiting
    PROVE  /\ DOMAIN s.targets \subseteq DOMAIN r.targets
           /\ DOMAIN r.targets \subseteq DOMAIN s.targets \cup selected
           /\ \A k \in DOMAIN s.targets \ s.awaiting : r.targets[k] = s.targets[k]
           /\ r.awaiting = s.awaiting \ (selected \cap DOMAIN retired)
           /\ selected \subseteq DOMAIN r.targets \cup r.awaiting
           /\ DOMAIN s.unavailable \ DOMAIN retired \subseteq DOMAIN r.unavailable
<1> DEFINE still == selected \cap DOMAIN retired
           fresh == {k \in still : k \notin DOMAIN s.targets \/ k \in s.awaiting}
           changed == {k \in still \ fresh : s.targets[k] # retired[k]}
<1>1. /\ r.targets = With(s.targets, [k \in fresh |-> retired[k]])
      /\ r.awaiting = s.awaiting \ fresh
      /\ r.unavailable = With(Without(s.unavailable, fresh), [k \in changed |-> "changed"])
  BY DEF Captured
<1>2. /\ DOMAIN r.targets = DOMAIN s.targets \cup fresh
      /\ \A k \in DOMAIN s.targets \ fresh : r.targets[k] = s.targets[k]
  BY <1>1 DEF With
<1>3. DOMAIN r.unavailable = (DOMAIN s.unavailable \ fresh) \cup changed
  BY <1>1 DEF With, Without
<1>4. \A k \in still : k \in s.awaiting => k \in fresh
  OBVIOUS
<1>5. fresh \subseteq selected /\ fresh \subseteq DOMAIN retired
  OBVIOUS
<1>6. \A k \in DOMAIN s.targets \ s.awaiting : k \notin fresh
  OBVIOUS
<1> HIDE DEF fresh, changed
<1> QED
  BY <1>1, <1>2, <1>3, <1>4, <1>5, <1>6

\* A page that changes the window leaves the fragment attended: nothing is kept
\* of what left it, or carries another identity, unless it stays selected.
LEMMA AppliedKeeps ==
    ASSUME Attended(fragments, Needed), NEW s, NEW win, DOMAIN win \subseteq Keys,
           NEW altered, NEW tgt, tgt = Reconciled(s, win).targets, DOMAIN tgt \subseteq Keys,
           DOMAIN targets \subseteq DOMAIN tgt, NEW g, g = Applied(fragments, s, win, altered)
    PROVE  /\ Attended(g, RequestKeys(win, tgt))
           /\ UpToDate(fragments) => UpToDate(g)
<1> DEFINE returned == {k \in DOMAIN win : k \in DOMAIN s.targets /\ k \notin DOMAIN window}
           gone == {k \in DOMAIN window : k \notin DOMAIN win \/ win[k] # window[k]} \cup altered
           beyond == {k \in DOMAIN tgt : k \notin DOMAIN win}
           one == Invalidated(fragments, returned)
           two == Invalidated(one, gone \ beyond)
           needed == RequestKeys(win, tgt)
<1>1. g = Retired(two, needed)
  BY DEF Applied
<1>2. needed = DOMAIN win \cup DOMAIN tgt /\ needed \subseteq Keys
  BY DEF RequestKeys
<1>3. Attended(one, Needed) /\ (UpToDate(fragments) => UpToDate(one))
  BY InvalidatedKeeps
<1>4. /\ Attended(two, Needed) /\ (UpToDate(one) => UpToDate(two))
      /\ \A k \in Keys \cap (gone \ beyond) : two.states[k].status = "none"
  <2> HIDE DEF one
  <2> QED
    BY <1>3, InvalidatedKeeps
<1>5. ASSUME NEW k \in Keys, k \notin needed PROVE two.states[k].status = "none"
  <2>1. CASE k \notin Needed
    BY <1>4, <2>1 DEF Attended
  <2>2. CASE k \in Needed
    <3>1. k \in gone \ beyond
      BY <1>2, <1>5, <2>2 DEF Needed, RequestKeys
    <3> QED
      BY <1>4, <3>1
  <2> QED
    BY <2>1, <2>2
<1> HIDE DEF two
<1>6. Attended(two, needed)
  BY <1>4, <1>5 DEF Attended
<1> HIDE DEF needed
<1>7. Attended(g, needed) /\ (UpToDate(two) => UpToDate(g))
  BY <1>1, <1>2, <1>6, RetiredKeeps
<1> QED
  BY <1>3, <1>4, <1>7 DEF needed

--------
(* Every step keeps the selection.                                         *)

LEMMA InitSelectionInv == SelectionInit => SelectionInv
<1> SUFFICES ASSUME SelectionInit PROVE SelectionInv
  OBVIOUS
<1>1. /\ window = <<>> /\ selected \subseteq Keys /\ awaiting = selected \ DOMAIN targets
      /\ unavailable = [k \in selected |-> "unchecked"] /\ demanded = TRUE
      /\ replacing \in BOOLEAN /\ lapsed = FALSE /\ unseen = selected
  BY DEF SelectionInit
<1>2. PICK held \in SUBSET selected : targets \in [held -> Identities]
  BY DEF SelectionInit
<1>3. fragments = [states |-> [k \in Keys |-> NoState], queue |-> {}, live |-> {},
                   active |-> Nothing, late |-> FALSE]
  BY DEF SelectionInit
<1>4. DOMAIN window = {}
  BY <1>1
<1>5. Chosen
  BY <1>1, <1>2, <1>4 DEF Chosen
<1>6. [k \in Keys |-> NoState] \in [Keys -> States]
  BY StateTypes
<1>7. fragments \in Fragments
  BY <1>3, <1>6 DEF Fragments
<1>8. /\ fragments.active = Nothing /\ fragments.queue = {}
      /\ \A k \in Keys : fragments.states[k].status = "none"
  BY <1>3, StateTypes
<1>9. Attended(fragments, Needed) /\ UpToDate(fragments) /\ Running(fragments)
  BY <1>7, <1>8 DEF Attended, UpToDate, Running
<1> QED
  BY <1>5, <1>9 DEF SelectionInv

LEMMA NeededKeys == Chosen => Needed \subseteq Keys
BY DEF Chosen, Needed, RequestKeys

LEMMA FirstPageStep ==
    ASSUME SelectionInv, NEW win \in Windows, NEW altered, FirstPage(win, altered)
    PROVE  SelectionInv' /\ \A k \in DOMAIN targets \ awaiting :
                                k \in DOMAIN targets' /\ targets'[k] = targets[k]
<1> DEFINE s == [Selection EXCEPT !.unavailable = Unchecked]
           r == Reconciled(s, win)
           keys == RequestKeys(win, r.targets)
           one == Applied(fragments, s, win, altered)
           two == Outdated(one)
           three == Staled(two, keys)
<1>1. /\ replacing' = FALSE /\ window' = win /\ Select(r)
      /\ fragments' = Requested(three, keys)
      /\ lapsed' = ~demanded /\ unseen' = IF demanded THEN selected \ DOMAIN win ELSE {}
      /\ UNCHANGED <<selected, demanded>>
  BY DEF FirstPage
<1>2. Chosen
  BY DEF SelectionInv
<1>3. s.targets = targets /\ s.awaiting = awaiting /\ s.unavailable = Unchecked
  BY DEF Selection
<1>4. DOMAIN win \subseteq Keys
  BY DEF Windows
<1>5. selected \subseteq DOMAIN Unchecked
  BY DEF Unchecked, With
<1> HIDE DEF s
<1>6. /\ DOMAIN r.targets =
            DOMAIN s.targets \cup (selected \cap DOMAIN win \cap s.awaiting)
      /\ \A k \in DOMAIN s.targets \ s.awaiting : r.targets[k] = s.targets[k]
      /\ r.awaiting = s.awaiting \ (selected \cap DOMAIN win)
      /\ \A k \in selected \cap DOMAIN win :
            \/ r.targets[k] = win[k]
            \/ k \in DOMAIN r.unavailable /\ r.unavailable[k] = "changed"
      /\ DOMAIN s.unavailable \ DOMAIN win \subseteq DOMAIN r.unavailable
  <2>1. selected \subseteq DOMAIN s.targets \cup s.awaiting
    BY <1>2, <1>3 DEF Chosen
  <2> QED
    BY <2>1, ReconciledFacts
<1>7. Attended(one, keys)
  <2>1. Attended(fragments, Needed)
    BY DEF SelectionInv
  <2>2. DOMAIN r.targets \subseteq Keys /\ DOMAIN targets \subseteq DOMAIN r.targets
    BY <1>2, <1>3, <1>6 DEF Chosen
  <2> HIDE DEF one
  <2>3. \A g : g = Applied(fragments, s, win, altered) => Attended(g, RequestKeys(win, r.targets))
    BY <1>4, <2>1, <2>2, AppliedKeeps
  <2> QED
    BY <2>3 DEF one
<1> HIDE DEF r
<1>8. keys \subseteq Keys
  BY <1>2, <1>3, <1>4, <1>6 DEF RequestKeys, Chosen
<1> HIDE DEF one, keys
<1>9. Attended(two, keys)
  BY <1>7, OutdatedKeeps
<1> HIDE DEF two
<1>10. Attended(three, keys) /\ (demanded => UpToDate(three))
  BY <1>8, <1>9, StaledKeeps
<1> HIDE DEF three
<1>11. Attended(fragments', keys) /\ (demanded => Running(fragments') /\ UpToDate(fragments'))
  BY <1>1, <1>8, <1>10, RequestedKeeps
<1>12. targets' = r.targets /\ awaiting' = r.awaiting /\ unavailable' = r.unavailable
  BY <1>1 DEF Select
<1>13. Needed' = keys
  BY <1>1, <1>12 DEF Needed, keys
<1>14. Chosen'
  BY <1>1, <1>2, <1>3, <1>4, <1>5, <1>6, <1>12 DEF Chosen
<1>15. SelectionInv'
  <2>1. Attended(fragments', Needed')
    BY <1>11, <1>13
  <2> QED
    BY <1>1, <1>11, <1>14, <2>1, <1>2 DEF SelectionInv, Attended, UpToDate, Running, Tokens, Chosen
<1> QED
  BY <1>3, <1>6, <1>12, <1>15

LEMMA NextPageStep ==
    ASSUME SelectionInv, NEW added \in Windows, NEW retired \in SUBSET DOMAIN window,
           NextPage(added, retired)
    PROVE  SelectionInv' /\ \A k \in DOMAIN targets \ awaiting :
                                k \in DOMAIN targets' /\ targets'[k] = targets[k]
<1> DEFINE all == With(window, added)
           win == Without(all, retired)
           left == [k \in retired |-> all[k]]
           s == Captured(Selection, left)
           r == Reconciled(s, win)
           keys == RequestKeys(win, r.targets)
           one == Applied(fragments, s, win, {})
<1>1. /\ window' = win /\ Select(r) /\ fragments' = Requested(one, keys)
      /\ unseen' = unseen \ DOMAIN all
      /\ UNCHANGED <<selected, demanded, replacing, lapsed>>
  BY DEF NextPage
<1>2. Chosen
  BY DEF SelectionInv
<1>3. /\ Selection.targets = targets /\ Selection.awaiting = awaiting
      /\ Selection.unavailable = unavailable
  BY DEF Selection
<1>4. DOMAIN win \subseteq Keys /\ DOMAIN win \subseteq DOMAIN all /\ retired \subseteq DOMAIN all
  BY <1>2 DEF Windows, With, Without, Chosen
<1>5. DOMAIN left = retired
  OBVIOUS
<1> HIDE DEF all, win, left
<1>6. /\ DOMAIN targets \subseteq DOMAIN s.targets
      /\ DOMAIN s.targets \subseteq DOMAIN targets \cup selected
      /\ \A k \in DOMAIN targets \ awaiting : s.targets[k] = targets[k]
      /\ s.awaiting = awaiting \ (selected \cap DOMAIN left)
      /\ selected \subseteq DOMAIN s.targets \cup s.awaiting
      /\ DOMAIN unavailable \ DOMAIN left \subseteq DOMAIN s.unavailable
  <2>1. selected \subseteq DOMAIN Selection.targets \cup Selection.awaiting
    BY <1>2, <1>3 DEF Chosen
  <2> HIDE DEF s
  <2>2. \A q : q = Captured(Selection, left) =>
            /\ DOMAIN Selection.targets \subseteq DOMAIN q.targets
            /\ DOMAIN q.targets \subseteq DOMAIN Selection.targets \cup selected
            /\ \A k \in DOMAIN Selection.targets \ Selection.awaiting :
                  q.targets[k] = Selection.targets[k]
            /\ q.awaiting = Selection.awaiting \ (selected \cap DOMAIN left)
            /\ selected \subseteq DOMAIN q.targets \cup q.awaiting
            /\ DOMAIN Selection.unavailable \ DOMAIN left \subseteq DOMAIN q.unavailable
    BY <2>1, CapturedFacts
  <2>3. s = Captured(Selection, left)
    BY DEF s
  <2> QED
    BY <1>3, <2>2, <2>3
<1> HIDE DEF s
<1>7. /\ DOMAIN r.targets =
            DOMAIN s.targets \cup (selected \cap DOMAIN win \cap s.awaiting)
      /\ \A k \in DOMAIN s.targets \ s.awaiting : r.targets[k] = s.targets[k]
      /\ r.awaiting = s.awaiting \ (selected \cap DOMAIN win)
      /\ \A k \in selected \cap DOMAIN win :
            \/ r.targets[k] = win[k]
            \/ k \in DOMAIN r.unavailable /\ r.unavailable[k] = "changed"
      /\ DOMAIN s.unavailable \ DOMAIN win \subseteq DOMAIN r.unavailable
  BY <1>6, ReconciledFacts
<1>8. DOMAIN r.targets \subseteq Keys /\ DOMAIN targets \subseteq DOMAIN r.targets
  BY <1>2, <1>6, <1>7 DEF Chosen
<1>9. Attended(one, keys) /\ (UpToDate(fragments) => UpToDate(one))
  <2>1. Attended(fragments, Needed)
    BY DEF SelectionInv
  <2> HIDE DEF one
  <2>2. \A g : g = Applied(fragments, s, win, {}) =>
            Attended(g, RequestKeys(win, r.targets)) /\ (UpToDate(fragments) => UpToDate(g))
    BY <1>4, <1>8, <2>1, AppliedKeeps
  <2> QED
    BY <2>2 DEF one
<1> HIDE DEF r
<1>10. keys \subseteq Keys
  BY <1>4, <1>8 DEF RequestKeys
<1> HIDE DEF one, keys
<1>11. /\ Attended(fragments', keys) /\ (demanded => Running(fragments'))
       /\ UpToDate(one) => UpToDate(fragments')
  BY <1>1, <1>9, <1>10, RequestedKeeps
<1>12. targets' = r.targets /\ awaiting' = r.awaiting /\ unavailable' = r.unavailable
  BY <1>1 DEF Select
<1>13. Needed' = keys
  BY <1>1, <1>12 DEF Needed, keys
<1>14. Chosen'
  BY <1>1, <1>2, <1>4, <1>5, <1>6, <1>7, <1>8, <1>12 DEF Chosen
<1>15. Attended(fragments, Needed)' /\ Running(fragments') = Running(fragments)'
       /\ UpToDate(fragments') = UpToDate(fragments)'
  BY <1>11, <1>13 DEF Attended, UpToDate, Running, Tokens
<1>16. SelectionInv'
  BY <1>1, <1>9, <1>11, <1>14, <1>15 DEF SelectionInv
<1> QED
  BY <1>6, <1>7, <1>8, <1>12, <1>16

\* What leaves a step of the queue alone.
SelectionKept == UNCHANGED <<window, selected, targets, awaiting, unavailable, unseen>>

LEMMA ChangedSourceStep ==
    ASSUME SelectionInv, NEW affected \in BOOLEAN, Changed(affected)
    PROVE  SelectionInv'
<1> DEFINE one == Outdated(fragments)
           f == Staled(one, Needed)
<1>1. /\ fragments' = IF affected THEN f ELSE Requested(f, Needed)
      /\ replacing' = (replacing \/ affected) /\ lapsed' = ~demanded
      /\ unseen' = IF demanded THEN unseen ELSE {}
      /\ UNCHANGED <<window, selected, targets, awaiting, unavailable, demanded>>
  BY DEF Changed
<1>2. Chosen /\ Attended(fragments, Needed)
  BY DEF SelectionInv
<1>3. Needed \subseteq Keys
  BY <1>2, NeededKeys
<1>4. Attended(one, Needed)
  BY <1>2, OutdatedKeeps
<1> HIDE DEF one
<1>5. Attended(f, Needed) /\ (demanded => UpToDate(f))
  BY <1>3, <1>4, StaledKeeps
<1> HIDE DEF f
<1>6. Attended(fragments', Needed) /\ (demanded => UpToDate(fragments'))
      /\ (demanded /\ ~affected => Running(fragments'))
  BY <1>1, <1>3, <1>5, RequestedKeeps
<1>7. Chosen' /\ Needed' = Needed
  BY <1>1, <1>2 DEF Chosen, Needed, RequestKeys
<1>8. Attended(fragments, Needed)' /\ Running(fragments') = Running(fragments)'
      /\ UpToDate(fragments') = UpToDate(fragments)'
  BY <1>6, <1>7 DEF Attended, UpToDate, Running, Tokens
<1>9. demanded' = demanded /\ demanded \in BOOLEAN /\ affected \in BOOLEAN
  BY <1>1, <1>2 DEF Chosen
<1>10. ~lapsed' => UpToDate(fragments)'
  BY <1>1, <1>6, <1>8
<1>11. demanded' /\ ~replacing' => Running(fragments)'
  BY <1>1, <1>6, <1>8, <1>9
<1> QED
  BY <1>7, <1>8, <1>10, <1>11 DEF SelectionInv

\* The fragment of a step, taken up in the state it leads to.
LEMMA FragmentKept ==
    ASSUME Attended(fragments', Needed), Needed' = Needed
    PROVE  /\ Attended(fragments, Needed)' /\ Running(fragments') = Running(fragments)'
           /\ UpToDate(fragments') = UpToDate(fragments)'
BY DEF Attended, UpToDate, Running, Tokens

LEMMA FinishStep ==
    ASSUME SelectionInv, fragments.active # Nothing, NEW offers, NEW missing,
           Finish(fragments.active, offers, missing)
    PROVE  SelectionInv'
<1> DEFINE read == fragments.active
           keys == {k \in read.keys : Applies(fragments, k)}
           state(k) ==
               IF k \in missing
               THEN [fragments.states[k] EXCEPT
                       !.status = IF @ = "loading" THEN "failed" ELSE "refresh-failed"]
               ELSE [status |-> "ready", value |-> k \in offers, fresh |-> read.fresh]
           offered == (keys \ missing) \cap offers
           checked == {k \in offered \cap DOMAIN unavailable : unavailable[k] = "unchecked"}
           f == [fragments EXCEPT
                    !.states = [k \in Keys |-> IF k \in keys THEN state(k) ELSE @[k]],
                    !.live = @ \ read.keys, !.active = Nothing]
<1>1. /\ fragments' = Pumped(f)
      /\ unavailable' = Without(unavailable, checked)
      /\ unseen' = IF read.fresh THEN unseen \ offered ELSE unseen
      /\ UNCHANGED <<window, selected, targets, awaiting, demanded, replacing, lapsed>>
  BY DEF Finish
<1>2. Chosen /\ Attended(fragments, Needed)
  BY DEF SelectionInv
<1>3. fragments \in Fragments /\ read \in [keys : SUBSET Keys, fresh : BOOLEAN]
  BY <1>2 DEF Attended, Fragments
<1>4. /\ f.states = [k \in Keys |-> IF k \in keys THEN state(k) ELSE fragments.states[k]]
      /\ f.queue = fragments.queue /\ f.live = fragments.live \ read.keys /\ f.active = Nothing
  BY <1>3 DEF Fragments
<1>5. ASSUME NEW k \in Keys
      PROVE  /\ state(k) \in States /\ state(k).status \notin {"none", "loading", "refreshing"}
             /\ state(k).status = "ready" => state(k).fresh = read.fresh
  <2>1. PICK q \in States : q = fragments.states[k]
    BY <1>3 DEF Fragments
  <2>2. CASE k \in missing
    <3> DEFINE w == IF q.status = "loading" THEN "failed" ELSE "refresh-failed"
    <3>1. state(k) = [q EXCEPT !.status = w]
      BY <2>1, <2>2
    <3>2. w \in {"failed", "refresh-failed"}
      OBVIOUS
    <3> HIDE DEF w
    <3>3. [q EXCEPT !.status = w] \in States /\ [q EXCEPT !.status = w].status = w
      BY <3>2 DEF States, Statuses
    <3> HIDE DEF state
    <3> QED
      BY <3>1, <3>2, <3>3
  <2>3. CASE k \notin missing
    <3>1. state(k) = [status |-> "ready", value |-> k \in offers, fresh |-> read.fresh]
      BY <2>3
    <3>2. (k \in offers) \in BOOLEAN /\ read.fresh \in BOOLEAN
      BY <1>3
    <3> HIDE DEF state
    <3> QED
      BY <3>1, <3>2 DEF States, Statuses
  <2> QED
    BY <2>2, <2>3
<1>6. \A k \in keys : k \in Keys /\ k \in Needed /\ k \in fragments.live
  BY <1>3 DEF Applies, Needed
<1> HIDE DEF state
<1>7. f.states \in [Keys -> States]
  <2>1. \A k \in Keys : fragments.states[k] \in States
    BY <1>3 DEF Fragments
  <2> HIDE DEF f, keys
  <2> QED
    BY <1>4, <1>5, <2>1
<1>8. f \in Fragments
  BY <1>3, <1>4, <1>7 DEF Fragments
<1> HIDE DEF f
<1>9. ASSUME NEW k \in Keys, f.states[k].status \in {"loading", "refreshing"}
      PROVE  k \in f.queue
  <2>1. k \notin keys /\ f.states[k] = fragments.states[k]
    BY <1>4, <1>5, <1>9
  <2>2. k \in Needed /\ (k \in fragments.queue \/ k \in fragments.live)
    BY <1>2, <1>9, <2>1, StateTypes DEF Attended, Tokens
  <2>3. ~(k \in read.keys /\ k \in fragments.live)
    BY <2>1, <2>2 DEF Applies, Needed
  <2>4. k \in fragments.live => k \in read.keys
    BY <1>2 DEF Attended
  <2> QED
    BY <1>4, <2>2, <2>3, <2>4
<1>10. \A k \in Keys \ Needed : f.states[k].status = "none"
  BY <1>2, <1>4, <1>6 DEF Attended
<1>11. Attended(f, Needed)
  BY <1>4, <1>8, <1>9, <1>10 DEF Attended
<1>12. ~lapsed => read.fresh /\ UpToDate(f)
  <2>1. ASSUME ~lapsed PROVE read.fresh /\ UpToDate(f)
    <3>1. UpToDate(fragments)
      BY <2>1 DEF SelectionInv
    <3>2. read.fresh
      BY <3>1 DEF UpToDate
    <3>3. ASSUME NEW k \in Keys, f.states[k].status = "ready" PROVE f.states[k].fresh
      <4>1. CASE k \in keys
        <5>1. f.states[k] = state(k)
          BY <1>4, <4>1
        <5> QED
          BY <1>5, <3>2, <3>3, <5>1
      <4>2. CASE k \notin keys
        BY <1>4, <3>1, <3>3, <4>2 DEF UpToDate
      <4> QED
        BY <4>1, <4>2
    <3> QED
      BY <1>4, <3>2, <3>3 DEF UpToDate
  <2> QED
    BY <2>1
<1>13. Attended(fragments', Needed) /\ Running(fragments') /\ (UpToDate(f) => UpToDate(fragments'))
  BY <1>1, <1>11, PumpedKeeps
<1>14. checked \subseteq offered /\ \A k \in checked : unavailable[k] = "unchecked"
  OBVIOUS
<1> HIDE DEF checked, offered, keys
<1>15. DOMAIN unavailable' = DOMAIN unavailable \ checked
       /\ \A k \in DOMAIN unavailable' : unavailable'[k] = unavailable[k]
  BY <1>1 DEF Without
<1>16. unseen' \subseteq DOMAIN unavailable' /\ (lapsed => unseen' = {})
  <2>1. CASE lapsed
    BY <1>1, <1>2, <2>1 DEF Chosen
  <2>2. CASE ~lapsed
    BY <1>1, <1>2, <1>12, <1>14, <1>15, <2>2 DEF Chosen
  <2> QED
    BY <2>1, <2>2
<1>17. Chosen' /\ Needed' = Needed
  <2>1. \A k \in selected \cap DOMAIN window :
            targets[k] = window[k] \/ (k \in DOMAIN unavailable' /\ unavailable'[k] = "changed")
    BY <1>2, <1>14, <1>15 DEF Chosen
  <2> QED
    BY <1>1, <1>2, <1>16, <2>1 DEF Chosen, Needed, RequestKeys
<1> QED
  BY <1>1, <1>12, <1>13, <1>17, FragmentKept DEF SelectionInv

LEMMA LateStep == ASSUME SelectionInv, AnswerLate PROVE SelectionInv'
<1>1. /\ fragments' = [fragments EXCEPT !.late = FALSE]
      /\ UNCHANGED <<window, selected, targets, awaiting, unavailable, demanded, replacing,
                     lapsed, unseen>>
  BY DEF AnswerLate
<1>2. fragments \in Fragments
  BY DEF SelectionInv, Attended
<1>3. /\ fragments' \in Fragments /\ fragments'.states = fragments.states
      /\ fragments'.queue = fragments.queue /\ fragments'.live = fragments.live
      /\ fragments'.active = fragments.active
  BY <1>1, <1>2 DEF Fragments
<1>4. Chosen' /\ Needed' = Needed
  BY <1>1 DEF SelectionInv, Chosen, Needed, RequestKeys
<1>5. Attended(fragments', Needed) /\ (Running(fragments) => Running(fragments'))
      /\ (UpToDate(fragments) => UpToDate(fragments'))
  BY <1>3 DEF SelectionInv, Attended, Tokens, Running, UpToDate
<1> QED
  BY <1>1, <1>4, <1>5, FragmentKept DEF SelectionInv

LEMMA DemandStepOfKind ==
    ASSUME SelectionInv, NEW wanted \in BOOLEAN, DemandKind(wanted)
    PROVE  SelectionInv'
<1> DEFINE new == {k \in Needed : fragments.states[k].status = "none"}
<1>1. /\ wanted # demanded /\ demanded' = wanted
      /\ fragments' = IF ~wanted THEN fragments
                      ELSE Pumped([fragments EXCEPT
                              !.states = [k \in Keys |-> IF k \in new THEN Pending(@[k]) ELSE @[k]],
                              !.queue = @ \cup new])
      /\ UNCHANGED <<window, selected, targets, awaiting, unavailable, replacing, lapsed, unseen>>
  BY DEF DemandKind
<1>2. Chosen /\ Attended(fragments, Needed)
  BY DEF SelectionInv
<1>3. Needed \subseteq Keys
  BY <1>2, NeededKeys
<1>4. new \subseteq Needed
  OBVIOUS
<1> HIDE DEF new
<1>5. Attended(fragments', Needed) /\ (UpToDate(fragments) => UpToDate(fragments'))
      /\ (wanted => Running(fragments'))
  <2>1. CASE wanted
    <3>1. fragments' = Queued(fragments, new)
      BY <1>1, <2>1 DEF Queued
    <3> QED
      BY <1>2, <1>3, <1>4, <3>1, QueuedKeeps
  <2>2. CASE ~wanted
    BY <1>1, <1>2, <2>2
  <2> QED
    BY <2>1, <2>2
<1>6. Chosen' /\ Needed' = Needed
  BY <1>1, <1>2 DEF Chosen, Needed, RequestKeys
<1> QED
  BY <1>1, <1>5, <1>6, FragmentKept DEF SelectionInv

LEMMA ReloadStep ==
    ASSUME SelectionInv, NEW k \in Keys, ReloadFragment(k)
    PROVE  SelectionInv'
<1> DEFINE f == Invalidated(fragments, {k})
           p == Pending(fragments.states[k])
           again == [f EXCEPT !.states[k] = p, !.queue = @ \cup {k}]
           h == Retired(again, Needed)
<1>1. /\ k \in Needed /\ fragments' = Pumped(h)
      /\ UNCHANGED <<window, selected, targets, awaiting, unavailable, demanded, replacing,
                     lapsed, unseen>>
  BY DEF ReloadFragment
<1>2. Chosen /\ Attended(fragments, Needed)
  BY DEF SelectionInv
<1>3. Needed \subseteq Keys
  BY <1>2, NeededKeys
<1>4. Attended(f, Needed) /\ (UpToDate(fragments) => UpToDate(f))
  BY <1>2, InvalidatedKeeps
<1>5. p \in States /\ p.status \in {"loading", "refreshing"}
  BY <1>2, StateTypes DEF Attended, Fragments
<1> HIDE DEF f, p
<1>6. /\ again.states = [f.states EXCEPT ![k] = p] /\ again.queue = f.queue \cup {k}
      /\ again.active = f.active /\ again.live = f.live /\ again \in Fragments
      /\ f.states \in [Keys -> States]
  BY <1>4, <1>5 DEF Attended, Fragments
<1> HIDE DEF again
<1>7. again.states[k] = p /\ \A j \in Keys \ {k} : again.states[j] = f.states[j]
  BY <1>6
<1>8. \A j \in Keys : again.states[j].status \in {"loading", "refreshing"} =>
          j \in again.queue \cup Tokens(again)
  BY <1>4, <1>6, <1>7 DEF Attended, Tokens
<1>9. Attended(again, Needed)
  BY <1>1, <1>4, <1>6, <1>7, <1>8 DEF Attended
<1>10. UpToDate(f) => UpToDate(again)
  BY <1>5, <1>6, <1>7 DEF UpToDate
<1>11. Attended(h, Needed) /\ (UpToDate(again) => UpToDate(h))
  BY <1>3, <1>9, RetiredKeeps
<1> HIDE DEF h
<1>12. Attended(fragments', Needed) /\ Running(fragments') /\ (UpToDate(h) => UpToDate(fragments'))
  BY <1>1, <1>11, PumpedKeeps
<1>13. Chosen' /\ Needed' = Needed
  BY <1>1, <1>2 DEF Chosen, Needed, RequestKeys
<1> QED
  BY <1>1, <1>4, <1>10, <1>11, <1>12, <1>13, FragmentKept DEF SelectionInv

LEMMA ReloadAllStep == ASSUME SelectionInv, ReloadFragments PROVE SelectionInv'
<1> DEFINE f == StaleKind(fragments, Needed)
<1>1. /\ fragments' = Pumped(f)
      /\ UNCHANGED <<window, selected, targets, awaiting, unavailable, demanded, replacing,
                     lapsed, unseen>>
  BY DEF ReloadFragments
<1>2. Chosen /\ Attended(fragments, Needed)
  BY DEF SelectionInv
<1>3. Needed \subseteq Keys
  BY <1>2, NeededKeys
<1>4. Attended(f, Needed) /\ UpToDate(f)
  BY <1>2, <1>3, StaleKindKeeps
<1> HIDE DEF f
<1>5. Attended(fragments', Needed) /\ Running(fragments') /\ UpToDate(fragments')
  BY <1>1, <1>4, PumpedKeeps
<1>6. Chosen' /\ Needed' = Needed
  BY <1>1, <1>2 DEF Chosen, Needed, RequestKeys
<1> QED
  BY <1>1, <1>5, <1>6, FragmentKept DEF SelectionInv

LEMMA RefineSelectionStep == ASSUME SelectionInv, Refine PROVE SelectionInv'
<1>1. /\ replacing' = TRUE
      /\ UNCHANGED <<window, selected, targets, awaiting, unavailable, demanded, fragments,
                     lapsed, unseen>>
  BY DEF Refine
<1>2. Chosen' /\ Needed' = Needed
  BY <1>1 DEF SelectionInv, Chosen, Needed, RequestKeys
<1>3. Attended(fragments', Needed)
  BY <1>1 DEF SelectionInv
<1> QED
  BY <1>1, <1>2, <1>3, FragmentKept DEF SelectionInv

LEMMA SelectStep ==
    ASSUME SelectionInv, NEW keys \in SUBSET Keys, SelectKeys(keys)
    PROVE  SelectionInv'
<1> DEFINE present == keys \cap DOMAIN window
<1>1. /\ selected' = selected \cup keys
      /\ targets' = With(targets, [k \in present |-> window[k]])
      /\ awaiting' = (awaiting \cup keys) \ present
      /\ unavailable' = Without(unavailable, present)
      /\ unseen' = unseen \ present
      /\ UNCHANGED <<window, demanded, fragments, replacing, lapsed>>
  BY DEF SelectKeys
<1>2. Chosen /\ Attended(fragments, Needed)
  BY DEF SelectionInv
<1>3. /\ DOMAIN targets' = DOMAIN targets \cup present
      /\ \A k \in present : targets'[k] = window[k]
      /\ \A k \in DOMAIN targets \ present : targets'[k] = targets[k]
  BY <1>1 DEF With
<1>4. DOMAIN unavailable' = DOMAIN unavailable \ present
      /\ \A k \in DOMAIN unavailable' : unavailable'[k] = unavailable[k]
  BY <1>1 DEF Without
<1>5. ASSUME NEW k \in selected' \cap DOMAIN window'
      PROVE  targets'[k] = window'[k] \/ (k \in DOMAIN unavailable' /\ unavailable'[k] = "changed")
  <2>1. CASE k \in present
    BY <1>1, <1>3, <2>1
  <2>2. CASE k \notin present
    <3>1. k \in selected /\ k \in DOMAIN window /\ k \in DOMAIN targets
      BY <1>1, <1>2, <1>5, <2>2 DEF Chosen
    <3> QED
      BY <1>1, <1>2, <1>3, <1>4, <2>2, <3>1 DEF Chosen
  <2> QED
    BY <2>1, <2>2
<1>6. Chosen'
  BY <1>1, <1>2, <1>3, <1>4, <1>5 DEF Chosen
<1>7. Needed' = Needed
  BY <1>1, <1>3 DEF Needed, RequestKeys
<1>8. Attended(fragments', Needed)
  BY <1>1, <1>2
<1> QED
  BY <1>1, <1>6, <1>7, <1>8, FragmentKept DEF SelectionInv

\* A target that is taken back beyond the window leaves nothing behind.
LEMMA TakenBack ==
    ASSUME Attended(fragments, Needed), Chosen,
           NEW rest, NEW gone, gone = DOMAIN targets \ (rest \cup DOMAIN window),
           rest \subseteq DOMAIN targets, NEW f, f = Invalidated(fragments, gone)
    PROVE  /\ Attended(f, DOMAIN window \cup rest)
           /\ Running(fragments) => Running(f)
           /\ UpToDate(fragments) => UpToDate(f)
<1>1. /\ Attended(f, Needed) /\ \A k \in Keys \cap gone : f.states[k].status = "none"
      /\ Running(fragments) => Running(f)
      /\ UpToDate(fragments) => UpToDate(f)
  BY InvalidatedKeeps
<1>2. \A k \in Keys \ (DOMAIN window \cup rest) : f.states[k].status = "none"
  BY <1>1 DEF Attended, Needed, RequestKeys
<1> QED
  BY <1>1, <1>2 DEF Attended

LEMMA DeselectStep ==
    ASSUME SelectionInv, NEW keys \in SUBSET Keys, NEW alone \in BOOLEAN, Deselect(keys, alone)
    PROVE  SelectionInv'
<1> DEFINE retired == {k \in keys : k \in DOMAIN targets /\ k \notin DOMAIN window}
           f == Invalidated(fragments, retired)
           rest == Without(targets, keys)
<1>1. /\ selected' = selected \ keys /\ targets' = rest /\ awaiting' = awaiting \ keys
      /\ unavailable' = Without(unavailable, keys) /\ unseen' = unseen \ keys
      /\ fragments' = IF alone /\ retired # {} THEN Retired(f, RequestKeys(window, rest)) ELSE f
      /\ UNCHANGED <<window, demanded, replacing, lapsed>>
  BY DEF Deselect
<1>2. Chosen /\ Attended(fragments, Needed)
  BY DEF SelectionInv
<1>3. /\ DOMAIN targets' = DOMAIN targets \ keys
      /\ \A k \in DOMAIN targets' : targets'[k] = targets[k]
      /\ DOMAIN unavailable' = DOMAIN unavailable \ keys
      /\ \A k \in DOMAIN unavailable' : unavailable'[k] = unavailable[k]
  BY <1>1 DEF Without
<1>4. retired = DOMAIN targets \ (DOMAIN targets' \cup DOMAIN window)
  BY <1>3
<1>5. RequestKeys(window, rest) = DOMAIN window \cup DOMAIN targets'
      /\ Needed' = DOMAIN window \cup DOMAIN targets'
      /\ Needed' \subseteq Keys
  BY <1>1, <1>2, <1>3 DEF RequestKeys, Needed, Chosen
<1> HIDE DEF retired, rest
<1>6. /\ Attended(f, DOMAIN window \cup DOMAIN targets')
      /\ Running(fragments) => Running(f)
      /\ UpToDate(fragments) => UpToDate(f)
  <2>1. DOMAIN targets' \subseteq DOMAIN targets
    BY <1>3
  <2> QED
    BY <1>2, <1>4, <2>1, TakenBack
<1> HIDE DEF f
<1>7. /\ Attended(fragments', DOMAIN window \cup DOMAIN targets')
      /\ Running(f) => Running(fragments')
      /\ UpToDate(f) => UpToDate(fragments')
  <2>1. CASE fragments' = f
    BY <1>6, <2>1
  <2>2. CASE fragments' = Retired(f, RequestKeys(window, rest))
    BY <1>5, <1>6, <2>2, RetiredKeeps
  <2> QED
    BY <1>1, <2>1, <2>2
<1>8. Chosen'
  BY <1>1, <1>2, <1>3 DEF Chosen
<1>9. Attended(fragments, Needed)' /\ Running(fragments') = Running(fragments)'
      /\ UpToDate(fragments') = UpToDate(fragments)'
  BY <1>5, <1>7 DEF Attended, UpToDate, Running, Tokens
<1> QED
  BY <1>1, <1>6, <1>7, <1>8, <1>9 DEF SelectionInv

LEMMA ClearStep == ASSUME SelectionInv, ClearSelection PROVE SelectionInv'
<1> DEFINE gone == DOMAIN targets \ DOMAIN window
           f == Invalidated(fragments, gone)
<1>1. /\ selected' = {} /\ targets' = <<>> /\ awaiting' = {} /\ unavailable' = <<>>
      /\ unseen' = {} /\ fragments' = Retired(f, DOMAIN window)
      /\ UNCHANGED <<window, demanded, replacing, lapsed>>
  BY DEF ClearSelection
<1>2. Chosen /\ Attended(fragments, Needed)
  BY DEF SelectionInv
<1>3. DOMAIN targets' = {}
  BY <1>1
<1>4. Needed' = DOMAIN window /\ DOMAIN window \subseteq Keys
  BY <1>1, <1>2, <1>3 DEF Needed, RequestKeys, Chosen
<1>5. /\ Attended(f, DOMAIN window)
      /\ Running(fragments) => Running(f)
      /\ UpToDate(fragments) => UpToDate(f)
  <2>1. gone = DOMAIN targets \ ({} \cup DOMAIN window) /\ {} \subseteq DOMAIN targets
    OBVIOUS
  <2> HIDE DEF gone
  <2>2. Attended(f, DOMAIN window \cup {}) /\ (Running(fragments) => Running(f))
        /\ (UpToDate(fragments) => UpToDate(f))
    BY <1>2, <2>1, TakenBack
  <2>3. DOMAIN window \cup {} = DOMAIN window
    OBVIOUS
  <2> QED
    BY <2>2, <2>3
<1> HIDE DEF f
<1>6. /\ Attended(fragments', DOMAIN window)
      /\ Running(f) => Running(fragments')
      /\ UpToDate(f) => UpToDate(fragments')
  BY <1>1, <1>4, <1>5, RetiredKeeps
<1>7. Chosen'
  BY <1>1, <1>2, <1>3 DEF Chosen
<1>8. Attended(fragments, Needed)' /\ Running(fragments') = Running(fragments)'
      /\ UpToDate(fragments') = UpToDate(fragments)'
  BY <1>4, <1>6 DEF Attended, UpToDate, Running, Tokens
<1> QED
  BY <1>1, <1>5, <1>6, <1>7, <1>8 DEF SelectionInv

LEMMA StepSelectionInv == SelectionInv /\ [SelectionNext]_selectionVars => SelectionInv'
<1> SUFFICES ASSUME SelectionInv, [SelectionNext]_selectionVars PROVE SelectionInv'
  OBVIOUS
<1>1. CASE \E win \in Windows, altered \in SUBSET DOMAIN window : FirstPage(win, altered)
  BY <1>1, FirstPageStep
<1>2. CASE \E added \in Windows, retired \in SUBSET DOMAIN window : NextPage(added, retired)
  BY <1>2, NextPageStep
<1>3. CASE Answer
  BY <1>3, FinishStep DEF Answer
<1>4. CASE AnswerLate
  BY <1>4, LateStep
<1>5. CASE \E affected \in BOOLEAN : Changed(affected)
  BY <1>5, ChangedSourceStep
<1>6. CASE Refine
  BY <1>6, RefineSelectionStep
<1>7. CASE \E wanted \in BOOLEAN : DemandKind(wanted)
  BY <1>7, DemandStepOfKind
<1>8. CASE \E k \in Keys : ReloadFragment(k)
  BY <1>8, ReloadStep
<1>9. CASE ReloadFragments
  BY <1>9, ReloadAllStep
<1>10. CASE \E k \in Keys : Deselect({k}, TRUE)
  BY <1>10, DeselectStep
<1>11. CASE \E keys \in SUBSET Keys \ {{}} : SelectKeys(keys) \/ Deselect(keys, FALSE)
  BY <1>11, SelectStep, DeselectStep
<1>12. CASE ClearSelection
  BY <1>12, ClearStep
<1>13. CASE UNCHANGED selectionVars
  <2>1. /\ UNCHANGED <<window, selected, targets, awaiting, unavailable, demanded, fragments>>
        /\ UNCHANGED <<replacing, lapsed, unseen>>
    BY <1>13 DEF selectionVars
  <2>2. Chosen' /\ Needed' = Needed
    BY <2>1 DEF SelectionInv, Chosen, Needed, RequestKeys
  <2>3. Attended(fragments', Needed)
    BY <2>1 DEF SelectionInv
  <2> QED
    BY <2>1, <2>2, <2>3, FragmentKept DEF SelectionInv
<1> QED
  BY <1>1, <1>2, <1>3, <1>4, <1>5, <1>6, <1>7, <1>8, <1>9, <1>10, <1>11, <1>12, <1>13
     DEF SelectionNext

--------
(* What a selection promises.                                              *)

\* Whatever pages, answers, changes and choices follow one another, a key that
\* waits for an answer is read or queued, and every chosen key has the identity
\* it was chosen at or is reported (list.ts applyWindow, pumpFragments).
THEOREM SelectionInductive == SelectionSpec => []SelectionInv
<1>1. SelectionInit => SelectionInv
  BY InitSelectionInv
<1>2. SelectionInv /\ [SelectionNext]_selectionVars => SelectionInv'
  BY StepSelectionInv
<1> QED
  BY <1>1, <1>2, PTL DEF SelectionSpec

\* No row waits for an answer nobody asks for, and an answer shown as current
\* was asked for since the last change (list.ts requestFragments,
\* retireObsoleteFragments, staleFragments).
THEOREM AsksForWhatItAwaits == SelectionSpec => []FragmentsAnswer
<1>1. SelectionInv => FragmentsAnswer
  <2> SUFFICES ASSUME SelectionInv PROVE FragmentsAnswer
    OBVIOUS
  <2>1. Needed \subseteq Keys
    BY NeededKeys DEF SelectionInv
  <2>2. NoFragmentForgotten
    BY <2>1 DEF SelectionInv, Attended, Running, NoFragmentForgotten
  <2>3. ReadyIsFresh
    BY DEF SelectionInv, UpToDate, ReadyIsFresh
  <2> QED
    BY <2>2, <2>3 DEF FragmentsAnswer
<1> QED
  BY <1>1, SelectionInductive, PTL

\* A page leaves every target that was captured as it is.
LEMMA StepSubstitutesNothing ==
    ASSUME SelectionInv, [SelectionNext]_selectionVars, window' # window
    PROVE  \A k \in DOMAIN targets \ awaiting : k \in DOMAIN targets' /\ targets'[k] = targets[k]
<1>1. CASE \E win \in Windows, altered \in SUBSET DOMAIN window : FirstPage(win, altered)
  BY <1>1, FirstPageStep
<1>2. CASE \E added \in Windows, retired \in SUBSET DOMAIN window : NextPage(added, retired)
  BY <1>2, NextPageStep
<1>3. CASE UNCHANGED window
  BY <1>3
<1>4. SelectionNext => \/ \E win \in Windows, altered \in SUBSET DOMAIN window : FirstPage(win, altered)
                       \/ \E added \in Windows, retired \in SUBSET DOMAIN window :
                             NextPage(added, retired)
                       \/ UNCHANGED window
  BY DEF SelectionNext, Answer, Finish, AnswerLate, Changed, Refine, DemandKind,
         ReloadFragment, ReloadFragments, SelectKeys, Deselect, ClearSelection
<1>5. UNCHANGED selectionVars => UNCHANGED window
  BY DEF selectionVars
<1> QED
  BY <1>1, <1>2, <1>3, <1>4, <1>5

\* What a page brings is never taken for what was chosen, and a tool offered
\* for the selection acts on all that was chosen and on nothing else (list.ts
\* reconcileSelection, captureSelectionTarget, toolAvailable).
THEOREM ActsOnChoice == SelectionSpec => ActsOnWhatWasChosen
<1>1. SelectionInv => ToolsActOnWhatWasChosen
  BY DEF SelectionInv, Chosen, ToolsActOnWhatWasChosen, ToolAvailable
<1>2. SelectionInv /\ [SelectionNext]_selectionVars =>
          [window' # window =>
              \A k \in DOMAIN targets \ awaiting :
                  k \in DOMAIN targets' /\ targets'[k] = targets[k]]_selectionVars
  BY StepSubstitutesNothing
<1> QED
  BY <1>1, <1>2, SelectionInductive, PTL
     DEF SelectionSpec, ActsOnWhatWasChosen, NeverSubstituted
=============================================================================
