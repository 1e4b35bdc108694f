------------------------ MODULE BlockSignatures_proofs -----------------------
(***************************************************************************)
(* Proofs about WireFormat and BlockSignatures, for any requests, any      *)
(* attestors and any number of blocks and transactions.                    *)
(***************************************************************************)
EXTENDS BlockSignatures, SequenceTheorems, FiniteSetTheorems, TLAPS

IsSeq(s) == s \in Seq(Range(s))

-----------------------------------------------------------------------------
(* Sequences *)

LEMMA SeqFacts ==
  ASSUME NEW s, IsSeq(s)
  PROVE  /\ Len(s) \in Nat /\ DOMAIN s = 1..Len(s)
         /\ s = [i \in 1..Len(s) |-> s[i]]
         /\ s = [i \in DOMAIN s |-> s[i]]
         /\ \A i \in 1..Len(s) : s[i] \in Range(s)
         /\ Len(s) = 0 <=> s = <<>>
<1>1. Len(s) \in Nat /\ DOMAIN s = 1..Len(s) /\ s \in [1..Len(s) -> Range(s)]
  BY LenProperties DEF IsSeq
<1>2. Len(s) = 0 <=> s = <<>>
  BY EmptySeq DEF IsSeq
<1> QED
  BY <1>1, <1>2

LEMMA MakeSeq ==
  ASSUME NEW s, NEW n \in Nat, DOMAIN s = 1..n, s = [i \in 1..n |-> s[i]]
  PROVE  IsSeq(s) /\ Len(s) = n
<1>1. \A i \in 1..n : s[i] \in Range(s)
  BY DEF Range
<1>2. s \in [1..n -> Range(s)]
  BY <1>1
<1>3. s \in Seq(Range(s))
  BY <1>2, SeqDef
<1> QED
  BY <1>3, LenProperties DEF IsSeq

LEMMA Concatenation ==
  ASSUME NEW s, NEW t, IsSeq(s), IsSeq(t)
  PROVE  /\ IsSeq(s \o t)
         /\ Len(s \o t) = Len(s) + Len(t)
         /\ DOMAIN (s \o t) = 1..Len(s) + Len(t)
         /\ \A i \in 1..Len(s) : (s \o t)[i] = s[i]
         /\ \A i \in 1..Len(t) : (s \o t)[Len(s) + i] = t[i]
<1> DEFINE S == Range(s) \cup Range(t)
           u == s \o t
<1>1. s \in Seq(S) /\ t \in Seq(S)
  BY SeqMonotonic DEF IsSeq
<1>2. Len(s) \in Nat /\ Len(t) \in Nat
  BY SeqFacts
<1>3. /\ u \in Seq(S)
      /\ Len(u) = Len(s) + Len(t)
      /\ \A i \in 1 .. Len(s) + Len(t) : u[i] = IF i <= Len(s) THEN s[i] ELSE t[i - Len(s)]
  BY <1>1, ConcatProperties
<1>4. DOMAIN u = 1..Len(u) /\ u \in [1..Len(u) -> S]
  BY <1>3, LenProperties
<1> HIDE DEF u, S
<1>5. IsSeq(u)
  <2>1. Len(u) \in Nat /\ u = [i \in 1..Len(u) |-> u[i]]
    BY <1>2, <1>3, <1>4
  <2> QED
    BY <2>1, <1>4, MakeSeq
<1> USE DEF u
<1>6. \A i \in 1..Len(s) : u[i] = s[i]
  BY <1>2, <1>3
<1>7. \A i \in 1..Len(t) : u[Len(s) + i] = t[i]
  BY <1>2, <1>3
<1> QED
  BY <1>3, <1>4, <1>5, <1>6, <1>7

LEMMA NothingAppended ==
  ASSUME NEW s, IsSeq(s)
  PROVE  <<>> \o s = s /\ s \o <<>> = s
BY ConcatEmptySeq DEF IsSeq

LEMMA EmptyIsSeq == IsSeq(<<>>) /\ Len(<<>>) = 0 /\ DOMAIN <<>> = {}
<1>1. <<>> \in Seq(Range(<<>>)) /\ Len(<<>>) = 0
  BY EmptySeq
<1>2. DOMAIN <<>> = 1..0
  BY <1>1, LenProperties
<1> QED
  BY <1>1, <1>2 DEF IsSeq

LEMMA OneIsSeq ==
  ASSUME NEW e
  PROVE  IsSeq(<<e>>) /\ Len(<<e>>) = 1 /\ DOMAIN <<e>> = {1} /\ <<e>>[1] = e /\ <<e>> # <<>>
<1>1. <<e>> \in Seq({e}) /\ Len(<<e>>) = 1 /\ <<e>>[1] = e
  OBVIOUS
<1>2. DOMAIN <<e>> = 1..1 /\ <<e>> = [i \in 1..1 |-> <<e>>[i]]
  BY <1>1, LenProperties
<1>3. IsSeq(<<e>>)
  BY <1>2, MakeSeq
<1> QED
  BY <1>1, <1>2, <1>3, EmptyIsSeq

-----------------------------------------------------------------------------
(* Reading what was written, field by field *)

AllOf(wire, n) == \A i \in DOMAIN wire : wire[i][1] = n
At(wire, n) == {i \in DOMAIN wire : wire[i][1] = n}
NoneOf(wire, n) == \A i \in DOMAIN wire : wire[i][1] # n

\* The fields but n are the same in both.
Keeps(all, wire, n) ==
  \A m : m # n => /\ Values(all, m) = Values(wire, m)
                  /\ \A d : LastValue(all, m, d) = LastValue(wire, m, d)
                  /\ NoneOf(wire, m) => NoneOf(all, m)

\* The values of m entries that stand together.
Run(wire, lo, m) == [k \in 1..m |-> wire[lo + k][2]]

\* Values of a field whose entries are next to each other.
LEMMA ValuesOfRun ==
  ASSUME NEW wire, NEW n, NEW lo \in Nat, NEW m \in Nat,
         At(wire, n) = lo + 1..lo + m
  PROVE  Values(wire, n) = Run(wire, lo, m)
<1> DEFINE at == At(wire, n)
           Place(k) == CHOOSE i \in at : Cardinality({j \in at : j <= i}) = k
<1>1. at = lo + 1..lo + m
  OBVIOUS
<1> HIDE DEF at
<1>2. Cardinality(at) = m
  <2>1. lo + 1 \in Int /\ lo + m \in Int
    OBVIOUS
  <2>2. Cardinality(lo + 1..lo + m) = IF lo + 1 > lo + m THEN 0 ELSE lo + m - (lo + 1) + 1
    BY <2>1, FS_Interval
  <2> QED
    BY <1>1, <2>2
<1>3. ASSUME NEW i \in at PROVE Cardinality({j \in at : j <= i}) = i - lo
  <2>1. i \in Nat /\ i >= lo + 1 /\ i <= lo + m
    BY <1>1
  <2>2. {j \in at : j <= i} = lo + 1..i
    BY <1>1, <2>1
  <2>3. lo + 1 \in Int /\ i \in Int
    BY <2>1
  <2>4. Cardinality(lo + 1..i) = IF lo + 1 > i THEN 0 ELSE i - (lo + 1) + 1
    BY <2>3, FS_Interval
  <2>5. Cardinality(lo + 1..i) = i - lo
    BY <2>1, <2>4
  <2> QED
    BY <2>2, <2>5
<1>4. ASSUME NEW k \in 1..m PROVE Place(k) = lo + k
  <2>1. lo + k \in at
    BY <1>1
  <2>2. lo + k - lo = k
    OBVIOUS
  <2>3. Cardinality({j \in at : j <= lo + k}) = k
    BY <1>3, <2>1, <2>2
  <2>4. \A i \in at : Cardinality({j \in at : j <= i}) = k => i = lo + k
    BY <1>1, <1>3
  <2> QED
    BY <2>1, <2>3, <2>4
<1>5. Values(wire, n) = [k \in 1..Cardinality(at) |-> wire[Place(k)][2]]
  BY DEF Values, at, At
<1> HIDE DEF Place
<1> QED
  BY <1>2, <1>4, <1>5 DEF Run

\* What a writer has written so far: the entries of a field stand together.
Written(wire) ==
  /\ IsSeq(wire)
  /\ \A n : \E lo, m \in Nat : At(wire, n) = lo + 1..lo + m

\* A writer appends a field that was not there: a reader gets it, and the
\* other fields as before.
LEMMA FieldAppended ==
  ASSUME NEW wire, NEW field, NEW n, Written(wire), IsSeq(field),
         NoneOf(wire, n), AllOf(field, n)
  PROVE  /\ Written(wire \o field)
         /\ Values(wire \o field, n) = Run(field, 0, Len(field))
         /\ Keeps(wire \o field, wire, n)
<1> DEFINE all == wire \o field
<1>1. /\ Len(wire) \in Nat /\ DOMAIN wire = 1..Len(wire)
      /\ Len(field) \in Nat /\ DOMAIN field = 1..Len(field)
  BY SeqFacts DEF Written
<1>2. /\ IsSeq(all) /\ DOMAIN all = 1..Len(wire) + Len(field)
      /\ \A i \in 1..Len(wire) : all[i] = wire[i]
      /\ \A i \in 1..Len(field) : all[Len(wire) + i] = field[i]
  BY Concatenation DEF Written
<1> HIDE DEF all
<1>3. \A i \in DOMAIN all : i \in 1..Len(wire) \/ \E j \in 1..Len(field) : i = Len(wire) + j
  <2>1. ASSUME NEW i \in DOMAIN all, i \notin 1..Len(wire)
        PROVE  i - Len(wire) \in 1..Len(field) /\ i = Len(wire) + (i - Len(wire))
    BY <1>1, <1>2, <2>1
  <2> QED
    BY <2>1
<1>4. \A i \in 1..Len(wire) : i \in DOMAIN all /\ all[i][1] = wire[i][1]
  BY <1>1, <1>2
<1>5. \A j \in 1..Len(field) : Len(wire) + j \in DOMAIN all /\ all[Len(wire) + j][1] = n
  BY <1>1, <1>2 DEF AllOf
<1>6. At(all, n) = Len(wire) + 1..Len(wire) + Len(field)
  <2>1. ASSUME NEW i \in Len(wire) + 1..Len(wire) + Len(field)
        PROVE  i - Len(wire) \in 1..Len(field) /\ i = Len(wire) + (i - Len(wire))
    BY <1>1
  <2>2. \A i \in Len(wire) + 1..Len(wire) + Len(field) : i \in DOMAIN all /\ all[i][1] = n
    BY <1>5, <2>1
  <2>3. \A i \in 1..Len(wire) : all[i][1] # n
    BY <1>1, <1>4 DEF NoneOf
  <2>4. \A j \in 1..Len(field) : Len(wire) + j \in Len(wire) + 1..Len(wire) + Len(field)
    BY <1>1
  <2> QED
    BY <1>3, <2>2, <2>3, <2>4 DEF At
<1>7. Values(all, n) = Run(field, 0, Len(field))
  <2>1. Values(all, n) = Run(all, Len(wire), Len(field))
    BY <1>1, <1>6, ValuesOfRun
  <2>2. Run(all, Len(wire), Len(field)) = Run(field, 0, Len(field))
    BY <1>1, <1>2 DEF Run
  <2> QED
    BY <2>1, <2>2
<1>8. ASSUME NEW m, m # n
      PROVE  Values(all, m) = Values(wire, m) /\ (NoneOf(wire, m) => NoneOf(all, m))
  <2>1. \A i \in DOMAIN all : all[i][1] = m => i \in 1..Len(wire)
    BY <1>3, <1>5, <1>8
  <2>2. At(all, m) = At(wire, m)
    BY <1>1, <1>4, <2>1 DEF At
  <2>3. NoneOf(wire, m) => NoneOf(all, m)
    BY <1>1, <1>4, <2>1 DEF NoneOf
  <2>4. PICK lo \in Nat, c \in Nat : At(wire, m) = lo + 1..lo + c
    BY DEF Written
  <2>5. Values(wire, m) = Run(wire, lo, c)
    BY <2>4, ValuesOfRun
  <2>6. Values(all, m) = Run(all, lo, c)
    <3>1. At(all, m) = lo + 1..lo + c
      BY <2>2, <2>4
    <3> QED
      BY <3>1, ValuesOfRun
  <2>7. \A k \in 1..c : lo + k \in 1..Len(wire)
    <3>1. \A k \in 1..c : lo + k \in lo + 1..lo + c
      OBVIOUS
    <3> QED
      BY <1>1, <2>4, <3>1 DEF At
  <2>8. Run(all, lo, c) = Run(wire, lo, c)
    BY <1>2, <2>7 DEF Run
  <2> QED
    BY <2>3, <2>5, <2>6, <2>8
<1>9. Written(all)
  <2>1. ASSUME NEW m PROVE \E lo, c \in Nat : At(all, m) = lo + 1..lo + c
    <3>1. CASE m = n
      BY <1>1, <1>6, <3>1
    <3>2. CASE m # n
      <4>1. \A i \in DOMAIN all : all[i][1] = m => i \in 1..Len(wire)
        BY <1>3, <1>5, <3>2
      <4>2. At(all, m) = At(wire, m)
        BY <1>1, <1>4, <4>1 DEF At
      <4> QED
        BY <4>2 DEF Written
    <3> QED
      BY <3>1, <3>2
  <2> QED
    BY <1>2, <2>1 DEF Written
<1> QED
  BY <1>7, <1>8, <1>9 DEF all, Keeps, LastValue

LEMMA NothingRuns == \A wire : Run(wire, 0, 0) = <<>>
<1>1. <<>> = [k \in 1..0 |-> <<>>[k]] /\ 1..0 = {}
  BY EmptyIsSeq, SeqFacts
<1> QED
  BY <1>1 DEF Run

LEMMA NothingWritten ==
  /\ Written(NoBytes)
  /\ \A n : NoneOf(NoBytes, n) /\ Values(NoBytes, n) = <<>>
<1>1. ASSUME NEW n PROVE At(NoBytes, n) = 0 + 1..0 + 0
  BY EmptyIsSeq DEF At, NoBytes
<1>2. ASSUME NEW n PROVE Values(NoBytes, n) = <<>>
  <2>1. Values(NoBytes, n) = Run(NoBytes, 0, 0)
    BY <1>1, ValuesOfRun
  <2> QED
    BY <2>1, NothingRuns
<1>3. Written(NoBytes)
  BY <1>1, EmptyIsSeq DEF Written, NoBytes
<1> QED
  BY <1>2, <1>3, EmptyIsSeq DEF NoneOf, NoBytes

\* Before the first field nothing is written.
LEMMA FirstField ==
  ASSUME NEW field, IsSeq(field)
  PROVE  NoBytes \o field = field
BY NothingAppended DEF NoBytes

\* The values of a repeated field.
IsRepeated(field, n, xs) ==
  /\ IsSeq(xs) /\ IsSeq(field)
  /\ DOMAIN field = DOMAIN xs
  /\ \A i \in DOMAIN xs : field[i] = <<n, xs[i]>>

LEMMA ManyAppended ==
  ASSUME NEW wire, NEW n, NEW xs, NEW field, Written(wire), NoneOf(wire, n),
         IsRepeated(field, n, xs)
  PROVE  /\ Written(wire \o field)
         /\ Values(wire \o field, n) = xs
         /\ Keeps(wire \o field, wire, n)
<1>0. /\ IsSeq(xs) /\ IsSeq(field) /\ DOMAIN field = DOMAIN xs
      /\ \A i \in DOMAIN xs : field[i] = <<n, xs[i]>>
  BY DEF IsRepeated
<1>1. Len(xs) \in Nat /\ DOMAIN xs = 1..Len(xs) /\ xs = [i \in 1..Len(xs) |-> xs[i]]
  BY <1>0, SeqFacts
<1>2. DOMAIN field = 1..Len(xs) /\ DOMAIN field = 1..Len(field) /\ Len(field) \in Nat
  BY <1>0, <1>1, SeqFacts
<1>3. Len(field) = Len(xs)
  BY <1>1, <1>2
<1>4. \A i \in 1..Len(xs) : field[i][1] = n /\ field[i][2] = xs[i]
  BY <1>0, <1>1
<1>5. AllOf(field, n)
  BY <1>2, <1>4 DEF AllOf
<1>6. Run(field, 0, Len(field)) = xs
  BY <1>1, <1>3, <1>4 DEF Run
<1>7. /\ Written(wire \o field)
      /\ Values(wire \o field, n) = Run(field, 0, Len(field))
      /\ Keeps(wire \o field, wire, n)
  BY <1>0, <1>5, FieldAppended
<1> QED
  BY <1>6, <1>7

LEMMA OneAppended ==
  ASSUME NEW wire, NEW n, NEW x, Written(wire), NoneOf(wire, n)
  PROVE  LET all == wire \o << <<n, x>> >>
         IN  /\ Written(all)
             /\ Values(all, n) # <<>> /\ Last(Values(all, n)) = x
             /\ Keeps(all, wire, n)
<1> DEFINE field == << <<n, x>> >>
           xs == <<x>>
<1>1. IsSeq(xs) /\ DOMAIN xs = {1} /\ xs[1] = x /\ Len(xs) = 1 /\ xs # <<>>
  BY OneIsSeq
<1>2. IsSeq(field) /\ DOMAIN field = {1} /\ field[1] = <<n, x>>
  BY OneIsSeq
<1> HIDE DEF field, xs
<1>3. IsRepeated(field, n, xs)
  BY <1>1, <1>2 DEF IsRepeated
<1>4. Last(xs) = x
  BY <1>1 DEF Last
<1>5. /\ Written(wire \o field)
      /\ Values(wire \o field, n) = xs
      /\ Keeps(wire \o field, wire, n)
  BY <1>3, ManyAppended
<1> QED
  BY <1>1, <1>4, <1>5 DEF field

LEMMA NoneAppended ==
  ASSUME NEW wire, NEW n, Written(wire), NoneOf(wire, n)
  PROVE  wire \o <<>> = wire /\ Values(wire, n) = <<>>
<1>1. wire \o <<>> = wire
  BY NothingAppended DEF Written
<1>2. At(wire, n) = 0 + 1..0 + 0
  BY DEF At, NoneOf
<1>3. Values(wire, n) = Run(wire, 0, 0)
  BY <1>2, ValuesOfRun
<1> QED
  BY <1>1, <1>3, NothingRuns

LEMMA ScalarIsSeq == \A n, v, default : IsSeq(Scalar(n, v, default))
BY EmptyIsSeq, OneIsSeq DEF Scalar

\* A scalar reads as it was written, also when it is at its default.
LEMMA ScalarAppended ==
  ASSUME NEW wire, NEW n, NEW v, NEW default, Written(wire), NoneOf(wire, n)
  PROVE  LET all == wire \o Scalar(n, v, default)
         IN  /\ Written(all)
             /\ LastValue(all, n, default) = v
             /\ Keeps(all, wire, n)
<1>1. CASE v = default
  BY <1>1, NoneAppended DEF Scalar, LastValue, Keeps
<1>2. CASE v # default
  BY <1>2, OneAppended DEF Scalar, LastValue
<1> QED
  BY <1>1, <1>2

\* A submessage that is not set leaves no entry; x is its bytes otherwise.
IsSingle(field, n, v, x) == field = IF v = Null THEN <<>> ELSE << <<n, x>> >>
ReadsSingle(wire, n, v, x) ==
  /\ v = Null => Values(wire, n) = <<>>
  /\ v # Null => Values(wire, n) # <<>> /\ Last(Values(wire, n)) = x

LEMMA SingleAppended ==
  ASSUME NEW wire, NEW n, NEW v, NEW x, NEW field, Written(wire), NoneOf(wire, n),
         IsSingle(field, n, v, x)
  PROVE  LET all == wire \o field
         IN  /\ Written(all)
             /\ ReadsSingle(all, n, v, x)
             /\ Keeps(all, wire, n)
<1>1. CASE v = Null
  BY <1>1, NoneAppended DEF IsSingle, ReadsSingle, Keeps
<1>2. CASE v # Null
  BY <1>2, OneAppended DEF IsSingle, ReadsSingle
<1> QED
  BY <1>1, <1>2

LEMMA MappedSeq ==
  ASSUME NEW vs, NEW f, IsSeq(vs), DOMAIN f = DOMAIN vs, f = [i \in DOMAIN vs |-> f[i]]
  PROVE  IsSeq(f) /\ Len(f) = Len(vs)
<1>1. Len(vs) \in Nat /\ DOMAIN vs = 1..Len(vs)
  BY SeqFacts
<1> QED
  BY <1>1, MakeSeq

LEMMA MappedIsRepeated ==
  ASSUME NEW vs, NEW n, NEW xs, NEW field, IsSeq(vs),
         DOMAIN xs = DOMAIN vs, xs = [i \in DOMAIN vs |-> xs[i]],
         field = [i \in DOMAIN vs |-> <<n, xs[i]>>]
  PROVE  IsRepeated(field, n, xs)
<1>1. DOMAIN field = DOMAIN vs /\ field = [i \in DOMAIN vs |-> field[i]]
  OBVIOUS
<1>2. \A i \in DOMAIN vs : field[i] = <<n, xs[i]>>
  OBVIOUS
<1>3. IsSeq(xs) /\ IsSeq(field)
  BY <1>1, MappedSeq
<1> QED
  BY <1>1, <1>2, <1>3 DEF IsRepeated

-----------------------------------------------------------------------------
(* Messages read as they were written *)

IsTransaction(m) ==
  /\ m = [ type |-> m.type, category |-> m.category, sender |-> m.sender,
           recipients |-> m.recipients, data |-> m.data, salt |-> m.salt,
           apitoken |-> m.apitoken, signature |-> m.signature, fee |-> m.fee ]
  /\ IsSeq(m.recipients)

LEMMA TransactionReads ==
  ASSUME NEW m, IsTransaction(m)
  PROVE  DeserializeTransaction(SerializeTransaction(m)) = m
<1> DEFINE w1 == NoBytes \o Scalar(1, m.type, 0)
           w2 == w1 \o Scalar(2, m.category, Empty)
           w3 == w2 \o Scalar(3, m.sender, Empty)
           r == Repeated(4, m.recipients, Itself)
           w4 == w3 \o r
           w5 == w4 \o Scalar(5, m.data, Empty)
           w6 == w5 \o Scalar(6, m.salt, Empty)
           w7 == w6 \o Scalar(7, m.apitoken, Empty)
           w8 == w7 \o Scalar(8, m.signature, Null)
           w9 == w8 \o Scalar(9, m.fee, Empty)
<1>0. SerializeTransaction(m) = w9
  <2>1. IsSeq(Scalar(1, m.type, 0))
    BY ScalarIsSeq
  <2>2. w1 = Scalar(1, m.type, 0)
    BY <2>1, FirstField
  <2> QED
    BY <2>2 DEF SerializeTransaction
<1>r. IsRepeated(r, 4, m.recipients)
  <2>1. r = [i \in DOMAIN m.recipients |-> <<4, m.recipients[i]>>]
    BY DEF Repeated, Itself
  <2>2. IsSeq(m.recipients)
    BY DEF IsTransaction
  <2> QED
    BY <2>1, <2>2, SeqFacts, MappedIsRepeated
<1> HIDE DEF r
<1>1. /\ Written(w1) /\ \A k \in 2..9 : NoneOf(w1, k)
      /\ LastValue(w1, 1, 0) = m.type
  <2>1. Written(w1) /\ LastValue(w1, 1, 0) = m.type /\ Keeps(w1, NoBytes, 1)
    BY NothingWritten, ScalarAppended
  <2> QED
    BY <2>1, NothingWritten DEF Keeps
<1> HIDE DEF w1
<1>2. /\ Written(w2) /\ \A k \in 3..9 : NoneOf(w2, k)
      /\ LastValue(w2, 1, 0) = m.type /\ LastValue(w2, 2, Empty) = m.category
  BY <1>1, ScalarAppended DEF Keeps
<1> HIDE DEF w2
<1>3. /\ Written(w3) /\ \A k \in 4..9 : NoneOf(w3, k)
      /\ LastValue(w3, 1, 0) = m.type /\ LastValue(w3, 2, Empty) = m.category
      /\ LastValue(w3, 3, Empty) = m.sender
  BY <1>2, ScalarAppended DEF Keeps
<1> HIDE DEF w3
<1>4. /\ Written(w4) /\ \A k \in 5..9 : NoneOf(w4, k)
      /\ Values(w4, 4) = m.recipients
      /\ \A k \in 1..3 : Values(w4, k) = Values(w3, k)
  <2>2. Written(w4) /\ Values(w4, 4) = m.recipients /\ Keeps(w4, w3, 4)
    BY <1>3, <1>r, ManyAppended
  <2> QED
    BY <1>3, <2>2 DEF Keeps
<1> HIDE DEF w4
<1>5. /\ Written(w5) /\ \A k \in 6..9 : NoneOf(w5, k)
      /\ LastValue(w5, 5, Empty) = m.data
      /\ \A k \in 1..4 : Values(w5, k) = Values(w4, k)
  BY <1>4, ScalarAppended DEF Keeps
<1> HIDE DEF w5
<1>6. /\ Written(w6) /\ \A k \in 7..9 : NoneOf(w6, k)
      /\ LastValue(w6, 6, Empty) = m.salt
      /\ \A k \in 1..5 : Values(w6, k) = Values(w5, k)
  BY <1>5, ScalarAppended DEF Keeps
<1> HIDE DEF w6
<1>7. /\ Written(w7) /\ \A k \in 8..9 : NoneOf(w7, k)
      /\ LastValue(w7, 7, Empty) = m.apitoken
      /\ \A k \in 1..6 : Values(w7, k) = Values(w6, k)
  BY <1>6, ScalarAppended DEF Keeps
<1> HIDE DEF w7
<1>8. /\ Written(w8) /\ NoneOf(w8, 9)
      /\ LastValue(w8, 8, Null) = m.signature
      /\ \A k \in 1..7 : Values(w8, k) = Values(w7, k)
  BY <1>7, ScalarAppended DEF Keeps
<1> HIDE DEF w8
<1>9. /\ LastValue(w9, 9, Empty) = m.fee
      /\ \A k \in 1..8 : Values(w9, k) = Values(w8, k)
  BY <1>8, ScalarAppended DEF Keeps
<1> HIDE DEF w9
<1>10. /\ LastValue(w9, 1, 0) = m.type /\ LastValue(w9, 2, Empty) = m.category
       /\ LastValue(w9, 3, Empty) = m.sender /\ Values(w9, 4) = m.recipients
       /\ LastValue(w9, 5, Empty) = m.data
  BY <1>3, <1>4, <1>5, <1>6, <1>7, <1>8, <1>9 DEF LastValue
<1>11. /\ LastValue(w9, 6, Empty) = m.salt
       /\ LastValue(w9, 7, Empty) = m.apitoken /\ LastValue(w9, 8, Null) = m.signature
  BY <1>6, <1>7, <1>8, <1>9 DEF LastValue
<1> QED
  BY <1>0, <1>9, <1>10, <1>11 DEF DeserializeTransaction, IsTransaction

IsTxAttestorData(m) == m = [vote |-> m.vote]

LEMMA TxAttestorDataReads ==
  ASSUME NEW m, IsTxAttestorData(m)
  PROVE  DeserializeTxAttestorData(SerializeTxAttestorData(m)) = m
<1>1. SerializeTxAttestorData(m) = NoBytes \o Scalar(1, m.vote, 0)
  BY FirstField, ScalarIsSeq DEF SerializeTxAttestorData
<1>2. LastValue(NoBytes \o Scalar(1, m.vote, 0), 1, 0) = m.vote
  BY NothingWritten, ScalarAppended DEF Keeps
<1> QED
  BY <1>1, <1>2 DEF DeserializeTxAttestorData, IsTxAttestorData

IsSigner(m) == m = [sig |-> m.sig]

LEMMA SignerReads ==
  ASSUME NEW m, IsSigner(m)
  PROVE  DeserializeSigner(SerializeSigner(m)) = m
<1>1. SerializeSigner(m) = NoBytes \o Scalar(1, m.sig, Null)
  BY FirstField, ScalarIsSeq DEF SerializeSigner
<1>2. LastValue(NoBytes \o Scalar(1, m.sig, Null), 1, Null) = m.sig
  BY NothingWritten, ScalarAppended DEF Keeps
<1> QED
  BY <1>1, <1>2 DEF DeserializeSigner, IsSigner

IsTxValidatorData(m) == m = [vote |-> m.vote, didmapping |-> m.didmapping]

LEMMA TxValidatorDataReads ==
  ASSUME NEW m, IsTxValidatorData(m)
  PROVE  DeserializeTxValidatorData(SerializeTxValidatorData(m)) = m
<1> DEFINE w1 == NoBytes \o Scalar(1, m.vote, 0)
           d == Single(2, m.didmapping, Itself)
           w2 == w1 \o d
<1>1. SerializeTxValidatorData(m) = w2
  BY FirstField, ScalarIsSeq DEF SerializeTxValidatorData
<1>2. Written(w1) /\ NoneOf(w1, 2) /\ LastValue(w1, 1, 0) = m.vote
  BY NothingWritten, ScalarAppended DEF Keeps
<1>3. IsSingle(d, 2, m.didmapping, m.didmapping)
  BY DEF Single, Itself, IsSingle
<1> HIDE DEF w1, d
<1>4. /\ ReadsSingle(w2, 2, m.didmapping, m.didmapping)
      /\ Values(w2, 1) = Values(w1, 1)
  <2>1. /\ ReadsSingle(w2, 2, m.didmapping, m.didmapping)
        /\ Keeps(w2, w1, 2)
    BY <1>2, <1>3, SingleAppended
  <2> QED
    BY <2>1 DEF Keeps
<1> HIDE DEF w2
<1>5. LastValue(w2, 1, 0) = m.vote
  BY <1>2, <1>4 DEF LastValue
<1>6. LastMessage(w2, 2, Itself) = m.didmapping
  BY <1>4 DEF LastMessage, Itself, ReadsSingle
<1> QED
  BY <1>1, <1>5, <1>6 DEF DeserializeTxValidatorData, IsTxValidatorData

IsTransactionObj(m) ==
  /\ m = [tx |-> m.tx, validatordata |-> m.validatordata, attestordata |-> m.attestordata]
  /\ m.tx = Null \/ IsTransaction(m.tx)
  /\ m.validatordata = Null \/ IsTxValidatorData(m.validatordata)
  /\ IsSeq(m.attestordata)
  /\ \A i \in DOMAIN m.attestordata : IsTxAttestorData(m.attestordata[i])

LEMMA TransactionObjReads ==
  ASSUME NEW m, IsTransactionObj(m)
  PROVE  DeserializeTransactionObj(SerializeTransactionObj(m)) = m
<1> DEFINE t == Single(1, m.tx, SerializeTransaction)
           d == Single(2, m.validatordata, SerializeTxValidatorData)
           r == Repeated(3, m.attestordata, SerializeTxAttestorData)
           xs == [i \in DOMAIN m.attestordata |-> SerializeTxAttestorData(m.attestordata[i])]
           w1 == NoBytes \o t
           w2 == w1 \o d
           w3 == w2 \o r
<1>1. IsSingle(t, 1, m.tx, SerializeTransaction(m.tx))
  BY DEF Single, IsSingle
<1>2. IsSingle(d, 2, m.validatordata, SerializeTxValidatorData(m.validatordata))
  BY DEF Single, IsSingle
<1>3. IsRepeated(r, 3, xs)
  <2>1. r = [i \in DOMAIN m.attestordata |-> <<3, xs[i]>>]
    BY DEF Repeated
  <2>2. IsSeq(m.attestordata)
    BY DEF IsTransactionObj
  <2> QED
    BY <2>1, <2>2, MappedIsRepeated
<1>4. \A i \in DOMAIN xs : DeserializeTxAttestorData(xs[i]) = m.attestordata[i]
  BY TxAttestorDataReads DEF IsTransactionObj
<1>5. DOMAIN xs = DOMAIN m.attestordata
  OBVIOUS
<1>6. IsSeq(t)
  BY <1>1, EmptyIsSeq, OneIsSeq DEF IsSingle
<1>7. SerializeTransactionObj(m) = w3
  BY <1>6, FirstField DEF SerializeTransactionObj
<1> HIDE DEF t, d, r, xs
<1>8. /\ Written(w1)
      /\ ReadsSingle(w1, 1, m.tx, SerializeTransaction(m.tx))
      /\ NoneOf(w1, 2) /\ NoneOf(w1, 3)
  <2>1. /\ Written(w1) /\ ReadsSingle(w1, 1, m.tx, SerializeTransaction(m.tx))
        /\ Keeps(w1, NoBytes, 1)
    BY <1>1, NothingWritten, SingleAppended
  <2> QED
    BY <2>1, NothingWritten DEF Keeps
<1> HIDE DEF w1
<1>9. /\ Written(w2) /\ NoneOf(w2, 3)
      /\ ReadsSingle(w2, 2, m.validatordata, SerializeTxValidatorData(m.validatordata))
      /\ Values(w2, 1) = Values(w1, 1)
  <2>1. /\ Written(w2) /\ Keeps(w2, w1, 2)
        /\ ReadsSingle(w2, 2, m.validatordata, SerializeTxValidatorData(m.validatordata))
    BY <1>2, <1>8, SingleAppended
  <2> QED
    BY <1>8, <2>1 DEF Keeps
<1> HIDE DEF w2
<1>10. Values(w3, 3) = xs /\ Values(w3, 2) = Values(w2, 2) /\ Values(w3, 1) = Values(w2, 1)
  <2>1. Values(w3, 3) = xs /\ Keeps(w3, w2, 3)
    BY <1>3, <1>9, ManyAppended
  <2> QED
    BY <2>1 DEF Keeps
<1> HIDE DEF w3
<1>11. LastMessage(w3, 1, DeserializeTransaction) = m.tx
  BY <1>8, <1>9, <1>10, TransactionReads DEF LastMessage, IsTransactionObj, ReadsSingle
<1>12. LastMessage(w3, 2, DeserializeTxValidatorData) = m.validatordata
  BY <1>9, <1>10, TxValidatorDataReads DEF LastMessage, IsTransactionObj, ReadsSingle
<1>13. Messages(w3, 3, DeserializeTxAttestorData) = m.attestordata
  <2>1. Messages(w3, 3, DeserializeTxAttestorData)
          = [i \in DOMAIN xs |-> DeserializeTxAttestorData(xs[i])]
    BY <1>10 DEF Messages
  <2>2. m.attestordata = [i \in DOMAIN xs |-> m.attestordata[i]]
    BY <1>5, SeqFacts DEF IsTransactionObj
  <2> QED
    BY <1>4, <2>1, <2>2
<1> QED
  BY <1>7, <1>11, <1>12, <1>13 DEF DeserializeTransactionObj, IsTransactionObj

IsBlock(m) ==
  /\ m = [ts |-> m.ts, attesttoken |-> m.attesttoken, txobj |-> m.txobj, signers |-> m.signers]
  /\ IsSeq(m.txobj) /\ \A k \in DOMAIN m.txobj : IsTransactionObj(m.txobj[k])
  /\ IsSeq(m.signers) /\ \A i \in DOMAIN m.signers : IsSigner(m.signers[i])

\* A block reads back, and its bytes are not empty if it has a time.
LEMMA BlockReads ==
  ASSUME NEW m, IsBlock(m)
  PROVE  DeserializeBlock(SerializeBlock(m)) = m
<1> DEFINE w1 == NoBytes \o Scalar(1, m.ts, 0)
           w2 == w1 \o Scalar(4, m.attesttoken, Empty)
           r == Repeated(2, m.txobj, SerializeTransactionObj)
           xs == [k \in DOMAIN m.txobj |-> SerializeTransactionObj(m.txobj[k])]
           w3 == w2 \o r
           q == Repeated(3, m.signers, SerializeSigner)
           ys == [i \in DOMAIN m.signers |-> SerializeSigner(m.signers[i])]
           w4 == w3 \o q
<1>1. SerializeBlock(m) = w4
  BY FirstField, ScalarIsSeq DEF SerializeBlock
<1>2. IsRepeated(r, 2, xs) /\ IsRepeated(q, 3, ys)
  <2>1. r = [k \in DOMAIN m.txobj |-> <<2, xs[k]>>]
    BY DEF Repeated
  <2>2. q = [i \in DOMAIN m.signers |-> <<3, ys[i]>>]
    BY DEF Repeated
  <2>3. IsSeq(m.txobj) /\ IsSeq(m.signers)
    BY DEF IsBlock
  <2>4. IsRepeated(r, 2, xs)
    BY <2>1, <2>3, MappedIsRepeated
  <2>5. IsRepeated(q, 3, ys)
    BY <2>2, <2>3, MappedIsRepeated
  <2> QED
    BY <2>4, <2>5
<1>3. \A k \in DOMAIN xs : DeserializeTransactionObj(xs[k]) = m.txobj[k]
  BY TransactionObjReads DEF IsBlock
<1>4. \A i \in DOMAIN ys : DeserializeSigner(ys[i]) = m.signers[i]
  BY SignerReads DEF IsBlock
<1>5. /\ DOMAIN xs = DOMAIN m.txobj /\ m.txobj = [k \in DOMAIN xs |-> m.txobj[k]]
      /\ DOMAIN ys = DOMAIN m.signers /\ m.signers = [i \in DOMAIN ys |-> m.signers[i]]
  BY SeqFacts DEF IsBlock
<1> HIDE DEF r, q, xs, ys
<1>6. Written(w1) /\ LastValue(w1, 1, 0) = m.ts /\ Keeps(w1, NoBytes, 1)
  BY NothingWritten, ScalarAppended
<1>7. NoneOf(w1, 2) /\ NoneOf(w1, 3) /\ NoneOf(w1, 4)
  BY <1>6, NothingWritten DEF Keeps
<1> HIDE DEF w1
<1>8. Written(w2) /\ LastValue(w2, 4, Empty) = m.attesttoken /\ Keeps(w2, w1, 4)
  BY <1>6, <1>7, ScalarAppended
<1>9. NoneOf(w2, 2) /\ NoneOf(w2, 3)
  BY <1>7, <1>8 DEF Keeps
<1> HIDE DEF w2
<1>10. Written(w3) /\ Values(w3, 2) = xs /\ Keeps(w3, w2, 2)
  BY <1>2, <1>8, <1>9, ManyAppended
<1>11. NoneOf(w3, 3)
  BY <1>9, <1>10 DEF Keeps
<1> HIDE DEF w3
<1>12. Values(w4, 3) = ys /\ Keeps(w4, w3, 3)
  BY <1>2, <1>10, <1>11, ManyAppended
<1> HIDE DEF w4
<1>13. LastValue(w4, 1, 0) = m.ts /\ LastValue(w4, 4, Empty) = m.attesttoken
       /\ Values(w4, 2) = xs
  BY <1>6, <1>8, <1>10, <1>12 DEF Keeps
<1>14. Messages(w4, 2, DeserializeTransactionObj) = m.txobj
  <2>1. Messages(w4, 2, DeserializeTransactionObj)
          = [k \in DOMAIN xs |-> DeserializeTransactionObj(xs[k])]
    BY <1>13 DEF Messages
  <2> QED
    BY <1>3, <1>5, <2>1
<1>15. Messages(w4, 3, DeserializeSigner) = m.signers
  <2>1. Messages(w4, 3, DeserializeSigner) = [i \in DOMAIN ys |-> DeserializeSigner(ys[i])]
    BY <1>12 DEF Messages
  <2> QED
    BY <1>4, <1>5, <2>1
<1> QED
  BY <1>1, <1>13, <1>14, <1>15 DEF DeserializeBlock, IsBlock

IsAttestBlockResult(m) ==
  /\ m = [attestordata |-> m.attestordata, signer |-> m.signer]
  /\ IsSeq(m.attestordata)
  /\ \A k \in DOMAIN m.attestordata : IsTxAttestorData(m.attestordata[k])
  /\ m.signer = Null \/ IsSigner(m.signer)

LEMMA AttestBlockResultReads ==
  ASSUME NEW m, IsAttestBlockResult(m)
  PROVE  DeserializeAttestBlockResult(SerializeAttestBlockResult(m)) = m
<1> DEFINE r == Repeated(1, m.attestordata, SerializeTxAttestorData)
           xs == [k \in DOMAIN m.attestordata |-> SerializeTxAttestorData(m.attestordata[k])]
           w1 == NoBytes \o r
           s == Single(2, m.signer, SerializeSigner)
           w2 == w1 \o s
<1>1. IsRepeated(r, 1, xs)
  <2>1. r = [k \in DOMAIN m.attestordata |-> <<1, xs[k]>>]
    BY DEF Repeated
  <2>2. IsSeq(m.attestordata)
    BY DEF IsAttestBlockResult
  <2> QED
    BY <2>1, <2>2, MappedIsRepeated
<1>2. IsSingle(s, 2, m.signer, SerializeSigner(m.signer))
  BY DEF Single, IsSingle
<1>3. SerializeAttestBlockResult(m) = w2
  <2>1. IsSeq(r)
    BY <1>1 DEF IsRepeated
  <2> QED
    BY <2>1, FirstField DEF SerializeAttestBlockResult
<1>4. \A k \in DOMAIN xs : DeserializeTxAttestorData(xs[k]) = m.attestordata[k]
  BY TxAttestorDataReads DEF IsAttestBlockResult
<1>5. DOMAIN xs = DOMAIN m.attestordata /\ m.attestordata = [k \in DOMAIN xs |-> m.attestordata[k]]
  BY SeqFacts DEF IsAttestBlockResult
<1> HIDE DEF r, s, xs
<1>6. Written(w1) /\ Values(w1, 1) = xs /\ Keeps(w1, NoBytes, 1)
  BY <1>1, NothingWritten, ManyAppended
<1>7. NoneOf(w1, 2)
  BY <1>6, NothingWritten DEF Keeps
<1> HIDE DEF w1
<1>8. ReadsSingle(w2, 2, m.signer, SerializeSigner(m.signer)) /\ Keeps(w2, w1, 2)
  BY <1>2, <1>6, <1>7, SingleAppended
<1> HIDE DEF w2
<1>9. Values(w2, 1) = xs
  BY <1>6, <1>8 DEF Keeps
<1>10. Messages(w2, 1, DeserializeTxAttestorData) = m.attestordata
  <2>1. Messages(w2, 1, DeserializeTxAttestorData)
          = [k \in DOMAIN xs |-> DeserializeTxAttestorData(xs[k])]
    BY <1>9 DEF Messages
  <2> QED
    BY <1>4, <1>5, <2>1
<1>11. LastMessage(w2, 2, DeserializeSigner) = m.signer
  BY <1>8, SignerReads DEF LastMessage, IsAttestBlockResult, ReadsSingle
<1> QED
  BY <1>3, <1>10, <1>11 DEF DeserializeAttestBlockResult, IsAttestBlockResult

IsAttestSignaturesRequest(m) ==
  /\ m = [ attestations |-> m.attestations, initialblockhash |-> m.initialblockhash,
           finalblockhash |-> m.finalblockhash ]
  /\ IsSeq(m.attestations)
  /\ \A j \in DOMAIN m.attestations : IsAttestBlockResult(m.attestations[j])

LEMMA AttestSignaturesRequestReads ==
  ASSUME NEW m, IsAttestSignaturesRequest(m)
  PROVE  DeserializeAttestSignaturesRequest(SerializeAttestSignaturesRequest(m)) = m
<1> DEFINE r == Repeated(1, m.attestations, SerializeAttestBlockResult)
           xs == [j \in DOMAIN m.attestations |-> SerializeAttestBlockResult(m.attestations[j])]
           w1 == NoBytes \o r
           w2 == w1 \o Scalar(2, m.initialblockhash, Empty)
           w3 == w2 \o Scalar(3, m.finalblockhash, Empty)
<1>1. IsRepeated(r, 1, xs)
  <2>1. r = [j \in DOMAIN m.attestations |-> <<1, xs[j]>>]
    BY DEF Repeated
  <2>2. IsSeq(m.attestations)
    BY DEF IsAttestSignaturesRequest
  <2> QED
    BY <2>1, <2>2, MappedIsRepeated
<1>2. SerializeAttestSignaturesRequest(m) = w3
  <2>1. IsSeq(r)
    BY <1>1 DEF IsRepeated
  <2> QED
    BY <2>1, FirstField DEF SerializeAttestSignaturesRequest
<1>3. \A j \in DOMAIN xs : DeserializeAttestBlockResult(xs[j]) = m.attestations[j]
  BY AttestBlockResultReads DEF IsAttestSignaturesRequest
<1>4. DOMAIN xs = DOMAIN m.attestations /\ m.attestations = [j \in DOMAIN xs |-> m.attestations[j]]
  BY SeqFacts DEF IsAttestSignaturesRequest
<1> HIDE DEF r, xs
<1>5. Written(w1) /\ Values(w1, 1) = xs /\ Keeps(w1, NoBytes, 1)
  BY <1>1, NothingWritten, ManyAppended
<1>6. NoneOf(w1, 2) /\ NoneOf(w1, 3)
  BY <1>5, NothingWritten DEF Keeps
<1> HIDE DEF w1
<1>7. /\ Written(w2) /\ LastValue(w2, 2, Empty) = m.initialblockhash
      /\ Keeps(w2, w1, 2)
  BY <1>5, <1>6, ScalarAppended
<1>8. NoneOf(w2, 3)
  BY <1>6, <1>7 DEF Keeps
<1> HIDE DEF w2
<1>9. LastValue(w3, 3, Empty) = m.finalblockhash /\ Keeps(w3, w2, 3)
  BY <1>7, <1>8, ScalarAppended
<1> HIDE DEF w3
<1>10. Values(w3, 1) = xs /\ LastValue(w3, 2, Empty) = m.initialblockhash
  BY <1>5, <1>7, <1>9 DEF Keeps
<1>11. Messages(w3, 1, DeserializeAttestBlockResult) = m.attestations
  <2>1. Messages(w3, 1, DeserializeAttestBlockResult)
          = [j \in DOMAIN xs |-> DeserializeAttestBlockResult(xs[j])]
    BY <1>10 DEF Messages
  <2> QED
    BY <1>3, <1>4, <2>1
<1> QED
  BY <1>2, <1>9, <1>10, <1>11
     DEF DeserializeAttestSignaturesRequest, IsAttestSignaturesRequest

IsAttestorReport(m) ==
  m = [ nodeid |-> m.nodeid, transactionhash |-> m.transactionhash, vote |-> m.vote,
        dataforsc |-> m.dataforsc, datasigforsc |-> m.datasigforsc ]

LEMMA AttestorReportReads ==
  ASSUME NEW m, IsAttestorReport(m)
  PROVE  DeserializeAttestorReport(SerializeAttestorReport(m)) = m
<1> DEFINE w1 == NoBytes \o Scalar(1, m.nodeid, Empty)
           w2 == w1 \o Scalar(2, m.transactionhash, Empty)
           w3 == w2 \o Scalar(3, m.vote, 0)
           w4 == w3 \o Scalar(4, m.dataforsc, Empty)
           w5 == w4 \o Scalar(5, m.datasigforsc, Empty)
<1>0. SerializeAttestorReport(m) = w5
  <2>1. IsSeq(Scalar(1, m.nodeid, Empty))
    BY ScalarIsSeq
  <2>2. w1 = Scalar(1, m.nodeid, Empty)
    BY <2>1, FirstField
  <2> QED
    BY <2>2 DEF SerializeAttestorReport
<1>1. Written(w1) /\ LastValue(w1, 1, Empty) = m.nodeid /\ Keeps(w1, NoBytes, 1)
  BY NothingWritten, ScalarAppended
<1>2. \A k \in 2..5 : NoneOf(w1, k)
  BY <1>1, NothingWritten DEF Keeps
<1> HIDE DEF w1
<1>3. Written(w2) /\ LastValue(w2, 2, Empty) = m.transactionhash /\ Keeps(w2, w1, 2)
  BY <1>1, <1>2, ScalarAppended
<1>4. \A k \in 3..5 : NoneOf(w2, k)
  BY <1>2, <1>3 DEF Keeps
<1> HIDE DEF w2
<1>5. Written(w3) /\ LastValue(w3, 3, 0) = m.vote /\ Keeps(w3, w2, 3)
  BY <1>3, <1>4, ScalarAppended
<1>6. \A k \in 4..5 : NoneOf(w3, k)
  BY <1>4, <1>5 DEF Keeps
<1> HIDE DEF w3
<1>7. Written(w4) /\ LastValue(w4, 4, Empty) = m.dataforsc /\ Keeps(w4, w3, 4)
  BY <1>5, <1>6, ScalarAppended
<1>8. NoneOf(w4, 5)
  BY <1>6, <1>7 DEF Keeps
<1> HIDE DEF w4
<1>9. LastValue(w5, 5, Empty) = m.datasigforsc /\ Keeps(w5, w4, 5)
  BY <1>7, <1>8, ScalarAppended
<1> HIDE DEF w5
<1>10. /\ LastValue(w5, 1, Empty) = m.nodeid /\ LastValue(w5, 2, Empty) = m.transactionhash
       /\ LastValue(w5, 3, 0) = m.vote /\ LastValue(w5, 4, Empty) = m.dataforsc
  BY <1>1, <1>3, <1>5, <1>7, <1>9 DEF Keeps
<1> QED
  BY <1>0, <1>9, <1>10 DEF DeserializeAttestorReport, IsAttestorReport

IsAttestSignaturesResponse(m) ==
  /\ m = [attestations |-> m.attestations]
  /\ IsSeq(m.attestations)
  /\ \A j \in DOMAIN m.attestations : IsAttestorReport(m.attestations[j])

LEMMA AttestSignaturesResponseReads ==
  ASSUME NEW m, IsAttestSignaturesResponse(m)
  PROVE  DeserializeAttestSignaturesResponse(SerializeAttestSignaturesResponse(m)) = m
<1> DEFINE r == Repeated(1, m.attestations, SerializeAttestorReport)
           xs == [j \in DOMAIN m.attestations |-> SerializeAttestorReport(m.attestations[j])]
           w1 == NoBytes \o r
<1>1. IsRepeated(r, 1, xs)
  <2>1. r = [j \in DOMAIN m.attestations |-> <<1, xs[j]>>]
    BY DEF Repeated
  <2>2. IsSeq(m.attestations)
    BY DEF IsAttestSignaturesResponse
  <2> QED
    BY <2>1, <2>2, MappedIsRepeated
<1>2. SerializeAttestSignaturesResponse(m) = w1
  <2>1. IsSeq(r)
    BY <1>1 DEF IsRepeated
  <2> QED
    BY <2>1, FirstField DEF SerializeAttestSignaturesResponse
<1>3. \A j \in DOMAIN xs : DeserializeAttestorReport(xs[j]) = m.attestations[j]
  BY AttestorReportReads DEF IsAttestSignaturesResponse
<1>4. DOMAIN xs = DOMAIN m.attestations /\ m.attestations = [j \in DOMAIN xs |-> m.attestations[j]]
  BY SeqFacts DEF IsAttestSignaturesResponse
<1> HIDE DEF r, xs
<1>5. Values(w1, 1) = xs
  BY <1>1, NothingWritten, ManyAppended
<1> HIDE DEF w1
<1>6. Messages(w1, 1, DeserializeAttestorReport)
        = [j \in DOMAIN xs |-> DeserializeAttestorReport(xs[j])]
  BY <1>5 DEF Messages
<1>7. Messages(w1, 1, DeserializeAttestorReport) = m.attestations
  BY <1>3, <1>4, <1>6
<1> QED
  BY <1>2, <1>7 DEF DeserializeAttestSignaturesResponse, IsAttestSignaturesResponse

-----------------------------------------------------------------------------
(* Transactions and blocks as they are made *)

LEMMA NullIsNoMessage ==
  /\ \A m : IsTransaction(m) => m # Null
  /\ \A v, d : [vote |-> v, didmapping |-> d] # Null
  /\ \A node, bytes : Sign(node, bytes) # Null
  /\ \A s : [sig |-> s] # Null
<1>1. ASSUME NEW m, IsTransaction(m) PROVE m # Null
  <2>1. "type" \in DOMAIN m
    BY <1>1 DEF IsTransaction
  <2> QED
    BY <2>1 DEF Null
<1>2. \A v, d : [vote |-> v, didmapping |-> d] # Null
  <2>1. \A v, d : "vote" \in DOMAIN [vote |-> v, didmapping |-> d]
    OBVIOUS
  <2> QED
    BY <2>1 DEF Null
<1>3. \A node, bytes : Sign(node, bytes) # Null
  <2>1. \A node, bytes : "by" \in DOMAIN Sign(node, bytes)
    BY DEF Sign
  <2> QED
    BY <2>1 DEF Null
<1>4. \A s : [sig |-> s] # Null
  <2>1. \A s : "sig" \in DOMAIN [sig |-> s]
    OBVIOUS
  <2> QED
    BY <2>1 DEF Null
<1> QED
  BY <1>1, <1>2, <1>3, <1>4

\* Whatever a client sends, what is read is a transaction.
LEMMA RequestsAreTransactions ==
  ASSUME NEW raw \in Requests
  PROVE  IsTransaction(DeserializeTransaction(raw))
<1>1. IsSeq(raw)
  BY BlockSignaturesAssumption DEF IsSeq
<1>2. At(raw, 4) \subseteq 1..Len(raw) /\ Len(raw) \in Nat
  BY <1>1, SeqFacts DEF At
<1>3. IsFiniteSet(At(raw, 4))
  <2>1. 1 \in Int /\ Len(raw) \in Int
    BY <1>2
  <2>2. IsFiniteSet(1..Len(raw))
    BY <2>1, FS_Interval
  <2> QED
    BY <1>2, <2>2, FS_Subset
<1>4. Cardinality(At(raw, 4)) \in Nat
  BY <1>3, FS_CardinalityType
<1>5. IsSeq(Values(raw, 4))
  <2> DEFINE at == At(raw, 4)
             Place(k) == CHOOSE i \in at : Cardinality({j \in at : j <= i}) = k
             vs == [k \in 1..Cardinality(at) |-> raw[Place(k)][2]]
  <2>1. Values(raw, 4) = vs
    BY DEF Values, At
  <2>2. DOMAIN vs = 1..Cardinality(at) /\ vs = [k \in 1..Cardinality(at) |-> vs[k]]
    OBVIOUS
  <2> HIDE DEF vs, at
  <2>3. Cardinality(at) \in Nat
    BY <1>4 DEF at
  <2>4. IsSeq(vs)
    BY <2>2, <2>3, MakeSeq
  <2> QED
    BY <2>1, <2>4
<1> QED
  BY <1>5 DEF DeserializeTransaction, IsTransaction

\* A transaction as the proposer puts it into a block, with some attestations.
TxObj(tx, votes) ==
  [ tx |-> tx, validatordata |-> [vote |-> Accepted, didmapping |-> Null],
    attestordata |-> votes ]

\* The block of the transactions of o with these attestations and signers.
With(o, votes, signers) ==
  [ ts |-> o.ts, attesttoken |-> o.attesttoken,
    txobj |-> [k \in DOMAIN o.txobj |-> TxObj(o.txobj[k].tx, votes[k])],
    signers |-> signers ]

LEMMA WithFields ==
  ASSUME NEW o, NEW votes, NEW signers
  PROVE  LET b == With(o, votes, signers)
         IN  /\ b.ts = o.ts /\ b.attesttoken = o.attesttoken /\ b.signers = signers
             /\ DOMAIN b.txobj = DOMAIN o.txobj
             /\ \A k \in DOMAIN o.txobj :
                  /\ b.txobj[k] = TxObj(o.txobj[k].tx, votes[k])
                  /\ b.txobj[k].tx = o.txobj[k].tx
                  /\ b.txobj[k].attestordata = votes[k]
BY DEF With, TxObj

LEMMA SettingFields ==
  ASSUME NEW t, NEW token, NEW txs, NEW signers
  PROVE  LET b == [ts |-> t, attesttoken |-> token, txobj |-> txs, signers |-> signers]
         IN  /\ \A x : [b EXCEPT !.signers = x]
                      = [ts |-> t, attesttoken |-> token, txobj |-> txs, signers |-> x]
             /\ \A x : [b EXCEPT !.txobj = x]
                      = [ts |-> t, attesttoken |-> token, txobj |-> x, signers |-> signers]
OBVIOUS

\* Setting the attestations or the signers of such a block makes another one.
LEMMA WithSigners ==
  ASSUME NEW o, NEW votes, NEW signers, NEW newSigners
  PROVE  [With(o, votes, signers) EXCEPT !.signers = newSigners] = With(o, votes, newSigners)
<1> DEFINE b == With(o, votes, signers)
           txs == [k \in DOMAIN o.txobj |-> TxObj(o.txobj[k].tx, votes[k])]
<1>1. b = [ts |-> o.ts, attesttoken |-> o.attesttoken, txobj |-> txs, signers |-> signers]
      /\ With(o, votes, newSigners)
          = [ts |-> o.ts, attesttoken |-> o.attesttoken, txobj |-> txs, signers |-> newSigners]
  BY DEF With
<1> HIDE DEF b, txs
<1>2. [b EXCEPT !.signers = newSigners] = With(o, votes, newSigners)
  BY <1>1, SettingFields
<1> QED
  BY <1>2 DEF b

LEMMA WithVotes ==
  ASSUME NEW o, NEW votes, NEW signers, NEW newVotes
  PROVE  WithAttestations(With(o, votes, signers), newVotes) = With(o, newVotes, signers)
<1> DEFINE b == With(o, votes, signers)
           txs == [k \in DOMAIN b.txobj |-> [b.txobj[k] EXCEPT !.attestordata = newVotes[k]]]
           new == [k \in DOMAIN o.txobj |-> TxObj(o.txobj[k].tx, newVotes[k])]
<1>1. \A k \in DOMAIN o.txobj :
        [b.txobj[k] EXCEPT !.attestordata = newVotes[k]] = TxObj(o.txobj[k].tx, newVotes[k])
  <2>1. \A k \in DOMAIN o.txobj : b.txobj[k] = TxObj(o.txobj[k].tx, votes[k])
    BY WithFields
  <2>2. \A t, v, w : [TxObj(t, v) EXCEPT !.attestordata = w] = TxObj(t, w)
    BY DEF TxObj
  <2> QED
    BY <2>1, <2>2
<1>2. txs = new
  BY <1>1, WithFields
<1>3. WithAttestations(b, newVotes) = [b EXCEPT !.txobj = txs]
  BY DEF WithAttestations
<1> HIDE DEF txs
<1>4. [b EXCEPT !.txobj = txs]
        = [ts |-> o.ts, attesttoken |-> o.attesttoken, txobj |-> txs, signers |-> signers]
  <2> DEFINE old == [k \in DOMAIN o.txobj |-> TxObj(o.txobj[k].tx, votes[k])]
  <2>1. b = [ts |-> o.ts, attesttoken |-> o.attesttoken, txobj |-> old, signers |-> signers]
    BY DEF With
  <2> HIDE DEF b, old
  <2> QED
    BY <2>1, SettingFields
<1> QED
  BY <1>2, <1>3, <1>4 DEF With

LEMMA WithIsBlock ==
  ASSUME NEW o, NEW votes, NEW signers,
         IsSeq(o.txobj), \A k \in DOMAIN o.txobj : IsTransaction(o.txobj[k].tx),
         \A k \in DOMAIN o.txobj :
           IsSeq(votes[k]) /\ \A j \in DOMAIN votes[k] : IsTxAttestorData(votes[k][j]),
         IsSeq(signers), \A i \in DOMAIN signers : IsSigner(signers[i])
  PROVE  IsBlock(With(o, votes, signers))
<1> DEFINE b == With(o, votes, signers)
<1>1. b = [ts |-> b.ts, attesttoken |-> b.attesttoken, txobj |-> b.txobj, signers |-> b.signers]
  BY DEF With
<1>2. IsSeq(b.txobj)
  <2>1. DOMAIN b.txobj = DOMAIN o.txobj /\ b.txobj = [k \in DOMAIN o.txobj |-> b.txobj[k]]
    BY DEF With
  <2> HIDE DEF b
  <2> QED
    BY <2>1, MappedSeq
<1>3. ASSUME NEW k \in DOMAIN b.txobj PROVE IsTransactionObj(b.txobj[k])
  <2>1. k \in DOMAIN o.txobj /\ b.txobj[k] = TxObj(o.txobj[k].tx, votes[k])
    BY WithFields
  <2>2. \A t, v : IsTransaction(t) /\ IsSeq(v) /\ (\A j \in DOMAIN v : IsTxAttestorData(v[j]))
                  => IsTransactionObj(TxObj(t, v))
    BY DEF TxObj, IsTransactionObj, IsTxValidatorData
  <2> QED
    BY <2>1, <2>2
<1>4. b.signers = signers
  BY WithFields
<1> HIDE DEF b
<1>5. IsBlock(b)
  BY <1>1, <1>2, <1>3, <1>4 DEF IsBlock
<1> QED
  BY <1>5 DEF b

-----------------------------------------------------------------------------
(* A block from its proposal to its final form *)

\* A transaction that was read from a request and checked.
IsValidTx(t) ==
  /\ t \in {DeserializeTransaction(raw) : raw \in Requests}
  /\ IsTransaction(t)
  /\ CheckTx(t)

NoVotes(o) == [k \in DOMAIN o.txobj |-> <<>>]

\* What the proposer signed, and its signature.
Unattested(o) == With(o, NoVotes(o), <<>>)
ProposerSigner(o) == [sig |-> Sign(Proposer, SerializeBlock(Unattested(o)))]

\* A block of valid transactions with the proposer's signature only.
IsProposed(o) ==
  /\ IsSeq(o.txobj)
  /\ \A k \in DOMAIN o.txobj : IsValidTx(o.txobj[k].tx)
  /\ o = With(o, NoVotes(o), <<ProposerSigner(o)>>)

\* What the attestors sign: the proposal with their own votes.
Yes == [vote |-> Accepted]
Attested(o) == With(o, [k \in DOMAIN o.txobj |-> <<Yes>>], <<ProposerSigner(o)>>)

LEMMA YesIsVote == IsTxAttestorData(Yes) /\ Yes.vote = Accepted
BY DEF Yes, IsTxAttestorData

LEMMA SignersAreSigners ==
  /\ \A o : IsSigner(ProposerSigner(o))
  /\ \A s : IsSigner([sig |-> s])
BY DEF ProposerSigner, IsSigner

LEMMA ProposalsAreBlocks ==
  ASSUME NEW o, IsProposed(o)
  PROVE  /\ IsBlock(o)
         /\ DeserializeBlock(SerializeBlock(o)) = o
         /\ IsBlock(Unattested(o))
         /\ Len(o.signers) = 1 /\ o.signers = <<ProposerSigner(o)>>
         /\ \A k \in DOMAIN o.txobj :
              /\ o.txobj[k] = TxObj(o.txobj[k].tx, <<>>)
              /\ o.txobj[k].attestordata = <<>>
<1> DEFINE votes == NoVotes(o)
<1>1. /\ IsSeq(o.txobj) /\ o = With(o, votes, <<ProposerSigner(o)>>)
      /\ \A k \in DOMAIN o.txobj : IsTransaction(o.txobj[k].tx)
  BY DEF IsProposed, IsValidTx
<1>2. \A k \in DOMAIN o.txobj : votes[k] = <<>>
  BY DEF NoVotes
<1>3. \A k \in DOMAIN o.txobj :
        IsSeq(votes[k]) /\ \A j \in DOMAIN votes[k] : IsTxAttestorData(votes[k][j])
  BY <1>2, EmptyIsSeq
<1> HIDE DEF votes
<1>4. IsSeq(<<ProposerSigner(o)>>) /\ Len(<<ProposerSigner(o)>>) = 1
      /\ \A i \in DOMAIN <<ProposerSigner(o)>> : IsSigner(<<ProposerSigner(o)>>[i])
  BY OneIsSeq, SignersAreSigners
<1>5. IsSeq(<<>>) /\ \A i \in DOMAIN <<>> : IsSigner(<<>>[i])
  BY EmptyIsSeq
<1>6. IsBlock(With(o, votes, <<ProposerSigner(o)>>))
  <2> DEFINE ss == <<ProposerSigner(o)>>
  <2> HIDE DEF ss
  <2>1. IsSeq(ss) /\ \A i \in DOMAIN ss : IsSigner(ss[i])
    BY <1>4 DEF ss
  <2>2. IsBlock(With(o, votes, ss))
    BY <1>1, <1>3, <2>1, WithIsBlock
  <2> QED
    BY <2>2 DEF ss
<1>7. IsBlock(With(o, votes, <<>>))
  <2> DEFINE ss == <<>>
  <2> HIDE DEF ss
  <2>1. IsSeq(ss) /\ \A i \in DOMAIN ss : IsSigner(ss[i])
    BY <1>5 DEF ss
  <2>2. IsBlock(With(o, votes, ss))
    BY <1>1, <1>3, <2>1, WithIsBlock
  <2> QED
    BY <2>2 DEF ss
<1>8. IsBlock(o)
  BY <1>1, <1>6
<1>9. o.signers = <<ProposerSigner(o)>>
  BY <1>1, WithFields
<1>10. \A k \in DOMAIN o.txobj :
         o.txobj[k] = TxObj(o.txobj[k].tx, votes[k]) /\ o.txobj[k].attestordata = votes[k]
  BY <1>1, WithFields
<1>11. IsBlock(Unattested(o))
  BY <1>7 DEF Unattested, votes
<1> QED
  BY <1>2, <1>4, <1>8, <1>9, <1>10, <1>11, BlockReads

\* signBlockAsValidator makes a proposal of the pool.
LEMMA PoolIsProposed ==
  ASSUME NEW p, NEW b, IsSeq(p), \A k \in DOMAIN p : IsValidTx(p[k].tx),
         \A k \in DOMAIN p :
           p[k] = [tx |-> p[k].tx, validatordata |-> Null, attestordata |-> <<>>]
  PROVE  LET new == [ts |-> b, attesttoken |-> Token, txobj |-> p, signers |-> <<>>]
         IN  IsProposed(SignBlockAsValidator(new))
<1> DEFINE new == [ts |-> b, attesttoken |-> Token, txobj |-> p, signers |-> <<>>]
           txs == [k \in DOMAIN p |->
                    [ tx |-> p[k].tx, validatordata |-> [vote |-> Accepted, didmapping |-> Null],
                      attestordata |-> <<>> ]]
           voted == [new EXCEPT !.txobj = txs]
           sig == [sig |-> Sign(Proposer, SerializeBlock(voted))]
           o == [voted EXCEPT !.signers = <<sig>>]
           objs == [k \in DOMAIN p |-> TxObj(p[k].tx, <<>>)]
<1>1. SignBlockAsValidator(new) = o
  BY DEF SignBlockAsValidator
<1>2. txs = objs
  BY DEF TxObj
<1> HIDE DEF txs
<1>3. voted = [ts |-> b, attesttoken |-> Token, txobj |-> objs, signers |-> <<>>]
  BY <1>2, SettingFields
<1> HIDE DEF voted
<1>4. o = [ts |-> b, attesttoken |-> Token, txobj |-> objs, signers |-> <<sig>>]
  <2> HIDE DEF sig, objs
  <2> DEFINE none == <<>>
             ss == <<sig>>
  <2> HIDE DEF none, ss
  <2>1. voted = [ts |-> b, attesttoken |-> Token, txobj |-> objs, signers |-> none]
    BY <1>3 DEF none
  <2>2. [voted EXCEPT !.signers = ss]
          = [ts |-> b, attesttoken |-> Token, txobj |-> objs, signers |-> ss]
    BY <2>1, SettingFields
  <2> QED
    BY <2>2 DEF ss
<1> HIDE DEF sig, o
<1>5. o.ts = b /\ o.attesttoken = Token /\ o.txobj = objs
  BY <1>4
<1>6. DOMAIN o.txobj = DOMAIN p /\ \A k \in DOMAIN p : o.txobj[k].tx = p[k].tx
  BY <1>5 DEF TxObj
<1>7. [k \in DOMAIN o.txobj |-> TxObj(o.txobj[k].tx, NoVotes(o)[k])] = objs
  <2>1. \A k \in DOMAIN p : NoVotes(o)[k] = <<>>
    BY <1>6 DEF NoVotes
  <2> QED
    BY <1>6, <2>1
<1>8. Unattested(o) = voted
  BY <1>3, <1>5, <1>7 DEF Unattested, With
<1>9. o = With(o, NoVotes(o), <<ProposerSigner(o)>>)
  BY <1>4, <1>5, <1>7, <1>8 DEF With, ProposerSigner, sig
<1>10. IsSeq(o.txobj)
  <2>1. DOMAIN objs = DOMAIN p /\ objs = [k \in DOMAIN p |-> objs[k]]
    OBVIOUS
  <2> HIDE DEF objs
  <2> QED
    BY <1>5, <2>1, MappedSeq
<1>11. IsProposed(o)
  BY <1>6, <1>9, <1>10 DEF IsProposed
<1> QED
  BY <1>1, <1>11

\* The signature of the proposer is recovered from what is signed.
LEMMA SignaturesRecover ==
  \A node, bytes : RecoverAddress(bytes, Sign(node, bytes)) = node
BY NullIsNoMessage DEF RecoverAddress, Sign

LEMMA ProposerIsRecovered ==
  ASSUME NEW o, NEW votes, NEW signers, IsProposed(o),
         IsBlock(With(o, votes, signers)), signers[1] = ProposerSigner(o)
  PROVE  RecoverSignerAddress(With(o, votes, signers), 0) = Proposer
<1> DEFINE b == With(o, votes, signers)
           none == [k \in DOMAIN b.txobj |-> <<>>]
           signed == [WithAttestations(b, none) EXCEPT !.signers = <<>>]
<1>1. DeserializeBlock(SerializeBlock(b)) = b
  BY BlockReads
<1>2. RecoverSignerAddress(b, 0) = RecoverAddress(SerializeBlock(signed), b.signers[0 + 1].sig)
  BY <1>1 DEF RecoverSignerAddress
<1>3. DOMAIN b.txobj = DOMAIN o.txobj /\ b.signers = signers
  BY WithFields
<1>4. none = NoVotes(o)
  BY <1>3 DEF NoVotes
<1> HIDE DEF none
<1>5. WithAttestations(b, none) = With(o, NoVotes(o), signers)
  <2>1. WithAttestations(With(o, votes, signers), NoVotes(o)) = With(o, NoVotes(o), signers)
    <3> DEFINE new == NoVotes(o)
    <3> HIDE DEF new
    <3>1. WithAttestations(With(o, votes, signers), new) = With(o, new, signers)
      BY WithVotes
    <3> QED
      BY <3>1 DEF new
  <2> QED
    BY <1>4, <2>1
<1>6. signed = Unattested(o)
  <2> DEFINE nobody == <<>>
  <2> HIDE DEF nobody
  <2>1. [With(o, NoVotes(o), signers) EXCEPT !.signers = nobody] = With(o, NoVotes(o), nobody)
    BY WithSigners
  <2> QED
    BY <1>5, <2>1 DEF Unattested, nobody
<1>7. b.signers[0 + 1].sig = Sign(Proposer, SerializeBlock(Unattested(o)))
  BY <1>3 DEF ProposerSigner
<1> QED
  BY <1>2, <1>6, <1>7, SignaturesRecover

\* The signature and the result of an attestor that accepts everything.
AttestorSigner(i, o) == [sig |-> Sign(Attestors[i], SerializeBlock(Attested(o)))]
AllYes(o) == [k \in DOMAIN o.txobj |-> Yes]
EachYes(o) == [k \in DOMAIN o.txobj |-> <<Yes>>]
PatchOf(i, o) == [attestordata |-> AllYes(o), signer |-> AttestorSigner(i, o)]

\* With the votes of one attestor a proposal becomes what attestors sign.
LEMMA ProposalAttested ==
  ASSUME NEW o, IsProposed(o)
  PROVE  WithAttestations(o, EachYes(o)) = Attested(o)
<1> DEFINE none == NoVotes(o)
           ones == EachYes(o)
           ss == <<ProposerSigner(o)>>
<1>1. o = With(o, none, ss)
  BY DEF IsProposed
<1>2. Attested(o) = With(o, ones, ss)
  BY DEF Attested, EachYes
<1> HIDE DEF none, ones, ss
<1>3. WithAttestations(With(o, none, ss), ones) = With(o, ones, ss)
  BY WithVotes
<1>4. WithAttestations(o, ones) = Attested(o)
  BY <1>1, <1>2, <1>3
<1> QED
  BY <1>4 DEF ones

LEMMA PatchIsMade ==
  ASSUME NEW o, IsProposed(o), NEW i
  PROVE  Patch(i, o) = PatchOf(i, o)
<1> DEFINE votes == [k \in DOMAIN o.txobj |-> AttestorVoteOnTransaction(o.txobj[k])]
           mine == [k \in DOMAIN o.txobj |-> << votes[k] >>]
<1>1. \A k \in DOMAIN o.txobj : CheckTx(o.txobj[k].tx)
  BY DEF IsProposed, IsValidTx
<1>2. \A k \in DOMAIN o.txobj : AttestorVoteOnTransaction(o.txobj[k]) = Yes
  BY <1>1 DEF AttestorVoteOnTransaction, Yes
<1>3. votes = AllYes(o)
  BY <1>2 DEF AllYes
<1>4. mine = EachYes(o)
  BY <1>2 DEF EachYes
<1>5. Patch(i, o) = [ attestordata |-> votes,
                      signer |-> [sig |-> Sign(Attestors[i],
                                               SerializeBlock(WithAttestations(o, mine)))] ]
  BY DEF Patch
<1> HIDE DEF votes, mine
<1> QED
  BY <1>3, <1>4, <1>5, ProposalAttested DEF PatchOf, AttestorSigner

LEMMA PatchIsResult ==
  ASSUME NEW o, IsProposed(o), NEW i
  PROVE  /\ IsAttestBlockResult(PatchOf(i, o))
         /\ DeserializeAttestBlockResult(SerializeAttestBlockResult(PatchOf(i, o))) = PatchOf(i, o)
<1>1. IsSeq(o.txobj)
  BY DEF IsProposed
<1>2. DOMAIN AllYes(o) = DOMAIN o.txobj /\ \A k \in DOMAIN o.txobj : AllYes(o)[k] = Yes
  BY DEF AllYes
<1>3. IsSeq(AllYes(o))
  <2> DEFINE f == AllYes(o)
  <2>1. DOMAIN f = DOMAIN o.txobj /\ f = [k \in DOMAIN o.txobj |-> f[k]]
    BY DEF AllYes
  <2> HIDE DEF f
  <2>2. IsSeq(f)
    BY <1>1, <2>1, MappedSeq
  <2> QED
    BY <2>2 DEF f
<1>4. /\ PatchOf(i, o) = [ attestordata |-> PatchOf(i, o).attestordata,
                           signer |-> PatchOf(i, o).signer ]
      /\ PatchOf(i, o).attestordata = AllYes(o)
      /\ PatchOf(i, o).signer = AttestorSigner(i, o)
  BY DEF PatchOf
<1>5. IsSigner(AttestorSigner(i, o))
  BY SignersAreSigners DEF AttestorSigner
<1>6. IsAttestBlockResult(PatchOf(i, o))
  BY <1>2, <1>3, <1>4, <1>5, YesIsVote DEF IsAttestBlockResult
<1> QED
  BY <1>6, AttestBlockResultReads

LEMMA PatchIsRecovered ==
  ASSUME NEW o, IsProposed(o), NEW i
  PROVE  RecoverPatchAddress(o, PatchOf(i, o)) = Attestors[i]
<1> DEFINE p == PatchOf(i, o)
           only == [k \in DOMAIN o.txobj |-> << p.attestordata[k] >>]
<1>1. DeserializeBlock(SerializeBlock(o)) = o
  BY ProposalsAreBlocks
<1>2. only = EachYes(o)
  BY DEF PatchOf, AllYes, EachYes
<1>3. p.signer.sig = Sign(Attestors[i], SerializeBlock(Attested(o)))
  BY DEF PatchOf, AttestorSigner
<1>4. RecoverPatchAddress(o, p)
        = RecoverAddress(SerializeBlock(WithAttestations(o, only)), p.signer.sig)
  BY <1>1 DEF RecoverPatchAddress
<1> HIDE DEF p, only
<1>5. RecoverPatchAddress(o, p) = Attestors[i]
  BY <1>2, <1>3, <1>4, ProposalAttested, SignaturesRecover
<1> QED
  BY <1>5 DEF p

\* What an attestor asks of a block, whatever attestations it carries.
LEMMA AttestorAccepts ==
  ASSUME NEW o, NEW votes, NEW signers, IsProposed(o),
         IsBlock(With(o, votes, signers)), signers # <<>>, signers[1] = ProposerSigner(o),
         \A k \in DOMAIN o.txobj : Len(votes[k]) = Len(signers) - 1
  PROVE  CheckBlockAsAttestor(With(o, votes, signers))
<1> DEFINE b == With(o, votes, signers)
<1>1. /\ DOMAIN b.txobj = DOMAIN o.txobj /\ b.signers = signers
      /\ \A k \in DOMAIN o.txobj :
           /\ b.txobj[k] = TxObj(o.txobj[k].tx, votes[k])
           /\ b.txobj[k].tx = o.txobj[k].tx
           /\ b.txobj[k].attestordata = votes[k]
  BY WithFields
<1>2. RecoverSignerAddress(b, 0) = Proposer
  BY ProposerIsRecovered
<1>3. \A k \in DOMAIN o.txobj : CheckTx(o.txobj[k].tx) /\ o.txobj[k].tx # Null
  BY NullIsNoMessage DEF IsProposed, IsValidTx
<1>4. \A t, v : /\ TxObj(t, v).validatordata # Null
                /\ TxObj(t, v).validatordata.vote = Accepted
  BY NullIsNoMessage DEF TxObj
<1> HIDE DEF b
<1>5. CheckBlockAsAttestor(b)
  BY <1>1, <1>2, <1>3, <1>4 DEF CheckBlockAsAttestor, Validators
<1> QED
  BY <1>5 DEF b

LEMMA ProposalIsAccepted ==
  ASSUME NEW o, IsProposed(o)
  PROVE  CheckBlockAsAttestor(o)
<1> DEFINE none == NoVotes(o)
           ss == <<ProposerSigner(o)>>
<1>1. o = With(o, none, ss)
  BY DEF IsProposed
<1>2. ss # <<>> /\ ss[1] = ProposerSigner(o) /\ Len(ss) = 1
  BY OneIsSeq
<1>3. \A k \in DOMAIN o.txobj : Len(none[k]) = 0
  BY EmptyIsSeq DEF NoVotes
<1>4. IsBlock(o)
  BY ProposalsAreBlocks
<1> HIDE DEF none, ss
<1>5. IsBlock(With(o, none, ss))
  BY <1>1, <1>4
<1>6. \A k \in DOMAIN o.txobj : Len(none[k]) = Len(ss) - 1
  BY <1>2, <1>3
<1>7. CheckBlockAsAttestor(With(o, none, ss))
  BY <1>2, <1>5, <1>6, AttestorAccepts
<1> QED
  BY <1>1, <1>7

\* The block with the votes and the signatures of all attestors.
Yeses == [j \in Positions |-> Yes]
FinalVotes(o) == [k \in DOMAIN o.txobj |-> Yeses]
AttestorSigners(o) == [j \in Positions |-> AttestorSigner(j, o)]
FinalSigners(o) == <<ProposerSigner(o)>> \o AttestorSigners(o)
PatchesOf(o) == [j \in Positions |-> PatchOf(j, o)]
Final(o) == With(o, FinalVotes(o), FinalSigners(o))

LEMMA AttestorsAreSeq ==
  /\ Len(Attestors) \in Nat /\ Len(Attestors) # 0
  /\ Positions = 1..Len(Attestors)
  /\ \A i \in Positions : Attestors[i] \in Range(Attestors)
<1>1. IsSeq(Attestors) /\ Attestors # <<>>
  BY BlockSignaturesAssumption DEF IsSeq
<1>2. /\ Len(Attestors) \in Nat /\ DOMAIN Attestors = 1..Len(Attestors)
      /\ \A i \in 1..Len(Attestors) : Attestors[i] \in Range(Attestors)
      /\ Len(Attestors) = 0 <=> Attestors = <<>>
  BY <1>1, SeqFacts
<1> QED
  BY <1>1, <1>2 DEF Positions

LEMMA AttestorMap ==
  ASSUME NEW f, DOMAIN f = Positions, f = [j \in Positions |-> f[j]]
  PROVE  IsSeq(f) /\ Len(f) = Len(Attestors)
BY AttestorsAreSeq, MakeSeq

LEMMA FinalVotesFacts ==
  /\ IsSeq(Yeses) /\ Len(Yeses) = Len(Attestors) /\ DOMAIN Yeses = Positions
  /\ \A j \in Positions : Yeses[j] = Yes
<1>1. DOMAIN Yeses = Positions /\ Yeses = [j \in Positions |-> Yeses[j]]
      /\ \A j \in Positions : Yeses[j] = Yes
  BY DEF Yeses
<1> QED
  BY <1>1, AttestorMap

LEMMA FinalSignersFacts ==
  ASSUME NEW o
  PROVE  /\ IsSeq(FinalSigners(o)) /\ Len(FinalSigners(o)) = Len(Attestors) + 1
         /\ DOMAIN FinalSigners(o) = 1..Len(Attestors) + 1
         /\ FinalSigners(o) # <<>>
         /\ FinalSigners(o)[1] = ProposerSigner(o)
         /\ \A i \in Positions : FinalSigners(o)[i + 1] = AttestorSigner(i, o)
         /\ \A i \in DOMAIN FinalSigners(o) : IsSigner(FinalSigners(o)[i])
<1> DEFINE first == <<ProposerSigner(o)>>
           rest == AttestorSigners(o)
           all == first \o rest
           n == Len(Attestors)
<1>1. IsSeq(first) /\ Len(first) = 1 /\ first[1] = ProposerSigner(o)
  BY OneIsSeq
<1>2. IsSeq(rest) /\ Len(rest) = n /\ \A i \in Positions : rest[i] = AttestorSigner(i, o)
  <2>1. DOMAIN rest = Positions /\ rest = [j \in Positions |-> rest[j]]
    BY DEF AttestorSigners
  <2>2. \A i \in Positions : rest[i] = AttestorSigner(i, o)
    BY DEF AttestorSigners
  <2> HIDE DEF rest
  <2> QED
    BY <2>1, <2>2, AttestorMap
<1>3. n \in Nat /\ Positions = 1..n
  BY AttestorsAreSeq
<1> HIDE DEF first, rest, n
<1>4. /\ IsSeq(all) /\ Len(all) = 1 + n /\ DOMAIN all = 1..1 + n
      /\ \A i \in 1..1 : all[i] = first[i]
      /\ \A i \in 1..n : all[1 + i] = rest[i]
  <2>1. /\ IsSeq(all) /\ Len(all) = Len(first) + Len(rest)
        /\ DOMAIN all = 1..Len(first) + Len(rest)
        /\ \A i \in 1..Len(first) : all[i] = first[i]
        /\ \A i \in 1..Len(rest) : all[Len(first) + i] = rest[i]
    <3>1. IsSeq(first) /\ IsSeq(rest)
      BY <1>1, <1>2
    <3> QED
      BY <3>1, Concatenation
  <2> HIDE DEF all
  <2> QED
    BY <1>1, <1>2, <2>1
<1> HIDE DEF all
<1>5. all[1] = ProposerSigner(o)
  BY <1>1, <1>4
<1>6. \A i \in Positions : all[i + 1] = AttestorSigner(i, o)
  <2>1. \A i \in 1..n : 1 + i = i + 1
    BY <1>3
  <2> QED
    BY <1>2, <1>3, <1>4, <2>1
<1>7. ASSUME NEW i \in DOMAIN all PROVE IsSigner(all[i])
  <2>1. CASE i = 1
    BY <1>5, <2>1, SignersAreSigners
  <2>2. CASE i # 1
    <3>1. i - 1 \in Positions /\ (i - 1) + 1 = i
      BY <1>3, <1>4, <2>2
    <3>2. IsSigner(AttestorSigner(i - 1, o))
      BY SignersAreSigners DEF AttestorSigner
    <3> QED
      BY <1>6, <3>1, <3>2
  <2> QED
    BY <2>1, <2>2
<1>8. Len(all) = n + 1 /\ DOMAIN all = 1..n + 1 /\ all # <<>>
  <2>1. 1 + n = n + 1 /\ n + 1 # 0
    BY <1>3
  <2> QED
    BY <1>4, <2>1, SeqFacts
<1>9. FinalSigners(o) = all
  BY DEF FinalSigners, all, first, rest
<1> QED
  BY <1>4, <1>5, <1>6, <1>7, <1>8, <1>9 DEF n

\* The proposer and the attestors assemble the same block of the patches.
LEMMA FinalIsAssembled ==
  ASSUME NEW o, IsProposed(o)
  PROVE  AppendPatches(o, PatchesOf(o)) = Final(o)
<1> DEFINE ps == PatchesOf(o)
           votes == [k \in DOMAIN o.txobj |-> o.txobj[k].attestordata \o VotesOn(k, ps)]
           ss == <<ProposerSigner(o)>>
           none == NoVotes(o)
<1>1. ASSUME NEW k \in DOMAIN o.txobj PROVE VotesOn(k, ps) = Yeses
  <2>1. DOMAIN ps = Positions /\ \A j \in Positions : ps[j].attestordata = AllYes(o)
    BY DEF PatchesOf, PatchOf
  <2>2. AllYes(o)[k] = Yes
    BY DEF AllYes
  <2> HIDE DEF ps
  <2> QED
    BY <2>1, <2>2 DEF VotesOn, Yeses
<1>2. SignersOf(ps) = AttestorSigners(o)
  <2>1. DOMAIN ps = Positions /\ \A j \in Positions : ps[j].signer = AttestorSigner(j, o)
    BY DEF PatchesOf, PatchOf
  <2> HIDE DEF ps
  <2> QED
    BY <2>1 DEF SignersOf, AttestorSigners
<1>3. votes = FinalVotes(o)
  <2>1. \A k \in DOMAIN o.txobj : o.txobj[k].attestordata = <<>>
    BY ProposalsAreBlocks
  <2>2. <<>> \o Yeses = Yeses
    BY FinalVotesFacts, NothingAppended
  <2>3. \A k \in DOMAIN o.txobj : o.txobj[k].attestordata \o VotesOn(k, ps) = Yeses
    BY <1>1, <2>1, <2>2
  <2> QED
    BY <2>3 DEF FinalVotes
<1>4. o = With(o, none, ss)
  BY DEF IsProposed
<1>5. AppendPatches(o, ps)
        = [WithAttestations(o, votes) EXCEPT !.signers = @ \o SignersOf(ps)]
  BY DEF AppendPatches
<1> HIDE DEF ps, votes, none, ss
<1>6. WithAttestations(o, votes) = With(o, votes, ss)
  <2>1. WithAttestations(With(o, none, ss), votes) = With(o, votes, ss)
    BY WithVotes
  <2> QED
    BY <1>4, <2>1
<1>7. With(o, votes, ss).signers = ss
  BY WithFields
<1>8. AppendPatches(o, ps) = With(o, votes, ss \o SignersOf(ps))
  <2> DEFINE new == ss \o SignersOf(ps)
             w == With(o, votes, ss)
  <2>1. AppendPatches(o, ps) = [w EXCEPT !.signers = w.signers \o SignersOf(ps)]
    BY <1>5, <1>6
  <2>2. w.signers \o SignersOf(ps) = new
    BY <1>7
  <2>3. [w EXCEPT !.signers = new] = With(o, votes, new)
    <3> HIDE DEF new
    <3> QED
      BY WithSigners
  <2> HIDE DEF new, w
  <2>4. AppendPatches(o, ps) = With(o, votes, new)
    BY <2>1, <2>2, <2>3
  <2> QED
    BY <2>4 DEF new
<1>9. AppendPatches(o, ps) = With(o, FinalVotes(o), ss \o AttestorSigners(o))
  BY <1>2, <1>3, <1>8
<1> QED
  BY <1>9 DEF Final, FinalSigners, ss, ps

LEMMA FinalIsBlock ==
  ASSUME NEW o, IsProposed(o)
  PROVE  /\ IsBlock(Final(o))
         /\ DeserializeBlock(SerializeBlock(Final(o))) = Final(o)
         /\ Final(o).signers = FinalSigners(o)
         /\ DOMAIN Final(o).txobj = DOMAIN o.txobj
         /\ \A k \in DOMAIN o.txobj :
              /\ Final(o).txobj[k].tx = o.txobj[k].tx
              /\ Final(o).txobj[k].attestordata = Yeses
<1> DEFINE votes == FinalVotes(o)
           ss == FinalSigners(o)
<1>1. IsSeq(o.txobj) /\ \A k \in DOMAIN o.txobj : IsTransaction(o.txobj[k].tx)
  BY DEF IsProposed, IsValidTx
<1>2. \A k \in DOMAIN o.txobj : votes[k] = Yeses
  BY DEF FinalVotes
<1>3. \A k \in DOMAIN o.txobj :
        IsSeq(votes[k]) /\ \A j \in DOMAIN votes[k] : IsTxAttestorData(votes[k][j])
  BY <1>2, FinalVotesFacts, YesIsVote
<1>4. IsSeq(ss) /\ \A i \in DOMAIN ss : IsSigner(ss[i])
  BY FinalSignersFacts
<1>5. Final(o) = With(o, votes, ss)
  BY DEF Final
<1> HIDE DEF votes, ss
<1>6. IsBlock(With(o, votes, ss))
  BY <1>1, <1>3, <1>4, WithIsBlock
<1>7. With(o, votes, ss).signers = ss
  BY WithFields
<1>8. /\ DOMAIN With(o, votes, ss).txobj = DOMAIN o.txobj
      /\ \A k \in DOMAIN o.txobj :
           /\ With(o, votes, ss).txobj[k].tx = o.txobj[k].tx
           /\ With(o, votes, ss).txobj[k].attestordata = votes[k]
  BY WithFields
<1>9. IsBlock(Final(o))
  BY <1>5, <1>6
<1> QED
  BY <1>2, <1>5, <1>7, <1>8, <1>9, BlockReads DEF ss

\* Every signature of the final block is recovered at its position.
LEMMA SignersAreRecovered ==
  ASSUME NEW o, IsProposed(o)
  PROVE  /\ RecoverSignerAddress(Final(o), 0) = Proposer
         /\ \A i \in Positions : RecoverSignerAddress(Final(o), i) = Attestors[i]
<1> DEFINE b == Final(o)
           ss == FinalSigners(o)
           votes == FinalVotes(o)
<1>1. b = With(o, votes, ss)
  BY DEF Final
<1>2. /\ IsBlock(b) /\ DeserializeBlock(SerializeBlock(b)) = b /\ b.signers = ss
      /\ DOMAIN b.txobj = DOMAIN o.txobj
      /\ \A k \in DOMAIN o.txobj : b.txobj[k].attestordata = Yeses
  BY FinalIsBlock
<1>3. /\ ss[1] = ProposerSigner(o)
      /\ \A i \in Positions : ss[i + 1] = AttestorSigner(i, o)
  BY FinalSignersFacts
<1> HIDE DEF b, ss, votes
<1>4. RecoverSignerAddress(b, 0) = Proposer
  <2>1. IsBlock(With(o, votes, ss))
    BY <1>1, <1>2
  <2>2. RecoverSignerAddress(With(o, votes, ss), 0) = Proposer
    BY <1>3, <2>1, ProposerIsRecovered
  <2> QED
    BY <1>1, <2>2
<1>5. ASSUME NEW i \in Positions PROVE RecoverSignerAddress(b, i) = Attestors[i]
  <2> DEFINE one == [k \in DOMAIN b.txobj |-> << b.txobj[k].attestordata[i] >>]
             first == << b.signers[1] >>
             signed == [WithAttestations(b, one) EXCEPT !.signers = first]
  <2>1. i # 0
    BY AttestorsAreSeq
  <2>2. RecoverSignerAddress(b, i) = RecoverAddress(SerializeBlock(signed), b.signers[i + 1].sig)
    BY <1>2, <2>1 DEF RecoverSignerAddress
  <2>3. one = EachYes(o)
    BY <1>2, FinalVotesFacts DEF EachYes
  <2>4. first = <<ProposerSigner(o)>>
    BY <1>2, <1>3
  <2>5. b.signers[i + 1].sig = Sign(Attestors[i], SerializeBlock(Attested(o)))
    <3>1. b.signers[i + 1] = AttestorSigner(i, o)
      BY <1>2, <1>3
    <3> QED
      BY <3>1 DEF AttestorSigner
  <2>6. Attested(o) = With(o, one, first)
    BY <2>3, <2>4 DEF Attested, EachYes
  <2> HIDE DEF one, first
  <2>7. WithAttestations(b, one) = With(o, one, ss)
    <3>1. WithAttestations(With(o, votes, ss), one) = With(o, one, ss)
      BY WithVotes
    <3> QED
      BY <1>1, <3>1
  <2>8. signed = Attested(o)
    <3>1. [With(o, one, ss) EXCEPT !.signers = first] = With(o, one, first)
      BY WithSigners
    <3> QED
      BY <2>6, <2>7, <3>1
  <2> HIDE DEF signed
  <2> QED
    BY <2>2, <2>5, <2>8, SignaturesRecover
<1> QED
  BY <1>4, <1>5 DEF b

LEMMA FinalIsAccepted ==
  ASSUME NEW o, IsProposed(o)
  PROVE  CheckBlockFinalized(Final(o)) /\ CheckBlockAsSNode(Final(o))
<1> DEFINE b == Final(o)
           ss == FinalSigners(o)
           votes == FinalVotes(o)
           n == Len(Attestors)
<1>1. /\ IsBlock(b) /\ b.signers = ss
      /\ DOMAIN b.txobj = DOMAIN o.txobj
      /\ \A k \in DOMAIN o.txobj : b.txobj[k].attestordata = Yeses
  BY FinalIsBlock
<1>2. Len(ss) = n + 1 /\ ss # <<>> /\ ss[1] = ProposerSigner(o)
  BY FinalSignersFacts
<1>3. n \in Nat /\ Positions = 1..n /\ \A i \in Positions : Attestors[i] \in Validators
  BY AttestorsAreSeq DEF Validators
<1>4. b = With(o, votes, ss)
  BY DEF Final
<1>5. \A k \in DOMAIN o.txobj : Len(votes[k]) = n
  BY FinalVotesFacts DEF FinalVotes
<1>6. \A j \in DOMAIN Yeses : Yeses[j].vote \in {Accepted, Rejected}
  BY FinalVotesFacts, YesIsVote
<1>7. RecoverSignerAddress(b, 0) = Proposer
  BY SignersAreRecovered
<1>8. \A i \in Positions : RecoverSignerAddress(b, i) = Attestors[i]
  BY SignersAreRecovered
<1> HIDE DEF b, ss, votes, n
<1>9. CheckBlockAsAttestor(b)
  <2>1. IsBlock(With(o, votes, ss))
    BY <1>1, <1>4
  <2>2. \A k \in DOMAIN o.txobj : Len(votes[k]) = Len(ss) - 1
    BY <1>2, <1>3, <1>5
  <2>3. CheckBlockAsAttestor(With(o, votes, ss))
    BY <1>2, <2>1, <2>2, AttestorAccepts
  <2> QED
    BY <1>4, <2>3
<1>10. \A i \in 1..Len(b.signers) - 1 : RecoverSignerAddress(b, i) \in Validators
  <2>1. Len(b.signers) - 1 = n
    BY <1>1, <1>2, <1>3
  <2> QED
    BY <1>3, <1>8, <2>1
<1>11. \A i \in 0..Len(b.signers) - 1 : RecoverSignerAddress(b, i) \in Validators
  <2>1. \A i \in 0..Len(b.signers) - 1 : i = 0 \/ i \in 1..Len(b.signers) - 1
    OBVIOUS
  <2> QED
    BY <1>7, <1>10, <2>1 DEF Validators
<1>12. Len(b.signers) = Len(Attestors) + 1
  BY <1>1, <1>2 DEF n
<1>13. CheckBlockFinalized(b)
  BY <1>1, <1>6, <1>9, <1>10, <1>12 DEF CheckBlockFinalized
<1>14. CheckBlockAsSNode(b)
  BY <1>11, <1>12 DEF CheckBlockAsSNode
<1> QED
  BY <1>13, <1>14 DEF b

-----------------------------------------------------------------------------
(***************************************************************************)
(* The inductive invariant.  A block either is not sent, or everything     *)
(* that was made of it is what honest nodes make of the one proposal whose *)
(* bytes were sent: all attestors accept it, all of them ask for the same  *)
(* final block, and each of them has the proposal in its cache.            *)
(***************************************************************************)
PoolIsValid ==
  /\ IsSeq(pool)
  /\ Len(pool) <= MaxTransactions
  /\ \A k \in DOMAIN pool :
       /\ IsValidTx(pool[k].tx)
       /\ pool[k] = [tx |-> pool[k].tx, validatordata |-> Null, attestordata |-> <<>>]

Shapes ==
  /\ stage \in [Blocks -> {"waiting", "round1", "round2", "published", "dropped"}]
  /\ DOMAIN block = Blocks /\ DOMAIN sent = Blocks /\ DOMAIN request = Blocks
  /\ DOMAIN replies = Blocks /\ DOMAIN answers = Blocks /\ DOMAIN copies = Blocks
  /\ DOMAIN cached = Positions
  /\ \A b \in Blocks : /\ DOMAIN replies[b] = Positions
                       /\ DOMAIN answers[b] = Positions
                       /\ DOMAIN copies[b] = Positions \cup {0}

\* The messages of round 2 for a proposal.
RequestRecord(o) ==
  [ attestations |-> PatchesOf(o), initialblockhash |-> Hash(SerializeBlock(o)),
    finalblockhash |-> Hash(SerializeBlock(Final(o))) ]
RequestOf(o) == SerializeAttestSignaturesRequest(RequestRecord(o))
Report == [ nodeid |-> Empty, transactionhash |-> Empty, vote |-> 0,
            dataforsc |-> "aa", datasigforsc |-> Empty ]
ResponseRecord == [attestations |-> <<Report>>]
Response == SerializeAttestSignaturesResponse(ResponseRecord)

NotSent(b) ==
  /\ stage[b] = "waiting" /\ block[b] = Null /\ sent[b] = NoBytes /\ request[b] = NoBytes
  /\ \A i \in Positions : replies[b][i] = NoBytes /\ answers[b][i] = NoBytes
  /\ \A n \in Positions \cup {0} : copies[b][n] = NoBytes

UnderWay(b, o) ==
  /\ sent[b] = SerializeBlock(o)
  /\ stage[b] # "waiting"
  /\ block[b] = o \/ block[b] = Final(o)
  /\ stage[b] = "round1" => block[b] = o
  /\ stage[b] \in {"round2", "published"} => block[b] = Final(o) /\ request[b] = RequestOf(o)
  /\ request[b] # NoBytes => /\ request[b] = RequestOf(o)
                             /\ \A i \in Positions : sent[b] \in cached[i]
  /\ \A i \in Positions :
       replies[b][i] # NoBytes => /\ replies[b][i] = SerializeAttestBlockResult(PatchOf(i, o))
                                  /\ sent[b] \in cached[i]
  /\ \A i \in Positions : answers[b][i] # NoBytes => answers[b][i] = Response
  /\ \A n \in Positions \cup {0} :
       copies[b][n] # NoBytes => copies[b][n] = SerializeBlock(Final(o)) /\ request[b] = RequestOf(o)

Proposal(b) == DeserializeBlock(sent[b])
BlockOK(b) == NotSent(b) \/ (IsProposed(Proposal(b)) /\ UnderWay(b, Proposal(b)))

OnlyProposalsCached ==
  \A i \in Positions : \A bytes \in cached[i] :
    \E b \in Blocks : stage[b] # "waiting" /\ bytes = sent[b]

IInv ==
  /\ PoolIsValid
  /\ Shapes
  /\ \A b \in Blocks : BlockOK(b)
  /\ OnlyProposalsCached
  /\ NothingRefused

LEMMA InitInv == Init => IInv
<1> SUFFICES ASSUME Init PROVE IInv
  OBVIOUS
<1>1. PoolIsValid
  <2>1. MaxTransactions \in Nat \ {0}
    BY BlockSignaturesAssumption
  <2> QED
    BY <2>1, EmptyIsSeq DEF PoolIsValid, Init
<1>2. Shapes
  BY DEF Shapes, Init
<1>3. \A b \in Blocks : BlockOK(b)
  BY DEF BlockOK, NotSent, Init
<1>4. OnlyProposalsCached
  BY DEF OnlyProposalsCached, Init
<1> QED
  BY <1>1, <1>2, <1>3, <1>4 DEF IInv, NothingRefused, Init

\* What a step does not touch stays as it was; caches only grow.
LEMMA Untouched ==
  ASSUME NEW c \in Blocks, BlockOK(c), stage'[c] = stage[c], block'[c] = block[c],
         sent'[c] = sent[c], request'[c] = request[c], replies'[c] = replies[c],
         answers'[c] = answers[c], copies'[c] = copies[c],
         \A i \in Positions : cached[i] \subseteq cached'[i]
  PROVE  BlockOK(c)'
<1>1. Proposal(c)' = Proposal(c)
  BY DEF Proposal
<1>2. NotSent(c) => NotSent(c)'
  BY DEF NotSent
<1>3. ASSUME NEW o PROVE UnderWay(c, o) => UnderWay(c, o)'
  BY DEF UnderWay
<1> QED
  BY <1>1, <1>2, <1>3 DEF BlockOK

LEMMA StillCached ==
  ASSUME OnlyProposalsCached, UNCHANGED cached,
         \A b \in Blocks : stage[b] # "waiting" => stage'[b] # "waiting" /\ sent'[b] = sent[b]
  PROVE  OnlyProposalsCached'
BY DEF OnlyProposalsCached

\* A block that is under way has one proposal.
LEMMA OneProposal ==
  ASSUME NEW b \in Blocks, BlockOK(b), sent[b] # NoBytes \/ stage[b] # "waiting"
  PROVE  IsProposed(Proposal(b)) /\ UnderWay(b, Proposal(b))
BY DEF BlockOK, NotSent

LEMMA SendTransactionInv ==
  ASSUME IInv, NEW raw \in Requests, SendTransaction(raw)
  PROVE  IInv'
<1> DEFINE t == DeserializeTransaction(raw)
           new == [tx |-> t, validatordata |-> Null, attestordata |-> <<>>]
<1>1. /\ Len(pool) < MaxTransactions /\ CheckTx(t) /\ pool' = Append(pool, new)
      /\ UNCHANGED <<stage, block, sent, replies, cached, request, answers, copies, refused>>
  BY DEF SendTransaction
<1>2. IsValidTx(t)
  BY <1>1, RequestsAreTransactions DEF IsValidTx
<1>3. new.tx = t /\ new = [tx |-> new.tx, validatordata |-> Null, attestordata |-> <<>>]
  OBVIOUS
<1> HIDE DEF t, new
<1>4. IsSeq(pool) /\ Len(pool) \in Nat /\ DOMAIN pool = 1..Len(pool)
  BY SeqFacts DEF IInv, PoolIsValid
<1>5. /\ Len(pool') = Len(pool) + 1 /\ DOMAIN pool' = 1..Len(pool) + 1
      /\ \A k \in 1..Len(pool) : pool'[k] = pool[k]
      /\ pool'[Len(pool) + 1] = new
      /\ IsSeq(pool')
  <2> DEFINE S == Range(pool) \cup {new}
  <2>1. pool \in Seq(S) /\ new \in S
    BY <1>4, SeqMonotonic DEF IsSeq
  <2> HIDE DEF S
  <2>2. /\ pool' \in Seq(S) /\ Len(pool') = Len(pool) + 1
        /\ \A k \in 1..Len(pool) : pool'[k] = pool[k]
        /\ pool'[Len(pool) + 1] = new
    BY <1>1, <2>1, AppendProperties
  <2>3. DOMAIN pool' = 1..Len(pool') /\ pool' \in [1..Len(pool') -> S]
    BY <2>2, LenProperties
  <2>4. IsSeq(pool')
    <3>1. Len(pool') \in Nat /\ pool' = [k \in 1..Len(pool') |-> pool'[k]]
      BY <1>4, <2>2, <2>3
    <3> QED
      BY <2>3, <3>1, MakeSeq
  <2> QED
    BY <2>2, <2>3, <2>4
<1>6. PoolIsValid'
  <2>1. Len(pool') <= MaxTransactions
    BY <1>1, <1>4, <1>5, BlockSignaturesAssumption
  <2>2. ASSUME NEW k \in DOMAIN pool'
        PROVE  /\ IsValidTx(pool'[k].tx)
               /\ pool'[k] = [tx |-> pool'[k].tx, validatordata |-> Null, attestordata |-> <<>>]
    <3>1. CASE k \in 1..Len(pool)
      BY <1>4, <1>5, <3>1 DEF IInv, PoolIsValid
    <3>2. CASE k = Len(pool) + 1
      BY <1>2, <1>3, <1>5, <3>2
    <3> QED
      BY <1>4, <1>5, <3>1, <3>2
  <2> QED
    BY <1>5, <2>1, <2>2 DEF PoolIsValid
<1>7. Shapes' /\ NothingRefused' /\ OnlyProposalsCached'
  BY <1>1 DEF IInv, Shapes, NothingRefused, OnlyProposalsCached
<1>8. ASSUME NEW c \in Blocks PROVE BlockOK(c)'
  BY <1>1, Untouched DEF IInv
<1> QED
  BY <1>6, <1>7, <1>8 DEF IInv

LEMMA DropBlockInv ==
  ASSUME IInv, NEW b \in Blocks, DropBlock(b)
  PROVE  IInv'
<1>1. /\ stage[b] \in {"round1", "round2"} /\ stage' = [stage EXCEPT ![b] = "dropped"]
      /\ UNCHANGED <<pool, block, sent, replies, cached, request, answers, copies, refused>>
  BY DEF DropBlock
<1>2. /\ PoolIsValid /\ Shapes /\ OnlyProposalsCached /\ NothingRefused
      /\ \A c \in Blocks : BlockOK(c)
  BY DEF IInv
<1>3. stage'[b] = "dropped" /\ \A c \in Blocks : c # b => stage'[c] = stage[c]
  BY <1>1, <1>2 DEF Shapes
<1>4. PoolIsValid' /\ Shapes' /\ NothingRefused'
  BY <1>1, <1>2 DEF PoolIsValid, Shapes, NothingRefused
<1>5. OnlyProposalsCached'
  BY <1>1, <1>2, <1>3, StillCached
<1>6. ASSUME NEW c \in Blocks PROVE BlockOK(c)'
  <2>1. CASE c # b
    BY <1>1, <1>2, <1>3, <2>1, Untouched
  <2>2. CASE c = b
    <3>1. IsProposed(Proposal(b)) /\ UnderWay(b, Proposal(b))
      BY <1>1, <1>2, OneProposal
    <3>2. Proposal(b)' = Proposal(b)
      BY <1>1 DEF Proposal
    <3>3. ASSUME NEW o, UnderWay(b, o) PROVE UnderWay(b, o)'
      BY <1>1, <1>3, <3>3 DEF UnderWay
    <3> QED
      BY <2>2, <3>1, <3>2, <3>3 DEF BlockOK
  <2> QED
    BY <2>1, <2>2
<1> QED
  BY <1>4, <1>5, <1>6 DEF IInv

LEMMA SendBlockInv ==
  ASSUME IInv, NEW b \in Blocks, SendBlock(b)
  PROVE  IInv'
<1> DEFINE new == [ts |-> b, attesttoken |-> Token, txobj |-> pool, signers |-> <<>>]
<1>0. PICK o : o = SignBlockAsValidator(new)
  OBVIOUS
<1>1. /\ stage[b] = "waiting" /\ pool' = <<>>
      /\ stage' = [stage EXCEPT ![b] = "round1"]
      /\ block' = [block EXCEPT ![b] = o]
      /\ sent' = [sent EXCEPT ![b] = SerializeBlock(DeserializeBlock(SerializeBlock(o)))]
      /\ UNCHANGED <<replies, cached, request, answers, copies, refused>>
  BY <1>0 DEF SendBlock
<1>2. /\ PoolIsValid /\ Shapes /\ OnlyProposalsCached /\ NothingRefused
      /\ \A c \in Blocks : BlockOK(c)
  BY DEF IInv
<1>3. IsProposed(o)
  BY <1>0, <1>2, PoolIsProposed DEF PoolIsValid
<1>4. DeserializeBlock(SerializeBlock(o)) = o
  BY <1>3, ProposalsAreBlocks
<1>5. /\ stage'[b] = "round1" /\ block'[b] = o /\ sent'[b] = SerializeBlock(o)
      /\ \A c \in Blocks : c # b => /\ stage'[c] = stage[c] /\ block'[c] = block[c]
                                    /\ sent'[c] = sent[c]
  BY <1>1, <1>2, <1>4 DEF Shapes
<1>6. PoolIsValid'
  <2>1. MaxTransactions \in Nat \ {0}
    BY BlockSignaturesAssumption
  <2> QED
    BY <1>1, <2>1, EmptyIsSeq DEF PoolIsValid
<1>7. Shapes' /\ NothingRefused'
  BY <1>1, <1>2 DEF Shapes, NothingRefused
<1>8. OnlyProposalsCached'
  <2>1. \A c \in Blocks : stage[c] # "waiting" => stage'[c] # "waiting" /\ sent'[c] = sent[c]
    BY <1>1, <1>5
  <2> QED
    BY <1>1, <1>2, <2>1, StillCached
<1>9. ASSUME NEW c \in Blocks PROVE BlockOK(c)'
  <2>1. CASE c # b
    BY <1>1, <1>2, <1>5, <2>1, Untouched
  <2>2. CASE c = b
    <3>1. NotSent(b)
      BY <1>1, <1>2 DEF BlockOK, UnderWay
    <3>2. Proposal(b)' = o
      BY <1>4, <1>5 DEF Proposal
    <3>3. UnderWay(b, o)'
      BY <1>1, <1>5, <3>1 DEF UnderWay, NotSent
    <3> QED
      BY <1>3, <2>2, <3>2, <3>3 DEF BlockOK
  <2> QED
    BY <2>1, <2>2
<1> QED
  BY <1>6, <1>7, <1>8, <1>9 DEF IInv

LEMMA AttestBlockInv ==
  ASSUME IInv, NEW b \in Blocks, NEW i \in Positions, AttestBlock(b, i)
  PROVE  IInv'
<1>0. PICK o : o = Proposal(b)
  OBVIOUS
<1> DEFINE reply == SerializeAttestBlockResult(PatchOf(i, o))
<1>1. /\ PoolIsValid /\ Shapes /\ OnlyProposalsCached /\ NothingRefused
      /\ \A c \in Blocks : BlockOK(c)
  BY DEF IInv
<1>2. sent[b] # NoBytes
  BY DEF AttestBlock
<1>3. IsProposed(o) /\ UnderWay(b, o)
  BY <1>0, <1>1, <1>2, OneProposal
<1>4. /\ CheckBlockAsAttestor(o) /\ Len(o.signers) = 1
      /\ \A k \in DOMAIN o.txobj : o.txobj[k].attestordata = <<>>
  BY <1>3, ProposalIsAccepted, ProposalsAreBlocks
<1>5. Patch(i, o) = PatchOf(i, o)
  BY <1>3, PatchIsMade
<1>6. /\ cached' = [cached EXCEPT ![i] = cached[i] \cup {sent[b]}]
      /\ replies' = [replies EXCEPT ![b][i] = reply]
      /\ UNCHANGED <<pool, stage, block, sent, request, answers, copies, refused>>
  <2>1. o = DeserializeBlock(sent[b])
    BY <1>0 DEF Proposal
  <2> QED
    BY <1>4, <1>5, <2>1 DEF AttestBlock
<1> HIDE DEF reply
<1>7. /\ cached'[i] = cached[i] \cup {sent[b]}
      /\ \A j \in Positions : j # i => cached'[j] = cached[j]
      /\ \A j \in Positions : cached[j] \subseteq cached'[j]
  BY <1>1, <1>6 DEF Shapes
<1>8. /\ replies'[b][i] = reply
      /\ \A j \in Positions : j # i => replies'[b][j] = replies[b][j]
      /\ \A c \in Blocks : c # b => replies'[c] = replies[c]
  BY <1>1, <1>6 DEF Shapes
<1>9. PoolIsValid' /\ NothingRefused'
  BY <1>1, <1>6 DEF PoolIsValid, NothingRefused
<1>10. Shapes'
  BY <1>1, <1>6 DEF Shapes
<1>11. OnlyProposalsCached'
  <2>1. stage[b] # "waiting"
    BY <1>3 DEF UnderWay
  <2>2. ASSUME NEW j \in Positions, NEW bytes \in cached'[j]
        PROVE  \E c \in Blocks : stage[c] # "waiting" /\ bytes = sent[c]
    <3>1. CASE bytes \in cached[j]
      BY <1>1, <3>1 DEF OnlyProposalsCached
    <3>2. CASE bytes \notin cached[j]
      BY <1>7, <2>1, <2>2, <3>2
    <3> QED
      BY <3>1, <3>2
  <2> QED
    BY <1>6, <2>2 DEF OnlyProposalsCached
<1>12. ASSUME NEW c \in Blocks PROVE BlockOK(c)'
  <2>1. CASE c # b
    BY <1>1, <1>6, <1>7, <1>8, <2>1, Untouched
  <2>2. CASE c = b
    <3>1. Proposal(b)' = o
      BY <1>0, <1>6 DEF Proposal
    <3>2. \A j \in Positions :
            replies'[b][j] # NoBytes =>
              /\ replies'[b][j] = SerializeAttestBlockResult(PatchOf(j, o))
              /\ sent[b] \in cached'[j]
      <4>1. ASSUME NEW j \in Positions, j # i, replies'[b][j] # NoBytes
            PROVE  /\ replies'[b][j] = SerializeAttestBlockResult(PatchOf(j, o))
                   /\ sent[b] \in cached'[j]
        BY <1>3, <1>7, <1>8, <4>1 DEF UnderWay
      <4>2. /\ replies'[b][i] = SerializeAttestBlockResult(PatchOf(i, o))
            /\ sent[b] \in cached'[i]
        BY <1>7, <1>8 DEF reply
      <4> QED
        BY <4>1, <4>2
    <3>3. UnderWay(b, o)'
      BY <1>3, <1>6, <1>7, <3>2 DEF UnderWay
    <3> QED
      BY <1>3, <2>2, <3>1, <3>3 DEF BlockOK
  <2> QED
    BY <2>1, <2>2
<1> QED
  BY <1>9, <1>10, <1>11, <1>12 DEF IInv

\* The messages of round 2 read back.
LEMMA RequestReads ==
  ASSUME NEW o, IsProposed(o)
  PROVE  /\ DOMAIN PatchesOf(o) = Positions
         /\ \A j \in Positions : PatchesOf(o)[j] = PatchOf(j, o)
         /\ DeserializeAttestSignaturesRequest(RequestOf(o)) = RequestRecord(o)
<1> DEFINE ps == PatchesOf(o)
           r == RequestRecord(o)
<1>1. DOMAIN ps = Positions /\ ps = [j \in Positions |-> ps[j]]
      /\ \A j \in Positions : ps[j] = PatchOf(j, o)
  BY DEF PatchesOf
<1>2. r = [ attestations |-> r.attestations, initialblockhash |-> r.initialblockhash,
            finalblockhash |-> r.finalblockhash ]
      /\ r.attestations = ps
  BY DEF RequestRecord
<1> HIDE DEF ps, r
<1>3. IsSeq(ps)
  BY <1>1, AttestorMap
<1>4. \A j \in DOMAIN ps : IsAttestBlockResult(ps[j])
  BY <1>1, PatchIsResult
<1>5. IsAttestSignaturesRequest(r)
  BY <1>2, <1>3, <1>4 DEF IsAttestSignaturesRequest
<1>6. DeserializeAttestSignaturesRequest(SerializeAttestSignaturesRequest(r)) = r
  BY <1>5, AttestSignaturesRequestReads
<1> QED
  BY <1>1, <1>6 DEF RequestOf, ps, r

LEMMA SendPatchesInv ==
  ASSUME IInv, NEW b \in Blocks, SendPatches(b)
  PROVE  IInv'
<1>0. PICK o : o = Proposal(b)
  OBVIOUS
<1> DEFINE patches == [i \in Positions |-> DeserializeAttestBlockResult(replies[b][i])]
           asr == [ attestations |-> patches, initialblockhash |-> Hash(sent[b]),
                    finalblockhash |-> Hash(SerializeBlock(AppendPatches(block[b], patches))) ]
<1>1. /\ PoolIsValid /\ Shapes /\ OnlyProposalsCached /\ NothingRefused
      /\ \A c \in Blocks : BlockOK(c)
  BY DEF IInv
<1>2. stage[b] = "round1" /\ \A i \in Positions : replies[b][i] # NoBytes
  BY DEF SendPatches
<1>3. IsProposed(o) /\ UnderWay(b, o)
  BY <1>0, <1>1, <1>2, OneProposal
<1>4. block[b] = o /\ sent[b] = SerializeBlock(o) /\ o = DeserializeBlock(sent[b])
  BY <1>0, <1>2, <1>3 DEF UnderWay, Proposal
<1>5. patches = PatchesOf(o)
  <2>1. \A i \in Positions : replies[b][i] = SerializeAttestBlockResult(PatchOf(i, o))
    BY <1>2, <1>3 DEF UnderWay
  <2>2. \A i \in Positions :
          DeserializeAttestBlockResult(SerializeAttestBlockResult(PatchOf(i, o))) = PatchOf(i, o)
    BY <1>3, PatchIsResult
  <2>3. \A i \in Positions : DeserializeAttestBlockResult(replies[b][i]) = PatchOf(i, o)
    BY <2>1, <2>2
  <2> QED
    BY <2>3 DEF PatchesOf
<1>6. AppendPatches(block[b], patches) = Final(o)
  BY <1>3, <1>4, <1>5, FinalIsAssembled
<1>7. asr = RequestRecord(o)
  BY <1>4, <1>5, <1>6 DEF RequestRecord
<1>8. /\ stage' = [stage EXCEPT ![b] = "round2"]
      /\ block' = [block EXCEPT ![b] = AppendPatches(block[b], patches)]
      /\ request' = [request EXCEPT ![b] = SerializeAttestSignaturesRequest(asr)]
      /\ UNCHANGED <<pool, sent, replies, cached, answers, copies, refused>>
  BY DEF SendPatches
<1> HIDE DEF patches, asr
<1>9. /\ stage'[b] = "round2" /\ block'[b] = Final(o) /\ request'[b] = RequestOf(o)
       /\ \A c \in Blocks : c # b => /\ stage'[c] = stage[c] /\ block'[c] = block[c]
                                     /\ request'[c] = request[c]
  BY <1>1, <1>6, <1>7, <1>8 DEF Shapes, RequestOf
<1>10. PoolIsValid' /\ NothingRefused' /\ Shapes'
  BY <1>1, <1>8 DEF PoolIsValid, NothingRefused, Shapes
<1>11. OnlyProposalsCached'
  <2>1. \A c \in Blocks : stage[c] # "waiting" => stage'[c] # "waiting" /\ sent'[c] = sent[c]
    BY <1>8, <1>9
  <2> QED
    BY <1>1, <1>8, <2>1, StillCached
<1>12. ASSUME NEW c \in Blocks PROVE BlockOK(c)'
  <2>1. CASE c # b
    BY <1>1, <1>8, <1>9, <2>1, Untouched
  <2>2. CASE c = b
    <3>1. Proposal(b)' = o
      BY <1>0, <1>8 DEF Proposal
    <3>2. \A i \in Positions : sent[b] \in cached[i]
      BY <1>2, <1>3 DEF UnderWay
    <3>3. UnderWay(b, o)'
      BY <1>3, <1>8, <1>9, <3>2 DEF UnderWay
    <3> QED
      BY <1>3, <2>2, <3>1, <3>3 DEF BlockOK
  <2> QED
    BY <2>1, <2>2
<1> QED
  BY <1>10, <1>11, <1>12 DEF IInv

LEMMA PublishBlockInv ==
  ASSUME IInv, NEW b \in Blocks, PublishBlock(b)
  PROVE  IInv'
<1>0. PICK o : o = Proposal(b)
  OBVIOUS
<1>1. /\ PoolIsValid /\ Shapes /\ OnlyProposalsCached /\ NothingRefused
      /\ \A c \in Blocks : BlockOK(c)
  BY DEF IInv
<1>2. stage[b] = "round2"
  BY DEF PublishBlock
<1>3. IsProposed(o) /\ UnderWay(b, o)
  BY <1>0, <1>1, <1>2, OneProposal
<1>4. block[b] = Final(o) /\ request[b] = RequestOf(o)
  BY <1>2, <1>3 DEF UnderWay
<1>5. CheckBlockFinalized(block[b]) /\ CheckBlockAsSNode(block[b])
  BY <1>3, <1>4, FinalIsAccepted
<1>6. /\ stage' = [stage EXCEPT ![b] = "published"]
      /\ copies' = [copies EXCEPT ![b][0] = SerializeBlock(block[b])]
      /\ UNCHANGED <<pool, block, sent, replies, cached, request, answers, refused>>
  BY <1>5 DEF PublishBlock
<1>7. /\ stage'[b] = "published" /\ copies'[b][0] = SerializeBlock(Final(o))
      /\ \A n \in Positions : copies'[b][n] = copies[b][n]
      /\ \A c \in Blocks : c # b => stage'[c] = stage[c] /\ copies'[c] = copies[c]
  <2>1. 0 \notin Positions
    BY AttestorsAreSeq
  <2>2. /\ stage'[b] = "published" /\ copies'[b][0] = SerializeBlock(block[b])
        /\ \A n \in Positions : copies'[b][n] = copies[b][n]
    BY <1>1, <1>6, <2>1 DEF Shapes
  <2>3. \A c \in Blocks : c # b => stage'[c] = stage[c] /\ copies'[c] = copies[c]
    BY <1>1, <1>6 DEF Shapes
  <2> QED
    BY <1>4, <2>2, <2>3
<1>8. PoolIsValid' /\ NothingRefused' /\ Shapes'
  BY <1>1, <1>6 DEF PoolIsValid, NothingRefused, Shapes
<1>9. OnlyProposalsCached'
  <2>1. \A c \in Blocks : stage[c] # "waiting" => stage'[c] # "waiting" /\ sent'[c] = sent[c]
    BY <1>6, <1>7
  <2> QED
    BY <1>1, <1>6, <2>1, StillCached
<1>10. ASSUME NEW c \in Blocks PROVE BlockOK(c)'
  <2>1. CASE c # b
    BY <1>1, <1>6, <1>7, <2>1, Untouched
  <2>2. CASE c = b
    <3>1. Proposal(b)' = o
      BY <1>0, <1>6 DEF Proposal
    <3>2. UnderWay(b, o)'
      BY <1>3, <1>4, <1>6, <1>7 DEF UnderWay
    <3> QED
      BY <1>3, <2>2, <3>1, <3>2 DEF BlockOK
  <2> QED
    BY <2>1, <2>2
<1> QED
  BY <1>8, <1>9, <1>10 DEF IInv

LEMMA AttestSignaturesInv ==
  ASSUME IInv, NEW b \in Blocks, NEW i \in Positions, AttestSignatures(b, i)
  PROVE  IInv'
<1>0. PICK o : o = Proposal(b)
  OBVIOUS
<1> DEFINE asr == DeserializeAttestSignaturesRequest(request[b])
           hits == {bytes \in cached[i] : Hash(bytes) = asr.initialblockhash}
           original == DeserializeBlock(CHOOSE bytes \in hits : TRUE)
           signers == {RecoverPatchAddress(original, asr.attestations[j]) :
                         j \in DOMAIN asr.attestations}
           assembled == AssembleBlock(original, asr.attestations)
<1>1. /\ PoolIsValid /\ Shapes /\ OnlyProposalsCached /\ NothingRefused
      /\ \A c \in Blocks : BlockOK(c)
  BY DEF IInv
<1>2. request[b] # NoBytes
  BY DEF AttestSignatures
<1>3. IsProposed(o) /\ UnderWay(b, o)
  BY <1>0, <1>1, <1>2 DEF BlockOK, NotSent
<1>4. request[b] = RequestOf(o) /\ sent[b] \in cached[i] /\ sent[b] = SerializeBlock(o)
  BY <1>2, <1>3 DEF UnderWay
<1>5. asr = RequestRecord(o)
  BY <1>3, <1>4, RequestReads
<1>6. hits = {sent[b]}
  <2>1. asr.initialblockhash = Hash(sent[b])
    BY <1>4, <1>5 DEF RequestRecord
  <2>2. \A x, y : Hash(x) = Hash(y) => x = y
    BY DEF Hash
  <2> HIDE DEF asr
  <2> QED
    BY <1>4, <2>1, <2>2
<1>7. original = o
  <2>1. (CHOOSE bytes \in {sent[b]} : TRUE) = sent[b]
    OBVIOUS
  <2> QED
    BY <1>0, <1>6, <2>1 DEF Proposal
<1>8. asr.attestations = PatchesOf(o)
  BY <1>5 DEF RequestRecord
<1> HIDE DEF asr, original
<1>9. assembled = Final(o)
  BY <1>3, <1>7, <1>8, FinalIsAssembled DEF AssembleBlock
<1>10. signers = Range(Attestors)
  <2>1. DOMAIN asr.attestations = Positions
    BY <1>3, <1>8, RequestReads
  <2>2. \A j \in Positions : RecoverPatchAddress(original, asr.attestations[j]) = Attestors[j]
    BY <1>3, <1>7, <1>8, RequestReads, PatchIsRecovered
  <2>3. Range(Attestors) = {Attestors[j] : j \in Positions}
    BY DEF Range, Positions
  <2> QED
    BY <2>1, <2>2, <2>3
<1>11. /\ hits # {} /\ signers \subseteq Validators /\ Attestors[i] \in signers
       /\ CheckBlockFinalized(assembled)
  <2>1. signers \subseteq Validators /\ Attestors[i] \in signers
    BY <1>10, AttestorsAreSeq DEF Validators
  <2>2. hits # {}
    BY <1>6
  <2>3. CheckBlockFinalized(assembled)
    BY <1>3, <1>9, FinalIsAccepted
  <2> QED
    BY <2>1, <2>2, <2>3
<1>12. /\ copies' = [copies EXCEPT ![b][i] = SerializeBlock(assembled)]
       /\ answers' = [answers EXCEPT ![b][i] = Response]
       /\ UNCHANGED <<pool, stage, block, sent, replies, cached, request, refused>>
  BY <1>11 DEF AttestSignatures, asr, original, Response, ResponseRecord, Report
<1> HIDE DEF hits, signers, assembled
<1>13. i \in Positions \cup {0}
  OBVIOUS
<1>14. /\ copies'[b][i] = SerializeBlock(Final(o))
       /\ \A n \in Positions \cup {0} : n # i => copies'[b][n] = copies[b][n]
       /\ answers'[b][i] = Response
       /\ \A j \in Positions : j # i => answers'[b][j] = answers[b][j]
       /\ \A c \in Blocks : c # b => copies'[c] = copies[c] /\ answers'[c] = answers[c]
  BY <1>1, <1>9, <1>12, <1>13 DEF Shapes
<1>15. PoolIsValid' /\ NothingRefused' /\ Shapes' /\ OnlyProposalsCached'
  BY <1>1, <1>12, <1>13 DEF PoolIsValid, NothingRefused, Shapes, OnlyProposalsCached
<1>16. ASSUME NEW c \in Blocks PROVE BlockOK(c)'
  <2>1. CASE c # b
    BY <1>1, <1>12, <1>14, <2>1, Untouched
  <2>2. CASE c = b
    <3>1. Proposal(b)' = o
      BY <1>0, <1>12 DEF Proposal
    <3>2. \A j \in Positions : answers'[b][j] # NoBytes => answers'[b][j] = Response
      BY <1>3, <1>14 DEF UnderWay
    <3>3. \A n \in Positions \cup {0} :
            copies'[b][n] # NoBytes => /\ copies'[b][n] = SerializeBlock(Final(o))
                                       /\ request[b] = RequestOf(o)
      BY <1>3, <1>4, <1>14 DEF UnderWay
    <3>4. UnderWay(b, o)'
      BY <1>3, <1>12, <3>2, <3>3 DEF UnderWay
    <3> QED
      BY <1>3, <2>2, <3>1, <3>4 DEF BlockOK
  <2> QED
    BY <2>1, <2>2
<1> QED
  BY <1>15, <1>16 DEF IInv

LEMMA NextInv == IInv /\ [Next]_vars => IInv'
<1> SUFFICES ASSUME IInv, [Next]_vars PROVE IInv'
  OBVIOUS
<1>1. ASSUME NEW raw \in Requests, SendTransaction(raw) PROVE IInv'
  BY <1>1, SendTransactionInv
<1>2. ASSUME NEW b \in Blocks, SendBlock(b) PROVE IInv'
  BY <1>2, SendBlockInv
<1>3. ASSUME NEW b \in Blocks, SendPatches(b) PROVE IInv'
  BY <1>3, SendPatchesInv
<1>4. ASSUME NEW b \in Blocks, PublishBlock(b) PROVE IInv'
  BY <1>4, PublishBlockInv
<1>5. ASSUME NEW b \in Blocks, DropBlock(b) PROVE IInv'
  BY <1>5, DropBlockInv
<1>6. ASSUME NEW b \in Blocks, NEW i \in Positions, AttestBlock(b, i) PROVE IInv'
  BY <1>6, AttestBlockInv
<1>7. ASSUME NEW b \in Blocks, NEW i \in Positions, AttestSignatures(b, i) PROVE IInv'
  BY <1>7, AttestSignaturesInv
<1>8. CASE UNCHANGED vars
  <2>1. UNCHANGED <<pool, stage, block, sent, replies, cached, request, answers, copies, refused>>
    BY <1>8 DEF vars
  <2>2. PoolIsValid' /\ Shapes' /\ OnlyProposalsCached' /\ NothingRefused'
    BY <2>1 DEF IInv, PoolIsValid, Shapes, OnlyProposalsCached, NothingRefused
  <2>3. \A c \in Blocks : BlockOK(c)'
    BY <2>1, Untouched DEF IInv
  <2> QED
    BY <2>2, <2>3 DEF IInv
<1> QED
  BY <1>1, <1>2, <1>3, <1>4, <1>5, <1>6, <1>7, <1>8 DEF Next

\* The inductive invariant holds: whatever is sent or published for a block is
\* made of the one proposal the attestors received.
THEOREM Invariance == Spec => []IInv
<1> QED
  BY InitInv, NextInv, PTL DEF Spec

-----------------------------------------------------------------------------
(* Bytes that are not there read as the message without fields *)

LEMMA NoBytesAreCanonical ==
  /\ SerializeBlock(DeserializeBlock(NoBytes)) = NoBytes
  /\ SerializeAttestBlockResult(DeserializeAttestBlockResult(NoBytes)) = NoBytes
  /\ SerializeAttestSignaturesRequest(DeserializeAttestSignaturesRequest(NoBytes)) = NoBytes
  /\ SerializeAttestSignaturesResponse(DeserializeAttestSignaturesResponse(NoBytes)) = NoBytes
<1>1. /\ \A n, d : Scalar(n, d, d) = <<>>
      /\ <<>> \o <<>> = <<>>
  BY EmptyIsSeq, NothingAppended DEF Scalar
<1>2. PICK none : none = <<>>
  OBVIOUS
<1>3. IsSeq(none) /\ DOMAIN none = {}
  BY <1>2, EmptyIsSeq
<1>4. SerializeBlock(DeserializeBlock(NoBytes)) = NoBytes
  <2> DEFINE m == [ts |-> 0, attesttoken |-> Empty, txobj |-> none, signers |-> none]
  <2>1. m.ts = 0 /\ m.attesttoken = Empty /\ m.txobj = none /\ m.signers = none
        /\ m = [ts |-> m.ts, attesttoken |-> m.attesttoken, txobj |-> m.txobj, signers |-> m.signers]
    OBVIOUS
  <2> HIDE DEF m
  <2>2. IsBlock(m)
    BY <1>3, <2>1 DEF IsBlock
  <2>3. /\ Repeated(2, m.txobj, SerializeTransactionObj) = <<>>
        /\ Repeated(3, m.signers, SerializeSigner) = <<>>
    BY <1>2, <1>3, <2>1 DEF Repeated
  <2>4. SerializeBlock(m) = NoBytes
    BY <1>1, <2>1, <2>3 DEF SerializeBlock, NoBytes
  <2> QED
    BY <2>2, <2>4, BlockReads
<1>5. SerializeAttestBlockResult(DeserializeAttestBlockResult(NoBytes)) = NoBytes
  <2> DEFINE m == [attestordata |-> none, signer |-> Null]
  <2>1. /\ m.attestordata = none /\ m.signer = Null
        /\ m = [attestordata |-> m.attestordata, signer |-> m.signer]
    OBVIOUS
  <2> HIDE DEF m
  <2>2. IsAttestBlockResult(m)
    BY <1>3, <2>1 DEF IsAttestBlockResult
  <2>3. /\ Repeated(1, m.attestordata, SerializeTxAttestorData) = <<>>
        /\ Single(2, m.signer, SerializeSigner) = <<>>
    BY <1>2, <1>3, <2>1 DEF Repeated, Single
  <2>4. SerializeAttestBlockResult(m) = NoBytes
    BY <1>1, <2>3 DEF SerializeAttestBlockResult, NoBytes
  <2> QED
    BY <2>2, <2>4, AttestBlockResultReads
<1>6. SerializeAttestSignaturesRequest(DeserializeAttestSignaturesRequest(NoBytes)) = NoBytes
  <2> DEFINE m == [attestations |-> none, initialblockhash |-> Empty, finalblockhash |-> Empty]
  <2>1. /\ m.attestations = none /\ m.initialblockhash = Empty /\ m.finalblockhash = Empty
        /\ m = [ attestations |-> m.attestations, initialblockhash |-> m.initialblockhash,
                 finalblockhash |-> m.finalblockhash ]
    OBVIOUS
  <2> HIDE DEF m
  <2>2. IsAttestSignaturesRequest(m)
    BY <1>3, <2>1 DEF IsAttestSignaturesRequest
  <2>3. Repeated(1, m.attestations, SerializeAttestBlockResult) = <<>>
    BY <1>2, <1>3, <2>1 DEF Repeated
  <2>4. SerializeAttestSignaturesRequest(m) = NoBytes
    BY <1>1, <2>1, <2>3 DEF SerializeAttestSignaturesRequest, NoBytes
  <2> QED
    BY <2>2, <2>4, AttestSignaturesRequestReads
<1>7. SerializeAttestSignaturesResponse(DeserializeAttestSignaturesResponse(NoBytes)) = NoBytes
  <2> DEFINE m == [attestations |-> none]
  <2>1. m.attestations = none /\ m = [attestations |-> m.attestations]
    OBVIOUS
  <2> HIDE DEF m
  <2>2. IsAttestSignaturesResponse(m)
    BY <1>3, <2>1 DEF IsAttestSignaturesResponse
  <2>3. Repeated(1, m.attestations, SerializeAttestorReport) = <<>>
    BY <1>2, <1>3, <2>1 DEF Repeated
  <2>4. SerializeAttestSignaturesResponse(m) = NoBytes
    BY <2>3 DEF SerializeAttestSignaturesResponse, NoBytes
  <2> QED
    BY <2>2, <2>4, AttestSignaturesResponseReads
<1> QED
  BY <1>4, <1>5, <1>6, <1>7

LEMMA ResponseReads ==
  DeserializeAttestSignaturesResponse(Response) = ResponseRecord
<1> DEFINE rs == <<Report>>
<1>1. IsAttestorReport(Report)
  BY DEF IsAttestorReport, Report
<1>2. IsSeq(rs) /\ DOMAIN rs = {1} /\ rs[1] = Report
  BY OneIsSeq
<1>3. ResponseRecord.attestations = rs
      /\ ResponseRecord = [attestations |-> ResponseRecord.attestations]
  BY DEF ResponseRecord
<1> HIDE DEF rs
<1>4. IsAttestSignaturesResponse(ResponseRecord)
  BY <1>1, <1>2, <1>3 DEF IsAttestSignaturesResponse
<1> QED
  BY <1>4, AttestSignaturesResponseReads DEF Response

-----------------------------------------------------------------------------
(* What the invariant implies *)

\* The state of one block is of its type, and its bytes are canonical.
LEMMA BlockTyped ==
  ASSUME IInv, NEW b \in Blocks
  PROVE  /\ (block[b] = Null) <=> (stage[b] = "waiting")
         /\ SerializeBlock(DeserializeBlock(sent[b])) = sent[b]
         /\ SerializeAttestSignaturesRequest(DeserializeAttestSignaturesRequest(request[b]))
              = request[b]
         /\ \A i \in Positions :
              /\ SerializeAttestBlockResult(DeserializeAttestBlockResult(replies[b][i]))
                   = replies[b][i]
              /\ SerializeAttestSignaturesResponse(DeserializeAttestSignaturesResponse(answers[b][i]))
                   = answers[b][i]
         /\ \A n \in Positions \cup {0} :
              SerializeBlock(DeserializeBlock(copies[b][n])) = copies[b][n]
<1>1. CASE NotSent(b)
  BY <1>1, NoBytesAreCanonical DEF NotSent
<1>2. CASE ~NotSent(b)
  <2>0. PICK o : o = Proposal(b)
    OBVIOUS
  <2>1. IsProposed(o) /\ UnderWay(b, o)
    BY <1>2, <2>0 DEF IInv, BlockOK
  <2>2. /\ DeserializeBlock(SerializeBlock(o)) = o
        /\ DeserializeBlock(SerializeBlock(Final(o))) = Final(o)
    BY <2>1, ProposalsAreBlocks, FinalIsBlock
  <2>3. (block[b] = Null) <=> (stage[b] = "waiting")
    <3>1. IsBlock(o) /\ IsBlock(Final(o))
      BY <2>1, ProposalsAreBlocks, FinalIsBlock
    <3>2. ASSUME NEW m, IsBlock(m) PROVE m # Null
      <4>1. "ts" \in DOMAIN m
        BY <3>2 DEF IsBlock
      <4> QED
        BY <4>1 DEF Null
    <3>3. o # Null /\ Final(o) # Null
      BY <3>1, <3>2
    <3> QED
      BY <2>1, <3>3 DEF UnderWay
  <2>4. SerializeBlock(DeserializeBlock(sent[b])) = sent[b]
    BY <2>1, <2>2 DEF UnderWay
  <2>5. SerializeAttestSignaturesRequest(DeserializeAttestSignaturesRequest(request[b]))
          = request[b]
    <3>1. request[b] = NoBytes \/ request[b] = RequestOf(o)
      BY <2>1 DEF UnderWay
    <3> QED
      BY <2>1, <3>1, NoBytesAreCanonical, RequestReads DEF RequestOf
  <2>6. ASSUME NEW i \in Positions
        PROVE  SerializeAttestBlockResult(DeserializeAttestBlockResult(replies[b][i]))
                 = replies[b][i]
    <3>1. replies[b][i] = NoBytes \/ replies[b][i] = SerializeAttestBlockResult(PatchOf(i, o))
      BY <2>1 DEF UnderWay
    <3> QED
      BY <2>1, <3>1, NoBytesAreCanonical, PatchIsResult
  <2>7. ASSUME NEW i \in Positions
        PROVE  SerializeAttestSignaturesResponse(DeserializeAttestSignaturesResponse(answers[b][i]))
                 = answers[b][i]
    <3>1. answers[b][i] = NoBytes \/ answers[b][i] = Response
      BY <2>1 DEF UnderWay
    <3> QED
      BY <3>1, NoBytesAreCanonical, ResponseReads DEF Response
  <2>8. ASSUME NEW n \in Positions \cup {0}
        PROVE  SerializeBlock(DeserializeBlock(copies[b][n])) = copies[b][n]
    <3>1. copies[b][n] = NoBytes \/ copies[b][n] = SerializeBlock(Final(o))
      BY <2>1 DEF UnderWay
    <3> QED
      BY <2>2, <3>1, NoBytesAreCanonical
  <2> QED
    BY <2>3, <2>4, <2>5, <2>6, <2>7, <2>8
<1> QED
  BY <1>1, <1>2

\* The variables keep their types, and what any node sends or publishes is
\* written again as the same bytes by whoever reads it (BlockUtil.serialize
\* and deserialize, on which every verifier of a signature relies).
THEOREM TypeCorrect == Spec => []TypeOK
<1>1. ASSUME IInv PROVE TypeOK
  <2>1. /\ PoolIsValid /\ Shapes /\ OnlyProposalsCached /\ NothingRefused
    BY <1>1 DEF IInv
  <2>2. /\ Len(pool) <= MaxTransactions
        /\ \A k \in DOMAIN pool : pool[k].validatordata = Null /\ pool[k].attestordata = <<>>
    <3>1. \A k \in DOMAIN pool : pool[k].validatordata = Null
      BY <2>1 DEF PoolIsValid
    <3>2. \A k \in DOMAIN pool : pool[k].attestordata = <<>>
      BY <2>1 DEF PoolIsValid
    <3> QED
      BY <2>1, <3>1, <3>2 DEF PoolIsValid
  <2>3. \A i \in Positions : cached[i] \subseteq {sent[b] : b \in Blocks}
    BY <2>1 DEF OnlyProposalsCached
  <2>4. refused \subseteq Blocks \X (Positions \cup {0})
    BY <2>1 DEF NothingRefused
  <2>5. \A b \in Blocks :
          /\ (block[b] = Null) <=> (stage[b] = "waiting")
          /\ Canonical(sent[b], SerializeBlock, DeserializeBlock)
          /\ Canonical(request[b], SerializeAttestSignaturesRequest,
                                    DeserializeAttestSignaturesRequest)
          /\ \A i \in Positions :
               /\ Canonical(replies[b][i], SerializeAttestBlockResult, DeserializeAttestBlockResult)
               /\ Canonical(answers[b][i], SerializeAttestSignaturesResponse,
                                           DeserializeAttestSignaturesResponse)
          /\ \A n \in Positions \cup {0} :
               Canonical(copies[b][n], SerializeBlock, DeserializeBlock)
    BY <1>1, BlockTyped DEF Canonical
  <2> QED
    BY <2>1, <2>2, <2>3, <2>4, <2>5 DEF TypeOK, Shapes
<1> QED
  BY <1>1, Invariance, PTL

\* The proposer and its attestors publish the same bytes for a block, the ones
\* whose hash the proposer announced in round 2 (attestSignaturesRpc).
THEOREM IdenticalCopies == Spec => []CopiesAreIdentical
<1>1. ASSUME IInv PROVE CopiesAreIdentical
  <2>1. SUFFICES ASSUME NEW b \in Blocks, NEW n \in Positions \cup {0}, copies[b][n] # NoBytes
                 PROVE  Hash(copies[b][n])
                          = DeserializeAttestSignaturesRequest(request[b]).finalblockhash
    BY DEF CopiesAreIdentical
  <2>2. PICK o : o = Proposal(b)
    OBVIOUS
  <2>3. IsProposed(o) /\ UnderWay(b, o)
    BY <1>1, <2>1, <2>2 DEF IInv, BlockOK, NotSent
  <2>4. copies[b][n] = SerializeBlock(Final(o)) /\ request[b] = RequestOf(o)
    BY <2>1, <2>3 DEF UnderWay
  <2>5. DeserializeAttestSignaturesRequest(request[b]) = RequestRecord(o)
    BY <2>3, <2>4, RequestReads
  <2> QED
    BY <2>4, <2>5 DEF RequestRecord
<1> QED
  BY <1>1, Invariance, PTL

\* In every published copy the signature at each position is the one of the
\* node the attest vector names there, the proposer's first, and each
\* transaction is signed by its sender and was sent by a client
\* (recoverSignerAddress, checkTxSignature).
THEOREM VerifiedSignatures == Spec => []SignaturesVerify
<1>1. ASSUME IInv PROVE SignaturesVerify
  <2>1. SUFFICES ASSUME NEW b \in Blocks, NEW n \in Positions \cup {0}, copies[b][n] # NoBytes
                 PROVE  LET copy == DeserializeBlock(copies[b][n])
                        IN  /\ Len(copy.signers) = Len(Attestors) + 1
                            /\ RecoverSignerAddress(copy, 0) = Proposer
                            /\ \A i \in Positions :
                                 RecoverSignerAddress(copy, i) = Attestors[i]
                            /\ \A k \in DOMAIN copy.txobj :
                                 /\ CheckTxSignature(copy.txobj[k].tx)
                                 /\ copy.txobj[k].tx
                                      \in {DeserializeTransaction(raw) : raw \in Requests}
    BY DEF SignaturesVerify
  <2>2. PICK o : o = Proposal(b)
    OBVIOUS
  <2>3. IsProposed(o) /\ UnderWay(b, o)
    BY <1>1, <2>1, <2>2 DEF IInv, BlockOK, NotSent
  <2>4. DeserializeBlock(copies[b][n]) = Final(o)
    BY <2>1, <2>3, FinalIsBlock DEF UnderWay
  <2>5. Len(Final(o).signers) = Len(Attestors) + 1
    BY <2>3, FinalIsBlock, FinalSignersFacts
  <2>6. /\ RecoverSignerAddress(Final(o), 0) = Proposer
        /\ \A i \in Positions : RecoverSignerAddress(Final(o), i) = Attestors[i]
    BY <2>3, SignersAreRecovered
  <2>7. ASSUME NEW k \in DOMAIN Final(o).txobj
        PROVE  /\ CheckTxSignature(Final(o).txobj[k].tx)
               /\ Final(o).txobj[k].tx \in {DeserializeTransaction(raw) : raw \in Requests}
    <3>1. k \in DOMAIN o.txobj /\ Final(o).txobj[k].tx = o.txobj[k].tx
      BY <2>3, FinalIsBlock
    <3>2. IsValidTx(o.txobj[k].tx)
      BY <2>3, <3>1 DEF IsProposed
    <3> QED
      BY <3>1, <3>2 DEF IsValidTx, CheckTx
  <2> QED
    BY <2>4, <2>5, <2>6, <2>7
<1> QED
  BY <1>1, Invariance, PTL

\* Among honest nodes no check fails: what the proposer accepted from a client
\* every attestor accepts, and every signature is verified over the bytes it
\* was made over (attestBlock, attestSignatures, batchProcessBlock).
THEOREM NoRefusals == Spec => []NothingRefused
<1>1. IInv => NothingRefused
  BY DEF IInv
<1> QED
  BY <1>1, Invariance, PTL
=============================================================================
