-------------------------- MODULE SFlowDecode_proofs --------------------------
(***************************************************************************)
(* Proofs about SFlowDecode and SFlowStructures, for all sizes, tables and *)
(* wire values that satisfy their assumptions.                             *)
(***************************************************************************)
EXTENDS SFlowPrograms, SFlowStructures, WellFoundedInduction, TLAPS

(***************************************************************************)
(* Sequences of operations.                                                *)
(***************************************************************************)

\* A checked operation is an operation, and so for their sequences.
LEMMA CheckedIsOp ==
  /\ CheckedOp \subseteq Op
  /\ \A s \in Seq(CheckedOp) : s \in Seq(Op)
<1>1. CheckedOp \subseteq Op
  BY DEF CheckedOp, Op, OpOf
<1>2. \A s \in Seq(CheckedOp) : s \in Seq(Op)
  BY <1>1
<1>3. QED
  BY <1>1, <1>2

\* A queue of operations that is not empty has a first one and a rest.
LEMMA HeadTailTyped ==
  ASSUME NEW s \in Seq(Op), s # <<>>
  PROVE  Head(s) \in Op /\ Tail(s) \in Seq(Op)
  OBVIOUS

\* The first operation of a queue has a natural argument and a known body.
LEMMA HeadFields ==
  ASSUME NEW s \in Seq(Op), s # <<>>
  PROVE  /\ Head(s).op \in CheckedKinds \cup UncheckedKinds
         /\ Head(s).n \in Nat
         /\ Head(s).body \in DOMAIN Block \cup {"none"}
         /\ Head(s).op \in {"repeat", "iterate"} => Head(s).body \in DOMAIN Block
  BY HeadTailTyped DEF Op, OpOf

\* Putting a reader's operations in front of the queue.
LEMMA ConcatTyped ==
  ASSUME NEW s \in Seq(Op), NEW t \in Seq(Op)
  PROVE  s \o t \in Seq(Op)
  OBVIOUS

\* The operation lists written in the model itself.
LEMMA OperationsTyped ==
  /\ \A name \in CheckedKinds \ {"repeat", "iterate"} :
        Operation0(name) \in Seq(CheckedOp)
  /\ \A k \in Nat : WordsOf(k) \in Seq(CheckedOp)
<1>1. \A name \in CheckedKinds \ {"repeat", "iterate"} :
         Operation0(name) \in Seq(CheckedOp)
  BY DEF Operation0, CheckedOp, OpOf
<1>2. \A k \in Nat : WordsOf(k) \in Seq(CheckedOp)
  <2>1. "fixed" \in CheckedKinds
    BY DEF CheckedKinds
  <2>2. QED
    BY <2>1 DEF WordsOf, CheckedOp, OpOf
<1>3. QED
  BY <1>1, <1>2

(***************************************************************************)
(* Arithmetic.                                                             *)
(***************************************************************************)

\* Padding yields a natural number.
LEMMA PadNat == \A length \in Nat : Pad(length) \in Nat
  BY SizeAssumption DEF Pad

\* A natural number below the modulus is its own remainder.
LEMMA ModSmall ==
  ASSUME NEW a \in Nat, NEW m \in Nat, a < m
  PROVE  a % m = a
  OBVIOUS

\* Away from the word's limit padding rounds up to a multiple of four.
LEMMA PadRounds ==
  ASSUME NEW length \in Nat, length + 3 < Word
  PROVE  length <= Pad(length) /\ Pad(length) <= length + 3
<1>1. (length + 3) % Word = length + 3
  BY ModSmall, SizeAssumption
<1>2. QED
  BY <1>1 DEF Pad

\* A non-empty set of natural numbers has a least element.
LEMMA LeastNumber ==
  ASSUME NEW T \in SUBSET Nat, T # {}
  PROVE  \E x \in T : \A y \in T : x <= y
<1> DEFINE R == OpToRel(<, Nat)
<1>1. IsWellFoundedOn(R, Nat)
  BY NatLessThanWellFounded, Zenon
<1>2. ASSUME NEW x \in Nat, NEW y \in Nat, x < y
      PROVE  <<x, y>> \in R
  BY <1>2 DEF OpToRel
<1> HIDE DEF R
<1>3. PICK x \in T : \A y \in T : ~(<<y, x>> \in R)
  BY <1>1, WFMin, Zenon
<1>4. \A y \in T : ~(y < x)
  BY <1>2, <1>3, Zenon
<1>5. x \in Nat /\ \A y \in T : y \in Nat
  OBVIOUS
<1>6. QED
  BY <1>4, <1>5

\* Sums from the end: there is a function that grows by a[i] at each i.
LEMMA SuffixSums ==
  ASSUME NEW k \in Nat \ {0}, NEW a, \A i \in 1 .. k - 1 : a[i] \in Int
  PROVE  \E f \in [1 .. k -> Int] :
            f[k] = 0 /\ \A i \in 1 .. k - 1 : f[i] = f[i + 1] + a[i]
<1> DEFINE Sums(m) == \E f \in [k - m .. k -> Int] :
                         f[k] = 0 /\ \A i \in k - m .. k - 1 : f[i] = f[i + 1] + a[i]
           T == {m \in 0 .. k - 1 : ~Sums(m)}
<1>1. Sums(0)
  <2> DEFINE f == [i \in k .. k |-> 0]
  <2>1. f \in [k - 0 .. k -> Int] /\ f[k] = 0
    OBVIOUS
  <2>2. \A i \in k - 0 .. k - 1 : FALSE
    OBVIOUS
  <2>3. QED
    BY <2>1, <2>2
<1>2. ASSUME NEW m \in 1 .. k - 1, Sums(m - 1)
      PROVE  Sums(m)
  <2>1. PICK f \in [k - (m - 1) .. k -> Int] :
          f[k] = 0 /\ \A i \in k - (m - 1) .. k - 1 : f[i] = f[i + 1] + a[i]
    BY <1>2
  <2>2. PICK s \in 1 .. k - 1 : s = k - m /\ k - (m - 1) = s + 1
    OBVIOUS
  <2> DEFINE g == [i \in s .. k |-> IF i = s THEN f[s + 1] + a[s] ELSE f[i]]
  <2>3. f \in [s + 1 .. k -> Int] /\ f[k] = 0 /\ \A i \in s + 1 .. k - 1 : f[i] = f[i + 1] + a[i]
    BY <2>1, <2>2
  <2>4. s + 1 \in s + 1 .. k /\ a[s] \in Int /\ f[s + 1] + a[s] \in Int
    <3>1. s + 1 \in s + 1 .. k
      BY <2>2
    <3>2. f[s + 1] \in Int /\ a[s] \in Int
      BY <2>3, <3>1
    <3>3. QED
      BY <3>1, <3>2
  <2>5. \A i \in s .. k : (IF i = s THEN f[s + 1] + a[s] ELSE f[i]) \in Int
    BY <2>3, <2>4
  <2>6. g \in [s .. k -> Int]
    BY <2>5
  <2>7. g[s] = f[s + 1] + a[s] /\ \A i \in s + 1 .. k : g[i] = f[i]
    OBVIOUS
  <2> HIDE DEF g
  <2>8. g[k] = 0
    BY <2>3, <2>7
  <2>9. ASSUME NEW i \in s .. k - 1
        PROVE  g[i] = g[i + 1] + a[i]
    <3>1. i + 1 \in s + 1 .. k /\ g[i + 1] = f[i + 1]
      BY <2>7
    <3>2. CASE i = s
      BY <2>7, <3>1, <3>2
    <3>3. CASE i # s
      <4>1. i \in s + 1 .. k - 1
        BY <3>3
      <4>2. QED
        BY <2>3, <2>7, <3>1, <4>1
    <3>4. QED
      BY <3>2, <3>3
  <2>10. QED
    BY <2>2, <2>6, <2>8, <2>9
<1> HIDE DEF Sums
<1>3. T = {}
  <2>1. SUFFICES ASSUME T # {} PROVE FALSE
    OBVIOUS
  <2>2. T \in SUBSET Nat
    OBVIOUS
  <2>3. PICK m \in T : \A n \in T : m <= n
    <3> HIDE DEF T
    <3>1. QED
      BY <2>1, <2>2, LeastNumber, Zenon
  <2>4. m \in 1 .. k - 1 /\ ~Sums(m)
    BY <1>1, <2>3
  <2>5. m - 1 \notin T
    <3>1. ~(m <= m - 1)
      BY <2>4
    <3> HIDE DEF T
    <3>2. QED
      BY <2>3, <3>1, Zenon
  <2>6. m - 1 \in 0 .. k - 1
    BY <2>4
  <2>7. QED
    BY <1>2, <2>4, <2>5, <2>6
<1>4. Sums(k - 1)
  BY <1>3
<1>5. k - (k - 1) = 1
  OBVIOUS
<1>6. QED
  BY <1>4, <1>5 DEF Sums

\* SumsTo is the function its equation describes.
LEMMA SumsRecurrence ==
  ASSUME NEW k \in Nat \ {0}, NEW a, \A i \in 1 .. k - 1 : a[i] \in Int
  PROVE  /\ SumsTo(a, k) \in [1 .. k -> Int] /\ SumsTo(a, k)[k] = 0
         /\ \A i \in 1 .. k - 1 : SumsTo(a, k)[i] = SumsTo(a, k)[i + 1] + a[i]
<1>1. PICK f \in [1 .. k -> Int] :
        f[k] = 0 /\ \A i \in 1 .. k - 1 : f[i] = f[i + 1] + a[i]
  BY SuffixSums
<1>2. \A i \in 1 .. k - 1 : f[i] = f[i + 1] + a[i]
  BY <1>1
<1>3. f = [i \in 1 .. k |-> IF i = k THEN 0 ELSE f[i + 1] + a[i]]
  <2>1. \A i \in 1 .. k : f[i] = IF i = k THEN 0 ELSE f[i + 1] + a[i]
    BY <1>1, <1>2
  <2>2. QED
    BY <2>1
<1>4. SumsTo(a, k) = [i \in 1 .. k |-> IF i = k THEN 0 ELSE SumsTo(a, k)[i + 1] + a[i]]
  BY <1>3, Zenon DEF SumsTo
<1> DEFINE d == SumsTo(a, k)
           T == {j \in 0 .. k - 1 : d[k - j] # f[k - j]}
<1>5. /\ d[k] = 0
      /\ \A i \in 1 .. k - 1 : d[i] = d[i + 1] + a[i]
      /\ DOMAIN d = 1 .. k
  <2> HIDE DEF d
  <2>1. d = [i \in 1 .. k |-> IF i = k THEN 0 ELSE d[i + 1] + a[i]]
    BY <1>4 DEF d
  <2>2. \A i \in 1 .. k : d[i] = IF i = k THEN 0 ELSE d[i + 1] + a[i]
    BY <2>1, Zenon
  <2>3. DOMAIN d = 1 .. k
    BY <2>1, Zenon
  <2>4. k \in 1 .. k /\ \A i \in 1 .. k - 1 : i \in 1 .. k /\ i # k
    OBVIOUS
  <2>5. QED
    BY <2>2, <2>3, <2>4, Zenon
<1> HIDE DEF d
<1>6. T = {}
  <2>1. SUFFICES ASSUME T # {} PROVE FALSE
    OBVIOUS
  <2>2. T \in SUBSET Nat
    OBVIOUS
  <2>3. PICK j \in T : \A n \in T : j <= n
    <3> HIDE DEF T
    <3>1. QED
      BY <2>1, <2>2, LeastNumber, Zenon
  <2>4. j \in 1 .. k - 1
    BY <1>1, <1>5, <2>3
  <2>5. j - 1 \notin T
    <3>1. ~(j <= j - 1)
      BY <2>4
    <3> HIDE DEF T
    <3>2. QED
      BY <2>3, <3>1, Zenon
  <2>6. PICK i \in 1 .. k - 1 : i = k - j /\ i + 1 = k - (j - 1) /\ j - 1 \in 0 .. k - 1
    BY <2>4
  <2>7. d[i + 1] = f[i + 1]
    BY <2>5, <2>6
  <2>8. d[i] = f[i]
    BY <1>2, <1>5, <2>7
  <2>9. QED
    BY <2>3, <2>6, <2>8
<1>7. \A i \in 1 .. k : d[i] = f[i]
  <2>1. TAKE i \in 1 .. k
  <2>2. k - i \in 0 .. k - 1 /\ k - (k - i) = i
    OBVIOUS
  <2>3. QED
    BY <1>6, <2>2
<1>8. d \in [1 .. k -> Int]
  <2>1. \A i \in 1 .. k : d[i] \in Int
    BY <1>7
  <2>2. d = [i \in 1 .. k |-> d[i]]
    <3>1. d = [i \in DOMAIN d |-> d[i]]
      BY <1>4, Zenon DEF d
    <3>2. QED
      BY <1>5, <3>1, Zenon
  <2>3. QED
    BY <2>1, <2>2
<1>9. QED
  BY <1>5, <1>8 DEF d

(***************************************************************************)
(* Types.                                                                  *)
(***************************************************************************)

\* What every type step needs of the constants.
LEMMA ConstantsTyped ==
  /\ Word \in Nat /\ Short \in Nat /\ MaxSize \in Nat
  /\ 0 < Word /\ 0 < Short /\ MaxSize < Word
  /\ Counts \subseteq 0 .. Word - 1 /\ Counts \subseteq Nat
  /\ Lengths \subseteq 0 .. Word - 1 /\ Lengths \subseteq Nat
  /\ Addresses \subseteq Nat
  BY SizeAssumption

\* The ways out of a datagram restore the initial values.
LEMMA FinishTyped ==
  ASSUME NEW outcome \in Results, Finish(outcome)
  PROVE  Shape'
  BY ConstantsTyped DEF Finish, Forget, Shape, TypeOK, Kinds

\* So does the end of the process.
LEMMA HaltTyped ==
  ASSUME Halt
  PROVE  Shape'
  BY ConstantsTyped DEF Halt, Forget, Shape, TypeOK, Kinds, Results

\* A step of the cursor keeps the types.
LEMMA MoveTyped ==
  ASSUME Shape, todo # <<>>, NEW p \in Nat, datap <= p, MoveTo(p)
  PROVE  Shape'
<1>1. Tail(todo) \in Seq(Op)
  BY HeadTailTyped DEF Shape, TypeOK
<1>2. QED
  BY <1>1 DEF MoveTo, Shape, TypeOK, datagramVars, sampleVars, elementVars, effectVars

\* So does any step that only moves the cursor and changes the queue.
LEMMA QueueTyped ==
  ASSUME Shape, pc = "reading", datap' \in Nat, datap <= datap', todo' \in Seq(Op),
         UNCHANGED <<pc, result, datagramVars, sampleVars, elementVars, effectVars>>
  PROVE  Shape'
  BY DEF Shape, TypeOK, datagramVars, sampleVars, elementVars, effectVars

\* Filling a structure moves the cursor by a natural number of bytes.
LEMMA FillTyped ==
  ASSUME Shape, todo # <<>>, NEW unit \in {4, 8}, Fill(unit)
  PROVE  Shape'
<1> DEFINE parse == ctx % Short
           read  == unit * Least(parse \div unit, Arg \div unit)
           ahead == FastForward(parse)
<1>1. parse \in Nat /\ Arg \in Nat /\ datap \in Nat
  BY ConstantsTyped, HeadFields DEF Shape, TypeOK, Arg
<1>2. parse \div unit \in Nat /\ Arg \div unit \in Nat
  BY <1>1
<1>3. Least(parse \div unit, Arg \div unit) \in Nat
  BY <1>2 DEF Least
<1>4. read \in Nat
  BY <1>3
<1>5. ahead \in Nat
  BY <1>1 DEF FastForward
<1>6. datap + read + ahead \in Nat /\ datap <= datap + read + ahead
  BY <1>1, <1>4, <1>5
<1>7. MoveTo(datap + read + ahead) \/ Finish("eos")
  BY DEF Fill, Move
<1>8. QED
  BY <1>6, <1>7, MoveTyped, FinishTyped DEF Results

\* So does the choice of a reader by a tag that must be known.
LEMMA ChooseTyped ==
  ASSUME Shape, pc = "reading", todo # <<>>, NEW reader, Choose(reader),
         \A t \in DOMAIN reader : reader[t] \in Seq(CheckedOp)
  PROVE  Shape'
<1>1. CASE Finish("eos") \/ Finish("decode")
  BY <1>1, FinishTyped DEF Results
<1>2. CASE ~(Finish("eos") \/ Finish("decode"))
  <2>1. PICK program \in Programs(reader) :
          /\ datap' = datap + 4
          /\ todo' = program \o Tail(todo)
          /\ UNCHANGED <<pc, result, datagramVars, sampleVars, elementVars, effectVars>>
    BY <1>2 DEF Choose
  <2>2. program \in Seq(Op)
    BY CheckedIsOp DEF Programs
  <2>3. todo' \in Seq(Op)
    BY <2>1, <2>2, HeadTailTyped, ConcatTyped DEF Shape, TypeOK
  <2>4. datap' \in Nat /\ datap <= datap'
    BY <2>1 DEF Shape, TypeOK
  <2>5. QED
    BY <2>1, <2>3, <2>4, QueueTyped
<1>3. QED
  BY <1>1, <1>2

\* The heads of the samples are queues of checked operations.
LEMMA SampleReadersTyped ==
  \A reader \in SampleReaders :
     /\ reader[1] \in Kinds /\ reader[2] \in Seq(CheckedOp) /\ reader[2] \in Seq(Op)
     /\ reader[1] \in {"flow4", "counters4"} => version # 5
     /\ reader[1] # "none"
<1>1. \A s, t \in Seq(CheckedOp) : s \o t \in Seq(CheckedOp)
  OBVIOUS
<1>2. /\ Operation0("length") \in Seq(CheckedOp) /\ Operation0("count") \in Seq(CheckedOp)
      /\ Operation0("packetData") \in Seq(CheckedOp)
      /\ Operation0("counterBlock") \in Seq(CheckedOp)
      /\ Operation0("string") \in Seq(CheckedOp)
      /\ \A k \in Nat : WordsOf(k) \in Seq(CheckedOp)
  BY OperationsTyped DEF CheckedKinds
<1>3. \A ids \in Nat : /\ readFlowSample(ids) \in Seq(CheckedOp)
                        /\ readCountersSample(ids) \in Seq(CheckedOp)
  <2>1. TAKE ids \in Nat
  <2>2. 6 + ids \in Nat /\ 1 + ids \in Nat
    OBVIOUS
  <2>3. WordsOf(6 + ids) \in Seq(CheckedOp) /\ WordsOf(1 + ids) \in Seq(CheckedOp)
    BY <1>2, <2>2
  <2>4. QED
    BY <1>1, <1>2, <2>3 DEF readFlowSample, readCountersSample
<1>4. /\ readFlowSample_v2v4 \in Seq(CheckedOp)
      /\ readCountersSample_v2v4 \in Seq(CheckedOp)
      /\ skipSample \in Seq(CheckedOp)
  BY <1>1, <1>2 DEF readFlowSample_v2v4, readCountersSample_v2v4, skipSample
<1>5. \A reader \in SampleReaders :
        /\ reader[1] \in Kinds /\ reader[2] \in Seq(CheckedOp)
        /\ reader[1] \in {"flow4", "counters4"} => version # 5
        /\ reader[1] # "none"
  <2>1. /\ readFlowSample(1) \in Seq(CheckedOp) /\ readFlowSample(4) \in Seq(CheckedOp)
        /\ readCountersSample(1) \in Seq(CheckedOp)
        /\ readCountersSample(2) \in Seq(CheckedOp)
    BY <1>3
  <2>2. QED
    BY <1>4, <2>1 DEF SampleReaders, Kinds
<1>6. QED
  BY <1>5, CheckedIsOp

\* Every step of the decoder keeps Shape.
LEMMA ShapeStep ==
  ASSUME Shape, [Next]_vars
  PROVE  Shape'
<1>a. todo # <<>> => /\ Arg \in Nat
                     /\ Head(todo).body \in DOMAIN Block \cup {"none"}
                     /\ Head(todo).op \in {"repeat", "iterate"} =>
                           Head(todo).body \in DOMAIN Block
                     /\ Head(todo) \in Op
                     /\ Tail(todo) \in Seq(Op)
  BY HeadFields, HeadTailTyped DEF Shape, TypeOK, Arg
<1>b. /\ datap \in Nat /\ size \in Nat /\ eLength \in Nat /\ ctx \in Nat
      /\ stored \in Nat /\ puts \in Nat
  BY ConstantsTyped DEF Shape, TypeOK
<1>c. A10Left \in Nat /\ A10Left \in 0 .. Word - 1
  BY <1>b, SizeAssumption DEF A10Left, A10Head, Shape, TypeOK
<1>d. Operation0("skip") \in Seq(Op) /\ Operation0("endElement") \in Seq(Op)
  BY OperationsTyped, CheckedIsOp DEF CheckedKinds
<1>1. CASE ReadFixed
  BY <1>1, <1>a, <1>b, MoveTyped, FinishTyped DEF ReadFixed, Running, Move, Results
<1>2. CASE ReadString
  <2>1. \A len \in Lengths : /\ datap + 4 + Pad(len) \in Nat
                             /\ datap <= datap + 4 + Pad(len)
    BY <1>b, PadNat, ConstantsTyped
  <2>2. QED
    BY <1>2, <2>1, MoveTyped, FinishTyped DEF ReadString, Running, Move, Results
<1>3. CASE ReadAddress
  BY <1>3, <1>b, MoveTyped, FinishTyped, ConstantsTyped
     DEF ReadAddress, Running, Move, Results
<1>4. CASE ReadArray
  <2>1. \A count \in Counts : /\ datap + 4 + Pad((4 * count) % Word) \in Nat
                              /\ datap <= datap + 4 + Pad((4 * count) % Word)
    BY <1>b, PadNat, ConstantsTyped
  <2>2. QED
    BY <1>4, <2>1, MoveTyped, FinishTyped, HaltTyped DEF ReadArray, Running, Move, Results
<1>5. CASE ReadRepeat
  <2>1. todo # <<>>
    BY <1>5 DEF ReadRepeat, Running
  <2>2. \A count \in Counts :
           <<[op |-> "iterate", n |-> count, body |-> Head(todo).body]>> \o Tail(todo)
             \in Seq(Op)
    <3>1. TAKE count \in Counts
    <3>1a. Head(todo).op = "repeat"
      BY <1>5 DEF ReadRepeat, Running
    <3>2. [op |-> "iterate", n |-> count, body |-> Head(todo).body] \in Op
      BY <1>a, <2>1, <3>1a, ConstantsTyped DEF Op, OpOf, CheckedKinds
    <3>3. QED
      BY <1>a, <2>1, <3>2, ConcatTyped
  <2>3. QED
    BY <1>5, <1>b, <2>2, FinishTyped, HaltTyped, QueueTyped DEF ReadRepeat, Running, Results
<1>6. CASE Iterate
  <2>1. todo # <<>> /\ Head(todo).op = "iterate"
    BY <1>6 DEF Iterate, Running
  <2>2. CASE Arg = 0
    BY <1>6, <1>a, <1>b, <2>1, <2>2, QueueTyped DEF Iterate, Running
  <2>3. CASE Arg # 0
    <3>1. [Head(todo) EXCEPT !.n = Arg - 1] \in Op
      BY <1>a, <2>1, <2>3 DEF Op, OpOf, Arg
    <3>2. <<[Head(todo) EXCEPT !.n = Arg - 1]>> \o Tail(todo) \in Seq(Op)
      BY <3>1, <1>a, <2>1, ConcatTyped
    <3>3. Head(todo).body \in DOMAIN Block
      BY <1>a, <2>1
    <3>4. Block[Head(todo).body] \in Seq(Op)
      BY <3>3, ReaderAssumption, CheckedIsOp
    <3>5. Block[Head(todo).body] \o (<<[Head(todo) EXCEPT !.n = Arg - 1]>> \o Tail(todo))
            \in Seq(Op)
      BY <3>2, <3>4, ConcatTyped
    <3>6. QED
      BY <1>6, <1>b, <2>3, <3>5, QueueTyped DEF Iterate, Running
  <2>4. QED
    BY <2>2, <2>3
<1>7. CASE LookUp
  BY <1>7, <1>b, MoveTyped, HaltTyped DEF LookUp, Running, Move
<1>8. CASE ReadHeader
  <2>1. todo # <<>>
    BY <1>8 DEF ReadHeader, Running
  <2>2. \A len \in Lengths : /\ datap + 4 * Arg + Pad(len) \in Nat
                             /\ datap <= datap + 4 * Arg + Pad(len)
    <3>1. TAKE len \in Lengths
    <3>2. Pad(len) \in Nat
      BY PadNat, ConstantsTyped
    <3>3. Arg \in Nat
      BY <1>a, <2>1
    <3>4. QED
      BY <3>2, <3>3, <1>b
  <2>3. QED
    BY <1>8, <2>1, <2>2, MoveTyped, FinishTyped, HaltTyped DEF ReadHeader, Move, Results
<1>9. CASE ReadLongOnly
  BY <1>9, <1>b, MoveTyped, FinishTyped DEF ReadLongOnly, Running, Move, Results
<1>10. CASE SkipElement
  BY <1>10, <1>b, MoveTyped, FinishTyped, PadNat DEF SkipElement, Running, Move, Results
<1>11. CASE PopulateU64
  BY <1>11, FillTyped DEF PopulateU64, Running
<1>12. CASE PopulateU32
  BY <1>12, FillTyped DEF PopulateU32, Running
<1>13. CASE UpdateContext
  <2>1. todo # <<>>
    BY <1>13 DEF UpdateContext, Running
  <2>2. CASE /\ ctx > Arg
             /\ ctx' = ctx - Arg
             /\ todo' = Tail(todo)
             /\ UNCHANGED <<pc, result, datagramVars, datap, sampleVars,
                            eStart, eLength, effectVars>>
    BY <1>a, <1>b, <2>1, <2>2, ConstantsTyped
       DEF Shape, TypeOK, datagramVars, sampleVars, effectVars
  <2>3. CASE Finish("eos")
    BY <2>3, FinishTyped DEF Results
  <2>4. QED
    BY <1>13, <2>2, <2>3 DEF UpdateContext
<1>14. CASE PutBatch
  <2>1. CASE Halt
    BY <2>1, HaltTyped
  <2>2. CASE ~Halt
    <3>1. /\ puts' = puts + 1 /\ todo' = Tail(todo) /\ todo # <<>> /\ pc = "reading"
          /\ UNCHANGED <<pc, result, datagramVars, datap, sampleVars, elementVars, stored>>
      BY <1>14, <2>2 DEF PutBatch, Running
    <3>2. QED
      BY <3>1, <1>a, <1>b DEF Shape, TypeOK, datagramVars, sampleVars, elementVars
  <2>3. QED
    BY <2>1, <2>2
<1>15. CASE IgnoreA10
  <2>1. todo # <<>>
    BY <1>15 DEF IgnoreA10, Running
  <2>2. /\ datap' \in Nat /\ datap <= datap'
        /\ ctx' \in 0 .. Word - 1 /\ todo' \in Seq(Op)
    BY <1>15, <1>a, <1>b, <1>c, <2>1 DEF IgnoreA10, A10Head
  <2>3. QED
    BY <1>15, <2>2 DEF IgnoreA10, Shape, TypeOK, datagramVars, sampleVars, effectVars
<1>16. CASE StoreA10
  <2>1. todo # <<>>
    BY <1>16 DEF StoreA10, Running
  <2>2. CASE CanSkip(datap + A10Head, A10Left)
    <3>1. Pad(A10Left) \in Nat
      BY <1>c, PadNat
    <3>0. UNCHANGED <<pc, result, datagramVars, sampleVars, eStart, eLength, puts>>
      BY <1>16, <2>2 DEF StoreA10
    <3>2. /\ datap' \in Nat /\ datap <= datap'
          /\ ctx' \in 0 .. Word - 1 /\ todo' \in Seq(Op) /\ stored' \in Nat
      <4>1. /\ datap' = datap + A10Head + Pad(A10Left)
            /\ ctx' = A10Left
            /\ stored' = stored + A10Head + A10Left
            /\ todo' = Tail(todo)
        BY <1>16, <2>2 DEF StoreA10
      <4>2. A10Head \in Nat
        BY DEF A10Head
      <4>3. QED
        BY <4>1, <4>2, <1>a, <1>b, <1>c, <2>1, <3>1
    <3>3. QED
      BY <1>16, <3>0, <3>2 DEF StoreA10, Running, Shape, TypeOK, datagramVars, sampleVars
  <2>3. CASE ~CanSkip(datap + A10Head, A10Left)
    BY <1>16, <2>3, FinishTyped, HaltTyped DEF StoreA10, Results
  <2>4. QED
    BY <2>2, <2>3
<1>17. CASE BeginElement
  <2>1. \A program \in ElementPrograms : program \o Operation0("endElement") \in Seq(Op)
    <3>1. ElementPrograms \subseteq Seq(Op)
      BY ReaderAssumption, CheckedIsOp, <1>d DEF ElementPrograms, Programs, SkipProgram
    <3>2. QED
      BY <3>1, <1>d, ConcatTyped
  <2>2. CASE ~Within(datap + 8)
    BY <1>17, <2>2, FinishTyped DEF BeginElement, Results
  <2>3. CASE Within(datap + 8)
    <3>1. PICK length \in Lengths, program \in ElementPrograms :
            /\ elements' = elements - 1
            /\ datap' = datap + 8
            /\ eStart' = datap + 8
            /\ eLength' = length
            /\ ctx' = IF kind = "counters" THEN length ELSE ctx
            /\ todo' = program \o Operation0("endElement")
            /\ UNCHANGED <<pc, result, datagramVars, kind, sampleAt, sStart,
                           sLength, declared, effectVars>>
      BY <1>17, <2>3 DEF BeginElement
    <3>2. todo' \in Seq(Op)
      BY <2>1, <3>1
    <3>3. elements' \in 0 .. Word - 1
      BY <1>17, <3>1, ConstantsTyped DEF BeginElement, Shape, TypeOK
    <3>4. eLength' \in 0 .. Word - 1 /\ ctx' \in 0 .. Word - 1
      BY <3>1, ConstantsTyped DEF Shape, TypeOK
    <3>5. QED
      BY <1>17, <3>1, <3>2, <3>3, <3>4, <1>b
         DEF BeginElement, Shape, TypeOK, datagramVars, effectVars
  <2>4. QED
    BY <2>2, <2>3
<1>18. CASE EndElement
  <2>1. CASE kind = "flow" /\ ~lengthCheck(eStart, eLength)
    BY <1>18, <2>1, FinishTyped DEF EndElement, Results
  <2>2. CASE ~(kind = "flow" /\ ~lengthCheck(eStart, eLength))
    <3>1. /\ declared' = IF kind = "flow" THEN declared + 8 + Pad(eLength) ELSE 0
          /\ eStart' = 0 /\ eLength' = 0 /\ ctx' = 0
          /\ todo' = Tail(todo) /\ todo # <<>>
          /\ UNCHANGED <<pc, result, datagramVars, datap, kind, sampleAt, sStart,
                         sLength, elements, effectVars>>
      BY <1>18, <2>2 DEF EndElement, Running
    <3>2. Pad(eLength) \in Nat
      BY <1>b, PadNat
    <3>3. declared' \in Nat /\ todo' \in Seq(Op)
      BY <3>1, <3>2, <1>a DEF Shape, TypeOK
    <3>4. QED
      BY <3>1, <3>3, ConstantsTyped DEF Shape, TypeOK, datagramVars, effectVars
  <2>3. QED
    BY <2>1, <2>2
<1>19. CASE BeginExtended
  <2>1. CASE Finish("eos") \/ Finish("decode")
    BY <2>1, FinishTyped DEF Results
  <2>2. CASE ~(Finish("eos") \/ Finish("decode"))
    <3>1. PICK program \in Programs(ExtendedReader[version]) :
            /\ elements' = elements - 1
            /\ datap' = datap + 4
            /\ todo' = program
            /\ UNCHANGED <<pc, result, datagramVars, kind, sampleAt, sStart,
                           sLength, declared, elementVars, effectVars>>
      BY <1>19, <2>2 DEF BeginExtended
    <3>2. todo' \in Seq(Op)
      <4>1. version \in {2, 4}
        BY <1>19 DEF BeginExtended, Shape
      <4>2. QED
        BY <3>1, <4>1, ReaderAssumption, CheckedIsOp DEF Programs
    <3>3. elements' \in 0 .. Word - 1
      BY <1>19, <3>1, ConstantsTyped DEF BeginExtended, Shape, TypeOK
    <3>4. QED
      BY <1>19, <3>1, <3>2, <3>3, <1>b
         DEF BeginExtended, Shape, TypeOK, datagramVars, elementVars, effectVars
  <2>3. QED
    BY <2>1, <2>2
<1>20. CASE ReadLength
  <2>1. CASE ~Within(datap + 4)
    BY <1>20, <2>1, FinishTyped DEF ReadLength, Results
  <2>2. CASE Within(datap + 4)
    <3>1. PICK length \in Lengths :
            /\ sLength' = length
            /\ sStart' = datap + 4
            /\ datap' = datap + 4
            /\ todo' = Tail(todo)
            /\ UNCHANGED <<pc, result, datagramVars, kind, sampleAt, elements,
                           declared, elementVars, effectVars>>
      BY <1>20, <2>2 DEF ReadLength
    <3>2. sLength' \in 0 .. Word - 1
      BY <3>1, ConstantsTyped
    <3>3. todo' \in Seq(Op) /\ pc = "reading"
      BY <1>20, <3>1, <1>a DEF ReadLength, Running
    <3>4. QED
      BY <3>1, <3>2, <3>3, <1>b DEF Shape, TypeOK, datagramVars, elementVars, effectVars
  <2>3. QED
    BY <2>1, <2>2
<1>21. CASE ReadCount
  <2>1. CASE ~Within(datap + 4)
    BY <1>21, <2>1, FinishTyped DEF ReadCount, Results
  <2>2. CASE Within(datap + 4)
    <3>1. PICK count \in Counts :
            /\ elements' = count
            /\ declared' = IF kind = "flow" THEN datap + 4 - sStart ELSE 0
            /\ datap' = datap + 4
            /\ todo' = Tail(todo)
            /\ UNCHANGED <<pc, result, datagramVars, kind, sampleAt, sStart,
                           sLength, elementVars, effectVars>>
      BY <1>21, <2>2 DEF ReadCount
    <3>2. elements' \in 0 .. Word - 1
      BY <3>1, ConstantsTyped
    <3>3. declared' \in Nat
      BY <3>1, <1>b DEF Shape, TypeOK
    <3>4. todo' \in Seq(Op) /\ pc = "reading"
      BY <1>21, <3>1, <1>a DEF ReadCount, Running
    <3>5. QED
      BY <3>1, <3>2, <3>3, <3>4, <1>b
         DEF Shape, TypeOK, datagramVars, elementVars, effectVars
  <2>3. QED
    BY <2>1, <2>2
<1>22. CASE ReadPacketData
  BY <1>22, ReaderAssumption, ChooseTyped DEF ReadPacketData, Running
<1>23. CASE ReadCounterBlock
  BY <1>23, ReaderAssumption, ChooseTyped DEF ReadCounterBlock, Running
<1>24. CASE BeginSample
  <2>1. CASE Finish("eos") \/ Finish("decode")
    BY <2>1, FinishTyped DEF Results
  <2>2. CASE ~(Finish("eos") \/ Finish("decode"))
    <3>1. PICK reader \in SampleReaders :
            /\ pc' = "reading"
            /\ kind' = reader[1]
            /\ todo' = reader[2]
            /\ sampleAt' = datap
            /\ datap' = datap + 4
            /\ UNCHANGED <<result, datagramVars, sStart, sLength, elements,
                           declared, elementVars, effectVars>>
      BY <1>24, <2>2 DEF BeginSample
    <3>2. /\ reader[1] \in Kinds /\ reader[2] \in Seq(Op)
          /\ reader[1] \in {"flow4", "counters4"} => version # 5
      BY SampleReadersTyped
    <3>3. samp < samplesInPacket /\ version # 0
      BY <1>24 DEF BeginSample, SamplesLeft, Shape
    <3>4. QED
      BY <3>1, <3>2, <3>3 DEF Shape, TypeOK, datagramVars, elementVars, effectVars
  <2>3. QED
    BY <2>1, <2>2
<1>25. CASE EndSample
  <2>1. CASE kind \in {"flow", "counters"} /\ ~lengthCheck(sStart, sLength)
    BY <1>25, <2>1, FinishTyped DEF EndSample, Results
  <2>2. CASE ~(kind \in {"flow", "counters"} /\ ~lengthCheck(sStart, sLength))
    <3>1. /\ samp' = samp + 1 /\ pc' = "samples"
          /\ kind' = "none" /\ sampleAt' = 0 /\ sStart' = 0 /\ sLength' = 0
          /\ declared' = 0
          /\ UNCHANGED <<result, size, version, samplesInPacket, datap,
                         elements, elementVars, todo, effectVars>>
          /\ pc = "reading" /\ todo = <<>>
      BY <1>25, <2>2 DEF EndSample
    <3>2. samp' \in 0 .. samplesInPacket
      BY <3>1, ConstantsTyped DEF Shape, TypeOK
    <3>3. QED
      BY <3>1, <3>2, ConstantsTyped DEF Shape, TypeOK, Kinds, elementVars, effectVars
  <2>3. QED
    BY <2>1, <2>2
<1>26. CASE EndDatagram
  BY <1>26, FinishTyped DEF EndDatagram, Results
<1>27. CASE ReceiveDatagram
  <2>1. PICK length \in Sizes, v \in Versions, address \in Addresses,
             announced \in Counts :
          /\ result' = "none" /\ pc' = "samples"
          /\ size' = length /\ version' = v /\ samplesInPacket' = announced
          /\ datap' = HeaderSize(v, address)
    BY <1>27 DEF ReceiveDatagram
  <2>2. HeaderSize(v, address) \in Nat
    BY SizeAssumption DEF HeaderSize
  <2>3. UNCHANGED <<samp, sampleVars, elementVars, todo, effectVars>> /\ pc = "idle"
    BY <1>27 DEF ReceiveDatagram
  <2>4. size' \in 0 .. MaxSize /\ version' \in {2, 4, 5} /\ samplesInPacket' \in 0 .. Word - 1
    BY <2>1, SizeAssumption
  <2>5. QED
    BY <2>1, <2>2, <2>3, <2>4
       DEF Shape, TypeOK, Results, sampleVars, elementVars, effectVars
<1>28. CASE RejectDatagram
  <2>1. result' \in Results
    BY <1>28 DEF RejectDatagram, Results
  <2>2. QED
    BY <1>28, <2>1
       DEF RejectDatagram, Shape, TypeOK, datagramVars, sampleVars, elementVars, effectVars
<1>29. CASE OutputFails
  BY <1>29, HaltTyped DEF OutputFails
<1>30. CASE UNCHANGED vars
  BY <1>30 DEF vars, Shape, TypeOK, datagramVars, sampleVars, elementVars, effectVars
<1>31. QED
  BY <1>1, <1>2, <1>3, <1>4, <1>5, <1>6, <1>7, <1>8, <1>9, <1>10, <1>11, <1>12,
     <1>13, <1>14, <1>15, <1>16, <1>17, <1>18, <1>19, <1>20, <1>21, <1>22, <1>23,
     <1>24, <1>25, <1>26, <1>27, <1>28, <1>29, <1>30
     DEF Next, Step, Ended

\* The variables hang together as Shape says, in every run of the decoder.
THEOREM ShapeCorrect == Spec => []Shape
<1>1. Init => Shape
  BY ConstantsTyped DEF Init, Shape, TypeOK, Results, Kinds
<1>2. QED
  BY <1>1, ShapeStep, PTL DEF Spec

\* Every variable keeps its range, in every run of the decoder.
THEOREM TypeCorrect == Spec => []TypeOK
<1>1. Shape => TypeOK
  BY DEF Shape
<1>2. QED
  BY <1>1, ShapeCorrect, PTL

(***************************************************************************)
(* The steps as the caller sees them: a datagram is taken, given up, or    *)
(* done; a sample is begun, worked on, or ended.  On this classification   *)
(* rest the proofs that a sample once begun takes up bytes, that SFlowDecode *)
(* implements SFlowReceiver, and that what is stored lies inside the       *)
(* datagram.                                                               *)
(***************************************************************************)

\* SFABORT with one of its codes, with samples left
Abandoned ==
    /\ pc \in {"samples", "reading"} /\ samp < samplesInPacket
    /\ \E outcome \in {"eos", "decode", "length"} : Finish(outcome)

\* The process ends.
Stopped == pc # "down" /\ Halt

Began ==
    /\ pc = "samples" /\ samp < samplesInPacket /\ datap < size
    /\ pc' = "reading"
    /\ \E reader \in SampleReaders : kind' = reader[1] /\ todo' = reader[2]
    /\ sampleAt' = datap /\ datap' = datap + 4 /\ Within(datap + 4)
    /\ UNCHANGED <<result, datagramVars, sStart, sLength, elements,
                   declared, elementVars, effectVars>>

EndedSample ==
    /\ pc = "reading" /\ todo = <<>>
    /\ pc' = "samples" /\ samp' = samp + 1
    /\ todo' = <<>> /\ kind' = "none" /\ sampleAt' = 0
    /\ UNCHANGED <<result, size, version, samplesInPacket, datap, stored, puts>>

\* The first operations of the samples' heads take up a word at least.
Heads == {"length", "string", "fixed"}

InSample ==
    /\ pc = "reading" /\ pc' = "reading" /\ datap' \in Nat /\ datap <= datap'
    /\ UNCHANGED <<result, datagramVars, kind, sampleAt>>
    /\ stored' = stored \/ (StoreA10 /\ CanSkip(datap + A10Head, A10Left))
    /\ todo # <<>> /\ Head(todo).op \in {"length", "string"} => datap + 4 <= datap'
    /\ todo # <<>> /\ Head(todo).op = "fixed" => datap + Arg <= datap'

\* The exceptions of a sample's readers give the datagram up.
LEMMA FinishAbandons ==
  ASSUME Shape, pc = "reading", NEW outcome \in {"eos", "decode", "length"}, Finish(outcome)
  PROVE  Abandoned
  BY DEF Shape, Abandoned

\* A reader may end the process.
LEMMA HaltStops ==
  ASSUME pc = "reading", Halt
  PROVE  Stopped
  BY DEF Stopped

\* An operation that moves the cursor forward works on the sample.
LEMMA MoveInSample ==
  ASSUME Shape, pc = "reading", todo # <<>>, NEW p \in Nat, datap <= p, MoveTo(p),
         Head(todo).op \in {"length", "string"} => datap + 4 <= p,
         Head(todo).op = "fixed" => datap + Arg <= p
  PROVE  InSample
  BY DEF MoveTo, InSample, sampleVars, effectVars

\* So does one that works on the queue of operations.
LEMMA QueueInSample ==
  ASSUME Shape, pc = "reading", todo # <<>>, Head(todo).op \notin Heads,
         datap' \in Nat, datap <= datap',
         UNCHANGED <<pc, result, datagramVars, kind, sampleAt, stored>>
  PROVE  InSample
  BY DEF InSample, Heads

\* So does a step between two elements.
LEMMA ElementInSample ==
  ASSUME Shape, pc = "reading", todo = <<>>,
         datap' \in Nat, datap <= datap',
         UNCHANGED <<pc, result, datagramVars, kind, sampleAt, stored>>
  PROVE  InSample
  BY DEF InSample

\* A sample is begun unless the datagram is given up.
LEMMA BeginsSample ==
  ASSUME Shape, BeginSample
  PROVE  Began \/ Abandoned
<1>1. samp < samplesInPacket /\ pc = "samples" /\ datap \in Nat /\ size \in Nat
  BY DEF BeginSample, SamplesLeft, Shape, TypeOK
<1>2. CASE Finish("eos") \/ Finish("decode")
  BY <1>1, <1>2 DEF Abandoned
<1>3. CASE ~(Finish("eos") \/ Finish("decode"))
  BY <1>1, <1>3 DEF BeginSample, Began
<1>4. QED
  BY <1>2, <1>3

\* A sample is ended unless the datagram is given up.
LEMMA EndsSample ==
  ASSUME Shape, EndSample
  PROVE  EndedSample \/ Abandoned
<1>1. pc = "reading" /\ todo = <<>>
  BY DEF EndSample
<1>2. CASE Finish("length")
  BY <1>1, <1>2, FinishAbandons
<1>3. CASE ~Finish("length")
  BY <1>1, <1>3 DEF EndSample, EndedSample, effectVars
<1>4. QED
  BY <1>2, <1>3

\* Every step of the decoder is of one of these kinds.
LEMMA StepKinds ==
  ASSUME Shape, [Next]_vars
  PROVE  \/ Abandoned \/ Stopped \/ InSample \/ Began \/ EndedSample
         \/ EndDatagram \/ ReceiveDatagram \/ RejectDatagram \/ UNCHANGED vars
<1>a. todo # <<>> => Arg \in Nat
  BY HeadFields DEF Shape, TypeOK, Arg
<1>b. /\ datap \in Nat /\ size \in Nat /\ eLength \in Nat /\ ctx \in Nat
      /\ A10Left \in Nat
  BY ConstantsTyped DEF Shape, TypeOK, A10Left, A10Head
<1>c. \A length \in Lengths : Pad(length) \in Nat
  BY PadNat, ConstantsTyped
<1>1. CASE ReadFixed
  BY <1>1, <1>a, <1>b, MoveInSample, FinishAbandons DEF ReadFixed, Running, Move
<1>2. CASE ReadString
  BY <1>2, <1>b, <1>c, MoveInSample, FinishAbandons DEF ReadString, Running, Move
<1>3. CASE ReadAddress
  BY <1>3, <1>b, ConstantsTyped, MoveInSample, FinishAbandons
     DEF ReadAddress, Running, Move
<1>4. CASE ReadArray
  <2>1. \A count \in Counts : Pad((4 * count) % Word) \in Nat
    BY PadNat, ConstantsTyped
  <2>2. QED
    BY <1>4, <1>b, <2>1, MoveInSample, FinishAbandons, HaltStops
       DEF ReadArray, Running, Move
<1>5. CASE ReadRepeat
  BY <1>5, <1>b, QueueInSample, FinishAbandons, HaltStops
     DEF ReadRepeat, Running, Heads, sampleVars, effectVars
<1>6. CASE Iterate
  BY <1>6, <1>b, QueueInSample DEF Iterate, Running, Heads, sampleVars, effectVars
<1>7. CASE LookUp
  BY <1>7, <1>b, MoveInSample, HaltStops DEF LookUp, Running, Move
<1>8. CASE ReadHeader
  <2>1. pc = "reading" /\ todo # <<>> /\ Head(todo).op = "header"
    BY <1>8 DEF ReadHeader, Running
  <2>2. \A len \in Lengths : /\ datap + 4 * Arg + Pad(len) \in Nat
                             /\ datap <= datap + 4 * Arg + Pad(len)
    <3>1. TAKE len \in Lengths
    <3>2. Arg \in Nat /\ Pad(len) \in Nat
      BY <1>a, <1>c, <2>1
    <3>3. QED
      BY <1>b, <3>2
  <2>3. QED
    BY <1>8, <2>1, <2>2, MoveInSample, FinishAbandons, HaltStops DEF ReadHeader, Move
<1>9. CASE ReadLongOnly
  BY <1>9, <1>b, MoveInSample, FinishAbandons DEF ReadLongOnly, Running, Move
<1>10. CASE SkipElement
  <2>1. pc = "reading" /\ todo # <<>> /\ Head(todo).op = "skip"
    BY <1>10 DEF SkipElement, Running
  <2>2. datap + Pad(eLength) \in Nat /\ datap <= datap + Pad(eLength)
    <3>1. Pad(eLength) \in Nat
      BY <1>b, PadNat
    <3>2. QED
      BY <1>b, <3>1
  <2>3. MoveTo(datap + Pad(eLength)) \/ Finish("eos")
    BY <1>10 DEF SkipElement, Move
  <2>4. QED
    BY <2>1, <2>2, <2>3, MoveInSample, FinishAbandons
<1>11. CASE PopulateU64 \/ PopulateU32
  <2>1. PICK unit \in {4, 8} : Fill(unit)
    BY <1>11 DEF PopulateU64, PopulateU32
  <2>2. pc = "reading" /\ todo # <<>> /\ Head(todo).op \notin Heads
    BY <1>11 DEF PopulateU64, PopulateU32, Running, Heads
  <2> DEFINE parse == ctx % Short
             read  == unit * Least(parse \div unit, Arg \div unit)
  <2>3. parse \in Nat /\ Arg \in Nat
    BY <1>a, <1>b, <2>2, ConstantsTyped
  <2>4. read \in Nat /\ FastForward(parse) \in Nat
    <3>1. Least(parse \div unit, Arg \div unit) \in Nat
      BY <2>3 DEF Least
    <3>2. QED
      BY <2>3, <3>1 DEF FastForward
  <2>5. /\ datap + read + FastForward(parse) \in Nat
        /\ datap <= datap + read + FastForward(parse)
    BY <1>b, <2>4
  <2>6. MoveTo(datap + read + FastForward(parse)) \/ Finish("eos")
    BY <2>1 DEF Fill, Move
  <2>7. QED
    BY <2>2, <2>5, <2>6, MoveInSample, FinishAbandons DEF Heads
<1>12. CASE UpdateContext
  BY <1>12, <1>b, QueueInSample, FinishAbandons
     DEF UpdateContext, Running, Heads, sampleVars, effectVars
<1>13. CASE PutBatch
  BY <1>13, <1>b, QueueInSample, HaltStops DEF PutBatch, Running, Heads, sampleVars
<1>14. CASE IgnoreA10
  BY <1>14, <1>b, QueueInSample
     DEF IgnoreA10, Running, Heads, A10Head, sampleVars, effectVars
<1>15. CASE StoreA10
  <2>1. pc = "reading" /\ todo # <<>> /\ Head(todo).op = "a10"
    BY <1>15 DEF StoreA10, Running
  <2>2. CASE CanSkip(datap + A10Head, A10Left)
    <3>1. /\ datap' = datap + A10Head + Pad(A10Left)
          /\ UNCHANGED <<pc, result, datagramVars, sampleVars>>
      BY <1>15, <2>2 DEF StoreA10
    <3>2. Pad(A10Left) \in Nat
      BY <1>b, PadNat
    <3>3. datap' \in Nat /\ datap <= datap'
      BY <1>b, <3>1, <3>2 DEF A10Head
    <3>4. QED
      BY <1>15, <2>1, <2>2, <3>1, <3>3 DEF InSample, sampleVars
  <2>3. CASE ~CanSkip(datap + A10Head, A10Left)
    BY <1>15, <2>1, <2>3, FinishAbandons, HaltStops DEF StoreA10
  <2>4. QED
    BY <2>2, <2>3
<1>16. CASE BeginElement
  BY <1>16, <1>b, ElementInSample, FinishAbandons DEF BeginElement, effectVars
<1>17. CASE EndElement
  BY <1>17, <1>b, QueueInSample, FinishAbandons DEF EndElement, Running, Heads, effectVars
<1>18. CASE BeginExtended
  BY <1>18, <1>b, ElementInSample, FinishAbandons DEF BeginExtended, effectVars
<1>19. CASE ReadLength
  <2>1. pc = "reading" /\ todo # <<>> /\ Head(todo).op = "length"
    BY <1>19 DEF ReadLength, Running
  <2>2. CASE Finish("eos")
    BY <2>1, <2>2, FinishAbandons
  <2>3. CASE ~Finish("eos")
    <3>1. datap' = datap + 4
      BY <1>19, <2>3 DEF ReadLength
    <3>2. UNCHANGED <<pc, result, datagramVars, kind, sampleAt, effectVars>>
      BY <1>19, <2>3 DEF ReadLength
    <3>3. QED
      BY <2>1, <3>1, <3>2, <1>b DEF InSample, effectVars
  <2>4. QED
    BY <2>2, <2>3
<1>20. CASE ReadCount
  BY <1>20, <1>b, QueueInSample, FinishAbandons DEF ReadCount, Running, Heads, effectVars
<1>21. CASE ReadPacketData \/ ReadCounterBlock
  BY <1>21, <1>b, QueueInSample, FinishAbandons
     DEF ReadPacketData, ReadCounterBlock, Choose, Running, Heads, sampleVars, effectVars
<1>22. CASE BeginSample
  BY <1>22, BeginsSample
<1>23. CASE EndSample
  BY <1>23, EndsSample
<1>24. QED
  BY <1>1, <1>2, <1>3, <1>4, <1>5, <1>6, <1>7, <1>8, <1>9, <1>10, <1>11, <1>12,
     <1>13, <1>14, <1>15, <1>16, <1>17, <1>18, <1>19, <1>20, <1>21, <1>22, <1>23
     DEF Next, Step, OutputFails, Stopped, Ended

(***************************************************************************)
(* What is stored.                                                         *)
(***************************************************************************)

\* Where skipBytes goes through, padding does not wrap.
LEMMA CanSkipRounds ==
  ASSUME Shape, NEW p \in Nat, NEW length \in Nat, CanSkip(p, length)
  PROVE  /\ length <= Pad(length) /\ Pad(length) <= length + 3
         /\ Pad(length) \in Nat /\ p + Pad(length) <= size
<1>1. length <= size /\ p + Pad(length) <= size
  BY DEF CanSkip, Within
<1>2. size <= MaxSize /\ MaxSize <= Short /\ 4 * Short < Word /\ 45 < Short
  BY SizeAssumption DEF Shape, TypeOK
<1>3. length + 3 < Word
  BY <1>1, <1>2, SizeAssumption DEF Shape, TypeOK
<1>4. QED
  BY <1>1, <1>3, PadRounds, PadNat

\* Storing a record keeps what is stored inside the datagram and behind the
\* cursor: skipBytes has judged the very length that is stored.
LEMMA StoreInside ==
  ASSUME Shape, StoredInsideDatagram, StoreA10, CanSkip(datap + A10Head, A10Left)
  PROVE  StoredInsideDatagram'
<1>1. A10Left \in Nat /\ datap + A10Head \in Nat /\ datap \in Nat /\ stored \in Nat
  BY ConstantsTyped DEF Shape, TypeOK, A10Left, A10Head
<1>2. A10Left <= Pad(A10Left) /\ datap + A10Head + Pad(A10Left) <= size
      /\ Pad(A10Left) \in Nat
  BY <1>1, CanSkipRounds
<1>3. /\ datap' = datap + A10Head + Pad(A10Left)
      /\ stored' = stored + A10Head + A10Left
      /\ size' = size
  BY DEF StoreA10, datagramVars
<1>4. QED
  BY <1>1, <1>2, <1>3 DEF StoredInsideDatagram, A10Head, Shape, TypeOK

\* What the key-value store is given lies inside the datagram, one record
\* behind the other, whatever the lengths on the wire.
THEOREM StoredCorrect == Spec => []StoredInsideDatagram
<1>1. Init => StoredInsideDatagram
  BY DEF Init, StoredInsideDatagram
<1>2. Shape /\ StoredInsideDatagram /\ [Next]_vars => StoredInsideDatagram'
  <2> SUFFICES ASSUME Shape, StoredInsideDatagram, [Next]_vars
               PROVE  StoredInsideDatagram'
    OBVIOUS
  <2>1. CASE Abandoned \/ Stopped \/ EndDatagram
    BY <2>1 DEF Abandoned, Stopped, EndDatagram, Finish, Halt, Forget, StoredInsideDatagram
  <2>2. CASE InSample
    <3>1. CASE StoreA10 /\ CanSkip(datap + A10Head, A10Left)
      BY <3>1, StoreInside
    <3>2. CASE stored' = stored
      <4>1. size' = size /\ datap <= datap' /\ datap' \in Nat
        BY <2>2 DEF InSample, datagramVars
      <4>2. QED
        BY <3>2, <4>1 DEF StoredInsideDatagram, Shape, TypeOK
    <3>3. QED
      BY <2>2, <3>1, <3>2 DEF InSample
  <2>3. CASE Began
    BY <2>3 DEF Began, StoredInsideDatagram, Shape, TypeOK, datagramVars, effectVars
  <2>4. CASE EndedSample
    BY <2>4 DEF EndedSample, StoredInsideDatagram
  <2>5. CASE ReceiveDatagram
    <3>1. stored = 0
      BY <2>5 DEF ReceiveDatagram, Shape, TypeOK, StoredInsideDatagram
    <3>2. stored' = 0 /\ Shape'
      BY <2>5, <3>1, ShapeStep DEF ReceiveDatagram, effectVars
    <3>3. QED
      BY <3>2 DEF Shape, TypeOK, StoredInsideDatagram
  <2>6. CASE RejectDatagram
    BY <2>6 DEF RejectDatagram, datagramVars, effectVars, StoredInsideDatagram
  <2>7. CASE UNCHANGED vars
    BY <2>7 DEF vars, datagramVars, effectVars, StoredInsideDatagram
  <2>8. QED
    BY <2>1, <2>2, <2>3, <2>4, <2>5, <2>6, <2>7, StepKinds
<1>3. QED
  BY <1>1, <1>2, ShapeCorrect, PTL DEF Spec

(***************************************************************************)
(* Where the cursor may go.  A counter sample of version 5 may push it past *)
(* the end, but never twice without a checked read in between; all other   *)
(* samples stay inside the datagram.                                       *)
(***************************************************************************)

\* No A10 record is waiting in the queue q.
NoA10(q) == \A i \in 1 .. Len(q) : q[i].op # "a10"

\* OverrunBounded and CursorWithinDatagram are not inductive: what is waiting to
\* be done matters too.  Outside counter samples it is checked operations only,
\* and an A10 record, whose head is not checked, is always the next thing done
\* after its tag and length, which are; its context is still the whole record.
Bounded ==
    /\ OverrunBounded
    /\ pc = "reading" /\ kind # "counters" => datap <= size /\ todo \in Seq(CheckedOp)
    /\ \A i \in 1 .. Len(todo) :
          todo[i].op = "a10" => i = 1 /\ datap <= size /\ datap = eStart /\ ctx = eLength

\* Checked operations are no A10 records.
LEMMA CheckedNoA10 ==
  ASSUME NEW q \in Seq(CheckedOp)
  PROVE  NoA10(q)
  BY DEF NoA10, CheckedOp, OpOf, CheckedKinds

\* Concatenation adds no A10 record.
LEMMA ConcatNoA10 ==
  ASSUME NEW s \in Seq(Op), NEW t \in Seq(Op), NoA10(s), NoA10(t)
  PROVE  NoA10(s \o t)
<1>1. SUFFICES ASSUME NEW i \in 1 .. Len(s \o t)
               PROVE  (s \o t)[i].op # "a10"
  BY DEF NoA10
<1>2. CASE i <= Len(s)
  <2>1. i \in 1 .. Len(s) /\ (s \o t)[i] = s[i]
    BY <1>2
  <2>2. QED
    BY <2>1 DEF NoA10
<1>3. CASE i > Len(s)
  <2>1. i - Len(s) \in 1 .. Len(t) /\ (s \o t)[i] = t[i - Len(s)]
    BY <1>3
  <2>2. QED
    BY <2>1 DEF NoA10
<1>4. QED
  BY <1>2, <1>3

\* Behind the first operation of the queue there is no A10 record.
LEMMA TailNoA10 ==
  ASSUME Shape, Bounded, todo # <<>>
  PROVE  NoA10(Tail(todo)) /\ Tail(todo) \in Seq(Op)
<1>1. todo \in Seq(Op)
  BY DEF Shape, TypeOK
<1>2. ASSUME NEW i \in 1 .. Len(Tail(todo))
      PROVE  Tail(todo)[i].op # "a10"
  <2>1. i + 1 \in 1 .. Len(todo) /\ i + 1 # 1 /\ Tail(todo)[i] = todo[i + 1]
    BY <1>1
  <2>2. QED
    BY <2>1 DEF Bounded
<1>3. QED
  BY <1>1, <1>2, HeadTailTyped DEF NoA10

\* The first operation of a queue is at index 1.
LEMMA FirstIsHead ==
  ASSUME NEW q \in Seq(Op), q # <<>>
  PROVE  1 \in 1 .. Len(q) /\ q[1] = Head(q)
  OBVIOUS

\* The rest of a checked queue is checked, and checked queues may be joined.
LEMMA CheckedQueues ==
  /\ \A q \in Seq(CheckedOp) : q # <<>> => Head(q) \in CheckedOp /\ Tail(q) \in Seq(CheckedOp)
  /\ \A s, t \in Seq(CheckedOp) : s \o t \in Seq(CheckedOp)
  OBVIOUS

\* Only counter samples of version 5 reach an unchecked operation.
LEMMA UncheckedInCounters ==
  ASSUME Bounded, pc = "reading", todo # <<>>, Head(todo).op \in UncheckedKinds
  PROVE  kind = "counters"
<1>1. \A o \in CheckedOp : o.op \notin UncheckedKinds
  BY DEF CheckedOp, OpOf, CheckedKinds, UncheckedKinds
<1>2. QED
  BY <1>1, CheckedQueues DEF Bounded

\* A step within a sample that leaves no A10 record waiting.
LEMMA QueueBounded ==
  ASSUME Shape, Bounded, pc = "reading", pc' = "reading", size' = size, kind' = kind,
         datap' < size + Short, NoA10(todo'),
         kind # "counters" => datap' <= size /\ todo' \in Seq(CheckedOp)
  PROVE  Bounded'
  BY DEF Bounded, OverrunBounded, NoA10

\* A step of the cursor.
LEMMA MoveBounded ==
  ASSUME Shape, Bounded, pc = "reading", todo # <<>>, NEW p \in Nat, p < size + Short,
         kind # "counters" => p <= size,
         MoveTo(p)
  PROVE  Bounded'
<1>1. NoA10(Tail(todo))
  BY TailNoA10
<1>2. kind # "counters" => Tail(todo) \in Seq(CheckedOp)
  BY CheckedQueues DEF Bounded
<1>3. /\ datap' = p /\ todo' = Tail(todo) /\ size' = size /\ kind' = kind
      /\ pc' = "reading"
  BY DEF MoveTo, datagramVars, sampleVars
<1>4. QED
  BY <1>1, <1>2, <1>3, QueueBounded

\* A checked step of the cursor.
LEMMA WithinBounded ==
  ASSUME Shape, Bounded, pc = "reading", todo # <<>>, NEW p \in Nat, p <= size, MoveTo(p)
  PROVE  Bounded'
<1>1. p < size + Short
  BY SizeAssumption DEF Shape, TypeOK
<1>2. QED
  BY <1>1, MoveBounded

\* The ways out of a datagram.
LEMMA OutBounded ==
  ASSUME Forget, pc' # "reading"
  PROVE  Bounded'
  BY SizeAssumption DEF Forget, Bounded, OverrunBounded

\* SFABORT.
LEMMA FinishBounded ==
  ASSUME NEW outcome, Finish(outcome)
  PROVE  Bounded'
  BY OutBounded DEF Finish

\* The end of the process.
LEMMA HaltBounded ==
  ASSUME Halt
  PROVE  Bounded'
  BY OutBounded DEF Halt

\* A fill stops inside the datagram and jumps at most by a record's length.
LEMMA FillBounded ==
  ASSUME Shape, Bounded, pc = "reading", todo # <<>>, Head(todo).op \in UncheckedKinds,
         NEW unit \in {4, 8}, Fill(unit)
  PROVE  Bounded'
<1> DEFINE parse == ctx % Short
           read  == unit * Least(parse \div unit, Arg \div unit)
           q     == datap + read + FastForward(parse)
<1>1. parse \in Nat /\ parse < Short /\ Arg \in Nat /\ datap \in Nat /\ size \in Nat
  BY ConstantsTyped, HeadFields DEF Shape, TypeOK, Arg
<1>2. Least(parse \div unit, Arg \div unit) \in Nat
  BY <1>1 DEF Least
<1>3. read \in Nat /\ FastForward(parse) \in Nat /\ FastForward(parse) < Short
  BY <1>1, <1>2, SizeAssumption DEF FastForward
<1>4. kind = "counters"
  BY UncheckedInCounters
<1>5. CASE Finish("eos")
  BY <1>5, FinishBounded
<1>6. CASE ~Finish("eos")
  <2>1. datap + read <= size /\ MoveTo(q)
    BY <1>6 DEF Fill, Move, Within
  <2>2. q \in Nat /\ q < size + Short
    BY <1>1, <1>3, <2>1, SizeAssumption
  <2>3. QED
    BY <1>4, <2>1, <2>2, MoveBounded
<1>7. QED
  BY <1>5, <1>6

\* Choosing a reader by a tag that must be known.
LEMMA ChooseBounded ==
  ASSUME Shape, Bounded, pc = "reading", todo # <<>>, NEW reader, Choose(reader),
         \A t \in DOMAIN reader : reader[t] \in Seq(CheckedOp)
  PROVE  Bounded'
<1>1. CASE Finish("eos") \/ Finish("decode")
  BY <1>1, FinishBounded
<1>2. CASE ~(Finish("eos") \/ Finish("decode"))
  <2>1. PICK program \in Programs(reader) :
          /\ datap' = datap + 4
          /\ todo' = program \o Tail(todo)
          /\ UNCHANGED <<pc, result, datagramVars, sampleVars, elementVars, effectVars>>
    BY <1>2 DEF Choose
  <2>2. datap + 4 <= size
    BY <1>2 DEF Choose, Within
  <2>3. program \in Seq(CheckedOp) /\ program \in Seq(Op) /\ NoA10(program)
    BY CheckedIsOp, CheckedNoA10 DEF Programs
  <2>4. NoA10(todo')
    BY <2>1, <2>3, TailNoA10, ConcatNoA10
  <2>5. kind # "counters" => todo' \in Seq(CheckedOp)
    BY <2>1, <2>3, CheckedQueues DEF Bounded
  <2>6. datap' <= size /\ datap' < size + Short
    BY <2>1, <2>2, SizeAssumption DEF Shape, TypeOK
  <2>7. pc' = "reading" /\ size' = size /\ kind' = kind
    BY <2>1 DEF datagramVars, sampleVars
  <2>8. QED
    BY <2>4, <2>5, <2>6, <2>7, QueueBounded
<1>3. QED
  BY <1>1, <1>2

\* A step that takes an operation off the queue and moves the cursor at most to
\* the end.
LEMMA TailBounded ==
  ASSUME Shape, Bounded, pc = "reading", todo # <<>>, pc' = "reading",
         size' = size, kind' = kind, todo' = Tail(todo), datap' = datap \/ datap' <= size,
         datap' \in Nat
  PROVE  Bounded'
<1>1. NoA10(todo')
  BY TailNoA10
<1>2. kind # "counters" => datap' <= size /\ todo' \in Seq(CheckedOp)
  BY CheckedQueues DEF Bounded
<1>3. datap' < size + Short
  BY SizeAssumption DEF Bounded, OverrunBounded, Shape, TypeOK
<1>4. QED
  BY <1>1, <1>2, <1>3, QueueBounded

\* The program of an element of a flow sample is checked; that of any element
\* has an A10 record only at its beginning.
LEMMA ElementProgramsBounded ==
  ASSUME kind \in {"flow", "counters"}, NEW program \in ElementPrograms
  PROVE  /\ program \o Operation0("endElement") \in Seq(Op)
         /\ kind = "flow" => program \o Operation0("endElement") \in Seq(CheckedOp)
         /\ \A i \in 1 .. Len(program \o Operation0("endElement")) :
               (program \o Operation0("endElement"))[i].op = "a10" => i = 1
<1> DEFINE close == Operation0("endElement")
<1>1. close \in Seq(CheckedOp) /\ SkipProgram \in Seq(CheckedOp)
  BY OperationsTyped DEF CheckedKinds, SkipProgram
<1>2. program \in Seq(Op) /\ close \in Seq(Op)
  BY <1>1, ReaderAssumption, CheckedIsOp DEF ElementPrograms, Programs
<1>3. kind = "flow" => program \in Seq(CheckedOp)
  BY <1>1, ReaderAssumption DEF ElementPrograms, Programs
<1>4. \A i \in 1 .. Len(program) : program[i].op = "a10" => i = 1
  <2>1. CASE program \in Seq(CheckedOp)
    BY <2>1, CheckedNoA10 DEF NoA10
  <2>2. CASE program \in Programs(CounterReader)
    BY <2>2, ReaderAssumption DEF Programs
  <2>3. QED
    BY <1>1, <1>3, <2>1, <2>2 DEF ElementPrograms
<1>5. NoA10(close)
  BY <1>1, CheckedNoA10
<1>6. ASSUME NEW i \in 1 .. Len(program \o close), (program \o close)[i].op = "a10"
      PROVE  i = 1
  <2>1. CASE i <= Len(program)
    <3>1. i \in 1 .. Len(program) /\ (program \o close)[i] = program[i]
      BY <1>2, <2>1
    <3>2. QED
      BY <1>4, <1>6, <3>1
  <2>2. CASE i > Len(program)
    <3>1. /\ i - Len(program) \in 1 .. Len(close)
          /\ (program \o close)[i] = close[i - Len(program)]
      BY <1>2, <2>2
    <3>2. QED
      BY <1>5, <1>6, <3>1 DEF NoA10
  <2>3. QED
    BY <1>2, <2>1, <2>2
<1>7. QED
  BY <1>1, <1>2, <1>3, <1>6, ConcatTyped, CheckedQueues

\* Every step keeps Bounded.
LEMMA BoundedStep ==
  ASSUME Shape, Shape', Bounded, [Next]_vars
  PROVE  Bounded'
<1>a. todo # <<>> => Arg \in Nat /\ Head(todo).body \in DOMAIN Block \cup {"none"}
  BY HeadFields DEF Shape, TypeOK, Arg
<1>b. /\ datap \in Nat /\ size \in Nat /\ eLength \in Nat /\ ctx \in Nat
      /\ A10Left \in Nat /\ Short \in Nat /\ 45 < Short
  BY ConstantsTyped, SizeAssumption DEF Shape, TypeOK, A10Left, A10Head
<1>c. \A length \in Lengths : Pad(length) \in Nat
  BY PadNat, ConstantsTyped
<1>d. datap' \in Nat
  BY DEF Shape, TypeOK
<1>1. CASE ReadFixed
  BY <1>1, <1>a, <1>b, WithinBounded, FinishBounded DEF ReadFixed, Running, Move, Within
<1>2. CASE ReadString
  BY <1>2, <1>b, <1>c, WithinBounded, FinishBounded
     DEF ReadString, Running, Move, CanSkip, Within
<1>3. CASE ReadAddress
  BY <1>3, <1>b, ConstantsTyped, WithinBounded, FinishBounded
     DEF ReadAddress, Running, Move, Within
<1>4. CASE ReadArray
  <2>1. \A count \in Counts : Pad((4 * count) % Word) \in Nat
    BY PadNat, ConstantsTyped
  <2>2. QED
    BY <1>4, <1>b, <2>1, WithinBounded, FinishBounded, HaltBounded
       DEF ReadArray, Running, Move, CanSkip, Within
<1>5. CASE ReadRepeat
  <2>1. pc = "reading" /\ todo # <<>> /\ Head(todo).op = "repeat"
    BY <1>5 DEF ReadRepeat, Running
  <2>2. CASE Finish("eos") \/ Halt
    BY <2>2, FinishBounded, HaltBounded
  <2>3. CASE ~(Finish("eos") \/ Halt)
    <3>1. PICK count \in Counts :
            /\ datap' = datap + 4
            /\ todo' = <<[op |-> "iterate", n |-> count, body |-> Head(todo).body]>>
                         \o Tail(todo)
            /\ UNCHANGED <<pc, result, datagramVars, sampleVars, elementVars, effectVars>>
      BY <1>5, <2>3 DEF ReadRepeat
    <3>2. datap + 4 <= size
      BY <1>5, <2>3 DEF ReadRepeat, Within
    <3>3. <<[op |-> "iterate", n |-> count, body |-> Head(todo).body]>> \in Seq(CheckedOp)
      <4>1. Head(todo).body \in DOMAIN Block
        BY <2>1, HeadFields DEF Shape, TypeOK
      <4>2. [op |-> "iterate", n |-> count, body |-> Head(todo).body] \in CheckedOp
        BY <4>1, ConstantsTyped DEF CheckedOp, OpOf, CheckedKinds
      <4>3. QED
        BY <4>2
    <3>4. NoA10(todo')
      BY <2>1, <3>1, <3>3, CheckedIsOp, CheckedNoA10, TailNoA10, ConcatNoA10
    <3>5. kind # "counters" => todo' \in Seq(CheckedOp)
      BY <2>1, <3>1, <3>3, CheckedQueues DEF Bounded
    <3>6. /\ pc' = "reading" /\ size' = size /\ kind' = kind
          /\ datap' <= size /\ datap' < size + Short
      BY <1>b, <2>1, <3>1, <3>2 DEF datagramVars, sampleVars
    <3>7. QED
      BY <2>1, <3>4, <3>5, <3>6, QueueBounded
  <2>4. QED
    BY <2>2, <2>3
<1>6. CASE Iterate
  <2>1. /\ pc = "reading" /\ todo # <<>> /\ Head(todo).op = "iterate"
        /\ pc' = "reading" /\ size' = size /\ kind' = kind /\ datap' = datap
    BY <1>6 DEF Iterate, Running, datagramVars, sampleVars
  <2>2. CASE Arg = 0
    <3>1. todo' = Tail(todo)
      BY <1>6, <2>2 DEF Iterate
    <3>2. QED
      BY <1>d, <2>1, <3>1, TailBounded
  <2>3. CASE Arg # 0
    <3> DEFINE again == <<[Head(todo) EXCEPT !.n = Arg - 1]>>
               block == Block[Head(todo).body]
    <3>1. todo' = block \o again \o Tail(todo)
      BY <1>6, <2>3 DEF Iterate
    <3>2. Head(todo) \in Op /\ Head(todo).body \in DOMAIN Block
      BY <2>1, HeadFields, HeadTailTyped DEF Shape, TypeOK
    <3>3. again \in Seq(CheckedOp)
      <4>1. [Head(todo) EXCEPT !.n = Arg - 1] \in CheckedOp
        BY <1>a, <2>1, <2>3, <3>2 DEF Op, CheckedOp, OpOf, CheckedKinds, Arg
      <4>2. QED
        BY <4>1
    <3>4. block \in Seq(CheckedOp)
      BY <3>2, ReaderAssumption
    <3>5. block \o again \in Seq(CheckedOp)
      BY <3>3, <3>4, CheckedQueues
    <3>6. NoA10(todo')
      BY <2>1, <3>1, <3>5, CheckedIsOp, CheckedNoA10, TailNoA10, ConcatNoA10
    <3>7. kind # "counters" => todo' \in Seq(CheckedOp)
      BY <2>1, <3>1, <3>5, CheckedQueues DEF Bounded
    <3>8. datap' < size + Short /\ (kind # "counters" => datap' <= size)
      BY <2>1 DEF Bounded, OverrunBounded
    <3>9. QED
      BY <2>1, <3>6, <3>7, <3>8, QueueBounded
  <2>4. QED
    BY <2>2, <2>3
<1>7. CASE LookUp
  <2>1. pc = "reading" /\ todo # <<>> /\ (MoveTo(datap) \/ Halt)
    BY <1>7 DEF LookUp, Running, Move
  <2>2. datap < size + Short /\ (kind # "counters" => datap <= size)
    BY <2>1 DEF Bounded, OverrunBounded
  <2>3. QED
    BY <1>b, <2>1, <2>2, MoveBounded, HaltBounded
<1>8. CASE ReadHeader
  <2>1. pc = "reading" /\ todo # <<>>
    BY <1>8 DEF ReadHeader, Running
  <2>2. PICK len \in Lengths :
          \/ MoveTo(datap + 4 * Arg + Pad(len)) /\ CanSkip(datap + 4 * Arg, len)
          \/ Finish("eos") \/ Halt
    BY <1>8 DEF ReadHeader, Move
  <2>3. CASE MoveTo(datap + 4 * Arg + Pad(len)) /\ CanSkip(datap + 4 * Arg, len)
    <3>1. Arg \in Nat /\ Pad(len) \in Nat
      BY <1>a, <1>c, <2>1
    <3>2. /\ datap + 4 * Arg + Pad(len) \in Nat
          /\ datap + 4 * Arg + Pad(len) <= size
      BY <1>b, <2>3, <3>1 DEF CanSkip, Within
    <3>3. QED
      BY <2>1, <2>3, <3>2, WithinBounded
  <2>4. QED
    BY <2>2, <2>3, FinishBounded, HaltBounded
<1>9. CASE ReadLongOnly
  <2>1. /\ pc = "reading" /\ todo # <<>>
        /\ \/ MoveTo(datap) \/ Finish("eos")
           \/ MoveTo(datap + 8) /\ datap + 8 <= size
    BY <1>9 DEF ReadLongOnly, Running, Move, Within
  <2>2. datap < size + Short /\ (kind # "counters" => datap <= size)
    BY <2>1 DEF Bounded, OverrunBounded
  <2>3. QED
    BY <1>b, <2>1, <2>2, MoveBounded, WithinBounded, FinishBounded
<1>10. CASE SkipElement
  <2>1. /\ pc = "reading" /\ todo # <<>>
        /\ \/ Finish("eos")
           \/ MoveTo(datap + Pad(eLength)) /\ datap + Pad(eLength) <= size
    BY <1>10 DEF SkipElement, Running, Move, CanSkip, Within
  <2>2. datap + Pad(eLength) \in Nat
    <3>1. Pad(eLength) \in Nat
      BY <1>b, PadNat
    <3>2. QED
      BY <1>b, <3>1
  <2>3. QED
    BY <2>1, <2>2, WithinBounded, FinishBounded
<1>11. CASE PopulateU64 \/ PopulateU32
  BY <1>11, FillBounded DEF PopulateU64, PopulateU32, Running, UncheckedKinds
<1>12. CASE UpdateContext \/ PutBatch
  BY <1>12, <1>d, TailBounded, FinishBounded, HaltBounded
     DEF UpdateContext, PutBatch, Running, datagramVars, sampleVars
<1>13. CASE IgnoreA10
  <2>1. /\ pc = "reading" /\ todo # <<>> /\ Head(todo).op = "a10"
        /\ pc' = "reading" /\ size' = size /\ kind' = kind
        /\ datap' = datap + 45 /\ todo' = Tail(todo)
    BY <1>13 DEF IgnoreA10, Running, A10Head, datagramVars, sampleVars
  <2>2. kind = "counters"
    BY <2>1, UncheckedInCounters DEF UncheckedKinds
  <2>3. datap <= size
    <3>1. 1 \in 1 .. Len(todo) /\ todo[1] = Head(todo)
      BY <2>1, FirstIsHead DEF Shape, TypeOK
    <3>2. QED
      BY <2>1, <3>1 DEF Bounded
  <2>4. datap' < size + Short
    BY <1>b, <2>1, <2>3
  <2>5. NoA10(todo')
    BY <2>1, TailNoA10
  <2>6. QED
    BY <2>1, <2>2, <2>4, <2>5, QueueBounded
<1>14. CASE StoreA10
  <2>1. CASE CanSkip(datap + A10Head, A10Left)
    <3>1. /\ pc = "reading" /\ todo # <<>>
          /\ pc' = "reading" /\ size' = size /\ kind' = kind
          /\ datap' = datap + A10Head + Pad(A10Left) /\ todo' = Tail(todo)
      BY <1>14, <2>1 DEF StoreA10, Running, datagramVars, sampleVars
    <3>2. datap' <= size
      BY <2>1, <3>1 DEF CanSkip, Within
    <3>3. QED
      BY <1>d, <3>1, <3>2, TailBounded
  <2>2. CASE ~CanSkip(datap + A10Head, A10Left)
    BY <1>14, <2>2, FinishBounded, HaltBounded DEF StoreA10
  <2>3. QED
    BY <2>1, <2>2
<1>15. CASE BeginElement
  <2>1. CASE Finish("eos")
    BY <2>1, FinishBounded
  <2>2. CASE ~Finish("eos")
    <3>1. PICK length \in Lengths, program \in ElementPrograms :
            /\ datap' = datap + 8 /\ eStart' = datap + 8
            /\ eLength' = length /\ (kind = "counters" => ctx' = length)
            /\ todo' = program \o Operation0("endElement")
            /\ UNCHANGED <<pc, result, datagramVars, kind, sampleAt, sStart,
                           sLength, declared, effectVars>>
      BY <1>15, <2>2 DEF BeginElement
    <3>2. kind \in {"flow", "counters"} /\ datap + 8 <= size
      BY <1>15, <2>2 DEF BeginElement, Within
    <3>3. size' = size /\ kind' = kind /\ datap' <= size' /\ datap' < size' + Short
      BY <1>b, <3>1, <3>2 DEF datagramVars
    <3>4. ASSUME NEW i \in 1 .. Len(todo'), todo'[i].op = "a10"
          PROVE  i = 1 /\ kind = "counters"
      BY <3>1, <3>2, <3>4, ElementProgramsBounded, CheckedNoA10 DEF NoA10
    <3>5. kind # "counters" => todo' \in Seq(CheckedOp)
      BY <3>1, <3>2, ElementProgramsBounded
    <3>6. QED
      BY <3>1, <3>3, <3>4, <3>5 DEF Bounded, OverrunBounded
  <2>3. QED
    BY <2>1, <2>2
<1>16. CASE EndElement
  BY <1>16, <1>d, TailBounded, FinishBounded DEF EndElement, Running, datagramVars
<1>17. CASE BeginExtended
  <2>1. CASE Finish("eos") \/ Finish("decode")
    BY <2>1, FinishBounded
  <2>2. CASE ~(Finish("eos") \/ Finish("decode"))
    <3>1. PICK program \in Programs(ExtendedReader[version]) :
            /\ datap' = datap + 4
            /\ todo' = program
            /\ UNCHANGED <<pc, result, datagramVars, kind, sampleAt, sStart,
                           sLength, declared, elementVars, effectVars>>
      BY <1>17, <2>2 DEF BeginExtended
    <3>2. kind = "flow4" /\ pc = "reading" /\ datap + 4 <= size
      BY <1>17, <2>2 DEF BeginExtended, Within
    <3>3. program \in Seq(CheckedOp)
      <4>1. version \in {2, 4}
        BY <3>2 DEF Shape
      <4>2. QED
        BY <4>1, ReaderAssumption DEF Programs
    <3>4. /\ size' = size /\ kind' = kind /\ pc' = "reading"
          /\ datap' <= size /\ datap' < size + Short
      BY <1>b, <3>1, <3>2 DEF datagramVars
    <3>5. QED
      BY <3>1, <3>2, <3>3, <3>4, CheckedNoA10, QueueBounded
  <2>3. QED
    BY <2>1, <2>2
<1>18. CASE ReadLength \/ ReadCount
  <2>1. CASE Finish("eos")
    BY <2>1, FinishBounded
  <2>2. CASE ~Finish("eos")
    <3>1. /\ pc = "reading" /\ todo # <<>> /\ datap + 4 <= size
          /\ datap' = datap + 4 /\ todo' = Tail(todo)
          /\ UNCHANGED <<pc, datagramVars, kind>>
      BY <1>18, <2>2 DEF ReadLength, ReadCount, Running, Within
    <3>2. QED
      BY <1>d, <3>1, TailBounded DEF datagramVars
  <2>3. QED
    BY <2>1, <2>2
<1>19. CASE ReadPacketData \/ ReadCounterBlock
  BY <1>19, ReaderAssumption, ChooseBounded DEF ReadPacketData, ReadCounterBlock, Running
<1>20. CASE Began
  <2>1. PICK reader \in SampleReaders : todo' = reader[2]
    BY <1>20 DEF Began
  <2>2. todo' \in Seq(CheckedOp) /\ NoA10(todo')
    BY <2>1, SampleReadersTyped, CheckedNoA10
  <2>3. datap' <= size' /\ datap' < size' + Short
    BY <1>b, <1>20 DEF Began, Within, datagramVars
  <2>4. QED
    BY <2>2, <2>3 DEF Bounded, OverrunBounded, NoA10
<1>21. CASE EndedSample
  BY <1>21 DEF EndedSample, Bounded, OverrunBounded
<1>22. CASE Abandoned \/ Stopped \/ EndDatagram
  BY <1>22, FinishBounded, HaltBounded DEF Abandoned, Stopped, EndDatagram
<1>23. CASE ReceiveDatagram
  <2>1. pc' = "samples" /\ todo' = <<>> /\ datap' <= size'
    BY <1>23 DEF ReceiveDatagram, Shape
  <2>2. size' \in Nat
    BY SizeAssumption DEF Shape, TypeOK
  <2>3. QED
    BY <1>b, <1>d, <2>1, <2>2 DEF Bounded, OverrunBounded
<1>24. CASE RejectDatagram
  BY <1>24 DEF RejectDatagram, datagramVars, sampleVars, elementVars, Bounded, OverrunBounded
<1>25. CASE UNCHANGED vars
  BY <1>25 DEF vars, datagramVars, sampleVars, elementVars, Bounded, OverrunBounded
<1>26. CASE BeginSample
  BY <1>20, <1>22, <1>26, BeginsSample
<1>27. CASE EndSample
  BY <1>21, <1>22, <1>27, EndsSample
<1>28. QED
  BY <1>1, <1>2, <1>3, <1>4, <1>5, <1>6, <1>7, <1>8, <1>9, <1>10, <1>11, <1>12,
     <1>13, <1>14, <1>15, <1>16, <1>17, <1>18, <1>19, <1>22, <1>23, <1>24, <1>25,
     <1>26, <1>27
     DEF Next, Step, OutputFails, Stopped, Ended

\* In every run, an unchecked step takes the cursor past the end of the datagram
\* at most once, and by less than one unsigned short; and outside counter
\* samples of version 5 the cursor never passes the end.
THEOREM BoundedCorrect == Spec => []Bounded
<1>1. Init => Bounded
  BY SizeAssumption DEF Init, Bounded, OverrunBounded
<1>2. Shape /\ Shape' /\ Bounded /\ [Next]_vars => Bounded'
  BY BoundedStep
<1>3. QED
  BY <1>1, <1>2, ShapeCorrect, PTL DEF Spec

\* Every read of a flow sample, of a version 2 or 4 sample and of a skipped
\* sample is inside the datagram.
THEOREM CursorCorrect == Spec => []CursorWithinDatagram
<1>1. Bounded => CursorWithinDatagram
  BY DEF Bounded, CursorWithinDatagram
<1>2. QED
  BY <1>1, BoundedCorrect, PTL

\* The cursor stays within one unsigned short of the end of the datagram.
THEOREM OverrunCorrect == Spec => []OverrunBounded
<1>1. Bounded => OverrunBounded
  BY DEF Bounded
<1>2. QED
  BY <1>1, BoundedCorrect, PTL

\* An A10 record that is stored is consumed to its own length: skipBytes refuses
\* what is left of a record shorter than its head, which wraps, and otherwise
\* steps over what is left, rounded up.
THEOREM StoredConsumed == Spec => StoredRecordConsumed
<1> DEFINE Consumed ==
        stored' > stored => eLength <= datap' - eStart /\ datap' - eStart <= eLength + 3
<1>1. Shape /\ Bounded /\ [Next]_vars => [Consumed]_vars
  <2> SUFFICES ASSUME Shape, Bounded, [Next]_vars, stored' > stored
               PROVE  eLength <= datap' - eStart /\ datap' - eStart <= eLength + 3
    OBVIOUS
  <2>1. StoreA10 /\ CanSkip(datap + A10Head, A10Left)
    <3>1. stored \in Nat /\ ~(0 > stored) /\ ~(stored > stored)
      BY DEF Shape, TypeOK
    <3>2. stored' # 0 /\ stored' # stored
      BY <3>1
    <3>3. ~(Abandoned \/ Stopped \/ EndDatagram)
      BY <3>2 DEF Abandoned, Stopped, EndDatagram, Finish, Halt, Forget
    <3>4. ~(Began \/ EndedSample \/ ReceiveDatagram \/ RejectDatagram \/ UNCHANGED vars)
      BY <3>2 DEF Began, EndedSample, ReceiveDatagram, RejectDatagram, vars, effectVars
    <3>5. InSample
      BY <3>3, <3>4, StepKinds
    <3>6. QED
      BY <3>2, <3>5 DEF InSample
  <2>2. /\ pc = "reading" /\ todo # <<>> /\ Head(todo).op = "a10"
        /\ datap' = datap + A10Head + Pad(A10Left)
    BY <2>1 DEF StoreA10, Running
  <2>3. datap = eStart /\ ctx = eLength
    BY <2>2, FirstIsHead DEF Bounded, Shape, TypeOK
  <2>4. /\ datap \in Nat /\ eLength \in 0 .. Word - 1 /\ size \in 0 .. MaxSize
        /\ Word \in Nat /\ Short \in Nat /\ MaxSize <= Short /\ MaxSize \in Nat
        /\ 45 < Short /\ 4 * Short < Word
    BY SizeAssumption DEF Shape, TypeOK
  <2>5. A10Left \in Nat /\ datap + A10Head \in Nat
    BY <2>3, <2>4 DEF A10Left, A10Head
  <2>6. /\ A10Left <= Pad(A10Left) /\ Pad(A10Left) <= A10Left + 3
        /\ Pad(A10Left) \in Nat /\ A10Left <= size
    BY <2>1, <2>5, CanSkipRounds DEF CanSkip
  <2>7. CASE eLength < 45
    <3>1. A10Left = eLength + Word - 45
      BY <2>3, <2>4, <2>7 DEF A10Left, A10Head
    <3>2. QED
      BY <2>4, <2>6, <2>7, <3>1
  <2>8. CASE eLength >= 45
    <3>1. A10Left = eLength - 45
      BY <2>3, <2>4, <2>8 DEF A10Left, A10Head
    <3>2. QED
      BY <2>2, <2>3, <2>4, <2>6, <3>1 DEF A10Head
  <2>9. QED
    BY <2>4, <2>7, <2>8
<1>2. QED
  BY <1>1, ShapeCorrect, BoundedCorrect, PTL DEF Spec, StoredRecordConsumed

(***************************************************************************)
(* SFlowDecode implements SFlowReceiver.  What is not obvious is that every *)
(* sample takes up two words at least and begins before the end: it holds  *)
(* because every head of a sample starts with an operation that consumes a *)
(* word or aborts.                                                         *)
(***************************************************************************)

\* A sample that is being read begins inside the datagram, and has taken up two
\* words unless the first operation of its head is still to come.
Progress ==
    pc = "reading" =>
      /\ sampleAt < size
      /\ \/ sampleAt + 8 <= datap
         \/ /\ datap = sampleAt + 4
            /\ todo # <<>> /\ Head(todo).op \in Heads
            /\ Head(todo).op = "fixed" => Arg >= 4

\* The first operation of a concatenation.
LEMMA HeadConcat ==
  ASSUME NEW s \in Seq(Op), NEW t \in Seq(Op), s # <<>>
  PROVE  s \o t # <<>> /\ Head(s \o t) = Head(s)
  OBVIOUS

\* Every sample's head begins with an operation that takes up a word at least.
LEMMA HeadsFirst ==
  \A reader \in SampleReaders :
     /\ reader[2] # <<>> /\ Head(reader[2]).op \in Heads
     /\ Head(reader[2]).op = "fixed" => Head(reader[2]).n >= 4
<1> DEFINE Good(s) == /\ s # <<>> /\ Head(s).op \in Heads
                      /\ Head(s).op = "fixed" => Head(s).n >= 4
<1>1. \A s, t \in Seq(Op) : Good(s) => Good(s \o t)
  BY HeadConcat
<1>2. /\ \A name \in {"length", "string"} : Good(Operation0(name))
      /\ \A k \in Nat \ {0} : Good(WordsOf(k))
  BY DEF Operation0, WordsOf, Heads
<1>3. /\ \A name \in {"length", "string", "count", "packetData", "counterBlock"} :
            Operation0(name) \in Seq(Op)
      /\ \A k \in Nat : WordsOf(k) \in Seq(Op)
  BY OperationsTyped, CheckedIsOp DEF CheckedKinds
<1>4. \A ids \in Nat : Good(readFlowSample(ids)) /\ Good(readCountersSample(ids))
  <2>1. TAKE ids \in Nat
  <2>2. WordsOf(6 + ids) \in Seq(Op) /\ WordsOf(1 + ids) \in Seq(Op)
    <3>1. 6 + ids \in Nat /\ 1 + ids \in Nat
      OBVIOUS
    <3>2. QED
      BY <1>3, <3>1
  <2>3. /\ Operation0("length") \o WordsOf(6 + ids) \in Seq(Op)
        /\ Operation0("length") \o WordsOf(1 + ids) \in Seq(Op)
    BY <1>3, <2>2, ConcatTyped
  <2>4. /\ Good(Operation0("length") \o WordsOf(6 + ids))
        /\ Good(Operation0("length") \o WordsOf(1 + ids))
    BY <1>1, <1>2, <1>3, <2>2
  <2>5. QED
    BY <1>1, <1>3, <2>3, <2>4 DEF readFlowSample, readCountersSample
<1>5. Good(readFlowSample_v2v4) /\ Good(readCountersSample_v2v4)
  <2>0. /\ WordsOf(7) \in Seq(Op) /\ Good(WordsOf(7))
        /\ WordsOf(3) \in Seq(Op) /\ Good(WordsOf(3))
    <3>1. 7 \in Nat \ {0} /\ 3 \in Nat \ {0}
      OBVIOUS
    <3>2. QED
      BY <1>2, <1>3, <3>1
  <2>1. WordsOf(7) \o Operation0("packetData") \in Seq(Op)
    BY <1>3, <2>0, ConcatTyped
  <2>2. Good(WordsOf(7) \o Operation0("packetData"))
    BY <1>1, <1>3, <2>0
  <2>3. Good(readFlowSample_v2v4)
    BY <1>1, <1>3, <2>1, <2>2 DEF readFlowSample_v2v4
  <2>4. Good(readCountersSample_v2v4)
    BY <1>1, <1>3, <2>0 DEF readCountersSample_v2v4
  <2>5. QED
    BY <2>3, <2>4
<1>6. Good(skipSample)
  BY <1>2 DEF skipSample
<1>7. \A reader \in SampleReaders : Good(reader[2])
  BY <1>4, <1>5, <1>6 DEF SampleReaders
<1>8. QED
  BY <1>7

\* Progress is kept by every step.
LEMMA ProgressStep ==
  ASSUME Shape, Progress, [Next]_vars
  PROVE  Progress'
<1>a. sampleAt \in Nat /\ datap \in Nat /\ size \in Nat
  BY DEF Shape, TypeOK
<1>1. CASE Abandoned \/ Stopped \/ EndDatagram
  BY <1>1 DEF Abandoned, Stopped, EndDatagram, Finish, Halt, Progress
<1>2. CASE InSample
  <2>1. /\ pc = "reading" /\ sampleAt' = sampleAt /\ size' = size
        /\ datap' \in Nat /\ datap <= datap'
        /\ todo # <<>> /\ Head(todo).op \in {"length", "string"} => datap + 4 <= datap'
        /\ todo # <<>> /\ Head(todo).op = "fixed" => datap + Arg <= datap'
    BY <1>2 DEF InSample, datagramVars
  <2>2. CASE sampleAt + 8 <= datap
    BY <1>a, <2>1, <2>2 DEF Progress
  <2>3. CASE ~(sampleAt + 8 <= datap)
    <3>1. /\ datap = sampleAt + 4 /\ sampleAt < size
          /\ todo # <<>> /\ Head(todo).op \in Heads
          /\ Head(todo).op = "fixed" => Arg >= 4
      BY <2>1, <2>3 DEF Progress
    <3>2. Arg \in Nat
      BY <3>1, HeadFields DEF Shape, TypeOK, Arg
    <3>3. datap + 4 <= datap'
      BY <1>a, <2>1, <3>1, <3>2 DEF Heads
    <3>4. QED
      BY <1>a, <2>1, <3>1, <3>3 DEF Progress
  <2>4. QED
    BY <2>2, <2>3
<1>3. CASE Began
  <2>1. PICK reader \in SampleReaders : todo' = reader[2]
    BY <1>3 DEF Began
  <2>2. sampleAt' = datap /\ datap' = datap + 4 /\ size' = size /\ datap < size
    BY <1>3 DEF Began, datagramVars
  <2>3. QED
    BY <2>1, <2>2, HeadsFirst DEF Progress, Arg
<1>4. CASE EndedSample \/ ReceiveDatagram
  BY <1>4 DEF EndedSample, ReceiveDatagram, Progress
<1>5. CASE RejectDatagram
  BY <1>5 DEF RejectDatagram, Progress
<1>6. CASE UNCHANGED vars
  BY <1>6 DEF vars, datagramVars, sampleVars, Progress, Arg
<1>7. QED
  BY <1>1, <1>2, <1>3, <1>4, <1>5, <1>6, StepKinds

\* Every run of the decoder is one that SFlowReceiver allows: samples are taken
\* in the order of their bytes, none beginning past the end, a datagram is
\* complete only when all announced ones were taken, and an exception leaves
\* nothing behind.
THEOREM ReceiverImplemented == Spec => ImplementsReceiver
<1>1. Init => Receiver!Init /\ Progress
  BY DEF Init, Receiver!Init, Progress
<1>2. Shape /\ Shape' /\ Progress /\ [Next]_vars => [Receiver!Next]_(Receiver!vars)
  <2> SUFFICES ASSUME Shape, Shape', Progress, [Next]_vars
               PROVE  [Receiver!Next]_(Receiver!vars)
    OBVIOUS
  <2>a. /\ samp \in Nat /\ samplesInPacket \in Nat /\ datap \in Nat /\ size \in Nat
        /\ sampleAt \in Nat /\ result \in Results
    BY ConstantsTyped DEF Shape, TypeOK
  <2>1. CASE Abandoned
    <3>1. Receiver!Abandon
      BY <2>1, <2>a
         DEF Abandoned, Finish, Forget, Receiver!Abandon, Receiver!Drop
    <3>2. QED
      BY <3>1 DEF Receiver!Next
  <2>2. CASE Stopped
    <3>1. Receiver!Stop
      BY <2>2, <2>a DEF Stopped, Halt, Forget, Receiver!Stop, Receiver!Drop
    <3>2. QED
      BY <3>1 DEF Receiver!Next
  <2>3. CASE InSample
    BY <2>3 DEF InSample, datagramVars, Receiver!vars
  <2>4. CASE Began
    BY <2>4 DEF Began, datagramVars, Receiver!vars
  <2>5. CASE EndedSample
    <3>1. Receiver!TakeSample
      <4>1. /\ pc = "reading" /\ pc' = "samples" /\ samp' = samp + 1
            /\ result' = result /\ size' = size /\ samplesInPacket' = samplesInPacket
            /\ datap' = datap /\ todo = <<>>
        BY <2>5 DEF EndedSample
      <4>2. samp < samplesInPacket
        BY <4>1 DEF Shape
      <4>3. sampleAt < size /\ sampleAt + 8 <= datap
        BY <4>1 DEF Progress
      <4>4. QED
        BY <2>a, <4>1, <4>2, <4>3 DEF Receiver!TakeSample, Receiver!MinSample
    <3>2. QED
      BY <3>1 DEF Receiver!Next
  <2>6. CASE EndDatagram
    <3>1. Receiver!Complete
      BY <2>6, <2>a DEF EndDatagram, Finish, Forget, Receiver!Complete, Receiver!Drop
    <3>2. QED
      BY <3>1 DEF Receiver!Next
  <2>7. CASE ReceiveDatagram
    <3>1. Receiver!Receive
      <4>1. /\ pc = "idle" /\ pc' = "samples" /\ result' = "none"
            /\ datap' <= size' /\ samp' = 0
        BY <2>7 DEF ReceiveDatagram, Shape
      <4>2. datap' \in Nat /\ size' \in Nat /\ samplesInPacket' \in Nat
        BY ConstantsTyped DEF Shape, TypeOK
      <4>3. samplesInPacket' - samp' \in Nat
        <5>1. \A n \in Nat : n - 0 \in Nat
          OBVIOUS
        <5>2. samplesInPacket' - samp' = samplesInPacket' - 0
          BY <4>1
        <5>3. QED
          BY <4>2, <5>1, <5>2
      <4>4. datap' \in 0 .. size'
        BY <4>1, <4>2
      <4>5. QED
        BY <4>1, <4>2, <4>3, <4>4 DEF Receiver!Receive
    <3>2. QED
      BY <3>1 DEF Receiver!Next
  <2>8. CASE RejectDatagram
    <3>1. Receiver!Reject
      BY <2>8 DEF RejectDatagram, datagramVars, Receiver!Reject
    <3>2. QED
      BY <3>1 DEF Receiver!Next
  <2>9. CASE UNCHANGED vars
    BY <2>9 DEF vars, datagramVars, sampleVars, Receiver!vars
  <2>10. QED
    BY <2>1, <2>2, <2>3, <2>4, <2>5, <2>6, <2>7, <2>8, <2>9, StepKinds
<1>3. Spec => []Progress
  <2>1. Shape /\ Progress /\ [Next]_vars => Progress'
    BY ProgressStep
  <2>2. QED
    BY <1>1, <2>1, ShapeCorrect, PTL DEF Spec
<1>4. QED
  BY <1>1, <1>2, <1>3, ShapeCorrect, PTL DEF Spec, ImplementsReceiver, Receiver!Spec

(***************************************************************************)
(* Whole records.  What a record's reader has still to do is seen in the   *)
(* queue, operation by operation.                                          *)
(***************************************************************************)

\* Queues by index.
LEMMA ConcatIndex ==
  ASSUME NEW s \in Seq(Op), NEW t \in Seq(Op)
  PROVE  /\ s \o t \in Seq(Op) /\ Len(s \o t) = Len(s) + Len(t)
         /\ Len(s) \in Nat /\ Len(t) \in Nat
         /\ \A i \in 1 .. Len(s) : (s \o t)[i] = s[i]
         /\ \A i \in 1 .. Len(t) : (s \o t)[Len(s) + i] = t[i]
  OBVIOUS

\* The rest of a queue is the queue shifted by one.
LEMMA TailIndex ==
  ASSUME NEW q \in Seq(Op), q # <<>>
  PROVE  /\ Tail(q) \in Seq(Op) /\ Len(q) \in Nat \ {0} /\ Len(Tail(q)) = Len(q) - 1
         /\ q[1] = Head(q) /\ \A i \in 1 .. Len(q) - 1 : Tail(q)[i] = q[i + 1]
  OBVIOUS

\* While a sample is read, the step taken is the one the head of the queue names.
LEMMA OperationDone ==
  ASSUME pc = "reading", pc' = "reading", todo # <<>>, [Next]_vars, ~UNCHANGED vars
  PROVE  \/ Head(todo).op = "fixed" /\ ReadFixed
         \/ Head(todo).op = "string" /\ ReadString
         \/ Head(todo).op = "address" /\ ReadAddress
         \/ Head(todo).op = "array" /\ ReadArray
         \/ Head(todo).op = "repeat" /\ ReadRepeat
         \/ Head(todo).op = "iterate" /\ Iterate
         \/ Head(todo).op = "lookup" /\ LookUp
         \/ Head(todo).op = "header" /\ ReadHeader
         \/ Head(todo).op = "longOnly" /\ ReadLongOnly
         \/ Head(todo).op = "skip" /\ SkipElement
         \/ Head(todo).op = "fill64" /\ PopulateU64
         \/ Head(todo).op = "fill32" /\ PopulateU32
         \/ Head(todo).op = "context" /\ UpdateContext
         \/ Head(todo).op = "put" /\ PutBatch
         \/ Head(todo).op = "a10" /\ (IgnoreA10 \/ StoreA10)
         \/ Head(todo).op = "endElement" /\ EndElement
         \/ Head(todo).op = "length" /\ ReadLength
         \/ Head(todo).op = "count" /\ ReadCount
         \/ Head(todo).op = "packetData" /\ ReadPacketData
         \/ Head(todo).op = "counterBlock" /\ ReadCounterBlock
<1>1. ~(ReceiveDatagram \/ RejectDatagram \/ BeginSample \/ EndDatagram \/ Ended)
  BY DEF ReceiveDatagram, RejectDatagram, BeginSample, EndDatagram, Ended
<1>2. ~(BeginElement \/ BeginExtended \/ EndSample)
  BY DEF BeginElement, BeginExtended, EndSample
<1>3. ~OutputFails
  BY DEF OutputFails, Halt
<1>4. Step
  BY <1>1, <1>3 DEF Next
<1>5. /\ ReadFixed => Head(todo).op = "fixed"
      /\ ReadString => Head(todo).op = "string"
      /\ ReadAddress => Head(todo).op = "address"
      /\ ReadArray => Head(todo).op = "array"
      /\ ReadRepeat => Head(todo).op = "repeat"
      /\ Iterate => Head(todo).op = "iterate"
      /\ LookUp => Head(todo).op = "lookup"
  BY DEF Running, ReadFixed, ReadString, ReadAddress, ReadArray, ReadRepeat, Iterate, LookUp
<1>6. /\ ReadHeader => Head(todo).op = "header"
      /\ ReadLongOnly => Head(todo).op = "longOnly"
      /\ SkipElement => Head(todo).op = "skip"
      /\ PopulateU64 => Head(todo).op = "fill64"
      /\ PopulateU32 => Head(todo).op = "fill32"
      /\ UpdateContext => Head(todo).op = "context"
      /\ PutBatch => Head(todo).op = "put"
  BY DEF Running, ReadHeader, ReadLongOnly, SkipElement, PopulateU64, PopulateU32,
         UpdateContext, PutBatch
<1>7. /\ IgnoreA10 \/ StoreA10 => Head(todo).op = "a10"
      /\ EndElement => Head(todo).op = "endElement"
      /\ ReadLength => Head(todo).op = "length"
      /\ ReadCount => Head(todo).op = "count"
      /\ ReadPacketData => Head(todo).op = "packetData"
      /\ ReadCounterBlock => Head(todo).op = "counterBlock"
  BY DEF Running, IgnoreA10, StoreA10, EndElement, ReadLength, ReadCount,
         ReadPacketData, ReadCounterBlock
<1>8. QED
  BY <1>1, <1>2, <1>4, <1>5, <1>6, <1>7 DEF Step

\* A sample is entered at its head, and an element from between two of them.
LEMMA SampleEntered ==
  ASSUME Shape, [Next]_vars, pc # "reading", pc' = "reading"
  PROVE  Began
<1>1. ~(Abandoned \/ Stopped \/ EndDatagram)
  BY DEF Abandoned, Stopped, EndDatagram, Finish, Halt
<1>2. ~(InSample \/ EndedSample \/ ReceiveDatagram \/ RejectDatagram \/ UNCHANGED vars)
  BY DEF InSample, EndedSample, ReceiveDatagram, RejectDatagram, vars
<1>3. QED
  BY <1>1, <1>2, StepKinds

\* Between two elements, the step that goes on begins the next one.
LEMMA ElementEntered ==
  ASSUME [Next]_vars, ~UNCHANGED vars, pc = "reading", pc' = "reading", todo = <<>>
  PROVE  /\ puts' = puts
         /\ \/ /\ kind \in {"flow", "counters"} /\ kind' = kind
               /\ \E length \in Lengths, program \in ElementPrograms :
                     /\ datap' = datap + 8 /\ eStart' = datap + 8 /\ eLength' = length
                     /\ kind = "counters" => ctx' = length
                     /\ todo' = program \o Operation0("endElement")
                     /\ UNCHANGED <<sStart, declared>>
            \/ /\ kind = "flow4" /\ kind' = kind /\ datap' = datap + 4
               /\ todo' \in Programs(ExtendedReader[version])
<1>1. ~(ReceiveDatagram \/ RejectDatagram \/ BeginSample \/ EndDatagram \/ Ended)
  BY DEF ReceiveDatagram, RejectDatagram, BeginSample, EndDatagram, Ended
<1>2. ~(OutputFails \/ EndSample)
  BY DEF OutputFails, Halt, EndSample, Finish
<1>3. ~Running("fixed") /\ \A name : ~Running(name)
  BY DEF Running
<1>4. BeginElement \/ BeginExtended
  <2>1. ~(ReadFixed \/ ReadString \/ ReadAddress \/ ReadArray \/ ReadRepeat \/ Iterate
          \/ LookUp \/ ReadHeader \/ ReadLongOnly \/ SkipElement)
    BY <1>3 DEF ReadFixed, ReadString, ReadAddress, ReadArray, ReadRepeat, Iterate,
                LookUp, ReadHeader, ReadLongOnly, SkipElement
  <2>2. ~(PopulateU64 \/ PopulateU32 \/ UpdateContext \/ PutBatch \/ IgnoreA10 \/ StoreA10
          \/ EndElement \/ ReadLength \/ ReadCount \/ ReadPacketData \/ ReadCounterBlock)
    BY <1>3 DEF PopulateU64, PopulateU32, UpdateContext, PutBatch, IgnoreA10, StoreA10,
                EndElement, ReadLength, ReadCount, ReadPacketData, ReadCounterBlock
  <2>3. QED
    BY <1>1, <1>2, <2>1, <2>2 DEF Next, Step
<1>5. CASE BeginElement
  BY <1>5 DEF BeginElement, Finish, effectVars
<1>6. CASE BeginExtended
  BY <1>6 DEF BeginExtended, Finish, effectVars
<1>7. QED
  BY <1>4, <1>5, <1>6

\* An operation leaves the queue, and may put checked ones in its place.
LEMMA QueueStep ==
  ASSUME Shape, pc = "reading", pc' = "reading", todo # <<>>, [Next]_vars
  PROVE  \/ UNCHANGED vars
         \/ todo' = Tail(todo)
         \/ \E r \in Seq(CheckedOp) : todo' = r \o Tail(todo)
<1> SUFFICES ASSUME ~UNCHANGED vars
             PROVE  \/ todo' = Tail(todo)
                    \/ \E r \in Seq(CheckedOp) : todo' = r \o Tail(todo)
  OBVIOUS
<1>a. \A outcome : ~Finish(outcome)
  BY DEF Finish
<1>b. ~Halt
  BY DEF Halt
<1>1. CASE ReadFixed \/ ReadString \/ ReadAddress \/ ReadArray
  BY <1>a, <1>b, <1>1 DEF ReadFixed, ReadString, ReadAddress, ReadArray, Move, MoveTo
<1>2. CASE LookUp \/ ReadHeader \/ ReadLongOnly \/ SkipElement
  BY <1>a, <1>b, <1>2 DEF LookUp, ReadHeader, ReadLongOnly, SkipElement, Move, MoveTo
<1>3. CASE PopulateU64 \/ PopulateU32
  BY <1>a, <1>3 DEF PopulateU64, PopulateU32, Fill, Move, MoveTo
<1>4. CASE UpdateContext \/ PutBatch \/ IgnoreA10 \/ StoreA10
  BY <1>a, <1>b, <1>4 DEF UpdateContext, PutBatch, IgnoreA10, StoreA10
<1>5. CASE EndElement \/ ReadLength \/ ReadCount
  BY <1>a, <1>5 DEF EndElement, ReadLength, ReadCount
<1>6. CASE ReadPacketData \/ ReadCounterBlock
  <2>1. PICK reader : Choose(reader) /\ \A t \in DOMAIN reader : reader[t] \in Seq(CheckedOp)
    BY <1>6, ReaderAssumption DEF ReadPacketData, ReadCounterBlock
  <2>2. QED
    BY <1>a, <2>1 DEF Choose, Programs
<1>7. CASE Head(todo).op = "repeat" /\ ReadRepeat
  <2>1. PICK count \in Counts :
          todo' = <<[op |-> "iterate", n |-> count, body |-> Head(todo).body]>> \o Tail(todo)
    BY <1>a, <1>b, <1>7 DEF ReadRepeat
  <2> DEFINE again == [op |-> "iterate", n |-> count, body |-> Head(todo).body]
  <2>2. again \in CheckedOp
    <3>1. Head(todo).body \in DOMAIN Block
      BY <1>7, HeadFields DEF Shape, TypeOK
    <3>2. QED
      BY <3>1, ConstantsTyped DEF CheckedOp, OpOf, CheckedKinds
  <2>3. todo' = <<again>> \o Tail(todo)
    BY <2>1
  <2> HIDE DEF again
  <2>4. <<again>> \in Seq(CheckedOp)
    BY <2>2
  <2>5. QED
    BY <2>3, <2>4
<1>8. CASE Head(todo).op = "iterate" /\ Iterate
  <2>1. CASE Arg = 0
    BY <1>8, <2>1 DEF Iterate
  <2>2. CASE Arg # 0
    <3>1. todo' = Block[Head(todo).body] \o <<[Head(todo) EXCEPT !.n = Arg - 1]>> \o Tail(todo)
      BY <1>8, <2>2 DEF Iterate
    <3>2. Head(todo) \in Op /\ Head(todo).body \in DOMAIN Block
      BY <1>8, HeadFields, HeadTailTyped DEF Shape, TypeOK
    <3>3. [Head(todo) EXCEPT !.n = Arg - 1] \in CheckedOp
      BY <1>8, <2>2, <3>2 DEF Op, CheckedOp, OpOf, CheckedKinds, Arg
    <3>4. Block[Head(todo).body] \in Seq(CheckedOp)
      BY <3>2, ReaderAssumption
    <3>5. Block[Head(todo).body] \o <<[Head(todo) EXCEPT !.n = Arg - 1]>> \in Seq(CheckedOp)
      BY <3>3, <3>4, CheckedQueues
    <3>6. QED
      BY <3>1, <3>5
  <2>3. QED
    BY <2>1, <2>2
<1>9. QED
  BY <1>1, <1>2, <1>3, <1>4, <1>5, <1>6, <1>7, <1>8, OperationDone

(***************************************************************************)
(* Counter records.  The cursor and the context's length account for the   *)
(* record: what the one has moved and the other has not yet given up is    *)
(* what the operations in front of the fill still owe.                     *)
(***************************************************************************)

\* The queue has a fill at k, with nothing behind it but a batch and the end of
\* the element.
Awaits(q, k) ==
    /\ FillsAt(q, k) /\ Len(q) \in {k + 1, k + 2} /\ q[Len(q)].op = "endElement"
    /\ Len(q) = k + 2 => q[k + 1].op = "put"

\* The fill is done.
Filled(q) ==
    /\ Len(q) \in {1, 2} /\ q[Len(q)].op = "endElement"
    /\ Len(q) = 2 => q[1].op = "put"

Account ==
    pc = "reading" =>
      \/ NoFill(todo)
      \/ \E k \in 1 .. Len(todo) : \E due \in [1 .. k -> Int] :
            /\ Awaits(todo, k) /\ IsDue(due, todo, k)
            /\ datap + due[1] + ctx = eStart + eLength
      \/ Filled(todo) /\ (eLength < Short => datap = eStart + eLength)

\* Checked operations fill nothing.
LEMMA CheckedNoFill ==
  ASSUME NEW q \in Seq(CheckedOp)
  PROVE  NoFill(q)
  BY DEF NoFill, CheckedOp, OpOf, CheckedKinds, FillKinds, FillUnit

\* Neither does what two queues without a fill are joined to.
LEMMA ConcatNoFill ==
  ASSUME NEW s \in Seq(Op), NEW t \in Seq(Op), NoFill(s), NoFill(t)
  PROVE  NoFill(s \o t)
<1> SUFFICES ASSUME NEW i \in 1 .. Len(s \o t)
             PROVE  (s \o t)[i].op \notin FillKinds \cup {"put"}
  BY DEF NoFill
<1>1. CASE i <= Len(s)
  <2>1. i \in 1 .. Len(s)
    BY <1>1
  <2>2. QED
    BY <2>1, ConcatIndex DEF NoFill
<1>2. CASE i > Len(s)
  <2>1. i - Len(s) \in 1 .. Len(t) /\ i = Len(s) + (i - Len(s))
    BY <1>2, ConcatIndex
  <2>2. (s \o t)[i] = t[i - Len(s)]
    BY <2>1, ConcatIndex
  <2>3. QED
    BY <2>1, <2>2 DEF NoFill
<1>3. QED
  BY <1>1, <1>2, ConcatIndex

\* Nor the rest of such a queue.
LEMMA TailNoFill ==
  ASSUME NEW q \in Seq(Op), q # <<>>, NoFill(q)
  PROVE  NoFill(Tail(q))
<1> SUFFICES ASSUME NEW i \in 1 .. Len(Tail(q))
             PROVE  Tail(q)[i].op \notin FillKinds \cup {"put"}
  BY DEF NoFill
<1>1. Tail(q)[i] = q[i + 1] /\ i + 1 \in 1 .. Len(q)
  BY TailIndex
<1>2. QED
  BY <1>1 DEF NoFill

\* The queue of an element just begun.
LEMMA ElementAwaits ==
  ASSUME kind \in {"flow", "counters"}, NEW program \in ElementPrograms,
         NEW q, q = program \o Operation0("endElement")
  PROVE  \/ NoFill(q)
         \/ /\ kind = "counters"
            /\ \E k \in 1 .. Len(q) : \E due \in [1 .. k -> Int] :
                  Awaits(q, k) /\ IsDue(due, q, k) /\ due[1] = 0
<1> DEFINE close == Operation0("endElement")
<1>1. close \in Seq(CheckedOp) /\ SkipProgram \in Seq(CheckedOp)
  BY OperationsTyped DEF CheckedKinds, SkipProgram
<1>2. program \in Seq(Op) /\ close \in Seq(Op)
  BY <1>1, ReaderAssumption, CheckedIsOp DEF ElementPrograms, Programs
<1>3. Len(close) = 1 /\ close[1].op = "endElement"
  BY DEF Operation0
<1>4. NoFill(close)
  BY <1>1, CheckedNoFill
<1>4a. q = program \o close
  OBVIOUS
<1> HIDE DEF close
<1>5. CASE NoFill(program)
  BY <1>2, <1>4, <1>4a, <1>5, ConcatNoFill
<1>6. CASE ~NoFill(program)
  <2>1. program \notin Seq(CheckedOp)
    BY <1>6, CheckedNoFill
  <2>2. kind = "counters" /\ program \in Programs(CounterReader)
    BY <1>1, <2>1, ReaderAssumption DEF ElementPrograms, Programs
  <2>3. PICK t \in DOMAIN CounterReader : program = CounterReader[t]
    BY <2>2 DEF Programs
  <2>4. PICK k \in 1 .. Len(program) :
          /\ FillsAt(program, k) /\ Due(program, k)[1] = 0
          /\ \A i \in 1 .. k - 1 : program[i].op \in {"fixed", "lookup", "context"}
          /\ Len(program) <= k + 1
          /\ Len(program) = k + 1 => program[k + 1].op = "put"
    BY <1>6, <2>3, BalanceAssumption
  <2>5. Len(q) = Len(program) + 1 /\ q[Len(program) + 1] = close[1] /\ Len(program) \in Nat
    <3>1. /\ Len(program \o close) = Len(program) + Len(close) /\ Len(program) \in Nat
          /\ \A i \in 1 .. Len(close) : (program \o close)[Len(program) + i] = close[i]
      BY <1>2, ConcatIndex
    <3>2. 1 \in 1 .. Len(close)
      BY <1>3
    <3>3. QED
      BY <1>3, <1>4a, <3>1, <3>2
  <2>6. \A i \in 1 .. Len(program) : q[i] = program[i]
    BY <1>2, <1>4a, ConcatIndex
  <2>7. Awaits(q, k)
    BY <1>3, <2>4, <2>5, <2>6 DEF Awaits, FillsAt
  <2>8. IsDue(Due(program, k), q, k)
    <3>1. /\ \A i \in 1 .. k - 1 : q[i] = program[i]
          /\ \A i \in 1 .. k - 1 : program[i] \in Op
          /\ k \in Nat \ {0}
      BY <1>2, <2>4, <2>5, <2>6
    <3>2. \A i \in 1 .. k - 1 : Ahead(program[i]) \in Int
      BY <3>1 DEF Ahead, Op, OpOf
    <3>3. /\ Due(program, k) \in [1 .. k -> Int] /\ Due(program, k)[k] = 0
          /\ \A i \in 1 .. k - 1 : Due(program, k)[i] = Due(program, k)[i + 1] + Ahead(program[i])
      <4> DEFINE a == [i \in 1 .. k - 1 |-> Ahead(program[i])]
      <4>1. \A i \in 1 .. k - 1 : a[i] = Ahead(program[i]) /\ a[i] \in Int
        BY <3>2
      <4>2. Due(program, k) = SumsTo(a, k)
        BY DEF Due
      <4> HIDE DEF a
      <4>3. QED
        BY <3>1, <4>1, <4>2, SumsRecurrence
    <3>4. QED
      BY <2>4, <3>1, <3>3 DEF IsDue
  <2>9. Due(program, k) \in [1 .. k -> Int] /\ k \in 1 .. Len(q)
    BY <2>4, <2>5, <2>8 DEF IsDue
  <2>10. QED
    BY <2>2, <2>4, <2>7, <2>8, <2>9
<1>7. QED
  BY <1>5, <1>6

\* One operation in front of the fill is done.
LEMMA AwaitsTail ==
  ASSUME NEW q \in Seq(Op), NEW k \in 1 .. Len(q), k > 1, NEW due \in [1 .. k -> Int],
         Awaits(q, k), IsDue(due, q, k)
  PROVE  /\ Head(q).op \in {"fixed", "lookup", "context"}
         /\ due[1] = due[2] + Ahead(Head(q)) /\ due[2] \in Int
         /\ \E j \in 1 .. Len(Tail(q)) : \E rest \in [1 .. j -> Int] :
               Awaits(Tail(q), j) /\ IsDue(rest, Tail(q), j) /\ rest[1] = due[2]
<1>1. q # <<>> /\ Len(q) \in Nat
  OBVIOUS
<1>2. Len(Tail(q)) = Len(q) - 1 /\ \A i \in 1 .. Len(q) - 1 : Tail(q)[i] = q[i + 1]
  BY <1>1, TailIndex
<1>3. 1 \in 1 .. k - 1 /\ q[1] = Head(q)
  BY <1>1, TailIndex
<1> DEFINE j == k - 1
           rest == [i \in 1 .. j |-> due[i + 1]]
<1>4. j \in 1 .. Len(Tail(q)) /\ rest \in [1 .. j -> Int] /\ rest[1] = due[2]
  BY <1>1, <1>2
<1>4a. \A i \in 1 .. j : rest[i] = due[i + 1]
  OBVIOUS
<1>4b. j = k - 1
  OBVIOUS
<1> HIDE DEF j, rest
<1>5. Awaits(Tail(q), j)
  <2>1. k \in 1 .. Len(q) - 1 /\ Len(q) \in {k + 1, k + 2}
    BY <1>1 DEF Awaits
  <2>2. Tail(q)[j] = q[k] /\ Tail(q)[Len(Tail(q))] = q[Len(q)]
    <3>1. j \in 1 .. Len(q) - 1 /\ j + 1 = k /\ Len(q) - 1 \in 1 .. Len(q) - 1
      BY <1>1, <1>4b, <2>1
    <3>2. Tail(q)[j] = q[j + 1] /\ Tail(q)[Len(q) - 1] = q[Len(q) - 1 + 1]
      BY <1>2, <3>1
    <3>3. Len(q) - 1 + 1 = Len(q)
      BY <1>1
    <3>4. QED
      BY <1>2, <3>1, <3>2, <3>3
  <2>3. Len(q) = k + 2 => Tail(q)[j + 1] = q[k + 1]
    BY <1>2, <1>4b, <2>1
  <2>4. FillsAt(Tail(q), j)
    BY <2>2 DEF Awaits, FillsAt
  <2>5. Len(Tail(q)) \in {j + 1, j + 2} /\ (Len(Tail(q)) = j + 2 => Len(q) = k + 2)
    <3>1. k \in Nat /\ Len(q) \in Nat /\ Len(Tail(q)) = Len(q) - 1 /\ j = k - 1
      BY <1>1, <1>2, <1>4b
    <3>2. Len(q) = k + 1 \/ Len(q) = k + 2
      BY <2>1
    <3> HIDE <1>2
    <3>3. QED
      BY <3>1, <3>2
  <2>6. q[Len(q)].op = "endElement" /\ (Len(q) = k + 2 => q[k + 1].op = "put")
    BY DEF Awaits
  <2>7. QED
    BY <2>2, <2>3, <2>4, <2>5, <2>6 DEF Awaits
<1>6. IsDue(rest, Tail(q), j)
  <2>1. rest[j] = 0
    BY <1>4, <1>4a, <1>4b DEF IsDue
  <2>2. ASSUME NEW i \in 1 .. j - 1
        PROVE  /\ Tail(q)[i].op \in {"fixed", "lookup", "context"}
               /\ rest[i] = rest[i + 1] + Ahead(Tail(q)[i])
    <3>1. Tail(q)[i] = q[i + 1] /\ i + 1 \in 1 .. k - 1
      BY <1>1, <1>2, <1>4b
    <3>2. rest[i] = due[i + 1] /\ rest[i + 1] = due[i + 1 + 1]
      BY <1>4a, <1>4b
    <3>3. QED
      BY <3>1, <3>2 DEF IsDue
  <2>3. QED
    BY <1>4, <2>1, <2>2 DEF IsDue
<1>7. due[1] = due[2] + Ahead(Head(q)) /\ Head(q).op \in {"fixed", "lookup", "context"}
  BY <1>3 DEF IsDue
<1>8. due[2] \in Int
  OBVIOUS
<1>9. QED
  BY <1>4, <1>5, <1>6, <1>7, <1>8

\* Whole units of the shorter of two lengths.
LEMMA WholeUnits ==
  ASSUME NEW a \in Nat, NEW b \in Nat, NEW unit \in {4, 8}, a % unit = 0, b % unit = 0
  PROVE  unit * Least(a \div unit, b \div unit) = Least(a, b)
<1>1. CASE unit = 4
  <2>1. a = 4 * (a \div 4) /\ b = 4 * (b \div 4) /\ a \div 4 \in Nat /\ b \div 4 \in Nat
    BY <1>1
  <2>2. (a \div 4 <= b \div 4) <=> a <= b
    BY <2>1
  <2>3. QED
    BY <1>1, <2>1, <2>2 DEF Least
<1>2. CASE unit = 8
  <2>1. a = 8 * (a \div 8) /\ b = 8 * (b \div 8) /\ a \div 8 \in Nat /\ b \div 8 \in Nat
    BY <1>2
  <2>2. (a \div 8 <= b \div 8) <=> a <= b
    BY <2>1
  <2>3. QED
    BY <1>2, <2>1, <2>2 DEF Least
<1>3. QED
  BY <1>1, <1>2

\* A fill takes the cursor to the end of the record when the account is even:
\* what is not read of a longer record is stepped over.
LEMMA FillExact ==
  ASSUME Shape, todo # <<>>, NEW unit \in {4, 8}, Fill(unit), pc' = "reading",
         Arg % unit = 0, datap + ctx = eStart + eLength
  PROVE  /\ todo' = Tail(todo) /\ UNCHANGED <<eStart, eLength>>
         /\ eLength < Short => datap' = eStart + eLength
<1> DEFINE parse == ctx % Short
           read  == unit * Least(parse \div unit, Arg \div unit)
<1>1. ~Finish("eos")
  BY DEF Finish
<1>2. parse % unit = 0 /\ MoveTo(datap + read + FastForward(parse))
  BY <1>1 DEF Fill, Move
<1>3. datap' = datap + read + FastForward(parse) /\ todo' = Tail(todo)
      /\ UNCHANGED <<eStart, eLength>>
  BY <1>2 DEF MoveTo, elementVars
<1>4. /\ datap \in Nat /\ eStart \in Nat /\ eLength \in Nat /\ ctx \in Nat
      /\ eStart <= datap /\ Arg \in Nat /\ Short \in Nat
  BY ConstantsTyped, HeadFields DEF Shape, TypeOK, Arg
<1>5. ASSUME eLength < Short
      PROVE  datap' = eStart + eLength
  <2>1. ctx < Short
    BY <1>4, <1>5
  <2>2. parse = ctx
    BY <1>4, <2>1, ModSmall
  <2>3. read = Least(ctx, Arg)
    BY <1>2, <1>4, <2>2, WholeUnits
  <2>4. read + FastForward(parse) = ctx
    <3>1. FastForward(parse) = IF Arg < ctx THEN ctx - Arg ELSE 0
      BY <2>2 DEF FastForward
    <3>2. Least(ctx, Arg) = IF ctx <= Arg THEN ctx ELSE Arg
      BY DEF Least
    <3> HIDE DEF parse, read
    <3>3. QED
      BY <1>4, <2>3, <3>1, <3>2
  <2>5. read \in Nat /\ FastForward(parse) \in Nat
    BY <1>4, <2>2, <2>3 DEF Least, FastForward
  <2> HIDE DEF parse, read
  <2>6. QED
    BY <1>3, <1>4, <2>4, <2>5
<1>6. QED
  BY <1>3, <1>5

\* The account is kept by an operation in front of the fill.
LEMMA AwaitsStep ==
  ASSUME Shape, pc = "reading", pc' = "reading", todo # <<>>, [Next]_vars, ~UNCHANGED vars,
         NEW k \in 1 .. Len(todo), k > 1, NEW due \in [1 .. k -> Int],
         Awaits(todo, k), IsDue(due, todo, k), datap + due[1] + ctx = eStart + eLength
  PROVE  Account'
<1>1. todo \in Seq(Op) /\ datap \in Nat /\ ctx \in Nat /\ eStart \in Nat /\ eLength \in Nat
  BY ConstantsTyped DEF Shape, TypeOK
<1>2. /\ Head(todo).op \in {"fixed", "lookup", "context"}
      /\ due[1] = due[2] + Ahead(Head(todo)) /\ due[2] \in Int
      /\ \E j \in 1 .. Len(Tail(todo)) : \E rest \in [1 .. j -> Int] :
            Awaits(Tail(todo), j) /\ IsDue(rest, Tail(todo), j) /\ rest[1] = due[2]
  BY <1>1, AwaitsTail
<1>3. Arg \in Nat
  BY <1>1, HeadFields DEF Arg
<1>a. \A outcome : ~Finish(outcome)
  BY DEF Finish
<1>b. ~Halt
  BY DEF Halt
<1>4. todo' = Tail(todo) /\ datap' + due[2] + ctx' = eStart' + eLength'
  <2>1. CASE Head(todo).op = "fixed"
    <3>1. ReadFixed
      BY <2>1, OperationDone
    <3>2. /\ datap' = datap + Arg /\ todo' = Tail(todo)
          /\ UNCHANGED <<eStart, eLength, ctx>>
      BY <1>a, <3>1 DEF ReadFixed, Move, MoveTo, elementVars
    <3>3. due[1] = due[2] + Arg
      BY <1>2, <2>1 DEF Ahead, Arg
    <3>4. QED
      BY <1>1, <1>2, <1>3, <3>2, <3>3
  <2>2. CASE Head(todo).op = "lookup"
    <3>1. LookUp
      BY <2>2, OperationDone
    <3>2. /\ datap' = datap /\ todo' = Tail(todo)
          /\ UNCHANGED <<eStart, eLength, ctx>>
      BY <1>a, <1>b, <3>1 DEF LookUp, Move, MoveTo, elementVars
    <3>3. due[1] = due[2]
      BY <1>2, <2>2 DEF Ahead
    <3>4. QED
      BY <3>2, <3>3
  <2>3. CASE Head(todo).op = "context"
    <3>1. UpdateContext
      BY <2>3, OperationDone
    <3>2. /\ ctx' = ctx - Arg /\ todo' = Tail(todo)
          /\ UNCHANGED <<datap, eStart, eLength>>
      BY <1>a, <3>1 DEF UpdateContext
    <3>3. due[1] = due[2] - Arg
      BY <1>2, <1>3, <2>3 DEF Ahead, Arg
    <3>4. QED
      BY <1>1, <1>2, <1>3, <3>2, <3>3
  <2>4. QED
    BY <1>2, <2>1, <2>2, <2>3
<1>5. QED
  BY <1>2, <1>4 DEF Account

\* The queue loses an operation in front of the end of the element.
LEMMA FilledTail ==
  ASSUME NEW q \in Seq(Op), Len(q) \in {2, 3}, q[Len(q)].op = "endElement",
         Len(q) = 3 => q[2].op = "put"
  PROVE  Filled(Tail(q))
<1>1. q # <<>> /\ Len(q) \in Nat
  <2>1. Len(q) # 0 /\ Len(q) \in Nat
    <3>1. \A n \in {2, 3} : n # 0 /\ n \in Nat
      OBVIOUS
    <3>2. QED
      BY <3>1, Zenon
  <2>2. Len(<<>>) = 0
    OBVIOUS
  <2>3. QED
    BY <2>1, <2>2, Zenon
<1>2. PICK rest : rest = Tail(q)
  OBVIOUS
<1>3. Len(rest) = Len(q) - 1 /\ \A i \in 1 .. Len(q) - 1 : rest[i] = q[i + 1]
  BY <1>1, <1>2, TailIndex
<1>4. CASE Len(q) = 2
  <2>1. Len(rest) = 1 /\ rest[1] = q[2]
    BY <1>3, <1>4
  <2>2. Filled(rest)
    BY <1>4, <2>1 DEF Filled
  <2>3. QED
    BY <1>2, <2>2
<1>5. CASE Len(q) = 3
  <2>1. Len(rest) = 2 /\ rest[1] = q[2] /\ rest[2] = q[3]
    BY <1>3, <1>5
  <2>2. Filled(rest)
    BY <1>5, <2>1 DEF Filled
  <2>3. QED
    BY <1>2, <2>2
<1>6. QED
  BY <1>4, <1>5

\* The fill itself makes the account even.
LEMMA FillStep ==
  ASSUME Shape, pc = "reading", pc' = "reading", todo # <<>>, [Next]_vars, ~UNCHANGED vars,
         Awaits(todo, 1), datap + ctx = eStart + eLength
  PROVE  /\ Account'
         /\ eLength < Short => datap' = eStart + eLength
<1>1. todo \in Seq(Op)
  BY DEF Shape, TypeOK
<1>2. /\ Len(Tail(todo)) = Len(todo) - 1 /\ todo[1] = Head(todo) /\ Len(todo) \in Nat
      /\ \A i \in 1 .. Len(todo) - 1 : Tail(todo)[i] = todo[i + 1]
  BY <1>1, TailIndex
<1>3. PICK unit \in {4, 8} : Fill(unit) /\ Arg % unit = 0
  <2>1. CASE Head(todo).op = "fill64"
    <3>1. PopulateU64
      BY <2>1, OperationDone
    <3>2. Arg % 8 = 0
      BY <1>2, <2>1 DEF Awaits, FillsAt, FillUnit, Arg
    <3>3. QED
      BY <3>1, <3>2 DEF PopulateU64
  <2>2. CASE Head(todo).op = "fill32"
    <3>1. PopulateU32
      BY <2>2, OperationDone
    <3>2. Arg % 4 = 0
      BY <1>2, <2>2 DEF Awaits, FillsAt, FillUnit, Arg
    <3>3. QED
      BY <3>1, <3>2 DEF PopulateU32
  <2>3. QED
    BY <1>2, <2>1, <2>2 DEF Awaits, FillsAt, FillKinds, FillUnit
<1>4. /\ todo' = Tail(todo) /\ UNCHANGED <<eStart, eLength>>
      /\ eLength < Short => datap' = eStart + eLength
  BY <1>3, FillExact
<1>5. Filled(Tail(todo))
  <2>1. Len(todo) \in {2, 3} /\ todo[Len(todo)].op = "endElement"
        /\ (Len(todo) = 3 => todo[2].op = "put")
    BY DEF Awaits
  <2>2. QED
    BY <1>1, <2>1, FilledTail
<1>6. QED
  BY <1>4, <1>5 DEF Account

\* Behind the fill, only the batch and the end of the element are left.
LEMMA FilledStep ==
  ASSUME Shape, pc = "reading", pc' = "reading", todo # <<>>, [Next]_vars, ~UNCHANGED vars,
         Filled(todo), eLength < Short => datap = eStart + eLength
  PROVE  Account'
<1>1. todo \in Seq(Op)
  BY DEF Shape, TypeOK
<1>2. /\ Len(Tail(todo)) = Len(todo) - 1 /\ todo[1] = Head(todo) /\ Len(todo) \in Nat
      /\ \A i \in 1 .. Len(todo) - 1 : Tail(todo)[i] = todo[i + 1]
  BY <1>1, TailIndex
<1>3. CASE Len(todo) = 2
  <2>1. PutBatch
    BY <1>2, <1>3, OperationDone DEF Filled
  <2>2. todo' = Tail(todo) /\ UNCHANGED <<datap, eStart, eLength>>
    BY <2>1 DEF PutBatch, Halt, elementVars
  <2>3. Filled(Tail(todo))
    <3>1. todo[Len(todo)].op = "endElement"
      BY DEF Filled
    <3>2. QED
      BY <1>1, <1>3, <3>1, FilledTail
  <2>4. QED
    BY <2>2, <2>3 DEF Account
<1>4. CASE Len(todo) = 1
  <2>1. EndElement
    BY <1>2, <1>4, OperationDone DEF Filled
  <2>2. todo' = Tail(todo)
    BY <2>1 DEF EndElement, Finish
  <2>3. NoFill(Tail(todo))
    <3>1. Len(Tail(todo)) = 0
      BY <1>2, <1>4
    <3>2. \A rest : Len(rest) = 0 => NoFill(rest)
      BY DEF NoFill
    <3>3. QED
      BY <3>1, <3>2, Zenon
  <2>4. QED
    BY <2>2, <2>3 DEF Account
<1>5. QED
  BY <1>3, <1>4 DEF Filled

\* Every step keeps the account.
LEMMA AccountStep ==
  ASSUME Shape, Account, [Next]_vars
  PROVE  Account'
<1> SUFFICES ASSUME pc' = "reading"
             PROVE  Account'
  BY DEF Account
<1>1. CASE UNCHANGED vars
  BY <1>1 DEF vars, elementVars, Account
<1>2. CASE pc # "reading"
  <2>1. PICK reader \in SampleReaders : todo' = reader[2]
    BY <1>2, SampleEntered DEF Began
  <2>2. NoFill(todo')
    BY <2>1, SampleReadersTyped, CheckedNoFill
  <2>3. QED
    BY <2>2 DEF Account
<1>3. CASE pc = "reading" /\ todo = <<>> /\ ~UNCHANGED vars
  <2>1. CASE /\ kind = "flow4" /\ kind' = kind
             /\ todo' \in Programs(ExtendedReader[version])
    <3>1. version \in {2, 4}
      BY <2>1 DEF Shape
    <3>2. todo' \in Seq(CheckedOp)
      BY <2>1, <3>1, ReaderAssumption DEF Programs
    <3>3. NoFill(todo')
      BY <3>2, CheckedNoFill
    <3>4. QED
      BY <3>3 DEF Account
  <2>2. CASE kind \in {"flow", "counters"}
    <3>1. PICK length \in Lengths, program \in ElementPrograms :
             /\ datap' = datap + 8 /\ eStart' = datap + 8 /\ eLength' = length
             /\ kind = "counters" => ctx' = length
             /\ todo' = program \o Operation0("endElement")
      BY <1>3, <2>2, ElementEntered
    <3>2. CASE NoFill(todo')
      BY <3>2 DEF Account
    <3>3. CASE ~NoFill(todo')
      <4>1. PICK k \in 1 .. Len(todo') : \E due \in [1 .. k -> Int] :
               kind = "counters" /\ Awaits(todo', k) /\ IsDue(due, todo', k) /\ due[1] = 0
        BY <2>2, <3>1, <3>3, ElementAwaits
      <4>2. PICK due \in [1 .. k -> Int] :
               kind = "counters" /\ Awaits(todo', k) /\ IsDue(due, todo', k) /\ due[1] = 0
        BY <4>1
      <4>3. datap' + due[1] + ctx' = eStart' + eLength'
        BY <3>1, <4>2, ConstantsTyped DEF Shape, TypeOK
      <4>4. QED
        BY <4>2, <4>3 DEF Account
    <3>4. QED
      BY <3>2, <3>3
  <2>3. QED
    BY <1>3, <2>1, <2>2, ElementEntered
<1>4. CASE pc = "reading" /\ todo # <<>> /\ ~UNCHANGED vars /\ NoFill(todo)
  <2>1. todo \in Seq(Op)
    BY DEF Shape, TypeOK
  <2>2. NoFill(Tail(todo)) /\ Tail(todo) \in Seq(Op)
    BY <1>4, <2>1, TailNoFill, HeadTailTyped
  <2>3. NoFill(todo')
    BY <1>4, <2>2, QueueStep, CheckedNoFill, CheckedIsOp, ConcatNoFill
  <2>4. QED
    BY <2>3 DEF Account
<1>5. ASSUME pc = "reading", todo # <<>>, ~UNCHANGED vars,
             NEW k \in 1 .. Len(todo), NEW due \in [1 .. k -> Int],
             Awaits(todo, k), IsDue(due, todo, k), datap + due[1] + ctx = eStart + eLength
      PROVE  Account'
  <2>1. CASE k > 1
    BY <1>5, <2>1, AwaitsStep
  <2>2. CASE k = 1
    <3>1. due[1] = 0 /\ Awaits(todo, 1)
      BY <1>5, <2>2 DEF IsDue
    <3>2. datap + ctx = eStart + eLength
      BY <1>5, <3>1, ConstantsTyped DEF Shape, TypeOK
    <3>3. QED
      BY <1>5, <3>1, <3>2, FillStep
  <2>3. QED
    BY <2>1, <2>2
<1>6. CASE /\ pc = "reading" /\ todo # <<>> /\ ~UNCHANGED vars
           /\ Filled(todo) /\ (eLength < Short => datap = eStart + eLength)
  BY <1>6, FilledStep
<1>7. QED
  BY <1>1, <1>2, <1>3, <1>4, <1>5, <1>6 DEF Account

\* Until a counter record is filled, the cursor and the context's length account
\* for it.
THEOREM AccountCorrect == Spec => []Account
<1>1. Init => Account
  BY DEF Init, Account
<1>2. QED
  BY <1>1, AccountStep, ShapeCorrect, PTL DEF Spec

\* A structure that is filled consumes its record to the record's own length,
\* whatever the version of the sender: readers whose heads and context updates
\* balance leave the fill exactly the rest of the record.
THEOREM FillCorrect == Spec => FillConsumesRecord
<1> DEFINE Consumes ==
        /\ pc = "reading" /\ todo # <<>>
        /\ Head(todo).op \in {"fill64", "fill32"}
        /\ pc' = "reading" /\ eLength < Short
        => datap' - eStart = eLength
<1>1. Shape /\ Account /\ [Next]_vars => [Consumes]_vars
  <2> SUFFICES ASSUME Shape, Account, [Next]_vars, ~UNCHANGED vars,
                      pc = "reading", todo # <<>>, Head(todo).op \in {"fill64", "fill32"},
                      pc' = "reading", eLength < Short
               PROVE  datap' - eStart = eLength
    OBVIOUS
  <2>1. todo \in Seq(Op) /\ eStart \in Nat /\ eLength \in Nat /\ datap \in Nat /\ ctx \in Nat
    BY ConstantsTyped DEF Shape, TypeOK
  <2>2. todo[1] = Head(todo) /\ 1 \in 1 .. Len(todo)
    BY <2>1, FirstIsHead
  <2>3. ~NoFill(todo)
    BY <2>2 DEF NoFill, FillKinds, FillUnit
  <2>4. ~Filled(todo)
    BY <2>2 DEF Filled
  <2>5. PICK k \in 1 .. Len(todo) : \E due \in [1 .. k -> Int] :
           /\ Awaits(todo, k) /\ IsDue(due, todo, k)
           /\ datap + due[1] + ctx = eStart + eLength
    BY <2>3, <2>4 DEF Account
  <2>6. PICK due \in [1 .. k -> Int] :
           /\ Awaits(todo, k) /\ IsDue(due, todo, k)
           /\ datap + due[1] + ctx = eStart + eLength
    BY <2>5
  <2>7. k = 1
    <3>1. ~(k > 1)
      BY <2>1, <2>6, AwaitsTail
    <3>2. QED
      BY <3>1
  <2>8. datap + ctx = eStart + eLength /\ Awaits(todo, 1)
    <3>1. due[1] = 0
      BY <2>6, <2>7 DEF IsDue
    <3>2. QED
      BY <2>1, <2>6, <2>7, <3>1
  <2>9. datap' = eStart + eLength
    BY <2>8, FillStep
  <2>10. QED
    BY <2>1, <2>9
<1>2. QED
  BY <1>1, ShapeCorrect, AccountCorrect, PTL DEF Spec, FillConsumesRecord

\* Only the operation `put` hands a batch over.
LEMMA PutsCounted ==
  ASSUME Shape, [Next]_vars, puts' > puts
  PROVE  pc = "reading" /\ pc' = "reading" /\ todo # <<>> /\ Head(todo).op = "put"
<1>1. puts' # 0 /\ puts' # puts
  <2>1. puts \in Nat /\ ~(0 > puts) /\ ~(puts > puts)
    BY DEF Shape, TypeOK
  <2>2. QED
    BY <2>1
<1>2. ~(Abandoned \/ Stopped \/ EndDatagram)
  BY <1>1 DEF Abandoned, Stopped, EndDatagram, Finish, Halt, Forget
<1>3. ~(Began \/ EndedSample \/ ReceiveDatagram \/ RejectDatagram \/ UNCHANGED vars)
  BY <1>1 DEF Began, EndedSample, ReceiveDatagram, RejectDatagram, vars, effectVars
<1>4. pc = "reading" /\ pc' = "reading" /\ ~UNCHANGED vars
  BY <1>2, <1>3, StepKinds DEF InSample
<1>5. todo # <<>>
  BY <1>1, <1>4, ElementEntered
<1>a. \A outcome : ~Finish(outcome)
  BY <1>4 DEF Finish
<1>b. ~Halt
  BY <1>4 DEF Halt
<1>6. ~(ReadFixed \/ ReadString \/ ReadAddress \/ ReadArray \/ ReadRepeat \/ Iterate)
  BY <1>1, <1>a, <1>b
     DEF ReadFixed, ReadString, ReadAddress, ReadArray, ReadRepeat, Iterate, Move, MoveTo,
         effectVars
<1>7. ~(LookUp \/ ReadHeader \/ ReadLongOnly \/ SkipElement \/ PopulateU64 \/ PopulateU32)
  BY <1>1, <1>a, <1>b
     DEF LookUp, ReadHeader, ReadLongOnly, SkipElement, PopulateU64, PopulateU32, Fill,
         Move, MoveTo, effectVars
<1>8. ~(UpdateContext \/ IgnoreA10 \/ StoreA10 \/ EndElement)
  BY <1>1, <1>a, <1>b DEF UpdateContext, IgnoreA10, StoreA10, EndElement, effectVars
<1>9. ~(ReadLength \/ ReadCount \/ ReadPacketData \/ ReadCounterBlock)
  BY <1>1, <1>a DEF ReadLength, ReadCount, ReadPacketData, ReadCounterBlock, Choose, effectVars
<1>10. QED
  BY <1>4, <1>5, <1>6, <1>7, <1>8, <1>9, OperationDone

\* A batch is handed over behind the last byte of its record: only a fill that
\* has consumed the record leaves a batch at the head of the queue.
THEOREM ExportedCorrect == Spec => ExportedRecordConsumed
<1> DEFINE Behind == puts' > puts /\ eLength < Short => datap = eStart + eLength
<1>1. Shape /\ Account /\ [Next]_vars => [Behind]_vars
  <2> SUFFICES ASSUME Shape, Account, [Next]_vars, puts' > puts, eLength < Short
               PROVE  datap = eStart + eLength
    OBVIOUS
  <2>1. pc = "reading" /\ todo # <<>> /\ Head(todo).op = "put" /\ todo \in Seq(Op)
    BY PutsCounted DEF Shape, TypeOK
  <2>2. todo[1] = Head(todo) /\ 1 \in 1 .. Len(todo)
    BY <2>1, FirstIsHead
  <2>3. ~NoFill(todo)
    BY <2>1, <2>2 DEF NoFill
  <2>4. ASSUME NEW k \in 1 .. Len(todo), NEW due \in [1 .. k -> Int],
               Awaits(todo, k), IsDue(due, todo, k)
        PROVE  FALSE
    <3>1. ~(k > 1)
      BY <2>1, <2>4, AwaitsTail
    <3>2. k = 1
      BY <3>1
    <3>3. QED
      BY <2>1, <2>2, <2>4, <3>2 DEF Awaits, FillsAt, FillKinds, FillUnit
  <2>5. QED
    BY <2>1, <2>3, <2>4 DEF Account
<1>2. QED
  BY <1>1, ShapeCorrect, AccountCorrect, PTL DEF Spec, ExportedRecordConsumed

(***************************************************************************)
(* Flow samples.  All readers of flow records move the cursor in words, so *)
(* the rounding of lengthCheck loses nothing, and the declared lengths of  *)
(* the elements add up to what was read.                                   *)
(***************************************************************************)

\* Multiples of four.
LEMMA FoursAdd ==
  /\ Fours \subseteq Nat /\ 0 \in Fours /\ 4 \in Fours /\ 8 \in Fours /\ 16 \in Fours
  /\ \A k \in Nat : 4 * k \in Fours
  /\ \A x, y \in Fours : x + y \in Fours
<1>1. \A k \in Nat : 4 * k \in Fours /\ 4 * k \in Nat
  BY DEF Fours
<1>2. 0 = 4 * 0 /\ 4 = 4 * 1 /\ 8 = 4 * 2 /\ 16 = 4 * 4
  OBVIOUS
<1>3. ASSUME NEW x \in Fours, NEW y \in Fours
      PROVE  x + y \in Fours
  <2>1. PICK j \in Nat : x = 4 * j
    BY DEF Fours
  <2>2. PICK k \in Nat : y = 4 * k
    BY DEF Fours
  <2>3. x + y = 4 * (j + k) /\ j + k \in Nat
    BY <2>1, <2>2
  <2>4. QED
    BY <1>1, <2>3
<1>4. Fours \subseteq Nat
  BY DEF Fours
<1>5. 0 \in Fours /\ 4 \in Fours /\ 8 \in Fours /\ 16 \in Fours
  <2>1. 0 \in Nat /\ 1 \in Nat /\ 2 \in Nat /\ 4 \in Nat
    OBVIOUS
  <2>2. 4 * 0 \in Fours /\ 4 * 1 \in Fours /\ 4 * 2 \in Fours /\ 4 * 4 \in Fours
    BY <1>1, <2>1
  <2>3. QED
    BY <1>2, <2>2
<1>6. QED
  BY <1>1, <1>3, <1>4, <1>5

\* Padding yields one, and changes none.
LEMMA PadFours ==
  /\ \A length \in Nat : Pad(length) \in Fours
  /\ \A x \in Fours : x + 3 < Word => Pad(x) = x
<1>1. ASSUME NEW length \in Nat
      PROVE  Pad(length) \in Fours
  <2>1. ((length + 3) % Word) \div 4 \in Nat
    BY SizeAssumption
  <2>2. QED
    BY <2>1, FoursAdd DEF Pad
<1>2. ASSUME NEW x \in Fours, x + 3 < Word
      PROVE  Pad(x) = x
  <2>1. PICK k \in Nat : x = 4 * k
    BY DEF Fours
  <2>2. (x + 3) % Word = x + 3
    BY <1>2, <2>1, ModSmall, SizeAssumption
  <2>3. (x + 3) \div 4 = k
    BY <2>1
  <2>4. QED
    BY <2>1, <2>2, <2>3 DEF Pad
<1>3. QED
  BY <1>1, <1>2

\* A flow record's reader moves the cursor by words, and leaves all else to the
\* end of the element.
LEMMA ReaderStep ==
  ASSUME Shape, pc = "reading", pc' = "reading", todo # <<>>, [Next]_vars, ~UNCHANGED vars,
         Head(todo) \in AlignedOp
  PROVE  /\ UNCHANGED <<kind, sStart, declared, eStart, eLength>>
         /\ \E d \in Fours : datap' = datap + d
         /\ \/ todo' = Tail(todo)
            \/ \E r \in Seq(AlignedOp) : todo' = r \o Tail(todo)
<1>1. /\ Head(todo) \in Op /\ Head(todo).op \in ReadKinds /\ Arg \in Nat
      /\ Head(todo).op = "fixed" => Arg % 4 = 0
      /\ Head(todo).op \in {"repeat", "iterate"} => Head(todo).body \in DOMAIN Block
  BY CheckedIsOp DEF AlignedOp, CheckedOp, OpOf, Arg
<1>2. datap \in Nat /\ eLength \in Nat /\ datap + 0 = datap
  BY ConstantsTyped DEF Shape, TypeOK
<1>a. \A outcome : ~Finish(outcome)
  BY DEF Finish
<1>b. ~Halt
  BY DEF Halt
<1>c. \A x, y \in Fours : datap + x + y = datap + (x + y) /\ x + y \in Fours
  BY <1>2, FoursAdd
<1>3. ASSUME NEW p, MoveTo(p), NEW d \in Fours, p = datap + d
      PROVE  /\ UNCHANGED <<kind, sStart, declared, eStart, eLength>>
             /\ \E e \in Fours : datap' = datap + e
             /\ todo' = Tail(todo)
  BY <1>3 DEF MoveTo, sampleVars, elementVars
<1>4. CASE Head(todo).op = "fixed"
  <2>1. MoveTo(datap + Arg)
    BY <1>4, <1>a, OperationDone DEF ReadFixed, Move
  <2>2. Arg \in Fours
    <3>1. Arg = 4 * (Arg \div 4) /\ Arg \div 4 \in Nat
      BY <1>1, <1>4
    <3>2. QED
      BY <3>1, FoursAdd
  <2>3. QED
    BY <1>3, <2>1, <2>2
<1>5. CASE Head(todo).op = "string"
  <2>1. PICK len \in Lengths : MoveTo(datap + 4 + Pad(len))
    BY <1>5, <1>a, OperationDone DEF ReadString, Move
  <2>2. Pad(len) \in Fours
    BY PadFours, ConstantsTyped
  <2>3. 4 + Pad(len) \in Fours /\ datap + 4 + Pad(len) = datap + (4 + Pad(len))
    BY <1>c, <2>2, FoursAdd, Zenon
  <2>4. QED
    BY <1>3, <2>1, <2>3
<1>6. CASE Head(todo).op = "address"
  <2>1. PICK bytes \in Addresses : MoveTo(datap + 4 + bytes)
    BY <1>6, <1>a, OperationDone DEF ReadAddress, Move
  <2>2. bytes \in Fours
    BY FoursAdd, SizeAssumption
  <2>3. 4 + bytes \in Fours /\ datap + 4 + bytes = datap + (4 + bytes)
    BY <1>2, <2>2, FoursAdd
  <2>4. QED
    BY <1>3, <2>1, <2>3
<1>7. CASE Head(todo).op = "array"
  <2>1. PICK count \in Counts : MoveTo(datap + 4 + Pad((4 * count) % Word))
    BY <1>7, <1>a, <1>b, OperationDone DEF ReadArray, Move
  <2>2. Pad((4 * count) % Word) \in Fours
    <3>1. (4 * count) % Word \in Nat
      BY ConstantsTyped
    <3>2. QED
      BY <3>1, PadFours
  <2> DEFINE d == Pad((4 * count) % Word)
  <2> HIDE DEF d
  <2>3. d \in Fours /\ MoveTo(datap + 4 + d)
    BY <2>1, <2>2 DEF d
  <2>4. 4 + d \in Fours /\ datap + 4 + d = datap + (4 + d)
    BY <1>2, <2>3, FoursAdd
  <2>5. QED
    BY <1>3, <2>3, <2>4
<1>8. CASE Head(todo).op = "repeat"
  <2>0. ReadRepeat
    BY <1>8, OperationDone
  <2>1. PICK count \in Counts :
          /\ datap' = datap + 4
          /\ todo' = <<[op |-> "iterate", n |-> count, body |-> Head(todo).body]>> \o Tail(todo)
          /\ UNCHANGED <<sampleVars, elementVars>>
    BY <1>a, <1>b, <2>0 DEF ReadRepeat
  <2> DEFINE again == [op |-> "iterate", n |-> count, body |-> Head(todo).body]
  <2>2. again \in AlignedOp
    BY <1>1, <1>8, ConstantsTyped DEF AlignedOp, ReadKinds, CheckedOp, OpOf, CheckedKinds
  <2>3. todo' = <<again>> \o Tail(todo)
    BY <2>1
  <2> HIDE DEF again
  <2>4. <<again>> \in Seq(AlignedOp)
    BY <2>2
  <2>5. UNCHANGED <<kind, sStart, declared, eStart, eLength>>
    BY <2>1 DEF sampleVars, elementVars
  <2>6. \E d \in Fours : datap' = datap + d
    BY <2>1, FoursAdd
  <2>7. QED
    BY <2>3, <2>4, <2>5, <2>6
<1>9. CASE Head(todo).op = "iterate"
  <2>1. Iterate
    BY <1>9, OperationDone
  <2>2. UNCHANGED <<kind, sStart, declared, eStart, eLength>> /\ datap' = datap
    BY <2>1 DEF Iterate, sampleVars, elementVars
  <2>3. \E d \in Fours : datap' = datap + d
    BY <1>2, <2>2, FoursAdd
  <2>4. CASE Arg = 0
    BY <2>1, <2>2, <2>3, <2>4 DEF Iterate
  <2>5. CASE Arg # 0
    <3>1. todo' = Block[Head(todo).body] \o <<[Head(todo) EXCEPT !.n = Arg - 1]>> \o Tail(todo)
      BY <2>1, <2>5 DEF Iterate
    <3>2. [Head(todo) EXCEPT !.n = Arg - 1] \in AlignedOp
      BY <1>1, <1>9, <2>5 DEF Op, AlignedOp, ReadKinds, CheckedOp, OpOf, CheckedKinds, Arg
    <3>3. Block[Head(todo).body] \in Seq(AlignedOp)
      BY <1>1, <1>9, AlignmentAssumption
    <3>4. \A s, t \in Seq(AlignedOp) : s \o t \in Seq(AlignedOp)
      OBVIOUS
    <3>5. Block[Head(todo).body] \o <<[Head(todo) EXCEPT !.n = Arg - 1]>> \in Seq(AlignedOp)
      BY <3>2, <3>3, <3>4
    <3>6. QED
      BY <2>2, <2>3, <3>1, <3>5
  <2>6. QED
    BY <2>4, <2>5
<1>10. CASE Head(todo).op = "lookup"
  <2>1. MoveTo(datap)
    BY <1>10, <1>a, <1>b, OperationDone DEF LookUp, Move
  <2>2. QED
    BY <1>2, <1>3, <2>1, FoursAdd
<1>11. CASE Head(todo).op = "header"
  <2>1. PICK len \in Lengths : MoveTo(datap + 4 * Arg + Pad(len))
    BY <1>11, <1>a, <1>b, OperationDone DEF ReadHeader, Move
  <2>2. Pad(len) \in Fours /\ 4 * Arg \in Fours
    BY <1>1, PadFours, FoursAdd, ConstantsTyped
  <2>3. /\ 4 * Arg + Pad(len) \in Fours
        /\ datap + 4 * Arg + Pad(len) = datap + (4 * Arg + Pad(len))
    BY <1>c, <2>2, Zenon
  <2>4. QED
    BY <1>3, <2>1, <2>3
<1>12. CASE Head(todo).op = "longOnly"
  <2>1. MoveTo(datap + 8) \/ MoveTo(datap)
    BY <1>12, <1>a, OperationDone DEF ReadLongOnly, Move
  <2>2. QED
    BY <1>2, <1>3, <2>1, FoursAdd
<1>13. CASE Head(todo).op = "skip"
  <2>1. MoveTo(datap + Pad(eLength))
    BY <1>13, <1>a, OperationDone DEF SkipElement, Move
  <2>2. Pad(eLength) \in Fours
    BY <1>2, PadFours
  <2>3. QED
    BY <1>3, <2>1, <2>2
<1>14. QED
  BY <1>1, <1>4, <1>5, <1>6, <1>7, <1>8, <1>9, <1>10, <1>11, <1>12, <1>13 DEF ReadKinds

\* The rest of a flow sample's head.
FlowHead(q) ==
    \/ /\ Len(q) = 3 /\ q[1].op = "length"
       /\ q[2].op = "fixed" /\ q[2].n \in Fours /\ q[3].op = "count"
    \/ Len(q) = 2 /\ q[1].op = "fixed" /\ q[1].n \in Fours /\ q[2].op = "count"
    \/ Len(q) = 1 /\ q[1].op = "count"

\* The rest of an element: readers that move by words, and its end.
Closed(q) ==
    /\ Len(q) > 0 /\ q[Len(q)].op = "endElement"
    /\ \A i \in 1 .. Len(q) - 1 : q[i] \in AlignedOp

\* FlowSampleTiled speaks of the step that ends a sample.  What makes it hold is
\* how far the sample is read: in its head, between two elements, or in one.
Tiled ==
    pc = "reading" /\ kind = "flow" =>
      \/ FlowHead(todo) /\ (Len(todo) < 3 => datap - sStart \in Fours)
      \/ todo = <<>> /\ declared = datap - sStart /\ declared \in Fours
      \/ /\ Closed(todo)
         /\ declared = eStart - 8 - sStart /\ declared \in Fours
         /\ datap - eStart \in Fours

\* A queue of one operation is followed by none.
LEMMA LastTail ==
  ASSUME NEW q \in Seq(Op), Len(q) = 1
  PROVE  Tail(q) = <<>>
<1>1. \A r \in Seq(Op) : Len(r) = 0 => r = <<>>
  OBVIOUS
<1>2. q # <<>>
  <2>1. Len(<<>>) = 0 /\ 0 # 1
    OBVIOUS
  <2>2. QED
    BY <2>1, Zenon
<1>3. Tail(q) \in Seq(Op) /\ Len(Tail(q)) = Len(q) - 1
  BY <1>2, TailIndex
<1>4. Len(Tail(q)) = 0
  BY <1>3
<1>5. QED
  BY <1>1, <1>3, <1>4, Zenon

\* The head of a flow sample.
LEMMA FlowSampleHead ==
  ASSUME NEW ids \in {1, 4}
  PROVE  FlowHead(readFlowSample(ids)) /\ Len(readFlowSample(ids)) = 3
<1>1. /\ Operation0("length") \in Seq(Op) /\ Operation0("count") \in Seq(Op)
      /\ \A k \in Nat : WordsOf(k) \in Seq(Op)
  BY OperationsTyped, CheckedIsOp DEF CheckedKinds
<1>2. WordsOf(6 + ids) \in Seq(Op)
  BY <1>1
<1> DEFINE a == Operation0("length")
           b == WordsOf(6 + ids)
           c == Operation0("count")
<1>3. /\ Len(a) = 1 /\ a[1].op = "length" /\ Len(c) = 1 /\ c[1].op = "count"
      /\ Len(b) = 1 /\ b[1].op = "fixed" /\ b[1].n = 4 * (6 + ids)
  BY DEF Operation0, WordsOf
<1>4. readFlowSample(ids) = (a \o b) \o c
  BY DEF readFlowSample
<1>5. a \in Seq(Op) /\ b \in Seq(Op) /\ c \in Seq(Op)
  BY <1>1, <1>2
<1> HIDE DEF a, b, c
<1>6. /\ a \o b \in Seq(Op) /\ Len(a \o b) = 2
      /\ (a \o b)[1] = a[1] /\ (a \o b)[2] = b[1]
  <2>1. /\ a \o b \in Seq(Op) /\ Len(a \o b) = Len(a) + Len(b)
        /\ \A i \in 1 .. Len(a) : (a \o b)[i] = a[i]
        /\ \A i \in 1 .. Len(b) : (a \o b)[Len(a) + i] = b[i]
    BY <1>5, ConcatIndex
  <2>2. 1 \in 1 .. Len(a) /\ 1 \in 1 .. Len(b) /\ Len(a) + 1 = 2 /\ Len(a) + Len(b) = 2
    BY <1>3
  <2>3. (a \o b)[Len(a) + 1] = b[1]
    BY <2>1, <2>2
  <2>4. QED
    BY <2>1, <2>2, <2>3
<1> DEFINE ab == a \o b
<1> HIDE DEF ab
<1>7. Len(ab \o c) = 3 /\ (ab \o c)[1] = a[1] /\ (ab \o c)[2] = b[1] /\ (ab \o c)[3] = c[1]
  <2>1. ab \in Seq(Op) /\ Len(ab) = 2 /\ ab[1] = a[1] /\ ab[2] = b[1]
    BY <1>6 DEF ab
  <2>2. /\ Len(ab \o c) = Len(ab) + Len(c)
        /\ \A i \in 1 .. Len(ab) : (ab \o c)[i] = ab[i]
        /\ \A i \in 1 .. Len(c) : (ab \o c)[Len(ab) + i] = c[i]
    BY <1>5, <2>1, ConcatIndex
  <2>3. /\ 1 \in 1 .. Len(ab) /\ 2 \in 1 .. Len(ab) /\ 1 \in 1 .. Len(c)
        /\ Len(ab) + 1 = 3 /\ Len(ab) + Len(c) = 3
    BY <1>3, <2>1
  <2>4. (ab \o c)[Len(ab) + 1] = c[1]
    BY <2>2, <2>3
  <2>5. QED
    BY <2>1, <2>2, <2>3, <2>4
<1>8. 4 * (6 + ids) \in Fours
  BY FoursAdd
<1>9. PICK q : q = readFlowSample(ids)
  OBVIOUS
<1>10. Len(q) = 3 /\ q[1] = a[1] /\ q[2] = b[1] /\ q[3] = c[1]
  BY <1>4, <1>7, <1>9 DEF ab
<1>11. FlowHead(q)
  BY <1>3, <1>8, <1>10 DEF FlowHead
<1>12. QED
  BY <1>9, <1>10, <1>11

\* The head goes on, up to the count of elements.
LEMMA FlowHeadTail ==
  ASSUME NEW q \in Seq(Op), FlowHead(q), Head(q).op # "count"
  PROVE  /\ FlowHead(Tail(q)) /\ Len(Tail(q)) < 3
         /\ Len(q) = 3 <=> Head(q).op = "length"
         /\ Len(q) # 3 => Head(q).op = "fixed" /\ Head(q).n \in Fours
<1>1. q # <<>>
  <2>1. Len(q) # 0
    BY DEF FlowHead
  <2>2. Len(<<>>) = 0
    OBVIOUS
  <2>3. QED
    BY <2>1, <2>2, Zenon
<1>2. PICK rest : rest = Tail(q)
  OBVIOUS
<1>3. /\ Len(rest) = Len(q) - 1 /\ \A i \in 1 .. Len(q) - 1 : rest[i] = q[i + 1]
      /\ q[1] = Head(q)
  BY <1>1, <1>2, TailIndex
<1>4. CASE Len(q) = 3
  <2>1. Len(rest) = 2 /\ rest[1] = q[2] /\ rest[2] = q[3]
    BY <1>3, <1>4
  <2>2. FlowHead(rest) /\ Len(rest) < 3 /\ Head(q).op = "length"
    BY <1>3, <1>4, <2>1 DEF FlowHead
  <2>3. QED
    BY <1>2, <1>4, <2>2
<1>5. CASE Len(q) = 2
  <2>1. Len(rest) = 1 /\ rest[1] = q[2]
    BY <1>3, <1>5
  <2>2. /\ FlowHead(rest) /\ Len(rest) < 3
        /\ Head(q).op = "fixed" /\ Head(q).n \in Fours
    BY <1>3, <1>5, <2>1 DEF FlowHead
  <2>3. QED
    BY <1>2, <1>5, <2>2
<1>6. QED
  BY <1>3, <1>4, <1>5 DEF FlowHead

\* An element goes on, up to its end.
LEMMA ClosedTail ==
  ASSUME NEW q \in Seq(Op), Closed(q)
  PROVE  /\ q # <<>> /\ Len(q) \in Nat
         /\ Len(q) = 1 => Head(q).op = "endElement"
         /\ Len(q) # 1 => Head(q) \in AlignedOp /\ Closed(Tail(q))
<1>1. q # <<>> /\ Len(q) \in Nat
  <2>1. Len(q) # 0 /\ Len(q) \in Nat
    BY DEF Closed
  <2>2. Len(<<>>) = 0
    OBVIOUS
  <2>3. QED
    BY <2>1, <2>2, Zenon
<1>2. PICK rest : rest = Tail(q)
  OBVIOUS
<1>3. /\ Len(rest) = Len(q) - 1 /\ \A i \in 1 .. Len(q) - 1 : rest[i] = q[i + 1]
      /\ q[1] = Head(q)
  BY <1>1, <1>2, TailIndex
<1>4. CASE Len(q) = 1
  BY <1>1, <1>3, <1>4 DEF Closed
<1>5. CASE Len(q) # 1
  <2>1. Len(q) > 1 /\ 1 \in 1 .. Len(q) - 1 /\ Len(q) - 1 \in 1 .. Len(q) - 1
        /\ Len(q) - 1 + 1 = Len(q)
    <3>1. Len(q) > 0
      BY DEF Closed
    <3>2. \A n \in Nat : n > 0 /\ n # 1 => /\ n > 1 /\ 1 \in 1 .. n - 1
                                           /\ n - 1 \in 1 .. n - 1 /\ n - 1 + 1 = n
      OBVIOUS
    <3>3. QED
      BY <1>1, <1>5, <3>1, <3>2, Zenon
  <2>2. Head(q) \in AlignedOp
    BY <1>3, <2>1 DEF Closed
  <2>3. rest[Len(q) - 1] = q[Len(q) - 1 + 1]
    BY <1>3, <2>1
  <2>4. rest[Len(rest)].op = "endElement" /\ Len(rest) > 0
    BY <1>1, <1>3, <2>1, <2>3 DEF Closed
  <2>5. ASSUME NEW i \in 1 .. Len(rest) - 1
        PROVE  rest[i] \in AlignedOp
    <3>1. i \in 1 .. Len(q) - 1 /\ i + 1 \in 1 .. Len(q) - 1
      BY <1>1, <1>3
    <3>2. rest[i] = q[i + 1]
      BY <1>3, <3>1
    <3>3. QED
      BY <3>1, <3>2 DEF Closed
  <2>6. Closed(rest)
    BY <2>4, <2>5 DEF Closed
  <2>7. QED
    BY <1>1, <1>2, <1>5, <2>2, <2>6
<1>6. QED
  BY <1>4, <1>5

\* A counted block's operations put in front leave the element closed.
LEMMA ClosedConcat ==
  ASSUME NEW r \in Seq(AlignedOp), NEW q \in Seq(Op), Closed(q)
  PROVE  Closed(r \o q)
<1>1. r \in Seq(Op) /\ \A i \in 1 .. Len(r) : r[i] \in AlignedOp
  <2>1. AlignedOp \subseteq Op
    BY CheckedIsOp DEF AlignedOp
  <2>2. QED
    BY <2>1
<1>2. PICK s : s = r \o q
  OBVIOUS
<1>3. /\ Len(s) = Len(r) + Len(q) /\ Len(r) \in Nat /\ Len(q) \in Nat
      /\ \A i \in 1 .. Len(r) : s[i] = r[i]
      /\ \A i \in 1 .. Len(q) : s[Len(r) + i] = q[i]
  BY <1>1, <1>2, ConcatIndex
<1>4. Len(s) > 0 /\ s[Len(s)].op = "endElement"
  <2>1. Len(q) \in 1 .. Len(q) /\ Len(q) > 0
    BY <1>3 DEF Closed
  <2>2. s[Len(r) + Len(q)] = q[Len(q)]
    BY <1>3, <2>1
  <2>3. QED
    BY <1>3, <2>1, <2>2 DEF Closed
<1>5. ASSUME NEW i \in 1 .. Len(s) - 1
      PROVE  s[i] \in AlignedOp
  <2>1. CASE i <= Len(r)
    <3>1. i \in 1 .. Len(r)
      BY <1>3, <2>1
    <3>2. QED
      BY <1>1, <1>3, <3>1
  <2>2. CASE i > Len(r)
    <3>1. i - Len(r) \in 1 .. Len(q) - 1 /\ i - Len(r) \in 1 .. Len(q)
          /\ Len(r) + (i - Len(r)) = i
      BY <1>3, <2>2
    <3>2. s[Len(r) + (i - Len(r))] = q[i - Len(r)]
      BY <1>3, <3>1
    <3>3. q[i - Len(r)] \in AlignedOp
      BY <3>1 DEF Closed
    <3>4. QED
      BY <3>1, <3>2, <3>3
  <2>3. QED
    BY <1>3, <2>1, <2>2
<1>6. Closed(s)
  BY <1>4, <1>5 DEF Closed
<1>7. QED
  BY <1>2, <1>6

\* A flow sample is begun with its head.
LEMMA TiledBegins ==
  ASSUME Shape, [Next]_vars, pc # "reading", pc' = "reading", kind' = "flow"
  PROVE  Tiled'
<1>1. PICK reader \in SampleReaders : kind' = reader[1] /\ todo' = reader[2]
  BY SampleEntered DEF Began
<1>2. reader[2] \in {readFlowSample(1), readFlowSample(4)}
  BY <1>1 DEF SampleReaders
<1>3. FlowHead(todo') /\ Len(todo') = 3
  BY <1>1, <1>2, FlowSampleHead
<1>4. QED
  BY <1>3 DEF Tiled

\* The head goes on, or the first element is due.
LEMMA TiledHead ==
  ASSUME Shape, pc = "reading", pc' = "reading", kind = "flow", todo # <<>>,
         [Next]_vars, ~UNCHANGED vars,
         FlowHead(todo), Len(todo) < 3 => datap - sStart \in Fours
  PROVE  Tiled'
<1>1. todo \in Seq(Op) /\ datap \in Nat /\ sStart \in Nat /\ Arg \in Nat
  BY HeadFields DEF Shape, TypeOK, Arg
<1>2. todo[1] = Head(todo)
  BY <1>1, FirstIsHead
<1>a. \A outcome : ~Finish(outcome)
  BY DEF Finish
<1>3. CASE Head(todo).op = "count"
  <2>1. Len(todo) = 1
    BY <1>2, <1>3 DEF FlowHead
  <2>2. datap - sStart \in Fours
    BY <2>1
  <2>3. ReadCount
    BY <1>3, OperationDone
  <2>4. declared' = datap + 4 - sStart /\ datap' = datap + 4 /\ sStart' = sStart
    BY <1>a, <2>3 DEF ReadCount
  <2>5. todo' = <<>>
    BY <1>1, <1>a, <2>1, <2>3, LastTail DEF ReadCount
  <2>6. declared' \in Fours /\ declared' = datap' - sStart'
    <3>1. datap - sStart + 4 \in Fours
      BY <2>2, FoursAdd
    <3>2. datap - sStart + 4 = datap + 4 - sStart
      BY <1>1
    <3>3. declared' = datap' - sStart'
      <4>1. datap \in Nat /\ sStart \in Nat
        BY <1>1
      <4>2. QED
        BY <2>4, <4>1
    <3>4. QED
      BY <2>4, <3>1, <3>2, <3>3, Zenon
  <2>7. QED
    BY <2>5, <2>6 DEF Tiled
<1>4. CASE Head(todo).op # "count"
  <2>1. /\ FlowHead(Tail(todo)) /\ Len(Tail(todo)) < 3
        /\ Len(todo) = 3 <=> Head(todo).op = "length"
        /\ Len(todo) # 3 => Head(todo).op = "fixed" /\ Head(todo).n \in Fours
    BY <1>1, <1>4, FlowHeadTail
  <2>2. todo' = Tail(todo) /\ datap' - sStart' \in Fours
    <3>1. CASE Len(todo) = 3
      <4>1. ReadLength
        BY <2>1, <3>1, OperationDone
      <4>2. sStart' = datap + 4 /\ datap' = datap + 4 /\ todo' = Tail(todo)
        BY <1>a, <4>1 DEF ReadLength
      <4>3. datap' - sStart' = 0
        BY <1>1, <4>2
      <4>4. QED
        BY <4>2, <4>3, FoursAdd
    <3>2. CASE Len(todo) # 3
      <4>1. ReadFixed
        BY <2>1, <3>2, OperationDone
      <4>2. datap' = datap + Arg /\ sStart' = sStart /\ todo' = Tail(todo)
        BY <1>a, <4>1 DEF ReadFixed, Move, MoveTo, sampleVars
      <4>3. Arg \in Fours /\ datap - sStart \in Fours
        <5>1. Len(todo) < 3
          <6>1. Len(todo) = 2 \/ Len(todo) = 1
            BY <3>2, Zenon DEF FlowHead
          <6>2. \A n : n = 2 \/ n = 1 => n < 3
            OBVIOUS
          <6>3. QED
            BY <6>1, <6>2, Zenon
        <5>2. QED
          BY <2>1, <3>2, <5>1 DEF Arg
      <4>4. datap - sStart + Arg \in Fours
        BY <4>3, FoursAdd
      <4>5. datap' - sStart' = datap - sStart + Arg
        BY <1>1, <4>2
      <4>6. QED
        BY <4>2, <4>4, <4>5
    <3>3. QED
      BY <3>1, <3>2
  <2>3. QED
    BY <2>1, <2>2 DEF Tiled
<1>5. QED
  BY <1>3, <1>4

\* An element is begun where the last one ended.
LEMMA TiledElement ==
  ASSUME Shape, pc = "reading", pc' = "reading", kind = "flow", todo = <<>>,
         [Next]_vars, ~UNCHANGED vars,
         declared = datap - sStart, declared \in Fours
  PROVE  Tiled'
<1>1. PICK length \in Lengths, program \in ElementPrograms :
         /\ datap' = datap + 8 /\ eStart' = datap + 8
         /\ todo' = program \o Operation0("endElement")
         /\ UNCHANGED <<sStart, declared>>
  BY ElementEntered
<1>2. program \in Seq(AlignedOp)
  <2>1. SkipProgram \in Seq(AlignedOp)
    BY DEF SkipProgram, Operation0, AlignedOp, ReadKinds, CheckedOp, OpOf, CheckedKinds
  <2>2. QED
    BY <2>1, AlignmentAssumption DEF ElementPrograms, Programs
<1>3. Closed(Operation0("endElement")) /\ Operation0("endElement") \in Seq(Op)
  <2>1. Operation0("endElement") \in Seq(Op)
    BY OperationsTyped, CheckedIsOp DEF CheckedKinds
  <2>2. Closed(Operation0("endElement"))
    BY DEF Closed, Operation0
  <2>3. QED
    BY <2>1, <2>2
<1>4. Closed(todo')
  BY <1>1, <1>2, <1>3, ClosedConcat
<1>5. declared' = eStart' - 8 - sStart' /\ datap' - eStart' = 0 /\ declared' \in Fours
  BY <1>1 DEF Shape, TypeOK
<1>6. QED
  BY <1>4, <1>5, FoursAdd DEF Tiled

\* An element goes on, or is done: its length is what was read.
LEMMA TiledRead ==
  ASSUME Shape, Bounded, pc = "reading", pc' = "reading", kind = "flow",
         [Next]_vars, ~UNCHANGED vars, Closed(todo),
         declared = eStart - 8 - sStart, declared \in Fours, datap - eStart \in Fours
  PROVE  Tiled'
<1>1. /\ todo \in Seq(Op) /\ datap \in Nat /\ sStart \in Nat /\ eStart \in Nat
      /\ eLength \in Nat
  BY ConstantsTyped DEF Shape, TypeOK
<1>2. /\ todo # <<>> /\ Len(todo) \in Nat
      /\ Len(todo) = 1 => Head(todo).op = "endElement"
      /\ Len(todo) # 1 => Head(todo) \in AlignedOp /\ Closed(Tail(todo))
  BY <1>1, ClosedTail
<1>3. CASE Len(todo) # 1
  <2>1. /\ UNCHANGED <<kind, sStart, declared, eStart, eLength>>
        /\ \E d \in Fours : datap' = datap + d
        /\ \/ todo' = Tail(todo)
           \/ \E r \in Seq(AlignedOp) : todo' = r \o Tail(todo)
    BY <1>2, <1>3, ReaderStep
  <2>2. PICK d \in Fours : datap' = datap + d
    BY <2>1
  <2>3. datap' - eStart' \in Fours
    <3>1. datap - eStart + d \in Fours
      BY <2>2, FoursAdd
    <3>2. \A a, b, c \in Nat : (a + c) - b = a - b + c
      OBVIOUS
    <3>3. d \in Nat
      BY FoursAdd
    <3>4. datap' - eStart' = datap - eStart + d
      BY <1>1, <2>1, <2>2, <3>2, <3>3, Zenon
    <3>5. QED
      BY <3>1, <3>4
  <2>4. Closed(todo')
    <3>1. Tail(todo) \in Seq(Op)
      BY <1>1, <1>2, HeadTailTyped
    <3>2. QED
      BY <1>2, <1>3, <2>1, <3>1, ClosedConcat
  <2>5. QED
    BY <2>1, <2>3, <2>4 DEF Tiled
<1>4. CASE Len(todo) = 1
  <2>1. EndElement
    BY <1>2, <1>4, OperationDone
  <2>2. /\ lengthCheck(eStart, eLength)
        /\ declared' = declared + 8 + Pad(eLength)
        /\ todo' = Tail(todo) /\ UNCHANGED <<datap, sStart>>
    BY <2>1 DEF EndElement, Finish
  <2>3. Pad(datap - eStart) = datap - eStart
    <3>1. datap <= size
      BY DEF Bounded
    <3>2. datap - eStart + 3 < Word
      BY <1>1, <3>1, SizeAssumption DEF Shape, TypeOK
    <3>3. QED
      BY <3>2, PadFours
  <2>4. Pad(eLength) = datap - eStart
    BY <2>2, <2>3 DEF lengthCheck
  <2>5. declared' = datap' - sStart'
    BY <1>1, <2>2, <2>4
  <2>6. declared' \in Fours
    <3>1. declared + 8 \in Fours
      BY FoursAdd
    <3>2. QED
      BY <2>2, <2>4, <3>1, FoursAdd
  <2>7. todo' = <<>>
    BY <1>1, <1>4, <2>2, LastTail
  <2>8. QED
    BY <2>5, <2>6, <2>7 DEF Tiled
<1>5. QED
  BY <1>3, <1>4

\* Every step keeps the tiling.
LEMMA TiledStep ==
  ASSUME Shape, Bounded, Tiled, [Next]_vars
  PROVE  Tiled'
<1> SUFFICES ASSUME pc' = "reading", kind' = "flow"
             PROVE  Tiled'
  BY DEF Tiled
<1>1. CASE UNCHANGED vars
  BY <1>1 DEF vars, sampleVars, elementVars, Tiled
<1>2. CASE pc # "reading"
  BY <1>2, TiledBegins
<1>3. CASE pc = "reading" /\ ~UNCHANGED vars
  <2>1. kind = "flow"
    <3>1. ~(Abandoned \/ Stopped \/ EndDatagram)
      BY DEF Abandoned, Stopped, EndDatagram, Finish, Halt
    <3>2. ~(Began \/ EndedSample \/ ReceiveDatagram \/ RejectDatagram)
      BY <1>3 DEF Began, EndedSample, ReceiveDatagram, RejectDatagram
    <3>3. InSample
      BY <1>3, <3>1, <3>2, StepKinds
    <3>4. QED
      BY <3>3 DEF InSample
  <2>2. CASE todo = <<>>
    <3>1. Len(<<>>) = 0
      OBVIOUS
    <3>2. ~FlowHead(todo) /\ ~Closed(todo)
      BY <2>2, <3>1 DEF FlowHead, Closed
    <3>3. declared = datap - sStart /\ declared \in Fours
      BY <1>3, <2>1, <3>2 DEF Tiled
    <3>4. QED
      BY <1>3, <2>1, <2>2, <3>3, TiledElement
  <2>3. CASE todo # <<>> /\ FlowHead(todo) /\ (Len(todo) < 3 => datap - sStart \in Fours)
    BY <1>3, <2>1, <2>3, TiledHead
  <2>4. CASE /\ Closed(todo)
             /\ declared = eStart - 8 - sStart /\ declared \in Fours
             /\ datap - eStart \in Fours
    BY <1>3, <2>1, <2>4, TiledRead
  <2>5. QED
    BY <1>3, <2>1, <2>2, <2>3, <2>4 DEF Tiled
<1>4. QED
  BY <1>1, <1>2, <1>3

\* What is read of a flow sample is what its head and its elements declare.
THEOREM TilingCorrect == Spec => []Tiled
<1>1. Init => Tiled
  BY DEF Init, Tiled
<1>2. QED
  BY <1>1, TiledStep, ShapeCorrect, BoundedCorrect, PTL DEF Spec

\* A sample is ended between two elements, after its lengthCheck.
LEMMA SampleLeft ==
  ASSUME Shape, [Next]_vars, samp' = samp + 1
  PROVE  EndSample /\ pc' = "samples" /\ pc = "reading" /\ todo = <<>>
<1>1. samp \in Nat /\ samp' # samp /\ samp' # 0
  <2>1. samp \in Nat
    BY ConstantsTyped DEF Shape, TypeOK
  <2>2. QED
    BY <2>1
<1>2. ~(Abandoned \/ Stopped \/ EndDatagram)
  BY <1>1 DEF Abandoned, Stopped, EndDatagram, Finish, Halt, Forget
<1>3. ~(InSample \/ Began \/ ReceiveDatagram \/ RejectDatagram \/ UNCHANGED vars)
  BY <1>1 DEF InSample, Began, ReceiveDatagram, RejectDatagram, vars, datagramVars
<1>4. pc = "reading" /\ todo = <<>> /\ pc' = "samples"
  BY <1>2, <1>3, StepKinds DEF EndedSample
<1>5. ~(ReceiveDatagram \/ RejectDatagram \/ BeginSample \/ EndDatagram \/ Ended)
  BY <1>4 DEF ReceiveDatagram, RejectDatagram, BeginSample, EndDatagram, Ended
<1>6. ~(OutputFails \/ BeginElement \/ BeginExtended)
  BY <1>4 DEF OutputFails, Halt, BeginElement, BeginExtended, Finish
<1>7. \A name : ~Running(name)
  BY <1>4 DEF Running
<1>8. ~(ReadFixed \/ ReadString \/ ReadAddress \/ ReadArray \/ ReadRepeat \/ Iterate
        \/ LookUp \/ ReadHeader \/ ReadLongOnly \/ SkipElement)
  BY <1>7 DEF ReadFixed, ReadString, ReadAddress, ReadArray, ReadRepeat, Iterate,
              LookUp, ReadHeader, ReadLongOnly, SkipElement
<1>9. ~(PopulateU64 \/ PopulateU32 \/ UpdateContext \/ PutBatch \/ IgnoreA10 \/ StoreA10
        \/ EndElement \/ ReadLength \/ ReadCount \/ ReadPacketData \/ ReadCounterBlock)
  BY <1>7 DEF PopulateU64, PopulateU32, UpdateContext, PutBatch, IgnoreA10, StoreA10,
              EndElement, ReadLength, ReadCount, ReadPacketData, ReadCounterBlock
<1>10. QED
  BY <1>3, <1>4, <1>5, <1>6, <1>8, <1>9 DEF Next, Step

\* A flow sample is accepted only when its elements, by their own lengths, fill
\* it: what was read is what was declared, and lengthCheck compares it with the
\* sample's length.
THEOREM TiledCorrect == Spec => FlowSampleTiled
<1> DEFINE Fills == samp' = samp + 1 /\ kind = "flow" => declared = Pad(sLength)
<1>1. Shape /\ Bounded /\ Tiled /\ [Next]_vars => [Fills]_vars
  <2> SUFFICES ASSUME Shape, Bounded, Tiled, [Next]_vars, samp' = samp + 1, kind = "flow"
               PROVE  declared = Pad(sLength)
    OBVIOUS
  <2>1. EndSample /\ pc' = "samples" /\ pc = "reading" /\ todo = <<>>
    BY SampleLeft
  <2>2. Pad(datap - sStart) = Pad(sLength)
    BY <2>1 DEF EndSample, Finish, lengthCheck
  <2>3. declared = datap - sStart /\ declared \in Fours
    <3>1. Len(<<>>) = 0
      OBVIOUS
    <3>2. ~FlowHead(todo) /\ ~Closed(todo)
      BY <2>1, <3>1 DEF FlowHead, Closed
    <3>3. QED
      BY <2>1, <3>2 DEF Tiled
  <2>4. declared + 3 < Word
    <3>1. datap <= size
      BY <2>1 DEF Bounded
    <3>2. QED
      BY <2>3, <3>1, SizeAssumption DEF Shape, TypeOK
  <2>5. Pad(declared) = declared
    BY <2>3, <2>4, PadFours
  <2>6. QED
    BY <2>2, <2>3, <2>5
<1>2. QED
  BY <1>1, ShapeCorrect, BoundedCorrect, TilingCorrect, PTL DEF Spec, FlowSampleTiled

(***************************************************************************)
(* A datagram comes to an end: no count it announces keeps the decoder     *)
(* going.  Room and Delay are what the decoder has left.  Operations that   *)
(* take no bytes only use up Delay; a turn of a counted loop renews it, but *)
(* begins with a read.                                                     *)
(***************************************************************************)

\* Every queue has its number of idle operations.
LEMMA IdleExists ==
  ASSUME NEW q \in Seq(Op)
  PROVE  \E n \in 0 .. Len(q) : IsIdle(n, q)
<1>1. Len(q) \in Nat
  OBVIOUS
<1>2. DEFINE T == {n \in 0 .. Len(q) : n < Len(q) => Takes(q[n + 1])}
<1>3. T \in SUBSET Nat /\ Len(q) \in T
  BY <1>1
<1>4. PICK x \in T : \A y \in T : x <= y
  <2>1. T # {}
    BY <1>3
  <2> HIDE DEF T
  <2>2. QED
    BY <1>3, <2>1, LeastNumber, Zenon
<1>5. ASSUME NEW i \in 1 .. x
      PROVE  ~Takes(q[i])
  <2>1. x \in 0 .. Len(q) /\ i - 1 \in 0 .. Len(q) /\ i - 1 < x /\ (i - 1) + 1 = i
    BY <1>1, <1>4
  <2>2. i - 1 \notin T
    <3>1. SUFFICES ASSUME i - 1 \in T PROVE FALSE
      OBVIOUS
    <3>2. x <= i - 1
      BY <1>4, <3>1, Zenon
    <3>3. QED
      BY <2>1, <3>2
  <2>3. QED
    BY <2>1, <2>2
<1>6. QED
  BY <1>4, <1>5 DEF IsIdle

\* Only one.
LEMMA IdleUnique ==
  ASSUME NEW q \in Seq(Op), NEW m \in 0 .. Len(q), NEW n \in 0 .. Len(q),
         IsIdle(m, q), IsIdle(n, q)
  PROVE  m = n
<1>1. Len(q) \in Nat
  OBVIOUS
<1>2. ASSUME NEW a \in 0 .. Len(q), NEW b \in 0 .. Len(q), IsIdle(a, q), IsIdle(b, q), a < b
      PROVE  FALSE
  <2>1. a + 1 \in 1 .. b /\ a < Len(q)
    BY <1>1, <1>2
  <2>2. QED
    BY <1>2, <2>1 DEF IsIdle
<1>3. ~(m < n) /\ ~(n < m)
  BY <1>2
<1>4. QED
  BY <1>1, <1>3

\* Idle is that number.
LEMMA IdleIs ==
  ASSUME NEW q \in Seq(Op)
  PROVE  /\ Idle(q) \in 0 .. Len(q) /\ Idle(q) \in Nat /\ IsIdle(Idle(q), q)
         /\ \A n \in 0 .. Len(q) : IsIdle(n, q) => Idle(q) = n
<1>1. Idle(q) \in 0 .. Len(q) /\ IsIdle(Idle(q), q)
  BY IdleExists DEF Idle
<1>2. \A n \in 0 .. Len(q) : IsIdle(n, q) => Idle(q) = n
  BY <1>1, IdleUnique
<1>3. Len(q) \in Nat
  OBVIOUS
<1>4. QED
  BY <1>1, <1>2, <1>3

\* An operation done that takes nothing leaves one idle operation less.
LEMMA IdleTail ==
  ASSUME NEW q \in Seq(Op), q # <<>>, ~Takes(Head(q))
  PROVE  Tail(q) \in Seq(Op) /\ Idle(Tail(q)) < Idle(q)
<1>1. PICK rest \in Seq(Op) :
         /\ rest = Tail(q) /\ Len(q) \in Nat \ {0} /\ Len(rest) = Len(q) - 1
         /\ q[1] = Head(q) /\ \A i \in 1 .. Len(q) - 1 : rest[i] = q[i + 1]
  BY TailIndex
<1>2. DEFINE n == Idle(q)
<1>3. n \in 0 .. Len(q) /\ IsIdle(n, q)
  BY IdleIs
<1> HIDE DEF n
<1>4. n > 0
  <2>1. SUFFICES ASSUME n = 0 PROVE FALSE
    BY <1>3
  <2>2. 0 < Len(q)
    BY <1>1
  <2>3. Takes(q[0 + 1])
    BY <1>3, <2>1, <2>2, Zenon DEF IsIdle
  <2>4. QED
    BY <2>3, <1>1
<1>5. n - 1 \in 0 .. Len(rest) /\ (n - 1) + 1 = n /\ n - 1 < n
  BY <1>1, <1>3, <1>4
<1>6. \A i \in 1 .. n - 1 : ~Takes(rest[i])
  <2>1. TAKE i \in 1 .. n - 1
  <2>2. i + 1 \in 1 .. n /\ i \in 1 .. Len(q) - 1
    BY <1>1, <1>3
  <2>3. QED
    BY <1>1, <1>3, <2>2 DEF IsIdle
<1>7. n - 1 < Len(rest) => Takes(rest[n - 1 + 1])
  <2>1. HAVE n - 1 < Len(rest)
  <2>2. n < Len(q) /\ n \in 1 .. Len(q) - 1
    BY <2>1, <1>1, <1>3, <1>4
  <2>3. Takes(rest[n])
    BY <2>2, <1>1, <1>3 DEF IsIdle
  <2>4. QED
    BY <2>3, <1>5
<1>8. IsIdle(n - 1, rest)
  BY <1>6, <1>7 DEF IsIdle
<1>9. Idle(rest) = n - 1
  BY <1>5, <1>8, IdleIs
<1>10. QED
  BY <1>1, <1>5, <1>9 DEF n

\* A queue that begins with a read has none.
LEMMA IdleNone ==
  ASSUME NEW q \in Seq(Op), q # <<>>, Takes(q[1])
  PROVE  Idle(q) = 0
<1>1. Len(q) \in Nat
  OBVIOUS
<1>2. IsIdle(0, q)
  BY DEF IsIdle
<1>3. QED
  BY <1>1, <1>2, IdleIs

\* A step of the cursor, ahead or past an operation that takes nothing.
LEMMA MoveDescends ==
  ASSUME Shape, pc = "reading", todo # <<>>, NEW p \in Nat, MoveTo(p),
         datap < p \/ (datap = p /\ ~Takes(Head(todo)))
  PROVE  Room' < Room \/ (Room' = Room /\ Delay' < Delay)
<1>1. datap' = p /\ size' = size /\ pc' = pc /\ todo' = Tail(todo)
  BY DEF MoveTo, datagramVars
<1>2. size \in Nat /\ datap \in Nat /\ Short \in Nat /\ todo \in Seq(Op)
  BY ConstantsTyped DEF Shape, TypeOK
<1>3. CASE datap < p
  BY <1>1, <1>2, <1>3 DEF Room
<1>4. CASE datap = p /\ ~Takes(Head(todo))
  <2>1. Tail(todo) \in Seq(Op) /\ Idle(Tail(todo)) < Idle(todo)
    BY <1>2, <1>4, IdleTail
  <2>2. Idle(todo) \in Nat /\ Idle(Tail(todo)) \in Nat
    BY <1>2, <2>1, IdleIs
  <2>3. Delay = 1 + Idle(todo) /\ Delay' = 1 + Idle(Tail(todo))
    BY <1>1 DEF Delay
  <2>4. Room' = Room
    BY <1>1, <1>4 DEF Room
  <2>5. QED
    BY <2>1, <2>2, <2>3, <2>4
<1>5. QED
  BY <1>3, <1>4

\* The same without the cursor: the operation at the head is done.
LEMMA PopDescends ==
  ASSUME Shape, pc = "reading", todo # <<>>, pc' = pc, size' = size, datap' = datap,
         todo' = Tail(todo), ~Takes(Head(todo))
  PROVE  Room' < Room \/ (Room' = Room /\ Delay' < Delay)
<1>1. todo \in Seq(Op)
  BY DEF Shape, TypeOK
<1>2. Tail(todo) \in Seq(Op) /\ Idle(Tail(todo)) < Idle(todo)
  BY <1>1, IdleTail
<1>3. Idle(todo) \in Nat /\ Idle(Tail(todo)) \in Nat
  BY <1>1, <1>2, IdleIs
<1>4. Delay = 1 + Idle(todo) /\ Delay' = 1 + Idle(Tail(todo))
  BY DEF Delay
<1>5. Room' = Room
  BY DEF Room
<1>6. QED
  BY <1>2, <1>3, <1>4, <1>5

\* A step that takes bytes.
LEMMA TakingDescends ==
  ASSUME Shape, datap' \in Nat, datap < datap', size' = size
  PROVE  Room' < Room
<1>1. size \in Nat /\ datap \in Nat /\ Short \in Nat
  BY ConstantsTyped DEF Shape, TypeOK
<1>2. PICK p \in Nat : datap' = p /\ datap < p
  OBVIOUS
<1>3. QED
  BY <1>1, <1>2 DEF Room

\* Filling a structure takes bytes: the record has some left, in whole units.
LEMMA FillDescends ==
  ASSUME Shape, pc = "reading", todo # <<>>, NEW unit \in {4, 8}, Fill(unit), pc' = "reading"
  PROVE  Room' < Room \/ (Room' = Room /\ Delay' < Delay)
<1> DEFINE parse == ctx % Short
           read  == unit * Least(parse \div unit, Arg \div unit)
           ahead == FastForward(parse)
<1>1. parse \in Nat /\ Arg \in Nat /\ datap \in Nat
  BY ConstantsTyped, HeadFields DEF Shape, TypeOK, Arg
<1>2. ~Finish("eos")
  BY DEF Finish
<1>3. MoveTo(datap + read + ahead) /\ parse > 0 /\ parse % unit = 0
  BY <1>2 DEF Fill, Move
<1>4. parse \div unit \in Nat \ {0} /\ Arg \div unit \in Nat
  BY <1>1, <1>3
<1>5. Least(parse \div unit, Arg \div unit) \in Nat
  BY <1>4 DEF Least
<1>6. read \in Nat /\ ahead \in Nat
  BY <1>1, <1>5 DEF FastForward
<1>7. CASE Arg < parse
  <2>1. ahead > 0
    BY <1>1, <1>7 DEF FastForward
  <2>2. datap + read + ahead \in Nat /\ datap < datap + read + ahead
    BY <1>1, <1>6, <2>1
  <2>3. QED
    BY <1>3, <2>2, MoveDescends
<1>8. CASE parse <= Arg
  <2>1. parse \div unit <= Arg \div unit
    BY <1>1, <1>8
  <2>2. read > 0
    BY <1>4, <2>1 DEF Least
  <2>3. datap + read + ahead \in Nat /\ datap < datap + read + ahead
    BY <1>1, <1>6, <2>2
  <2>4. QED
    BY <1>3, <2>3, MoveDescends
<1>9. QED
  BY <1>1, <1>7, <1>8

\* The choice of a reader takes its tag.
LEMMA ChooseDescends ==
  ASSUME Shape, pc = "reading", NEW reader, Choose(reader), pc' = "reading"
  PROVE  Room' < Room
<1>1. ~Finish("eos") /\ ~Finish("decode")
  BY DEF Finish
<1>2. datap' = datap + 4 /\ size' = size
  BY <1>1 DEF Choose, datagramVars
<1>3. datap \in Nat
  BY DEF Shape, TypeOK
<1>4. datap' \in Nat /\ datap < datap'
  BY <1>2, <1>3
<1>5. QED
  BY <1>2, <1>4, TakingDescends

\* A turn of a counted loop: the next operation is the block's first.
LEMMA IterateDescends ==
  ASSUME Shape, pc = "reading", Iterate
  PROVE  Room' < Room \/ (Room' = Room /\ Delay' < Delay)
<1>1. /\ todo \in Seq(Op) /\ todo # <<>> /\ Head(todo).op = "iterate"
      /\ pc' = pc /\ size' = size /\ datap' = datap
  BY DEF Iterate, Running, Shape, TypeOK, datagramVars
<1>2. ~Takes(Head(todo))
  BY <1>1 DEF Takes
<1>3. CASE Arg = 0
  BY <1>1, <1>2, <1>3, PopDescends DEF Iterate
<1>4. CASE Arg # 0
  <2> DEFINE block == Block[Head(todo).body]
             rest  == <<[Head(todo) EXCEPT !.n = Arg - 1]>> \o Tail(todo)
  <2>1. Head(todo).body \in DOMAIN Block /\ Arg \in Nat /\ Head(todo) \in Op /\ Tail(todo) \in Seq(Op)
    BY <1>1, HeadFields, HeadTailTyped DEF Arg
  <2>2. block \in Seq(Op) /\ block # <<>> /\ Takes(block[1])
    BY <2>1, BlockAssumption, ReaderAssumption, CheckedIsOp
  <2>3. [Head(todo) EXCEPT !.n = Arg - 1] \in Op
    BY <2>1, <1>4 DEF Op, OpOf, Arg
  <2>4. rest \in Seq(Op)
    BY <2>1, <2>3, ConcatTyped
  <2>5. todo' = block \o rest
    <3>1. todo' = Block[Head(todo).body]
                    \o <<[Head(todo) EXCEPT !.n = Arg - 1]>> \o Tail(todo)
      BY <1>4 DEF Iterate
    <3>2. <<[Head(todo) EXCEPT !.n = Arg - 1]>> \in Seq(Op)
      BY <2>3
    <3>3. \A a, b, c \in Seq(Op) : (a \o b) \o c = a \o (b \o c)
      OBVIOUS
    <3>4. QED
      BY <2>1, <2>2, <3>1, <3>2, <3>3
  <2> HIDE DEF block, rest
  <2>6. block \o rest \in Seq(Op) /\ block \o rest # <<>> /\ (block \o rest)[1] = block[1]
    BY <2>2, <2>4
  <2>7. Idle(todo') = 0
    BY <2>2, <2>5, <2>6, IdleNone
  <2>8. Idle(todo) \in Nat /\ Idle(todo) > 0
    <3>1. Idle(Tail(todo)) < Idle(todo) /\ Tail(todo) \in Seq(Op)
      BY <1>1, <1>2, IdleTail
    <3>2. Idle(Tail(todo)) \in Nat /\ Idle(todo) \in Nat
      BY <3>1, <1>1, IdleIs
    <3>3. QED
      BY <3>1, <3>2
  <2>9. Delay = 1 + Idle(todo) /\ Delay' = 1 + Idle(todo')
    BY <1>1 DEF Delay
  <2>10. Room' = Room
    BY <1>1 DEF Room
  <2>11. QED
    BY <2>7, <2>8, <2>9, <2>10
<1>5. QED
  BY <1>3, <1>4

\* Inside a sample every step descends.
LEMMA ReadingDescends ==
  ASSUME Shape, pc = "reading", pc' = "reading", todo # <<>>, [Next]_vars, ~UNCHANGED vars
  PROVE  Room' < Room \/ (Room' = Room /\ Delay' < Delay)
<1> DEFINE Goal == Room' < Room \/ (Room' = Room /\ Delay' < Delay)
<1> SUFFICES Goal
  OBVIOUS
<1>a. /\ \A outcome : ~Finish(outcome)
      /\ ~Halt
  BY DEF Finish, Halt
<1>b. /\ datap \in Nat /\ size \in Nat /\ eLength \in Nat /\ ctx \in Nat /\ todo \in Seq(Op)
      /\ Arg \in Nat
  BY ConstantsTyped, HeadFields DEF Shape, TypeOK, Arg
<1>c. \A p \in Nat : MoveTo(p) /\ datap < p => Goal
  BY MoveDescends
<1>d. \A p \in Nat : MoveTo(p) /\ datap = p /\ ~Takes(Head(todo)) => Goal
  BY MoveDescends
<1>e. datap' \in Nat /\ datap < datap' /\ size' = size => Goal
  BY TakingDescends
<1>f. /\ size' = size /\ datap' = datap /\ todo' = Tail(todo) /\ ~Takes(Head(todo))
      => Goal
  BY PopDescends
<1>g. \A len \in Lengths : Pad(len) \in Nat
  BY PadNat, ConstantsTyped
<1>h. \A count \in Counts : Pad((4 * count) % Word) \in Nat
  BY PadNat, ConstantsTyped
<1>i. \A bytes \in Addresses : bytes \in Nat
  BY ConstantsTyped
<1> HIDE DEF Goal
<1>1. CASE Head(todo).op = "fixed" /\ ReadFixed
  <2>1. MoveTo(datap + Arg)
    BY <1>1, <1>a DEF ReadFixed, Move
  <2>2. CASE Arg = 0
    <3>1. ~Takes(Head(todo))
      BY <1>1, <2>2 DEF Takes, Arg
    <3>2. datap + Arg \in Nat /\ datap = datap + Arg
      BY <1>b, <2>2
    <3>3. QED
      BY <1>d, <2>1, <3>1, <3>2
  <2>3. CASE Arg > 0
    BY <1>b, <1>c, <2>1, <2>3
  <2>4. QED
    BY <1>b, <2>2, <2>3
<1>2. CASE Head(todo).op = "string" /\ ReadString
  <2>1. PICK len \in Lengths : MoveTo(datap + 4 + Pad(len))
    BY <1>2, <1>a DEF ReadString, Move
  <2>2. datap + 4 + Pad(len) \in Nat /\ datap < datap + 4 + Pad(len)
    BY <1>b, <1>g
  <2>3. QED
    BY <1>c, <2>1, <2>2
<1>3. CASE Head(todo).op = "address" /\ ReadAddress
  <2>1. PICK bytes \in Addresses : MoveTo(datap + 4 + bytes)
    BY <1>3, <1>a DEF ReadAddress, Move
  <2>2. datap + 4 + bytes \in Nat /\ datap < datap + 4 + bytes
    BY <1>b, <1>i
  <2>3. QED
    BY <1>c, <2>1, <2>2
<1>4. CASE Head(todo).op = "array" /\ ReadArray
  <2>1. PICK count \in Counts : MoveTo(datap + 4 + Pad((4 * count) % Word))
    BY <1>4, <1>a DEF ReadArray, Move
  <2>2. datap + 4 + Pad((4 * count) % Word) \in Nat /\ datap < datap + 4 + Pad((4 * count) % Word)
    BY <1>b, <1>h
  <2>3. QED
    BY <1>c, <2>1, <2>2
<1>5. CASE Head(todo).op = "repeat" /\ ReadRepeat
  <2>1. datap' = datap + 4 /\ size' = size
    BY <1>5, <1>a DEF ReadRepeat, datagramVars
  <2>2. QED
    BY <1>b, <1>e, <2>1
<1>6. CASE Iterate
  BY <1>6, IterateDescends DEF Goal
<1>7. CASE Head(todo).op = "lookup" /\ LookUp
  <2>1. MoveTo(datap)
    BY <1>7, <1>a DEF LookUp, Move
  <2>2. ~Takes(Head(todo))
    BY <1>7 DEF Takes
  <2>3. QED
    BY <1>b, <1>d, <2>1, <2>2
<1>8. CASE Head(todo).op = "header" /\ ReadHeader
  <2>1. PICK len \in Lengths : MoveTo(datap + 4 * Arg + Pad(len))
    BY <1>8, <1>a DEF ReadHeader, Move
  <2>2. datap + 4 * Arg + Pad(len) \in Nat /\ datap <= datap + 4 * Arg + Pad(len)
    BY <1>b, <1>g
  <2>3. CASE datap < datap + 4 * Arg + Pad(len)
    BY <1>c, <2>1, <2>2, <2>3
  <2>4. CASE datap = datap + 4 * Arg + Pad(len)
    <3>1. Arg = 0
      BY <1>b, <1>g, <2>4
    <3>2. ~Takes(Head(todo))
      BY <1>8, <3>1 DEF Takes, Arg
    <3>3. QED
      BY <1>d, <2>1, <2>2, <2>4, <3>2
  <2>5. QED
    BY <1>b, <2>2, <2>3, <2>4
<1>9. CASE Head(todo).op = "longOnly" /\ ReadLongOnly
  <2>1. MoveTo(datap + 8) \/ MoveTo(datap)
    BY <1>9, <1>a DEF ReadLongOnly, Move
  <2>2. ~Takes(Head(todo))
    BY <1>9 DEF Takes
  <2>3. QED
    BY <1>b, <1>c, <1>d, <2>1, <2>2
<1>10. CASE Head(todo).op = "skip" /\ SkipElement
  <2>1. MoveTo(datap + Pad(eLength))
    BY <1>10, <1>a DEF SkipElement, Move
  <2>2. ~Takes(Head(todo))
    BY <1>10 DEF Takes
  <2>3. datap + Pad(eLength) \in Nat /\ datap <= datap + Pad(eLength)
    <3>1. Pad(eLength) \in Nat
      BY <1>b, PadNat
    <3>2. QED
      BY <1>b, <3>1
  <2>4. QED
    BY <1>b, <1>c, <1>d, <2>1, <2>2, <2>3
<1>11. CASE PopulateU64 \/ PopulateU32
  BY <1>11, FillDescends DEF PopulateU64, PopulateU32, Goal
<1>12. CASE Head(todo).op = "context" /\ UpdateContext
  <2>1. size' = size /\ datap' = datap /\ todo' = Tail(todo)
    BY <1>12, <1>a DEF UpdateContext, datagramVars
  <2>2. ~Takes(Head(todo))
    BY <1>12 DEF Takes
  <2>3. QED
    BY <1>f, <2>1, <2>2
<1>13. CASE Head(todo).op = "put" /\ PutBatch
  <2>1. size' = size /\ datap' = datap /\ todo' = Tail(todo)
    BY <1>13, <1>a DEF PutBatch, datagramVars
  <2>2. ~Takes(Head(todo))
    BY <1>13 DEF Takes
  <2>3. QED
    BY <1>f, <2>1, <2>2
<1>14. CASE IgnoreA10
  <2>1. datap' = datap + 45 /\ size' = size
    BY <1>14 DEF IgnoreA10, A10Head, datagramVars
  <2>2. QED
    BY <1>b, <1>e, <2>1
<1>15. CASE StoreA10
  <2>1. datap' = datap + 45 + Pad(A10Left) /\ size' = size
    BY <1>15, <1>a DEF StoreA10, A10Head, datagramVars
  <2>2. A10Left \in Nat
    BY <1>b, ConstantsTyped DEF A10Left, A10Head
  <2>3. Pad(A10Left) \in Nat
    BY <2>2, PadNat
  <2>4. datap' \in Nat /\ datap < datap'
    BY <1>b, <2>1, <2>3
  <2>5. QED
    BY <1>e, <2>1, <2>4
<1>16. CASE Head(todo).op = "endElement" /\ EndElement
  <2>1. size' = size /\ datap' = datap /\ todo' = Tail(todo)
    BY <1>16, <1>a DEF EndElement, datagramVars
  <2>2. ~Takes(Head(todo))
    BY <1>16 DEF Takes
  <2>3. QED
    BY <1>f, <2>1, <2>2
<1>17. CASE ReadLength \/ ReadCount
  <2>1. datap' = datap + 4 /\ size' = size
    BY <1>17, <1>a DEF ReadLength, ReadCount, datagramVars
  <2>2. QED
    BY <1>b, <1>e, <2>1
<1>18. CASE ReadPacketData \/ ReadCounterBlock
  BY <1>18, ChooseDescends DEF ReadPacketData, ReadCounterBlock, Goal
<1>19. QED
  BY OperationDone, <1>1, <1>2, <1>3, <1>4, <1>5, <1>6, <1>7, <1>8, <1>9, <1>10, <1>11,
     <1>12, <1>13, <1>14, <1>15, <1>16, <1>17, <1>18

\* So does every step that stays in the datagram.
LEMMA DescentStep ==
  ASSUME Shape, [Next]_vars, ~UNCHANGED vars,
         pc \in {"samples", "reading"}, pc' \in {"samples", "reading"}
  PROVE  Room' < Room \/ (Room' = Room /\ Delay' < Delay)
<1>a. /\ \A outcome : ~Finish(outcome)
      /\ ~Halt
  BY DEF Finish, Halt
<1>b. datap \in Nat /\ size \in Nat /\ todo \in Seq(Op)
  BY DEF Shape, TypeOK
<1>1. CASE pc = "samples"
  <2>1. Began
    BY <1>1, <1>a, StepKinds
       DEF Stopped, Abandoned, InSample, EndedSample, EndDatagram, ReceiveDatagram, RejectDatagram
  <2>2. datap' = datap + 4 /\ size' = size
    BY <2>1 DEF Began, datagramVars
  <2>3. datap' \in Nat /\ datap < datap'
    BY <2>2, <1>b
  <2>4. QED
    BY <2>2, <2>3, TakingDescends
<1>2. CASE pc = "reading" /\ pc' = "samples"
  <2>1. EndedSample
    BY <1>2, <1>a, StepKinds
       DEF Stopped, Abandoned, InSample, Began, EndDatagram, ReceiveDatagram, RejectDatagram
  <2>2. datap' = datap /\ size' = size
    BY <2>1 DEF EndedSample
  <2>3. Delay' = 0 /\ Delay = 1 + Idle(todo)
    BY <1>2 DEF Delay
  <2>4. Idle(todo) \in Nat
    BY <1>b, IdleIs
  <2>5. Room' = Room
    BY <2>2 DEF Room
  <2>6. QED
    BY <2>3, <2>4, <2>5
<1>3. CASE pc = "reading" /\ pc' = "reading" /\ todo # <<>>
  BY <1>3, ReadingDescends
<1>4. CASE pc = "reading" /\ pc' = "reading" /\ todo = <<>>
  <2>2. (datap' = datap + 8 \/ datap' = datap + 4) /\ size' = size
    <3>1. InSample
      BY <1>4, StepKinds
         DEF Stopped, Abandoned, Began, EndedSample, EndDatagram, ReceiveDatagram,
             RejectDatagram, Finish, Halt
    <3>2. datap' = datap + 8 \/ datap' = datap + 4
      BY <1>4, ElementEntered
    <3>3. QED
      BY <3>1, <3>2 DEF InSample, datagramVars
  <2>3. datap' \in Nat /\ datap < datap'
    BY <2>2, <1>b
  <2>4. QED
    BY <2>2, <2>3, TakingDescends
<1>5. QED
  BY <1>1, <1>2, <1>3, <1>4

\* The first of two pairs of numbers comes before the second, in the order that
\* looks at the first numbers first.
Descent ==
    {ss \in (Nat \X Nat) \X (Nat \X Nat) :
        \/ ss[1][1] < ss[2][1]
        \/ ss[1][1] = ss[2][1] /\ ss[1][2] < ss[2][2]}

\* No sequence of pairs goes down in this order for ever.
LEMMA DescentWellFounded == IsWellFoundedOn(Descent, Nat \X Nat)
<1> DEFINE R   == OpToRel(<, Nat)
           Lex == LexPairOrdering(R, R, Nat, Nat)
<1>1. IsWellFoundedOn(R, Nat)
  BY NatLessThanWellFounded, Zenon
<1>2. \A a, b \in Nat : a < b => <<a, b>> \in R
  <2>1. TAKE a \in Nat, b \in Nat
  <2>2. HAVE a < b
  <2>3. QED
    BY <2>2 DEF OpToRel
<1> HIDE DEF R
<1>3. IsWellFoundedOn(Lex, Nat \X Nat)
  BY <1>1, WFLexPairOrdering, Zenon
<1>4. Descent \subseteq Lex
  <2>1. SUFFICES ASSUME NEW ss \in Descent PROVE ss \in Lex
    OBVIOUS
  <2>2. /\ ss \in (Nat \X Nat) \X (Nat \X Nat)
        /\ \/ ss[1][1] < ss[2][1]
           \/ ss[1][1] = ss[2][1] /\ ss[1][2] < ss[2][2]
    BY DEF Descent
  <2>3. ss[1][1] \in Nat /\ ss[1][2] \in Nat /\ ss[2][1] \in Nat /\ ss[2][2] \in Nat
    BY <2>2
  <2>4. \/ <<ss[1][1], ss[2][1]>> \in R
        \/ ss[1][1] = ss[2][1] /\ <<ss[1][2], ss[2][2]>> \in R
    BY <1>2, <2>2, <2>3, Zenon
  <2>5. ss \in LexPairOrdering(R, R, Nat, Nat)
    BY <2>2, <2>4 DEF LexPairOrdering
  <2>6. QED
    BY <2>5, Zenon
<1>5. Descent \cap ((Nat \X Nat) \X (Nat \X Nat)) \subseteq Lex
  BY <1>4, Zenon
<1> HIDE DEF Lex
<1>6. QED
  BY <1>3, <1>5, IsWellFoundedOnSubrelation, Zenon

\* What is left to the decoder is counted in natural numbers.
LEMMA LeftTyped ==
  ASSUME Shape, OverrunBounded
  PROVE  Room \in Nat /\ Delay \in Nat
<1>1. size \in Nat /\ datap \in Nat /\ Short \in Nat /\ todo \in Seq(Op)
  BY ConstantsTyped DEF Shape, TypeOK
<1>2. Room \in Nat
  BY <1>1 DEF OverrunBounded, Room
<1>3. Idle(todo) \in Nat
  BY <1>1, IdleIs
<1>4. QED
  BY <1>2, <1>3 DEF Delay

\* Every step that stays in the datagram takes bytes or comes nearer to one that
\* does.
THEOREM DescentCorrect == Spec => EveryStepDescends
<1> DEFINE Stays == pc \in {"samples", "reading"} /\ pc' \in {"samples", "reading"}
           Lower == Room' < Room \/ (Room' = Room /\ Delay' < Delay)
<1>1. Shape /\ [Next]_vars => [Stays => Lower]_vars
  <2> SUFFICES ASSUME Shape, [Next]_vars, ~UNCHANGED vars, Stays
               PROVE  Lower
    OBVIOUS
  <2>1. QED
    BY DescentStep
<1>2. QED
  BY <1>1, ShapeCorrect, PTL DEF Spec, EveryStepDescends

\* A step that stays in the datagram goes down in this order.
LeftDescends ==
    [][ /\ pc \in {"samples", "reading"}
        /\ pc' \in {"samples", "reading"}
        => <<<<Room', Delay'>>, <<Room, Delay>>>> \in Descent ]_vars

\* So a datagram takes finitely many steps: each of them that stays in the
\* datagram lowers a pair of numbers, in an order in which no sequence goes down
\* for ever.
THEOREM NoEndlessDatagram ==
  IsWellFoundedOn(Descent, Nat \X Nat) /\ (Spec => LeftDescends)
<1> DEFINE Stays == pc \in {"samples", "reading"} /\ pc' \in {"samples", "reading"}
           Lower == <<<<Room', Delay'>>, <<Room, Delay>>>> \in Descent
<1>1. Shape /\ Shape' /\ OverrunBounded /\ OverrunBounded' /\ [Next]_vars
        => [Stays => Lower]_vars
  <2> SUFFICES ASSUME Shape, Shape', OverrunBounded, OverrunBounded', [Next]_vars,
                      ~UNCHANGED vars, Stays
               PROVE  Lower
    OBVIOUS
  <2>1. Room' < Room \/ (Room' = Room /\ Delay' < Delay)
    BY DescentStep
  <2>2. Room \in Nat /\ Delay \in Nat
    BY LeftTyped
  <2>3. Room' \in Nat /\ Delay' \in Nat
    <3>1. size' \in Nat /\ datap' \in Nat /\ Short \in Nat /\ todo' \in Seq(Op)
      BY ConstantsTyped DEF Shape, TypeOK
    <3>2. datap' < size' + Short
      BY DEF OverrunBounded
    <3>3. Room' \in Nat
      <4>1. \A s, d \in Nat : d < s + Short => s + Short - d \in Nat
        BY <3>1
      <4>2. QED
        BY <3>1, <3>2, <4>1 DEF Room
    <3>4. Idle(todo') \in Nat
      BY <3>1, IdleIs
    <3>5. QED
      BY <3>3, <3>4 DEF Delay
  <2>4. QED
    BY <2>1, <2>2, <2>3 DEF Descent
<1>2. Spec => LeftDescends
  BY <1>1, ShapeCorrect, OverrunCorrect, PTL DEF Spec, LeftDescends
<1>3. QED
  BY <1>2, DescentWellFounded

\* Samples counted were paid for: up to the start of the current sample, or up to
\* the cursor between two, the header and eight bytes of each were read.
Paid ==
    /\ pc = "samples" => 24 + 8 * samp <= datap
    /\ pc = "reading" => 24 + 8 * samp <= sampleAt

\* Each step keeps it.
LEMMA PaidStep ==
  ASSUME Shape, Progress, Paid, [Next]_vars
  PROVE  Paid'
<1>a. samp \in Nat /\ datap \in Nat /\ sampleAt \in Nat
  BY ConstantsTyped DEF Shape, TypeOK
<1>1. CASE Abandoned \/ Stopped \/ EndDatagram
  BY <1>1 DEF Abandoned, Stopped, EndDatagram, Finish, Halt, Paid
<1>2. CASE InSample
  BY <1>2 DEF InSample, datagramVars, Paid
<1>3. CASE Began
  BY <1>3 DEF Began, datagramVars, Paid
<1>4. CASE EndedSample
  <2>1. pc = "reading" /\ todo = <<>> /\ pc' = "samples" /\ samp' = samp + 1 /\ datap' = datap
    BY <1>4 DEF EndedSample
  <2>2. 24 + 8 * samp <= sampleAt /\ sampleAt + 8 <= datap
    BY <2>1 DEF Paid, Progress
  <2>3. 24 + 8 * (samp + 1) <= datap
    BY <1>a, <2>2
  <2>4. QED
    BY <2>1, <2>3 DEF Paid
<1>5. CASE ReceiveDatagram
  <2>1. pc = "idle" /\ pc' = "samples" /\ samp' = samp
    BY <1>5 DEF ReceiveDatagram
  <2>2. samp = 0
    BY <2>1 DEF Shape
  <2>3. PICK v \in Versions, address \in Addresses : datap' = HeaderSize(v, address)
    BY <1>5 DEF ReceiveDatagram
  <2>4. address \in {4, 16}
    BY SizeAssumption
  <2>5. 24 <= datap'
    BY <2>3, <2>4 DEF HeaderSize
  <2>6. QED
    BY <2>1, <2>2, <2>5 DEF Paid
<1>6. CASE RejectDatagram
  BY <1>6 DEF RejectDatagram, Paid
<1>7. CASE UNCHANGED vars
  BY <1>7 DEF vars, datagramVars, sampleVars, Paid
<1>8. QED
  BY <1>1, <1>2, <1>3, <1>4, <1>5, <1>6, <1>7, StepKinds

\* However many samples are announced, one is counted for eight bytes at least.
THEOREM PaidCorrect == Spec => []SamplesPaidFor
<1>1. Init => Paid /\ Progress
  BY DEF Init, Paid, Progress
<1>2. Spec => []Progress
  BY <1>1, ProgressStep, ShapeCorrect, PTL DEF Spec
<1>3. Spec => []Paid
  BY <1>1, <1>2, PaidStep, ShapeCorrect, PTL DEF Spec
<1>4. Shape /\ Paid => SamplesPaidFor
  <2> SUFFICES ASSUME Shape, Paid, pc \in {"samples", "reading"}
               PROVE  24 + 8 * samp <= datap
    BY DEF SamplesPaidFor
  <2>1. samp \in Nat /\ datap \in Nat /\ sampleAt \in Nat /\ sampleAt <= datap
    BY ConstantsTyped DEF Shape, TypeOK
  <2>2. QED
    BY <2>1 DEF Paid
<1>5. QED
  BY <1>3, <1>4, ShapeCorrect, PTL

(***************************************************************************)
(* Records of fixed size.  While the reader of one goes through it, the    *)
(* members left are as long as what is left of the record.                 *)
(***************************************************************************)

\* left[i] is what the operations of q from the i-th to the end of the element, at
\* k, take of a record of n bytes.
MembersAhead(left, q, k, n) ==
    /\ q[k].op = "endElement" /\ left[k] = 0
    /\ \A i \in 1 .. k - 1 :
          q[i].op \in MemberKinds /\ left[i] = left[i + 1] + Taken(q[i], n)

AsLongAsStructure == tag \in DOMAIN Structure /\ eLength = Structure[tag]

Members ==
    AsLongAsStructure =>
      /\ pc = "reading"
      /\ \E k \in 1 .. Len(todo) : \E left \in [1 .. k -> Int] :
            MembersAhead(left, todo, k, eLength) /\ datap + left[1] = eStart + eLength

\* A step keeps the element, is done with it, or begins one.
LEMMA ElementKept ==
  ASSUME [Next]_vars
  PROVE  UNCHANGED <<eStart, eLength>> \/ eStart' = 0 \/ BeginElement
<1>1. CASE UNCHANGED vars
  BY <1>1 DEF vars, elementVars
<1>a. \A p : MoveTo(p) => UNCHANGED <<eStart, eLength>>
  BY DEF MoveTo, elementVars
<1>b. \A outcome : Finish(outcome) => eStart' = 0
  BY DEF Finish, Forget
<1>c. Halt => eStart' = 0
  BY DEF Halt, Forget
<1>2. CASE ReadFixed \/ ReadString \/ ReadAddress \/ ReadArray
  BY <1>2, <1>a, <1>b, <1>c DEF ReadFixed, ReadString, ReadAddress, ReadArray, Move
<1>3. CASE LookUp \/ ReadHeader \/ ReadLongOnly \/ SkipElement
  BY <1>3, <1>a, <1>b, <1>c DEF LookUp, ReadHeader, ReadLongOnly, SkipElement, Move
<1>4. CASE PopulateU64 \/ PopulateU32
  BY <1>4, <1>a, <1>b DEF PopulateU64, PopulateU32, Fill, Move
<1>5. CASE ReadRepeat \/ Iterate
  BY <1>5, <1>b, <1>c DEF ReadRepeat, Iterate, elementVars
<1>6. CASE UpdateContext \/ PutBatch \/ IgnoreA10 \/ StoreA10
  BY <1>6, <1>b, <1>c DEF UpdateContext, PutBatch, IgnoreA10, StoreA10, elementVars
<1>7. CASE EndElement \/ BeginExtended \/ ReadLength \/ ReadCount
  BY <1>7, <1>b DEF EndElement, BeginExtended, ReadLength, ReadCount, elementVars
<1>8. CASE ReadPacketData \/ ReadCounterBlock
  BY <1>8, <1>b DEF ReadPacketData, ReadCounterBlock, Choose, elementVars
<1>9. CASE BeginSample \/ EndSample \/ EndDatagram
  BY <1>9, <1>b DEF BeginSample, EndSample, EndDatagram, elementVars
<1>10. CASE ReceiveDatagram \/ RejectDatagram \/ OutputFails \/ Ended
  BY <1>10, <1>c DEF ReceiveDatagram, RejectDatagram, OutputFails, Ended, vars, elementVars
<1>11. CASE BeginElement
  BY <1>11
<1>12. QED
  BY <1>1, <1>2, <1>3, <1>4, <1>5, <1>6, <1>7, <1>8, <1>9, <1>10, <1>11 DEF Next, Step

\* The members of a record whose reader has just been chosen.
LEMMA MembersChosen ==
  ASSUME NEW table \in {FlowReader, CounterReader},
         NEW t \in DOMAIN table, t \in DOMAIN Structure,
         NEW q, q = table[t] \o Operation0("endElement")
  PROVE  \E k \in 1 .. Len(q) : \E left \in [1 .. k -> Int] :
            MembersAhead(left, q, k, Structure[t]) /\ left[1] = Structure[t]
<1> DEFINE reader == table[t]
           close == Operation0("endElement")
           n == Structure[t]
           k == Len(reader) + 1
           a == [i \in 1 .. Len(reader) |-> Taken(reader[i], n)]
<1>1. reader \in Seq(Op)
  BY ReaderAssumption, CheckedIsOp
<1>2. close \in Seq(Op) /\ Len(close) = 1 /\ close[1].op = "endElement"
  BY OperationsTyped, CheckedIsOp DEF Operation0, CheckedKinds
<1>3. ReadsMembers(reader, n)
  BY StructureAssumption
<1>4. q = reader \o close
  OBVIOUS
<1> HIDE DEF close, n, reader
<1>5. /\ Len(reader) \in Nat /\ Len(q) = k /\ q[k] = close[1]
      /\ \A i \in 1 .. Len(reader) : q[i] = reader[i]
  <2>1. /\ Len(reader \o close) = Len(reader) + Len(close) /\ Len(reader) \in Nat
        /\ \A i \in 1 .. Len(close) : (reader \o close)[Len(reader) + i] = close[i]
        /\ \A i \in 1 .. Len(reader) : (reader \o close)[i] = reader[i]
    BY <1>1, <1>2, ConcatIndex
  <2>2. 1 \in 1 .. Len(close)
    BY <1>2
  <2>3. QED
    BY <1>2, <1>4, <2>1, <2>2
<1>6. k \in Nat \ {0} /\ k - 1 = Len(reader) /\ k \in 1 .. Len(q)
  BY <1>5
<1>7. \A i \in 1 .. k - 1 : a[i] = Taken(reader[i], n) /\ a[i] \in Int
  <2>1. ASSUME NEW i \in 1 .. Len(reader)
        PROVE  Taken(reader[i], n) \in Int
    BY <1>1 DEF Taken, Op, OpOf
  <2>2. QED
    BY <1>6, <2>1
<1>8. SumsTo(a, k)[1] = n /\ \A i \in 1 .. Len(reader) : reader[i].op \in MemberKinds
  BY <1>3 DEF ReadsMembers
<1> HIDE DEF a, k
<1>9. /\ SumsTo(a, k) \in [1 .. k -> Int] /\ SumsTo(a, k)[k] = 0
      /\ \A i \in 1 .. k - 1 : SumsTo(a, k)[i] = SumsTo(a, k)[i + 1] + a[i]
  BY <1>6, <1>7, SumsRecurrence
<1>10. MembersAhead(SumsTo(a, k), q, k, n)
  <2>1. q[k].op = "endElement"
    BY <1>2, <1>5 DEF k
  <2>2. ASSUME NEW i \in 1 .. k - 1
        PROVE  q[i].op \in MemberKinds /\ SumsTo(a, k)[i] = SumsTo(a, k)[i + 1] + Taken(q[i], n)
    <3>1. i \in 1 .. Len(reader)
      BY <1>6
    <3>2. q[i] = reader[i] /\ a[i] = Taken(reader[i], n) /\ reader[i].op \in MemberKinds
      BY <1>5, <1>7, <1>8, <3>1
    <3>3. SumsTo(a, k)[i] = SumsTo(a, k)[i + 1] + a[i]
      BY <1>9
    <3>4. QED
      BY <3>2, <3>3
  <2>3. QED
    BY <1>9, <2>1, <2>2 DEF MembersAhead
<1>11. QED
  BY <1>6, <1>8, <1>9, <1>10 DEF n

\* One member is read.
LEMMA MembersTail ==
  ASSUME NEW q \in Seq(Op), NEW k \in 1 .. Len(q), k > 1, NEW left \in [1 .. k -> Int],
         NEW n, MembersAhead(left, q, k, n)
  PROVE  /\ Head(q).op \in MemberKinds
         /\ left[1] = left[2] + Taken(Head(q), n) /\ left[2] \in Int
         /\ \E j \in 1 .. Len(Tail(q)) : \E rest \in [1 .. j -> Int] :
               MembersAhead(rest, Tail(q), j, n) /\ rest[1] = left[2]
<1>1. q # <<>> /\ Len(q) \in Nat
  OBVIOUS
<1>2. Len(Tail(q)) = Len(q) - 1 /\ \A i \in 1 .. Len(q) - 1 : Tail(q)[i] = q[i + 1]
  BY <1>1, TailIndex
<1>3. 1 \in 1 .. k - 1 /\ q[1] = Head(q)
  BY <1>1, TailIndex
<1> DEFINE j == k - 1
           rest == [i \in 1 .. j |-> left[i + 1]]
<1>4. j \in 1 .. Len(Tail(q)) /\ rest \in [1 .. j -> Int] /\ rest[1] = left[2]
  BY <1>1, <1>2
<1>5. j = k - 1 /\ \A i \in 1 .. j : rest[i] = left[i + 1]
  OBVIOUS
<1> HIDE DEF j, rest
<1>6. Tail(q)[j] = q[k] /\ rest[j] = left[k]
  BY <1>1, <1>2, <1>4, <1>5
<1>7. ASSUME NEW i \in 1 .. j - 1
      PROVE  Tail(q)[i].op \in MemberKinds /\ rest[i] = rest[i + 1] + Taken(Tail(q)[i], n)
  <2>1. Tail(q)[i] = q[i + 1] /\ i + 1 \in 1 .. k - 1
    BY <1>1, <1>2, <1>5
  <2>2. rest[i] = left[i + 1] /\ rest[i + 1] = left[i + 1 + 1]
    BY <1>5
  <2>3. QED
    BY <2>1, <2>2 DEF MembersAhead
<1>8. MembersAhead(rest, Tail(q), j, n)
  BY <1>6, <1>7 DEF MembersAhead
<1>9. Head(q).op \in MemberKinds /\ left[1] = left[2] + Taken(Head(q), n)
  <2>1. q[1].op \in MemberKinds /\ left[1] = left[1 + 1] + Taken(q[1], n)
    BY <1>3 DEF MembersAhead
  <2>2. QED
    BY <1>3, <2>1
<1>10. left[2] \in Int
  OBVIOUS
<1>11. QED
  BY <1>4, <1>8, <1>9, <1>10

\* Going on in a record of fixed size.
LEMMA MembersRead ==
  ASSUME Shape, pc = "reading", pc' = "reading", [Next]_vars, ~UNCHANGED vars, eStart' # 0,
         UNCHANGED <<eStart, eLength>>,
         NEW k \in 1 .. Len(todo), NEW left \in [1 .. k -> Int],
         MembersAhead(left, todo, k, eLength), datap + left[1] = eStart + eLength
  PROVE  \E j \in 1 .. Len(todo') : \E rest \in [1 .. j -> Int] :
            MembersAhead(rest, todo', j, eLength') /\ datap' + rest[1] = eStart' + eLength'
<1>1. /\ todo \in Seq(Op) /\ todo # <<>> /\ datap \in Nat /\ eStart \in Nat
      /\ eLength \in Nat
  BY ConstantsTyped DEF Shape, TypeOK
<1>a. \A outcome : ~Finish(outcome)
  BY DEF Finish
<1>b. ~Halt
  BY DEF Halt
<1>2. k > 1
  <2>1. SUFFICES ASSUME k = 1 PROVE FALSE
    OBVIOUS
  <2>2. Head(todo).op = "endElement"
    BY <1>1, <2>1, TailIndex DEF MembersAhead
  <2>3. EndElement
    BY <1>1, <2>2, OperationDone
  <2>4. QED
    BY <1>a, <2>3 DEF EndElement
<1>3. /\ Head(todo).op \in MemberKinds
      /\ left[1] = left[2] + Taken(Head(todo), eLength) /\ left[2] \in Int
      /\ \E j \in 1 .. Len(Tail(todo)) : \E rest \in [1 .. j -> Int] :
            MembersAhead(rest, Tail(todo), j, eLength) /\ rest[1] = left[2]
  BY <1>1, <1>2, MembersTail
<1>4. Arg \in Nat
  BY <1>1, HeadFields DEF Arg
<1>5. todo' = Tail(todo) /\ datap' = datap + Taken(Head(todo), eLength)
  <2>1. CASE Head(todo).op = "fixed"
    <3>1. ReadFixed
      BY <1>1, <2>1, OperationDone
    <3>2. QED
      BY <1>a, <2>1, <3>1 DEF ReadFixed, Move, MoveTo, Taken, Arg
  <2>2. CASE Head(todo).op = "lookup"
    <3>1. LookUp
      BY <1>1, <2>2, OperationDone
    <3>2. QED
      BY <1>1, <1>a, <1>b, <2>2, <3>1 DEF LookUp, Move, MoveTo, Taken
  <2>3. CASE Head(todo).op = "longOnly"
    <3>1. ReadLongOnly
      BY <1>1, <2>3, OperationDone
    <3>2. QED
      BY <1>1, <1>a, <2>3, <3>1 DEF ReadLongOnly, Move, MoveTo, Taken, Arg
  <2>4. QED
    BY <1>3, <2>1, <2>2, <2>3 DEF MemberKinds
<1>6. datap' + left[2] = eStart' + eLength'
  <2>1. Taken(Head(todo), eLength) \in Int
    BY <1>1, <1>4 DEF Taken, Arg
  <2>2. QED
    BY <1>1, <1>3, <1>5, <2>1
<1>7. QED
  BY <1>3, <1>5, <1>6

\* Every step keeps the members left and the record's rest equal.
LEMMA MembersStep ==
  ASSUME Shape, Members, [TaggedNext]_<<vars, tag>>
  PROVE  Members'
<1>1. CASE UNCHANGED <<vars, tag>>
  BY <1>1 DEF vars, datagramVars, sampleVars, elementVars, Members, AsLongAsStructure
<1>2. CASE TaggedNext
  <2> SUFFICES ASSUME AsLongAsStructure'
               PROVE  /\ pc' = "reading"
                      /\ \E k \in 1 .. Len(todo') : \E left \in [1 .. k -> Int] :
                            /\ MembersAhead(left, todo', k, eLength')
                            /\ datap' + left[1] = eStart' + eLength'
    BY DEF Members
  <2>1. Next /\ TagStep
    BY <1>2 DEF TaggedNext
  <2>2. tag' \in DOMAIN Structure /\ eLength' = Structure[tag']
    BY DEF AsLongAsStructure
  <2>3. eStart' # 0
    BY <2>1, <2>2, StructureAssumption DEF TagStep
  <2>4. CASE UNCHANGED <<eStart, eLength>>
    <3>1. AsLongAsStructure
      BY <2>1, <2>2, <2>3, <2>4 DEF TagStep, AsLongAsStructure
    <3>2. pc = "reading"
      BY <3>1 DEF Members
    <3>3. PICK k \in 1 .. Len(todo) : \E left \in [1 .. k -> Int] :
            MembersAhead(left, todo, k, eLength) /\ datap + left[1] = eStart + eLength
      BY <3>1 DEF Members
    <3>4. PICK left \in [1 .. k -> Int] :
            MembersAhead(left, todo, k, eLength) /\ datap + left[1] = eStart + eLength
      BY <3>3
    <3>5. CASE UNCHANGED vars
      BY <3>2, <3>4, <3>5 DEF vars, elementVars
    <3>6. CASE ~UNCHANGED vars
      <4>1. todo # <<>>
        BY DEF Shape, TypeOK
      <4>2. ~(Abandoned \/ Stopped)
        BY <2>3 DEF Abandoned, Stopped, Finish, Halt, Forget
      <4>3. ~(Began \/ EndedSample \/ EndDatagram \/ ReceiveDatagram \/ RejectDatagram)
        BY <3>2, <4>1 DEF Began, EndedSample, EndDatagram, ReceiveDatagram, RejectDatagram
      <4>4. pc' = "reading"
        BY <2>1, <3>6, <4>2, <4>3, StepKinds DEF InSample
      <4>5. QED
        BY <2>1, <2>3, <2>4, <3>2, <3>4, <3>6, <4>4, MembersRead
    <3>7. QED
      BY <3>5, <3>6
  <2>5. CASE BeginElement
    <3>1. /\ pc' = "reading" /\ kind \in {"flow", "counters"}
          /\ datap' = datap + 8 /\ eStart' = datap + 8
      BY <2>3, <2>5 DEF BeginElement, Finish, Forget
    <3>2. datap \in Nat /\ eStart \in Nat /\ eStart <= datap
      BY DEF Shape, TypeOK
    <3>3. eStart' # eStart
      BY <3>1, <3>2
    <3>4. PICK table \in {FlowReader, CounterReader} : tag' \in TagsOf(table, todo')
      BY <2>1, <2>2, <2>3, <3>3, StructureAssumption DEF TagStep
    <3>5. tag' \in DOMAIN table /\ todo' = table[tag'] \o Operation0("endElement")
      BY <3>4 DEF TagsOf
    <3>6. PICK k \in 1 .. Len(todo') : \E left \in [1 .. k -> Int] :
            MembersAhead(left, todo', k, Structure[tag']) /\ left[1] = Structure[tag']
      BY <2>2, <3>5, MembersChosen
    <3>7. PICK left \in [1 .. k -> Int] :
            MembersAhead(left, todo', k, Structure[tag']) /\ left[1] = Structure[tag']
      BY <3>6
    <3>8. datap' + left[1] = eStart' + eLength'
      BY <2>2, <3>1, <3>7
    <3>9. QED
      BY <2>2, <3>1, <3>7, <3>8
  <2>6. QED
    BY <2>1, <2>3, <2>4, <2>5, ElementKept
<1>3. QED
  BY <1>1, <1>2

\* The reader of a record as long as its structure takes all of it and nothing
\* behind it, whatever the sizes of the structures, as long as the tables of the
\* readers name their members.
THEOREM StructureCorrect == TaggedSpec => []StructureConsumed
<1>1. TaggedSpec => Spec
  <2>1. TaggedInit => Init
    BY DEF TaggedInit
  <2>2. [TaggedNext]_<<vars, tag>> => [Next]_vars
    BY DEF TaggedNext
  <2>3. QED
    BY <2>1, <2>2, PTL DEF TaggedSpec, Spec
<1>2. TaggedInit => Members
  BY StructureAssumption DEF TaggedInit, Members, AsLongAsStructure
<1>3. TaggedSpec => []Members
  BY <1>1, <1>2, MembersStep, ShapeCorrect, PTL DEF TaggedSpec
<1>4. Shape /\ Members => StructureConsumed
  <2> SUFFICES ASSUME Shape, Members, tag \in DOMAIN Structure, Running("endElement"),
                      eLength = Structure[tag]
               PROVE  datap = eStart + eLength
    BY DEF StructureConsumed, ConsumedAs
  <2>1. PICK k \in 1 .. Len(todo) : \E left \in [1 .. k -> Int] :
          MembersAhead(left, todo, k, eLength) /\ datap + left[1] = eStart + eLength
    BY DEF Members, AsLongAsStructure
  <2>2. PICK left \in [1 .. k -> Int] :
          MembersAhead(left, todo, k, eLength) /\ datap + left[1] = eStart + eLength
    BY <2>1
  <2>3. todo \in Seq(Op) /\ todo # <<>> /\ Head(todo).op = "endElement"
    BY DEF Shape, TypeOK, Running
  <2>4. todo[1].op \notin MemberKinds
    BY <2>3, TailIndex DEF MemberKinds
  <2>5. k = 1
    <3>1. 1 \in 1 .. k - 1 => todo[1].op \in MemberKinds
      BY <2>2 DEF MembersAhead
    <3>2. QED
      BY <2>4, <3>1
  <2>6. left[1] = 0
    BY <2>2, <2>5 DEF MembersAhead
  <2>7. datap \in Nat /\ eStart \in Nat /\ eLength \in Nat
    BY ConstantsTyped DEF Shape, TypeOK
  <2>8. QED
    BY <2>2, <2>6, <2>7
<1>5. QED
  BY <1>1, <1>3, <1>4, ShapeCorrect, PTL

=============================================================================
