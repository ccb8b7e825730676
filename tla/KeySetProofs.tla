---------------------------- MODULE KeySetProofs ----------------------------
(***************************************************************************)
(* Theorems about KeySet, for all files of keys with any names, of any     *)
(* length, in any order and for both programs.                             *)
(***************************************************************************)
EXTENDS KeySet, TLAPS

\* What a key of a set is after set_key.
LEMMA SetKeyType ==
  ASSUME NEW set \in [Rows -> Keys \cup {Zero}], NEW id, NEW value
  PROVE  SetKey(set, id, value) \in [Rows -> Keys \cup {Zero}]
BY DEF SetKey

\* What a title key is after TitlekeySet::set_key.
LEMMA SetTitleType ==
  ASSUME NEW map \in [Rights -> Keys \cup {Noise, Missing}], NEW name, NEW value
  PROVE  SetTitle(map, name, value) \in [Rights -> Keys \cup {Noise, Missing}]
BY DEF SetTitle

\* A line after the others is the last of them, and they keep their places.
LEMMA AppendOp ==
  ASSUME NEW S, NEW s \in Seq(S), NEW l \in S
  PROVE  /\ Append(s, l) \in Seq(S)
         /\ Len(s) \in Nat
         /\ Len(Append(s, l)) = Len(s) + 1
         /\ \A i \in 1 .. Len(s) : Append(s, l)[i] = s[i]
         /\ Append(s, l)[Len(s) + 1] = l
OBVIOUS

\* No name that is tested begins another one.
LEMMA SinglesApart ==
  ASSUME NEW i \in 1 .. 6, NEW j \in 1 .. 6, Same(Singles[i], Singles[j])
  PROVE  i = j
<1>1. /\ Len(Singles[1]) = 2 /\ Len(Singles[2]) = 2 /\ Len(Singles[3]) = 2
      /\ Len(Singles[4]) = 2 /\ Len(Singles[5]) = 2 /\ Len(Singles[6]) = 1
  BY DEF Singles
<1>2. /\ Singles[1][1] = "aes_k" /\ Singles[2][1] = "aes_k" /\ Singles[3][1] = "key_area_key_"
      /\ Singles[4][1] = "key_area_key_" /\ Singles[5][1] = "key_area_key_"
      /\ Singles[6][1] = "header_key"
  BY DEF Singles
<1>3. /\ Singles[1][2] = "ek_generation_source" /\ Singles[2][2] = "ey_generation_source"
      /\ Singles[3][2] = "application_source" /\ Singles[4][2] = "ocean_source"
      /\ Singles[5][2] = "system_source"
  BY DEF Singles
<1>4. Singles[i][1] = Singles[j][1]
  BY <1>1 DEF Same
<1>5. i # 6 => Singles[i][2] = Singles[j][2]
  BY <1>1 DEF Same
<1> QED
  BY <1>1, <1>2, <1>3, <1>4, <1>5

\* The first syllable of a name that is tested is no prefix of generations.
LEMMA SingleHeads ==
  ASSUME NEW i \in 1 .. 6
  PROVE  /\ Singles[i] # <<>> /\ Len(Singles[i]) \in 1 .. 2
         /\ Singles[i][1] \notin {"master_key_", "titlekek_"}
<1>1. CASE i = 1 BY <1>1 DEF Singles
<1>2. CASE i = 2 BY <1>2 DEF Singles
<1>3. CASE i = 3 BY <1>3 DEF Singles
<1>4. CASE i = 4 BY <1>4 DEF Singles
<1>5. CASE i = 5 BY <1>5 DEF Singles
<1>6. CASE i = 6 BY <1>6 DEF Singles
<1> QED
  BY <1>1, <1>2, <1>3, <1>4, <1>5, <1>6

\* A name as long as one that is tested, and the same to its end, is that one.
LEMMA SingleWhole ==
  ASSUME NEW name \in Seq(STRING), NEW i \in 1 .. 6,
         Same(name, Singles[i]), Len(name) = Len(Singles[i])
  PROVE  name = Singles[i]
<1>1. ASSUME Len(name) = 2 PROVE name = <<name[1], name[2]>>
  BY <1>1
<1>2. ASSUME Len(name) = 1 PROVE name = <<name[1]>>
  BY <1>2
<1>3. \A j \in 1 .. Len(name) : name[j] = Singles[i][j]
  BY DEF Same
<1>4. CASE i = 1 BY <1>1, <1>3, <1>4 DEF Singles
<1>5. CASE i = 2 BY <1>1, <1>3, <1>5 DEF Singles
<1>6. CASE i = 3 BY <1>1, <1>3, <1>6 DEF Singles
<1>7. CASE i = 4 BY <1>1, <1>3, <1>7 DEF Singles
<1>8. CASE i = 5 BY <1>1, <1>3, <1>8 DEF Singles
<1>9. CASE i = 6 BY <1>2, <1>3, <1>9 DEF Singles
<1> QED
  BY <1>4, <1>5, <1>6, <1>7, <1>8, <1>9

LEMMA SingleRowsIn ==
  ASSUME NEW i \in 1 .. 6
  PROVE  SingleRows(i) \subseteq Rows
BY KeySetAssumption DEF SingleRows, Rows

LEMMA LeastSingle ==
  ASSUME NEW S \in SUBSET (1 .. 6), S # {}
  PROVE  \E k \in S : \A j \in S : k <= j
<1>1. CASE 1 \in S BY <1>1
<1>2. CASE 1 \notin S /\ 2 \in S BY <1>2
<1>3. CASE 1 \notin S /\ 2 \notin S /\ 3 \in S BY <1>3
<1>4. CASE 1 \notin S /\ 2 \notin S /\ 3 \notin S /\ 4 \in S BY <1>4
<1>5. CASE 1 \notin S /\ 2 \notin S /\ 3 \notin S /\ 4 \notin S /\ 5 \in S BY <1>5
<1>6. CASE 1 \notin S /\ 2 \notin S /\ 3 \notin S /\ 4 \notin S /\ 5 \notin S
  <2>1. ASSUME NEW j \in S PROVE j = 6
    <3>1. j \in 1 .. 6 /\ j # 1 /\ j # 2 /\ j # 3 /\ j # 4 /\ j # 5
      BY <1>6
    <3> QED
      BY <3>1
  <2>2. PICK k \in S : TRUE
    OBVIOUS
  <2> QED
    BY <2>1, <2>2
<1> QED
  BY <1>1, <1>2, <1>3, <1>4, <1>5, <1>6

\* The tests for a generation look at the first syllable and the digits.
LEMMA GenerationOp ==
  ASSUME NEW name \in Seq(STRING), NEW prefix
  PROVE  IsGeneration(prefix, name) <=>
           name # <<>> /\ name[1] = prefix /\ \A i \in 2 .. Len(name) : IsDigit(name[i])
<1>1. /\ <<prefix>> # <<>> /\ Len(<<prefix>>) = 1 /\ <<prefix>>[1] = prefix
      /\ Len(name) \in Nat /\ (name # <<>> <=> Len(name) >= 1)
  OBVIOUS
<1>2. Same(<<prefix>>, name) <=> name # <<>> /\ name[1] = prefix
  <2>1. \A i \in 1 .. Len(<<prefix>>) : i = 1
    BY <1>1
  <2>2. 1 \in 1 .. Len(<<prefix>>)
    BY <1>1
  <2> QED
    BY <1>1, <2>1, <2>2 DEF Same
<1> QED
  BY <1>2 DEF IsGeneration

\* The number of two digits is a number.
LEMMA NumberType ==
  ASSUME NEW s1, NEW s2, IsDigit(s1), IsDigit(s2)
  PROVE  Number(s1, s2) \in Nat
<1>1. ASSUME NEW s, IsDigit(s) PROVE DigitValue(s) \in Nat
  BY <1>1 DEF IsDigit, DigitValue
<1>2. Len(Digits) \in Nat
  BY KeySetAssumption
<1> QED
  BY <1>1, <1>2 DEF Number

\* A name that means a key sets its rows and no others, whatever other names are
\* compared with it, and neither throws nor leaves its array.
LEMMA MeantIsSet ==
  ASSUME NEW name \in Seq(STRING), NEW r \in Rows, Means(name, r)
  PROVE  /\ r \in RowsSet(name) /\ RowsSet(name) \subseteq Rows
         /\ ~Throws(name) /\ ~Overruns(name)
<1>1. ASSUME NEW i \in 1 .. 6, name = Singles[i], r \in SingleRows(i)
      PROVE  /\ r \in RowsSet(name) /\ RowsSet(name) \subseteq Rows
             /\ ~Throws(name) /\ ~Overruns(name)
  <2>1. Same(name, Singles[i])
    BY <1>1, SingleHeads DEF Same
  <2>2. SingleNamed(name) = {i}
    BY <1>1, <2>1, SinglesApart DEF SingleNamed
  <2>3. (CHOOSE k \in SingleNamed(name) : \A j \in SingleNamed(name) : k <= j) = i
    BY <2>2
  <2> QED
    BY <1>1, <2>2, <2>3, SingleRowsIn DEF RowsSet, Throws, Overruns, Generational
<1>2. ASSUME ~\E i \in 1 .. 6 : name = Singles[i] /\ r \in SingleRows(i)
      PROVE  /\ r \in RowsSet(name) /\ RowsSet(name) \subseteq Rows
             /\ ~Throws(name) /\ ~Overruns(name)
  <2>1. /\ Len(name) = 3 /\ IsDigit(name[2]) /\ IsDigit(name[3])
        /\ Number(name[2], name[3]) < Generations
        /\ \/ name[1] = "master_key_" /\ r = Number(name[2], name[3]) + 1
           \/ name[1] = "titlekek_" /\ r = Generations + Number(name[2], name[3]) + 1
    BY <1>2 DEF Means
  <2>2. SingleNamed(name) = {}
    <3>1. ASSUME NEW i \in 1 .. 6, Same(name, Singles[i]) PROVE FALSE
      BY <2>1, <3>1, SingleHeads DEF Same
    <3> QED
      BY <3>1 DEF SingleNamed
  <2>3. name # <<>> /\ \A i \in 2 .. Len(name) : IsDigit(name[i])
    BY <2>1
  <2>4. RowsSet(name) = {r}
    <3>1. CASE name[1] = "master_key_"
      BY <2>1, <2>2, <2>3, <3>1, GenerationOp DEF RowsSet
    <3>2. CASE name[1] = "titlekek_"
      <4>1. ~IsGeneration("master_key_", name)
        BY <3>2, GenerationOp
      <4> QED
        BY <2>1, <2>2, <2>3, <3>2, <4>1, GenerationOp DEF RowsSet
    <3> QED
      BY <2>1, <3>1, <3>2
  <2> QED
    BY <2>1, <2>4, NumberType, KeySetAssumption DEF Throws, Overruns
<1> QED
  BY <1>1, <1>2

\* A name that throws or leaves its array is one nobody can read.
LEMMA EndsUnreadable ==
  ASSUME NEW name \in Seq(STRING), Throws(name) \/ Overruns(name)
  PROVE  Unreadable(name)
<1>1. IsGeneration("master_key_", name) \/ IsGeneration("titlekek_", name)
  BY DEF Throws, Overruns, Generational
<1>2. Numbered(name)
  BY <1>1, GenerationOp DEF Numbered
<1> QED
  BY <1>2 DEF Throws, Overruns, Unreadable

\* What a name sets is the key it means, or it strays; or it is outside the set,
\* which only a number no generation has is.
LEMMA SetIsMeant ==
  ASSUME NEW l \in Line, Understood(l), ~Throws(l.name), NEW r \in RowsSet(l.name)
  PROVE  /\ Means(l.name, r) \/ Strays(l, r)
         /\ r \in Rows \/ Overruns(l.name)
<1> DEFINE name == l.name
<1>1. name \in Seq(STRING)
  BY DEF Line
<1>2. CASE SingleNamed(name) # {}
  <2> DEFINE i == CHOOSE k \in SingleNamed(name) : \A j \in SingleNamed(name) : k <= j
  <2>1. \E k \in SingleNamed(name) : \A j \in SingleNamed(name) : k <= j
    BY <1>2, LeastSingle DEF SingleNamed
  <2>2. i \in 1 .. 6 /\ Same(name, Singles[i])
    BY <2>1 DEF SingleNamed
  <2>3. r \in SingleRows(i)
    BY <1>2 DEF RowsSet
  <2> HIDE DEF i
  <2>4. r \in Rows
    BY <2>2, <2>3, SingleRowsIn
  <2>5. CASE Len(name) = Len(Singles[i])
    <3>1. name = Singles[i]
      BY <1>1, <2>2, <2>5, SingleWhole
    <3> QED
      BY <2>2, <2>3, <2>4, <3>1 DEF Means
  <2>6. CASE Len(name) # Len(Singles[i])
    <3>1. Begins(name, Singles[i])
      BY <1>1, <2>2, <2>6, SingleHeads DEF Same, Begins
    <3> QED
      BY <2>2, <2>3, <2>4, <3>1 DEF Strays
  <2> QED
    BY <2>5, <2>6
<1>3. CASE SingleNamed(name) = {}
  <2>1. /\ Generational(name)
        /\ \/ IsGeneration("master_key_", name) /\ r = Number(name[2], name[3]) + 1
           \/ /\ IsGeneration("titlekek_", name)
              /\ r = Generations + Number(name[2], name[3]) + 1
    BY <1>3 DEF RowsSet, Generational
  <2>2. Len(name) \in Nat /\ Len(name) >= 3
    BY <1>1, <2>1 DEF Throws
  <2>3. name # <<>> /\ \A i \in 2 .. Len(name) : IsDigit(name[i])
    BY <1>1, <2>1, GenerationOp
  <2>4. IsDigit(name[2]) /\ IsDigit(name[3])
    BY <2>2, <2>3
  <2>5. Number(name[2], name[3]) \in Nat
    BY <2>4, NumberType
  <2>6. /\ name[1] \in {"master_key_", "titlekek_"}
        /\ r = Number(name[2], name[3]) + 1 + (IF name[1] = "titlekek_" THEN Generations ELSE 0)
    <3>1. CASE IsGeneration("master_key_", name) /\ r = Number(name[2], name[3]) + 1
      <4>1. name[1] = "master_key_"
        BY <1>1, <3>1, GenerationOp
      <4> QED
        BY <2>5, <3>1, <4>1
    <3>2. CASE IsGeneration("titlekek_", name) /\ r = Generations + Number(name[2], name[3]) + 1
      <4>1. Generations \in Nat
        BY KeySetAssumption
      <4>2. name[1] = "titlekek_"
        BY <1>1, <3>2, GenerationOp
      <4> QED
        BY <2>5, <3>2, <4>1, <4>2
    <3> QED
      BY <2>1, <3>1, <3>2
  <2>7. Numbered(name)
    BY <2>3, <2>6 DEF Numbered
  <2>8. CASE Len(name) = 3 /\ Number(name[2], name[3]) < Generations
    <3>1. Means(name, r)
      BY <2>4, <2>5, <2>6, <2>8, KeySetAssumption DEF Means
    <3>2. r \in Rows
      BY <2>5, <2>6, <2>8, KeySetAssumption DEF Rows
    <3> QED
      BY <3>1, <3>2
  <2>9. CASE Len(name) > 3 \/ Number(name[2], name[3]) >= Generations
    <3>1. Strays(l, r)
      BY <2>2, <2>6, <2>7, <2>9 DEF Strays
    <3>2. CASE Number(name[2], name[3]) < Generations
      <4>1. r \in Rows
        BY <2>5, <2>6, <3>2, KeySetAssumption DEF Rows
      <4> QED
        BY <3>1, <4>1
    <3>3. CASE ~(Number(name[2], name[3]) < Generations)
      <4>1. Number(name[2], name[3]) >= Generations
        BY <2>5, <3>3, KeySetAssumption
      <4>2. Overruns(name)
        BY <2>1, <2>2, <4>1 DEF Overruns
      <4> QED
        BY <3>1, <4>2
    <3> QED
      BY <3>2, <3>3
  <2>10. \/ Len(name) = 3 /\ Number(name[2], name[3]) < Generations
         \/ Len(name) > 3 \/ Number(name[2], name[3]) >= Generations
    <3>1. Generations \in Nat
      BY KeySetAssumption
    <3>2. \A k, m, n \in Nat : k >= 3 => (k = 3 /\ m < n) \/ k > 3 \/ m >= n
      OBVIOUS
    <3> QED
      BY <2>2, <2>5, <3>1, <3>2
  <2> QED
    BY <2>8, <2>9, <2>10
<1> QED
  BY <1>2, <1>3

\* What set_key is called with: the line itself when it can be read, and no key
\* when not.
LEMMA ReadOp ==
  ASSUME TypeOK, NEW l \in Line
  PROVE  /\ Read(l).value \in Keys <=> Understood(l)
         /\ Understood(l) => Read(l).id = l.name /\ Read(l).value = l.value
<1>1. Text \notin Keys /\ l.form \in Forms
  BY KeySetAssumption DEF Line
<1>2. CASE host = "cli"
  BY <1>1, <1>2 DEF Read, ReadLine, Understood
<1>3. CASE host = "python"
  BY <1>1, <1>3 DEF Read, Matches, Understood
<1> QED
  BY <1>2, <1>3 DEF TypeOK

\* A line of either program sets each key its name means to what it gives; the
\* keys it changes besides are those it strays to.
LEMMA LineEffect ==
  ASSUME TypeOK, NEW l \in Lines, ConsoleLine(l), NEW r \in Rows
  PROVE  /\ Gives(l, r) => rows'[r] = l.value
         /\ rows'[r] # rows[r] => rows'[r] = l.value /\ (Gives(l, r) \/ Strays(l, r))
<1>1. l \in Line /\ l.name \in Seq(STRING)
  BY KeySetAssumption DEF Line
<1>2. CASE ~Understood(l)
  <2>1. Read(l).value \notin Keys
    BY <1>1, <1>2, ReadOp
  <2>2. rows'[r] = rows[r]
    BY <2>1 DEF ConsoleLine, SetKey
  <2> QED
    BY <1>2, <2>2 DEF Gives
<1>3. CASE Understood(l)
  <2>1. Read(l).id = l.name /\ Read(l).value = l.value /\ l.value \in Keys
    BY <1>1, <1>3, ReadOp
  <2>2. CASE UNCHANGED rows /\ (Throws(l.name) \/ Overruns(l.name))
    BY <1>1, <2>2, MeantIsSet DEF Gives
  <2>3. CASE rows' = SetKey(rows, l.name, l.value) /\ ~Throws(l.name)
    <3>1. rows'[r] = IF r \in RowsSet(l.name) THEN l.value ELSE rows[r]
      BY <2>1, <2>3 DEF SetKey
    <3>2. Gives(l, r) => r \in RowsSet(l.name)
      BY <1>1, MeantIsSet DEF Gives
    <3>3. r \in RowsSet(l.name) => Gives(l, r) \/ Strays(l, r)
      BY <1>1, <1>3, <2>3, SetIsMeant DEF Gives
    <3> QED
      BY <3>1, <3>2, <3>3
  <2> QED
    BY <2>1, <2>2, <2>3 DEF ConsoleLine
<1> QED
  BY <1>2, <1>3

\* Only a number that cannot be read ends the program.
LEMMA LineEnds ==
  ASSUME TypeOK, NEW l \in Lines, ConsoleLine(l), ~Alive'
  PROVE  Understood(l) /\ Unreadable(l.name)
<1>1. l \in Line /\ l.name \in Seq(STRING)
  BY KeySetAssumption DEF Line
<1>2. /\ Read(l).value \in Keys
      /\ \/ Throws(Read(l).id) \/ Overruns(Read(l).id)
         \/ ~Throws(Read(l).id) /\ ~(RowsSet(Read(l).id) \subseteq Rows)
  BY DEF ConsoleLine, Alive
<1>3. Understood(l) /\ Read(l).id = l.name
  BY <1>1, <1>2, ReadOp
<1>4. CASE Throws(l.name) \/ Overruns(l.name)
  BY <1>1, <1>3, <1>4, EndsUnreadable
<1>5. CASE ~Throws(l.name) /\ ~(RowsSet(l.name) \subseteq Rows)
  <2>1. PICK r \in RowsSet(l.name) : r \notin Rows
    BY <1>5
  <2>2. Overruns(l.name)
    BY <1>1, <1>3, <1>5, <2>1, SetIsMeant
  <2> QED
    BY <1>1, <1>3, <2>2, EndsUnreadable
<1> QED
  BY <1>2, <1>3, <1>4, <1>5

-----------------------------------------------------------------------------
LEMMA TypeInit == Init => TypeOK
BY DEF Init, TypeOK

LEMMA TypeStep == TypeOK /\ [Next]_vars => TypeOK'
<1> SUFFICES ASSUME TypeOK, [Next]_vars
             PROVE  TypeOK'
  OBVIOUS
<1> USE DEF TypeOK
<1>1. ASSUME NEW l \in Lines, ConsoleLine(l) PROVE TypeOK'
  <2>1. rows' \in [Rows -> Keys \cup {Zero}]
    BY <1>1, SetKeyType DEF ConsoleLine
  <2>2. given' \in Seq(Lines)
    BY <1>1 DEF ConsoleLine
  <2> QED
    BY <1>1, <2>1, <2>2 DEF ConsoleLine
<1>2. ASSUME NEW l \in TitleLines, TitleLine(l) PROVE TypeOK'
  <2>1. titles' \in [Rights -> Keys \cup {Noise, Missing}]
    BY <1>2, SetTitleType DEF TitleLine
  <2>2. l \in Line
    BY KeySetAssumption
  <2>3. tgiven' \in Seq(Line)
    BY <1>2, <2>2 DEF TitleLine
  <2> QED
    BY <1>2, <2>1, <2>3 DEF TitleLine
<1>3. CASE FileRead \/ Option \/ InitKeys
  BY <1>3 DEF FileRead, Option, InitKeys
<1>4. ASSUME NEW id \in Rights, NEW key \in Keys, Ticket(id, key) PROVE TypeOK'
  <2>1. titles' \in [Rights -> Keys \cup {Noise, Missing}]
    BY <1>4, SetTitleType DEF Ticket
  <2>2. [form |-> "pair", name |-> <<id>>, value |-> key] \in Line
    BY KeySetAssumption DEF Line, Forms
  <2>3. tgiven' \in Seq(Line)
    BY <1>4, <2>2 DEF Ticket
  <2> QED
    BY <1>4, <2>1, <2>3 DEF Ticket
<1>5. ASSUME NEW key \in Keys \cup {Missing}, SetUser(key) PROVE TypeOK'
  BY <1>5 DEF SetUser
<1>6. CASE UNCHANGED vars
  BY <1>6 DEF vars
<1> QED
  BY <1>1, <1>2, <1>3, <1>4, <1>5, <1>6 DEF Next

\* Every variable keeps its type: no key is ever more than a key or a zero key
\* (keyset.cpp:53-84).
THEOREM TypeCorrect == Spec => []TypeOK
BY TypeInit, TypeStep, PTL DEF Spec

-----------------------------------------------------------------------------
\* What KeysFaithful says of one key, when the last line that gave it is the i-th.
FaithfulFrom(r, i) ==
  LET later == i + 1 .. Len(given)
  IN  /\ i > 0 => Gives(given[i], r)
      /\ \A j \in later : ~Gives(given[j], r)
      /\ \/ rows[r] = IF i = 0 THEN Zero ELSE given[i].value
         \/ \E j \in later : Strays(given[j], r) /\ rows[r] = given[j].value

KeyFaithful(r) == \E i \in 0 .. Len(given) : FaithfulFrom(r, i)

\* ... and of the end of the program.
EndFaithful ==
  ~Alive => given # <<>> /\ Understood(given[Len(given)]) /\ Unreadable(given[Len(given)].name)

LEMMA FaithfulIs == KeysFaithful <=> (\A r \in Rows : KeyFaithful(r)) /\ EndFaithful
BY DEF KeysFaithful, KeyFaithful, FaithfulFrom, EndFaithful

LEMMA KeysInit == Init => KeysFaithful
<1> SUFFICES ASSUME Init PROVE KeysFaithful
  OBVIOUS
<1>1. Len(given) = 0 /\ Alive
  BY DEF Init, Alive
<1>2. ASSUME NEW r \in Rows PROVE KeyFaithful(r)
  <2>1. rows[r] = Zero
    BY DEF Init
  <2>2. 0 \in 0 .. Len(given) /\ 0 + 1 .. Len(given) = {}
    BY <1>1
  <2> QED
    BY <2>1, <2>2 DEF KeyFaithful, FaithfulFrom
<1> QED
  BY <1>1, <1>2, FaithfulIs DEF EndFaithful

\* A line either takes the place of the line each key comes from, or leaves that
\* line the last one to give the key, and may stray to it.
LEMMA KeyStep ==
  ASSUME TypeOK, NEW r \in Rows, KeyFaithful(r), NEW l \in Lines, ConsoleLine(l)
  PROVE  KeyFaithful(r)'
<1>1. given' = Append(given, l) /\ host' = host /\ given \in Seq(Lines)
  BY DEF ConsoleLine, TypeOK
<1>2. /\ Len(given) \in Nat /\ Len(given') = Len(given) + 1
      /\ \A i \in 1 .. Len(given) : given'[i] = given[i]
      /\ given'[Len(given) + 1] = l
  BY <1>1, AppendOp
<1>3. \A k : (Gives(k, r)' <=> Gives(k, r)) /\ (Strays(k, r)' <=> Strays(k, r))
  BY <1>1 DEF Gives, Strays, Understood
<1>4. CASE Gives(l, r)
  <2>1. PICK n \in 0 .. Len(given') : n > 0 /\ n + 1 .. Len(given') = {} /\ given'[n] = l
    BY <1>2
  <2>2. rows'[r] = l.value
    BY <1>4, LineEffect
  <2>3. Gives(given[n], r)'
    BY <1>1, <1>4, <2>1 DEF Gives, Understood
  <2>4. FaithfulFrom(r, n)'
    BY <2>1, <2>2, <2>3 DEF FaithfulFrom
  <2> QED
    BY <2>4 DEF KeyFaithful
<1>5. CASE ~Gives(l, r)
  <2>1. PICK i \in 0 .. Len(given) : FaithfulFrom(r, i)
    BY DEF KeyFaithful
  <2>2. i \in 0 .. Len(given') /\ (i > 0 => given'[i] = given[i])
    BY <1>2
  <2>3. \A j \in i + 1 .. Len(given') : j = Len(given) + 1 \/ j \in i + 1 .. Len(given)
    BY <1>2
  <2>4. \A j \in i + 1 .. Len(given) : j \in i + 1 .. Len(given') /\ given'[j] = given[j]
    BY <1>2
  <2>5. Len(given) + 1 \in i + 1 .. Len(given')
    BY <1>2
  <2>6. i > 0 => Gives(given'[i], r)
    BY <2>1, <2>2 DEF FaithfulFrom
  <2>7. \A j \in i + 1 .. Len(given') : ~Gives(given'[j], r)
    BY <1>2, <1>5, <2>1, <2>3, <2>4 DEF FaithfulFrom
  <2>8. \/ rows'[r] = IF i = 0 THEN Zero ELSE given'[i].value
        \/ \E j \in i + 1 .. Len(given') : Strays(given'[j], r) /\ rows'[r] = given'[j].value
    <3>1. CASE rows'[r] = rows[r] /\ rows[r] = IF i = 0 THEN Zero ELSE given[i].value
      BY <2>2, <3>1
    <3>2. CASE /\ rows'[r] = rows[r]
               /\ \E j \in i + 1 .. Len(given) : Strays(given[j], r) /\ rows[r] = given[j].value
      BY <2>4, <3>2
    <3>3. CASE rows'[r] # rows[r]
      <4>1. rows'[r] = l.value /\ Strays(l, r)
        BY <1>5, <3>3, LineEffect
      <4> QED
        BY <1>2, <2>5, <4>1
    <3> QED
      BY <2>1, <3>1, <3>2, <3>3 DEF FaithfulFrom
  <2>9. FaithfulFrom(r, i)'
    BY <1>3, <2>6, <2>7, <2>8 DEF FaithfulFrom
  <2> QED
    BY <2>2, <2>9 DEF KeyFaithful
<1> QED
  BY <1>4, <1>5

LEMMA KeysStep == TypeOK /\ KeysFaithful /\ [Next]_vars => KeysFaithful'
<1> SUFFICES ASSUME TypeOK, KeysFaithful, [Next]_vars
             PROVE  KeysFaithful'
  OBVIOUS
<1>1. (\A r \in Rows : KeyFaithful(r)) /\ EndFaithful
  BY FaithfulIs
<1>2. ASSUME NEW l \in Lines, ConsoleLine(l) PROVE KeysFaithful'
  <2>1. \A r \in Rows : KeyFaithful(r)'
    BY <1>1, <1>2, KeyStep
  <2>2. EndFaithful'
    <3>1. given' = Append(given, l) /\ host' = host /\ given \in Seq(Lines)
      BY <1>2 DEF ConsoleLine, TypeOK
    <3>2. given' # <<>> /\ given'[Len(given')] = l
      BY <3>1
    <3>3. ~Alive' => Understood(l) /\ Unreadable(l.name)
      BY <1>2, LineEnds
    <3> QED
      BY <3>1, <3>2, <3>3 DEF EndFaithful, Understood
  <2> QED
    BY <2>1, <2>2 DEF KeysFaithful, KeyFaithful, FaithfulFrom, EndFaithful
<1>3. CASE UNCHANGED <<host, rows, given>> /\ (~Alive' => ~Alive)
  <2>1. \A r \in Rows : KeyFaithful(r)'
    BY <1>1, <1>3 DEF KeyFaithful, FaithfulFrom, Gives, Strays, Understood
  <2>2. EndFaithful'
    BY <1>1, <1>3 DEF EndFaithful, Understood
  <2> QED
    BY <2>1, <2>2 DEF KeysFaithful, KeyFaithful, FaithfulFrom, EndFaithful
<1>4. ASSUME NEW l \in TitleLines, TitleLine(l) PROVE UNCHANGED <<host, rows, given>> /\ (~Alive' => ~Alive)
  BY <1>4 DEF TitleLine, Alive
<1>5. FileRead \/ Option \/ InitKeys => UNCHANGED <<host, rows, given>> /\ (~Alive' => ~Alive)
  BY DEF FileRead, Option, InitKeys, Alive
<1>6. ASSUME NEW id \in Rights, NEW key \in Keys, Ticket(id, key)
      PROVE  UNCHANGED <<host, rows, given>> /\ (~Alive' => ~Alive)
  BY <1>6 DEF Ticket, Alive
<1>7. ASSUME NEW key \in Keys \cup {Missing}, SetUser(key)
      PROVE  UNCHANGED <<host, rows, given>> /\ (~Alive' => ~Alive)
  BY <1>7 DEF SetUser, Alive
<1>8. UNCHANGED vars => UNCHANGED <<host, rows, given>> /\ (~Alive' => ~Alive)
  BY DEF vars, Alive
<1> QED
  BY <1>2, <1>3, <1>4, <1>5, <1>6, <1>7, <1>8 DEF Next

\* Each console key is the last one the lines gave for its whole name, unless a
\* later line strays to it in one of three ways, and only a number that cannot be
\* read ends the program: for lines with any names (keyset.cpp:27-32 and 53-84,
\* keys.cpp:64-79, hac.py:462-484).
THEOREM KeysAreFaithful == Spec => []KeysFaithful
<1>1. Init => TypeOK /\ KeysFaithful
  BY TypeInit, KeysInit
<1>2. TypeOK /\ KeysFaithful /\ [Next]_vars => TypeOK' /\ KeysFaithful'
  BY TypeStep, KeysStep
<1> QED
  BY <1>1, <1>2, PTL DEF Spec

-----------------------------------------------------------------------------
\* TitleRight, of one id and while the user has set no key: the map goes on
\* being kept when the user has set one.
TitleKept(id) ==
  \/ titles[id] = Missing /\ \A i \in 1 .. Len(tgiven) : ~Sets(tgiven[i], id)
  \/ \E i \in 1 .. Len(tgiven) :
       /\ Sets(tgiven[i], id)
       /\ Understood(tgiven[i]) => titles[id] = tgiven[i].value
       /\ \A j \in i + 1 .. Len(tgiven) : ~Sets(tgiven[j], id)

TitlesKept == \A id \in Rights : TitleKept(id)

\* A line a program takes for the key of an id sets it, to the key if there is
\* one, and no other line does.
LEMMA TitleEffect ==
  ASSUME TypeOK, NEW l \in TitleLines, TitleLine(l), NEW id \in Rights
  PROVE  IF Sets(l, id) THEN Understood(l) => titles'[id] = l.value
                        ELSE titles'[id] = titles[id]
<1>1. l \in Line /\ Text \notin Keys /\ id # "tab"
  BY KeySetAssumption
<1>2. CASE host = "cli"
  <2>1. titles' = SetTitle(titles, ReadLine(l).id, ReadLine(l).value)
    BY <1>2 DEF TitleLine, Read
  <2>2. titles'[id] = IF ReadLine(l).id # <<>> /\ ReadLine(l).id[1] = id
                      THEN (IF ReadLine(l).value \in Keys THEN ReadLine(l).value ELSE Noise)
                      ELSE titles[id]
    BY <2>1 DEF SetTitle
  <2>3. (ReadLine(l).id # <<>> /\ ReadLine(l).id[1] = id) <=> Sets(l, id)
    <3>1. l.name \in Seq(STRING)
      BY <1>1 DEF Line
    <3>2. ReadLine(l).id = IF l.form = "tabs" THEN Append(l.name, "tab") ELSE l.name
      BY DEF ReadLine
    <3>3. CASE l.name = <<>>
      BY <1>1, <3>2, <3>3 DEF Sets
    <3>4. CASE l.name # <<>>
      <4>1. Append(l.name, "tab")[1] = l.name[1] /\ Append(l.name, "tab") # <<>>
        BY <3>1, <3>4
      <4> QED
        BY <1>2, <3>2, <3>4, <4>1 DEF Sets
    <3> QED
      BY <3>3, <3>4
  <2>4. Understood(l) => ReadLine(l).value = l.value /\ l.value \in Keys
    BY <1>2 DEF Understood, ReadLine
  <2> QED
    BY <2>2, <2>3, <2>4
<1>3. CASE host = "python"
  <2>1. titles' = IF Matches(l) THEN SetTitle(titles, l.name, l.value) ELSE titles
    BY <1>3 DEF TitleLine, Read
  <2>2. Matches(l) <=> Understood(l)
    BY <1>3 DEF Matches, Understood
  <2>3. Understood(l) => l.value \in Keys
    BY DEF Understood
  <2> QED
    BY <1>3, <2>1, <2>2, <2>3 DEF SetTitle, Sets
<1> QED
  BY <1>2, <1>3 DEF TypeOK

\* The history grows by one line, and the line has this effect on the map.
LEMMA TitleGrows ==
  ASSUME NEW l \in Line, NEW id \in Rights, TypeOK, TitleKept(id),
         tgiven' = Append(tgiven, l), host' = host,
         IF Sets(l, id) THEN Understood(l) => titles'[id] = l.value
                        ELSE titles'[id] = titles[id]
  PROVE  TitleKept(id)'
<1>1. tgiven \in Seq(Line)
  BY DEF TypeOK
<1>2. /\ Len(tgiven) \in Nat /\ Len(tgiven') = Len(tgiven) + 1
      /\ \A i \in 1 .. Len(tgiven) : tgiven'[i] = tgiven[i]
      /\ tgiven'[Len(tgiven) + 1] = l
  BY <1>1, AppendOp
<1>3. \A k : (Sets(k, id)' <=> Sets(k, id)) /\ (Understood(k)' <=> Understood(k))
  BY DEF Sets, Understood
<1>4. CASE Sets(l, id)
  <2>1. /\ Len(tgiven') \in 1 .. Len(tgiven')
        /\ Understood(l) => titles'[id] = l.value
        /\ tgiven'[Len(tgiven')] = l
    BY <1>2, <1>4
  <2>2. Sets(tgiven[Len(tgiven)], id)'
    BY <1>2, <1>3, <1>4
  <2>3. Understood(tgiven[Len(tgiven)])' => titles'[id] = tgiven'[Len(tgiven')].value
    BY <1>2, <1>3, <2>1
  <2>4. \A j \in Len(tgiven') + 1 .. Len(tgiven') : FALSE
    BY <1>2
  <2> QED
    BY <2>1, <2>2, <2>3, <2>4 DEF TitleKept
<1>5. CASE ~Sets(l, id) /\ titles[id] = Missing /\ \A i \in 1 .. Len(tgiven) : ~Sets(tgiven[i], id)
  <2>1. \A i \in 1 .. Len(tgiven) + 1 : ~Sets(tgiven'[i], id)
    BY <1>2, <1>5
  <2> QED
    BY <1>2, <1>3, <1>5, <2>1 DEF TitleKept
<1>6. ASSUME ~Sets(l, id), NEW i \in 1 .. Len(tgiven), Sets(tgiven[i], id),
             Understood(tgiven[i]) => titles[id] = tgiven[i].value,
             \A j \in i + 1 .. Len(tgiven) : ~Sets(tgiven[j], id)
      PROVE  TitleKept(id)'
  <2>1. i \in 1 .. Len(tgiven) + 1 /\ tgiven'[i] = tgiven[i]
    BY <1>2
  <2>2. \A j \in i + 1 .. Len(tgiven) + 1 : ~Sets(tgiven'[j], id)
    BY <1>2, <1>6
  <2> QED
    BY <1>2, <1>3, <1>6, <2>1, <2>2 DEF TitleKept
<1> QED
  BY <1>4, <1>5, <1>6 DEF TitleKept

LEMMA TitlesInit == Init => TitlesKept
<1> SUFFICES ASSUME Init, NEW id \in Rights PROVE TitleKept(id)
  BY DEF TitlesKept
<1> QED
  BY DEF Init, TitleKept

LEMMA TitlesStep == TypeOK /\ TitlesKept /\ [Next]_vars => TitlesKept'
<1> SUFFICES ASSUME TypeOK, TitlesKept, [Next]_vars, NEW id \in Rights
             PROVE  TitleKept(id)'
  BY DEF TitlesKept
<1>1. TitleKept(id)
  BY DEF TitlesKept
<1>2. ASSUME NEW l \in TitleLines, TitleLine(l) PROVE TitleKept(id)'
  <2>1. l \in Line
    BY KeySetAssumption
  <2>2. tgiven' = Append(tgiven, l) /\ host' = host
    BY <1>2 DEF TitleLine
  <2>3. IF Sets(l, id) THEN Understood(l) => titles'[id] = l.value
                       ELSE titles'[id] = titles[id]
    BY <1>2, TitleEffect
  <2> QED
    BY <1>1, <2>1, <2>2, <2>3, TitleGrows
<1>3. ASSUME NEW rid \in Rights, NEW key \in Keys, Ticket(rid, key) PROVE TitleKept(id)'
  <2> DEFINE l == [form |-> "pair", name |-> <<rid>>, value |-> key]
  <2>1. l \in Line
    <3>1. rid \in STRING /\ key \in Keys \cup {Text} /\ "pair" \in Forms
      BY KeySetAssumption DEF Forms
    <3> QED
      BY <3>1 DEF Line
  <2>2. tgiven' = Append(tgiven, l) /\ host' = host
    BY <1>3 DEF Ticket
  <2>3. Sets(l, id) <=> rid = id
    BY DEF Sets, Understood
  <2>4. titles'[id] = IF rid = id THEN key ELSE titles[id]
    BY <1>3 DEF Ticket, SetTitle
  <2>5. IF Sets(l, id) THEN Understood(l) => titles'[id] = l.value
                       ELSE titles'[id] = titles[id]
    BY <2>3, <2>4
  <2> HIDE DEF l
  <2> QED
    BY <1>1, <2>1, <2>2, <2>5, TitleGrows
<1>4. CASE UNCHANGED <<host, titles, tgiven>>
  BY <1>1, <1>4 DEF TitleKept, Sets, Understood
<1>5. ASSUME NEW l \in Lines, ConsoleLine(l) PROVE UNCHANGED <<host, titles, tgiven>>
  BY <1>5 DEF ConsoleLine
<1>6. FileRead \/ Option \/ InitKeys => UNCHANGED <<host, titles, tgiven>>
  BY DEF FileRead, Option, InitKeys
<1>7. ASSUME NEW key \in Keys \cup {Missing}, SetUser(key) PROVE UNCHANGED <<host, titles, tgiven>>
  BY <1>7 DEF SetUser
<1>8. UNCHANGED vars => UNCHANGED <<host, titles, tgiven>>
  BY DEF vars
<1> QED
  BY <1>2, <1>3, <1>4, <1>5, <1>6, <1>7, <1>8 DEF Next

\* An archive gets the key of the user while there is one, else the last key any
\* file, ticket or call gave for its rights id (keyset.hpp:85-89,
\* keyset.cpp:102-108).
THEOREM TitlesAreRight == Spec => []TitleRight
<1>1. Init => TypeOK /\ TitlesKept
  BY TypeInit, TitlesInit
<1>2. TypeOK /\ TitlesKept /\ [Next]_vars => TypeOK' /\ TitlesKept'
  BY TypeStep, TitlesStep
<1>3. TitlesKept => TitleRight
  BY DEF TitlesKept, TitleKept, TitleRight, GetTitle
<1> QED
  BY <1>1, <1>2, <1>3, PTL DEF Spec
=============================================================================
