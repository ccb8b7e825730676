----------------------------- MODULE NcaProofs -----------------------------
(***************************************************************************)
(* Theorems about Nca, for any threads, files, keys and header sizes: the  *)
(* header of a call that no other thread disturbed comes out whole, and    *)
(* what a handler or a Python program then makes of it is the archive's    *)
(* list of sections.                                                       *)
(***************************************************************************)
EXTENDS Nca, FiniteSetTheorems, SequenceTheorems, TLAPS

Calls == [op : {"match", "new"}, file : Files \cup {None}, at : Nat, right : SUBSET Nat]

\* The types the argument needs, and that a call in progress has a file.
Shape ==
  /\ python \in BOOLEAN
  /\ inited \in BOOLEAN
  /\ cipher \in [key : BOOLEAN, sector : Nat, iv : Nat \cup {NoTweak}]
  /\ pc \in [Threads -> PCs]
  /\ call \in [Threads -> Calls]
  /\ alone \in [Threads -> BOOLEAN]
  /\ \A t \in Threads : pc[t] \in Inside \cup {"decrypted"} => call[t].file \in Files

\* The interpreter's lock is held for a whole call.
OneCall ==
  python => \A t, u \in Threads : pc[t] # "idle" /\ pc[u] # "idle" => t = u

\* The thread has seen the cipher made.
Keyed(t) == pc[t] \in {"flag", "tweak", "decrypt", "advance", "reset", "decrypted"}

\* In a mount the cipher is made with the same key each time.
KeyStays ==
  ~python => /\ inited => cipher.key = ("header" \in console)
             /\ \A t \in Threads : Keyed(t) => cipher.key = ("header" \in console)

Fresh ==
  \A t \in Threads :
    pc[t] \in {"enter", "construct", "flag"} => call[t].at = 0 /\ call[t].right = {}

\* The cipher, and the sectors that came out well, at each step of a call.
Step(t) ==
  LET f == call[t].file
      k == call[t].at
      number == SectorNumber(f, k)
      known == k > 1 => Image[f].magic # "other"
  IN  /\ pc[t] = "flag" => cipher.sector = 0
      /\ pc[t] \in {"tweak", "decrypt"} =>
           k \in Sectors /\ known /\ cipher.sector = number /\ call[t].right = 0 .. k - 1
      /\ pc[t] = "decrypt" => cipher.iv = number
      /\ pc[t] = "advance" =>
           k \in Sectors /\ known /\ cipher.sector = number /\ call[t].right = 0 .. k
      /\ pc[t] = "reset" =>
           k \in 2 .. MaxSections + 1 /\ Image[f].magic = "NCA2" /\ call[t].right = 0 .. k - 1
      /\ pc[t] = "decrypted" => call[t].right = Whole(f)

InStep == \A t \in Threads : alone[t] /\ cipher.key => Step(t)

HeaderInv == Shape /\ OneCall /\ KeyStays /\ Fresh /\ InStep

-----------------------------------------------------------------------------
LEMMA HeaderInit == Init => HeaderInv
<1> SUFFICES ASSUME Init
             PROVE  HeaderInv
  OBVIOUS
<1>1. Idle \in Calls
  BY DEF Idle, Calls
<1>2. cipher \in [key : BOOLEAN, sector : Nat, iv : Nat \cup {NoTweak}]
  BY DEF Init
<1>3. Shape
  BY <1>1, <1>2 DEF Init, Shape, PCs, Inside
<1>4. OneCall /\ KeyStays /\ Fresh /\ InStep
  BY DEF Init, OneCall, KeyStays, Keyed, Fresh, InStep
<1> QED
  BY <1>3, <1>4 DEF HeaderInv

\* The steps, by what they do to the calls that are in progress: nothing, or
\* the end of one.
Quiet ==
  /\ UNCHANGED <<python, inited, cipher, pc, call, alone>>
  /\ console' # console => python /\ \A t \in Threads : pc[t] = "idle"

Lists(t) ==
  /\ pc[t] \in {"parse", "list"}
  /\ \E s \in {"idle", "list"} : pc' = [pc EXCEPT ![t] = s]
  /\ UNCHANGED <<python, console, inited, cipher, call, alone>>

LEMMA NextKinds ==
  ASSUME [Next]_vars
  PROVE  \/ \E t \in Threads : \E op \in {"match", "new"}, f \in Files :
              (op = "new" => python) /\ Begin(t, op, f)
         \/ \E t \in Threads : Decrypting(t) \/ Matched(t) \/ Constructed(t) \/ Lists(t)
         \/ Quiet
<1>1. CASE \E t \in Threads : Parse(t) \/ ReadFiles(t)
  BY <1>1 DEF Parse, ReadFiles, Goto, Lists, keys
<1>2. CASE \E t \in Threads : PyParse(t) \/ PySections(t)
  BY <1>2 DEF PyParse, PySections, Quiet, keys
<1>3. CASE \E key \in {"header", "area"} : SetKey(key)
  BY <1>3 DEF SetKey, KeysLoaded, Quiet
<1>4. CASE \E id \in Rights : SetTitlekey(id)
  BY <1>4 DEF SetTitlekey, KeysLoaded, Quiet
<1>5. CASE \E id \in UserKeys \cup {None} : SetUserTitlekey(id)
  BY <1>5 DEF SetUserTitlekey, KeysLoaded, Quiet
<1>6. CASE UNCHANGED vars
  BY <1>6 DEF vars, keys, Quiet
<1> QED
  BY <1>1, <1>2, <1>3, <1>4, <1>5, <1>6 DEF Next, InCall

-----------------------------------------------------------------------------
LEMMA AfterOp ==
  ASSUME NEW magic, NEW k
  PROVE  After(magic, k) \in {"tweak", "reset", "decrypted"}
BY DEF After

\* What the steps on the cipher leave of the types.
LEMMA CallType ==
  ASSUME Shape, NEW t \in Threads, NEW sectors \in SUBSET Nat, NEW k \in Nat,
         call' \in {call, [call EXCEPT ![t].right = sectors], [call EXCEPT ![t].at = k]}
  PROVE  /\ call' \in [Threads -> Calls]
         /\ \A u \in Threads : call'[u].file = call[u].file /\ call'[u].op = call[u].op
         /\ \A u \in Threads : u # t => call'[u] = call[u]
<1>1. call \in [Threads -> Calls] /\ call[t] \in Calls
  BY DEF Shape
<1>2. CASE call' = [call EXCEPT ![t].right = sectors]
  <2> DEFINE new == [call[t] EXCEPT !.right = sectors]
  <2>1. call' = [call EXCEPT ![t] = new]
    BY <1>2
  <2>2. new \in Calls /\ new.file = call[t].file /\ new.op = call[t].op
    BY <1>1 DEF Calls
  <2> HIDE DEF new
  <2> QED
    BY <1>1, <2>1, <2>2
<1>3. CASE call' = [call EXCEPT ![t].at = k]
  <2> DEFINE new == [call[t] EXCEPT !.at = k]
  <2>1. call' = [call EXCEPT ![t] = new]
    BY <1>3
  <2>2. new \in Calls /\ new.file = call[t].file /\ new.op = call[t].op
    BY <1>1 DEF Calls
  <2> HIDE DEF new
  <2> QED
    BY <1>1, <2>1, <2>2
<1> QED
  BY <1>1, <1>2, <1>3

LEMMA CipherType ==
  ASSUME Shape, NEW n \in Nat,
         \/ cipher' = cipher
         \/ cipher' = [cipher EXCEPT !.sector = n]
         \/ cipher' = [cipher EXCEPT !.sector = n, !.iv = n]
         \/ cipher' = [key |-> "header" \in console, sector |-> n, iv |-> NoTweak]
  PROVE  cipher' \in [key : BOOLEAN, sector : Nat, iv : Nat \cup {NoTweak}]
<1> cipher \in [key : BOOLEAN, sector : Nat, iv : Nat \cup {NoTweak}]
  BY DEF Shape
<1>1. CASE cipher' \in {cipher, [cipher EXCEPT !.sector = n], [cipher EXCEPT !.sector = n, !.iv = n]}
  BY <1>1
<1>2. CASE cipher' = [key |-> "header" \in console, sector |-> n, iv |-> NoTweak]
  BY <1>2
<1> QED
  BY <1>1, <1>2

LEMMA Moves ==
  ASSUME Shape, NEW t \in Threads, Decrypting(t)
  PROVE  /\ python' = python /\ console' = console
         /\ pc[t] \in Inside
         /\ pc' \in [Threads -> PCs]
         /\ \A u \in Threads : u # t => pc'[u] = pc[u]
         /\ alone' = [u \in Threads |-> alone[u] /\ (u = t \/ pc[u] \notin Inside)]
<1>1. OnCipher(t)
  BY DEF Decrypting, Enter, Construct, Flag, Tweak, DecryptSector, Advance, ResetSector
<1>2. PICK from \in Inside, to \in PCs : Goto(t, from, to)
  <2>1. CASE Enter(t)
    BY <2>1 DEF Enter, PCs, Inside
  <2>2. CASE Construct(t) \/ Flag(t) \/ Tweak(t) \/ DecryptSector(t) \/ ResetSector(t)
    BY <2>2 DEF Construct, Flag, Tweak, DecryptSector, ResetSector, PCs, Inside
  <2>3. CASE Advance(t)
    BY <2>3, AfterOp DEF Advance, PCs, Inside
  <2> QED
    BY <2>1, <2>2, <2>3 DEF Decrypting
<1> QED
  BY <1>1, <1>2 DEF Goto, OnCipher, keys, Shape

LEMMA MoveTypes ==
  ASSUME Shape, NEW t \in Threads, Decrypting(t)
  PROVE  /\ cipher' \in [key : BOOLEAN, sector : Nat, iv : Nat \cup {NoTweak}]
         /\ inited' \in BOOLEAN
         /\ call' \in [Threads -> Calls]
         /\ \A u \in Threads : call'[u].file = call[u].file
         /\ \A u \in Threads : u # t => call'[u] = call[u]
<1>1. /\ cipher.sector \in Nat /\ cipher.sector + 1 \in Nat /\ 0 \in Nat
      /\ call[t].at \in Nat /\ call[t].at + 1 \in Nat /\ call[t].right \subseteq Nat
  BY DEF Shape, Calls
<1>2. cipher' \in [key : BOOLEAN, sector : Nat, iv : Nat \cup {NoTweak}] /\ inited' \in BOOLEAN
  <2>1. CASE Enter(t)
    BY <1>1, <2>1, CipherType DEF Enter, SetSector, Shape
  <2>2. CASE Construct(t)
    BY <1>1, <2>2, CipherType DEF Construct, Shape
  <2>3. CASE Flag(t) \/ DecryptSector(t)
    BY <2>3 DEF Flag, DecryptSector, Shape
  <2>4. CASE Tweak(t)
    BY <1>1, <2>4, CipherType DEF Tweak, SetSector, Shape
  <2>5. CASE Advance(t)
    BY <1>1, <2>5, CipherType DEF Advance, Shape
  <2>6. CASE ResetSector(t)
    BY <1>1, <2>6, CipherType DEF ResetSector, SetSector, Shape
  <2> QED
    BY <2>1, <2>2, <2>3, <2>4, <2>5, <2>6 DEF Decrypting
<1>3. \E sectors \in SUBSET Nat, k \in Nat :
        call' \in {call, [call EXCEPT ![t].right = sectors], [call EXCEPT ![t].at = k]}
  <2>1. CASE UNCHANGED call
    BY <1>1, <2>1
  <2>2. CASE DecryptSector(t)
    <3> DEFINE sectors == call[t].right \cup
                 {k \in {call[t].at} : cipher.key /\ cipher.iv = SectorNumber(call[t].file, k)}
    <3>1. call' = [call EXCEPT ![t].right = sectors]
      BY <2>2 DEF DecryptSector
    <3>2. sectors \in SUBSET Nat
      BY <1>1
    <3> HIDE DEF sectors
    <3> QED
      BY <1>1, <3>1, <3>2
  <2>3. CASE Advance(t)
    BY <1>1, <2>3 DEF Advance
  <2> QED
    BY <2>1, <2>2, <2>3 DEF Decrypting, Enter, Construct, Flag, Tweak, ResetSector
<1> QED
  BY <1>2, <1>3, CallType

LEMMA ShapeStep ==
  ASSUME Shape, [Next]_vars
  PROVE  Shape'
<1> USE DEF Shape
<1>1. ASSUME NEW t \in Threads, NEW op \in {"match", "new"}, NEW f \in Files, Begin(t, op, f)
      PROVE  Shape'
  <2>1. [op |-> op, file |-> f, at |-> 0, right |-> {}] \in Calls
    BY DEF Calls
  <2> QED
    BY <1>1, <2>1 DEF Begin, Goto, PCs, Inside
<1>2. ASSUME NEW t \in Threads, Decrypting(t)
      PROVE  Shape'
  BY <1>2, Moves, MoveTypes, ZenonT(30)
<1>3. ASSUME NEW t \in Threads, Matched(t)
      PROVE  Shape'
  <2>1. call[t].file \in Files /\ Idle \in Calls
    BY <1>3 DEF Calls, Idle, Matched, Goto
  <2> DEFINE again == [op |-> "new", file |-> call[t].file, at |-> 0, right |-> {}]
  <2>2. again \in Calls /\ again.file = call[t].file
    BY <2>1 DEF Calls
  <2>3. /\ python' = python /\ inited' = inited /\ cipher' = cipher /\ alone' = alone
        /\ \/ Goto(t, "decrypted", "enter") /\ call' = [call EXCEPT ![t] = again]
           \/ Goto(t, "decrypted", "idle") /\ call' = [call EXCEPT ![t] = Idle]
    BY <1>3 DEF Matched
  <2> HIDE DEF again
  <2> QED
    BY <2>1, <2>2, <2>3 DEF Goto, PCs, Inside
<1>4. ASSUME NEW t \in Threads, Constructed(t)
      PROVE  Shape'
  BY <1>4 DEF Constructed, Goto, Idle, Calls, PCs, Inside
<1>5. ASSUME NEW t \in Threads, Lists(t)
      PROVE  Shape'
  BY <1>5 DEF Lists, PCs, Inside
<1>6. CASE Quiet
  BY <1>6 DEF Quiet
<1> QED
  BY <1>1, <1>2, <1>3, <1>4, <1>5, <1>6, NextKinds

\* A thread moves when it is in a call already, or nobody is in one.
LEMMA OneCallStep ==
  ASSUME Shape, OneCall, [Next]_vars
  PROVE  OneCall'
<1> USE DEF Shape, OneCall
<1>1. ASSUME NEW t \in Threads, NEW op \in {"match", "new"}, NEW f \in Files, Begin(t, op, f)
      PROVE  OneCall'
  BY <1>1 DEF Begin, Free, Goto
<1>2. ASSUME NEW t \in Threads, Decrypting(t) \/ Matched(t) \/ Constructed(t) \/ Lists(t)
      PROVE  OneCall'
  <2>1. /\ pc[t] # "idle"
        /\ \A u \in Threads : u # t => pc'[u] = pc[u]
        /\ python' = python
    BY <1>2 DEF Decrypting, Enter, Construct, Flag, Tweak, DecryptSector, Advance, ResetSector,
                Matched, Constructed, Lists, Goto, OnCipher
  <2> QED
    BY <2>1
<1>3. CASE Quiet
  BY <1>3 DEF Quiet
<1> QED
  BY <1>1, <1>2, <1>3, NextKinds

\* Only Construct gives the cipher a key, the one the console has.
LEMMA KeyStep ==
  ASSUME Shape, KeyStays, [Next]_vars
  PROVE  KeyStays'
<1> USE DEF Shape, KeyStays, Keyed
<1>1. ASSUME NEW t \in Threads, NEW op \in {"match", "new"}, NEW f \in Files, Begin(t, op, f)
      PROVE  KeyStays'
  BY <1>1 DEF Begin, Goto, keys
<1>2. ASSUME NEW t \in Threads, Construct(t)
      PROVE  KeyStays'
  BY <1>2 DEF Construct, Goto, OnCipher, keys
<1>3. ASSUME NEW t \in Threads, Decrypting(t), ~Construct(t)
      PROVE  KeyStays'
  <2>1. cipher'.key = cipher.key
    BY <1>3 DEF Decrypting, Enter, Flag, Tweak, DecryptSector, Advance, ResetSector, SetSector
  <2>2. inited' => inited \/ Keyed(t)
    BY <1>3 DEF Decrypting, Enter, Flag, Tweak, DecryptSector, Advance, ResetSector, Goto
  <2>3. Keyed(t)' => inited \/ Keyed(t)
    BY <1>3 DEF Decrypting, Enter, Flag, Tweak, DecryptSector, Advance, ResetSector, Goto
  <2> QED
    BY <1>3, <2>1, <2>2, <2>3, Moves
<1>4. ASSUME NEW t \in Threads, Matched(t) \/ Constructed(t) \/ Lists(t)
      PROVE  KeyStays'
  BY <1>4 DEF Matched, Constructed, Lists, Goto, keys
<1>5. CASE Quiet
  BY <1>5 DEF Quiet
<1> QED
  BY <1>1, <1>2, <1>3, <1>4, <1>5, NextKinds

LEMMA FreshStep ==
  ASSUME Shape, Fresh, [Next]_vars
  PROVE  Fresh'
<1> USE DEF Shape, Fresh
<1>1. ASSUME NEW t \in Threads, NEW op \in {"match", "new"}, NEW f \in Files, Begin(t, op, f)
      PROVE  Fresh'
  BY <1>1 DEF Begin, Goto
<1>2. ASSUME NEW t \in Threads, Enter(t) \/ Construct(t) \/ Flag(t) \/ Tweak(t) \/ ResetSector(t)
      PROVE  Fresh'
  BY <1>2 DEF Enter, Construct, Flag, Tweak, ResetSector, Goto
<1>3. ASSUME NEW t \in Threads, DecryptSector(t) \/ Advance(t)
      PROVE  Fresh'
  <2>1. /\ pc'[t] \notin {"enter", "construct", "flag"}
        /\ \A u \in Threads : u # t => pc'[u] = pc[u] /\ call'[u] = call[u]
    BY <1>3, AfterOp DEF DecryptSector, Advance, Goto
  <2> QED
    BY <2>1
<1>4. ASSUME NEW t \in Threads, Matched(t) \/ Constructed(t)
      PROVE  Fresh'
  BY <1>4 DEF Matched, Constructed, Goto
<1>5. ASSUME NEW t \in Threads, Lists(t)
      PROVE  Fresh'
  BY <1>5 DEF Lists
<1>6. CASE Quiet
  BY <1>6 DEF Quiet
<1> QED
  BY <1>1, <1>2, <1>3, <1>4, <1>5, <1>6, NextKinds DEF Decrypting

-----------------------------------------------------------------------------
\* A step that leaves a thread's call and the cipher alone, or moves the thread
\* where nothing is said of it, keeps what is known of it.
LEMMA Unmoved ==
  ASSUME InStep, NEW u \in Threads, cipher' = cipher, alone'[u] => alone[u],
         \/ pc'[u] = pc[u] /\ call'[u] = call[u]
         \/ pc'[u] \in {"idle", "enter", "construct", "parse", "list"}
  PROVE  alone'[u] /\ cipher'.key => Step(u)'
BY DEF InStep, Step, Whole

\* The cipher gets no key after a header has come through it.
LEMMA NoNewKey ==
  ASSUME HeaderInv, NEW t \in Threads, NEW u \in Threads, u # t,
         Decrypting(t), pc[u] = "decrypted", cipher'.key
  PROVE  cipher.key
<1>1. CASE Construct(t)
  <2>1. pc[t] = "construct" /\ cipher'.key = ("header" \in console)
    BY <1>1 DEF Construct, Goto
  <2>2. ~python
    BY <2>1 DEF HeaderInv, OneCall, Shape
  <2> QED
    BY <2>1, <2>2 DEF HeaderInv, KeyStays, Keyed
<1>2. CASE ~Construct(t)
  <2>1. cipher'.key = cipher.key
    BY <1>2 DEF Decrypting, Enter, Flag, Tweak, DecryptSector, Advance, ResetSector, SetSector,
                HeaderInv, Shape
  <2> QED
    BY <2>1
<1> QED
  BY <1>1, <1>2

\* A step of a thread on the cipher disturbs the others that are in a call, and
\* leaves a header that came out already as it is.
LEMMA OthersInStep ==
  ASSUME HeaderInv, NEW t \in Threads, NEW u \in Threads, u # t, Decrypting(t)
  PROVE  alone'[u] /\ cipher'.key => Step(u)'
<1> SUFFICES ASSUME alone'[u], cipher'.key
             PROVE  Step(u)'
  OBVIOUS
<1>1. /\ alone[u] /\ pc[u] \notin Inside
      /\ pc'[u] = pc[u] /\ call'[u] = call[u]
  BY Moves, MoveTypes DEF HeaderInv
<1>2. pc[u] = "decrypted" => Step(u)
  BY <1>1, NoNewKey DEF HeaderInv, InStep
<1> QED
  BY <1>1, <1>2 DEF Step, Inside, Whole

\* The files of a call, and the sectors it is at.
LEMMA FileOf ==
  ASSUME Shape, NEW t \in Threads, pc[t] \in Inside
  PROVE  /\ call[t].file \in Files /\ call[t].at \in Nat
         /\ Image[call[t].file].magic \in {"NCA2", "NCA3", "other"}
BY NcaAssumption DEF Shape, Calls, Magics

LEMMA EnterInStep ==
  ASSUME HeaderInv, NEW t \in Threads, Enter(t) \/ Construct(t) \/ Flag(t),
         alone'[t], cipher'.key
  PROVE  Step(t)'
<1>1. /\ pc[t] \in {"enter", "construct", "flag"} /\ alone[t]
      /\ call[t].at = 0 /\ call[t].right = {} /\ call' = call
      /\ pc'[t] \in {"construct", "flag", "tweak"}
  <2>1. Decrypting(t)
    BY DEF Decrypting
  <2> QED
    BY <2>1, Moves DEF Enter, Construct, Flag, Goto, HeaderInv, Shape, Fresh
<1>2. SectorNumber(call[t].file, 0) = 0 /\ 0 \in Sectors /\ {} = 0 .. 0 - 1
  BY NcaAssumption DEF SectorNumber, Sectors
<1>3. pc'[t] \in {"flag", "tweak"} => cipher'.sector = 0
  <2>1. CASE Enter(t)
    BY <2>1 DEF Enter, SetSector, Goto, HeaderInv, Shape
  <2>2. CASE Construct(t)
    BY <2>2 DEF Construct
  <2>3. CASE Flag(t)
    BY <1>1, <2>3 DEF Flag, Goto, HeaderInv, InStep, Step
  <2> QED
    BY <2>1, <2>2, <2>3
<1>4. call'[t].at = 0 /\ call'[t].right = 0 .. 0 - 1 /\ call'[t].file = call[t].file
  BY <1>1, <1>2
<1>5. CASE pc'[t] = "tweak"
  BY <1>2, <1>3, <1>4, <1>5 DEF Step
<1>6. CASE pc'[t] \in {"construct", "flag"}
  BY <1>3, <1>6 DEF Step
<1> QED
  BY <1>1, <1>5, <1>6

LEMMA TweakInStep ==
  ASSUME HeaderInv, NEW t \in Threads, Tweak(t), alone'[t], cipher'.key
  PROVE  Step(t)'
<1>1. /\ pc[t] = "tweak" /\ pc'[t] = "decrypt" /\ alone[t] /\ call' = call
      /\ cipher.key /\ cipher'.sector = cipher.sector /\ cipher'.iv = cipher.sector
  <2>1. Decrypting(t)
    BY DEF Decrypting
  <2> QED
    BY <2>1, Moves DEF Tweak, SetSector, Goto, HeaderInv, Shape
<1>2. Step(t)
  BY <1>1 DEF HeaderInv, InStep
<1> QED
  BY <1>1, <1>2 DEF Step

LEMMA DecryptInStep ==
  ASSUME HeaderInv, NEW t \in Threads, DecryptSector(t), alone'[t], cipher'.key
  PROVE  Step(t)'
<1> DEFINE f == call[t].file
           k == call[t].at
<1>1. /\ pc[t] = "decrypt" /\ pc'[t] = "advance" /\ alone[t] /\ cipher' = cipher
      /\ call'[t].at = k /\ call'[t].file = f
  <2>1. Decrypting(t)
    BY DEF Decrypting
  <2>2. /\ call \in [Threads -> Calls] /\ call[t] \in Calls
    BY DEF HeaderInv, Shape
  <2>3. call'[t].at = k
    BY <2>2 DEF DecryptSector, Calls
  <2> QED
    BY <2>1, <2>3, Moves, MoveTypes DEF DecryptSector, Goto, HeaderInv, Shape
<1>2. Step(t)
  BY <1>1 DEF HeaderInv, InStep
<1>3. /\ k \in Sectors /\ (k > 1 => Image[f].magic # "other")
      /\ cipher.sector = SectorNumber(f, k) /\ cipher.iv = SectorNumber(f, k)
      /\ call[t].right = 0 .. k - 1
  BY <1>1, <1>2 DEF Step
<1>4. call'[t].right = 0 .. k
  <2>1. {j \in {k} : cipher.key /\ cipher.iv = SectorNumber(f, j)} = {k}
    BY <1>1, <1>3
  <2>2. call'[t].right = call[t].right \cup {j \in {k} : cipher.key /\ cipher.iv = SectorNumber(f, j)}
    BY DEF DecryptSector, HeaderInv, Shape, Calls
  <2>3. k \in Nat /\ (0 .. k - 1) \cup {k} = 0 .. k
    BY <1>3, NcaAssumption DEF Sectors
  <2> QED
    BY <1>3, <2>1, <2>2, <2>3
<1> QED
  BY <1>1, <1>3, <1>4 DEF Step

\* Where the next sector of a header that came out well so far is.
LEMMA AdvanceInStep ==
  ASSUME HeaderInv, NEW t \in Threads, Advance(t), alone'[t], cipher'.key
  PROVE  Step(t)'
<1> DEFINE f == call[t].file
           k == call[t].at
<1>1. pc[t] = "advance" /\ alone[t] /\ cipher.key
  <2>1. Decrypting(t)
    BY DEF Decrypting
  <2> QED
    BY <2>1, Moves DEF Advance, Goto, HeaderInv, Shape
<1>2. Step(t)
  BY <1>1 DEF HeaderInv, InStep
<1>3. /\ k \in Sectors /\ (k > 1 => Image[f].magic # "other")
      /\ cipher.sector = SectorNumber(f, k) /\ call[t].right = 0 .. k
  BY <1>1, <1>2 DEF Step
<1>4. /\ call'[t].at = k + 1 /\ call'[t].file = f /\ call'[t].right = call[t].right
      /\ cipher'.sector = cipher.sector + 1
      /\ pc'[t] = After(Magic(f, call[t].right), k)
  BY DEF Advance, Goto, HeaderInv, Shape, Calls
<1>5. f \in Files /\ Image[f].magic \in {"NCA2", "NCA3", "other"} /\ MaxSections \in Nat \ {0}
  BY <1>1, FileOf, NcaAssumption DEF HeaderInv, Inside
<1>6. k \in 0 .. MaxSections + 1 /\ k + 1 - 1 = k
  BY <1>3, <1>5 DEF Sectors
<1>7. k >= 1 => Magic(f, call[t].right) = IF Image[f].magic = "other" THEN "noise" ELSE Image[f].magic
  BY <1>3, <1>6 DEF Magic, Readable
<1>8. CASE k = 0
  <2>1. pc'[t] = "tweak"
    BY <1>4, <1>5, <1>8 DEF After
  <2>2. SectorNumber(f, k) = 0 /\ SectorNumber(f, k + 1) = 1 /\ k + 1 \in Sectors
    BY <1>5, <1>8 DEF SectorNumber, Sectors
  <2> QED
    BY <1>3, <1>4, <1>6, <1>8, <2>1, <2>2 DEF Step
<1>9. CASE k = MaxSections + 1
  <2>1. pc'[t] = "decrypted"
    BY <1>4, <1>5, <1>9 DEF After
  <2>2. Whole(f) = 0 .. k
    BY <1>3, <1>5, <1>9 DEF Whole, Sectors
  <2> QED
    BY <1>3, <1>4, <2>1, <2>2 DEF Step, Whole
<1>10. CASE k \in 1 .. MaxSections /\ Image[f].magic = "NCA3"
  <2>1. pc'[t] = "tweak"
    BY <1>4, <1>5, <1>7, <1>10 DEF After
  <2>2. SectorNumber(f, k) = k /\ SectorNumber(f, k + 1) = k + 1 /\ k + 1 \in Sectors
    BY <1>5, <1>10 DEF SectorNumber, Sectors
  <2> QED
    BY <1>3, <1>4, <1>6, <1>10, <2>1, <2>2 DEF Step
<1>11. CASE k \in 1 .. MaxSections /\ Image[f].magic = "NCA2"
  <2>1. pc'[t] = "reset"
    BY <1>4, <1>5, <1>7, <1>11 DEF After
  <2>2. k + 1 \in 2 .. MaxSections + 1
    BY <1>5, <1>11
  <2> QED
    BY <1>3, <1>4, <1>6, <1>11, <2>1, <2>2 DEF Step
<1>12. CASE k \in 1 .. MaxSections /\ Image[f].magic = "other"
  <2>1. pc'[t] = "decrypted"
    BY <1>4, <1>5, <1>7, <1>12 DEF After
  <2>2. k = 1 /\ Whole(f) = 0 .. 1
    BY <1>3, <1>12 DEF Whole
  <2> QED
    BY <1>3, <1>4, <2>1, <2>2 DEF Step, Whole
<1> QED
  BY <1>5, <1>6, <1>8, <1>9, <1>10, <1>11, <1>12

LEMMA ResetInStep ==
  ASSUME HeaderInv, NEW t \in Threads, ResetSector(t), alone'[t], cipher'.key
  PROVE  Step(t)'
<1>1. /\ pc[t] = "reset" /\ pc'[t] = "tweak" /\ alone[t] /\ call' = call
      /\ cipher.key /\ cipher'.sector = 0
  <2>1. Decrypting(t)
    BY DEF Decrypting
  <2> QED
    BY <2>1, Moves DEF ResetSector, SetSector, Goto, HeaderInv, Shape
<1>2. Step(t)
  BY <1>1 DEF HeaderInv, InStep
<1>3. /\ call[t].at \in 2 .. MaxSections + 1 /\ Image[call[t].file].magic = "NCA2"
      /\ call[t].right = 0 .. call[t].at - 1
  BY <1>1, <1>2 DEF Step
<1>4. SectorNumber(call[t].file, call[t].at) = 0 /\ call[t].at \in Sectors
  BY <1>3, NcaAssumption DEF SectorNumber, Sectors
<1> QED
  BY <1>1, <1>3, <1>4 DEF Step

LEMMA InStepStep ==
  ASSUME HeaderInv, [Next]_vars
  PROVE  InStep'
<1>1. InStep /\ Shape
  BY DEF HeaderInv
<1>2. ASSUME NEW t \in Threads, NEW op \in {"match", "new"}, NEW f \in Files, Begin(t, op, f)
      PROVE  InStep'
  <2>1. ASSUME NEW u \in Threads, u # t
        PROVE  alone'[u] /\ cipher'.key => Step(u)'
    BY <1>1, <1>2, <2>1, Unmoved DEF Begin, Goto
  <2>2. pc'[t] = "enter"
    BY <1>1, <1>2 DEF Begin, Goto, Shape
  <2> QED
    BY <2>1, <2>2 DEF InStep, Step
<1>3. ASSUME NEW t \in Threads, Decrypting(t)
      PROVE  InStep'
  <2>1. alone'[t] /\ cipher'.key => Step(t)'
    BY <1>3, EnterInStep, TweakInStep, DecryptInStep, AdvanceInStep, ResetInStep DEF Decrypting
  <2> QED
    BY <1>3, <2>1, OthersInStep DEF InStep
<1>4. ASSUME NEW t \in Threads, Matched(t) \/ Constructed(t) \/ Lists(t)
      PROVE  InStep'
  <2>1. /\ cipher' = cipher /\ alone' = alone
        /\ pc'[t] \in {"idle", "enter", "parse", "list"}
        /\ \A u \in Threads : u # t => pc'[u] = pc[u] /\ call'[u] = call[u]
    BY <1>1, <1>4 DEF Matched, Constructed, Lists, Goto, Shape
  <2> QED
    BY <1>1, <2>1, Unmoved DEF InStep
<1>5. CASE Quiet
  BY <1>1, <1>5, Unmoved DEF Quiet, InStep
<1> QED
  BY <1>2, <1>3, <1>4, <1>5, NextKinds

LEMMA HeaderStep == HeaderInv /\ [Next]_vars => HeaderInv'
BY ShapeStep, OneCallStep, KeyStep, FreshStep, InStepStep DEF HeaderInv

LEMMA HeaderEnough == HeaderInv => HeaderRight
BY DEF HeaderInv, InStep, Step, HeaderRight

\* A header that was decrypted while no other thread used the cipher comes out
\* whole, for any number of threads and sections, after any races
\* (nca.cpp:82-103).
THEOREM HeadersAreRight == Spec => []HeaderRight
<1>1. Spec => []HeaderInv
  BY HeaderInit, HeaderStep, PTL DEF Spec
<1> QED
  BY <1>1, HeaderEnough, PTL

-----------------------------------------------------------------------------
(* What becomes of the header: the objects made, and the answers.           *)

InCalls == Inside \cup {"decrypted"}

\* A sector came out well only under a key, and the cipher keeps it.
KeyedOnly == \A t \in Threads : pc[t] \in InCalls /\ call[t].right # {} => cipher.key

\* The keys of a mount were read before; without a header key, no file is taken for
\* an NCA.
MountKeys ==
  ~python => \A t \in Threads : pc[t] \in InCalls /\ call[t].op = "new" =>
    "header" \in console /\ Image[call[t].file].magic \in Magics

\* A call of Python is never disturbed, and leaves listing to the program.
PythonCalls ==
  python => \A t \in Threads :
    /\ alone[t]
    /\ pc[t] \notin {"parse", "list"}
    /\ pc[t] # "idle" => answer[t] = NoAnswer

\* The thread has an object.
Has(t) == obj[t] # None \/ pc[t] \in {"parse", "list"}

IsNca(o) ==
  o = [file |-> o.file, right |-> o.right, num |-> o.num, depth |-> o.depth,
       sections |-> o.sections, parsed |-> o.parsed, again |-> o.again, list |-> o.list]

ObjectOK(t) ==
  LET o == obj[t]
  IN  Has(t) => /\ IsNca(o) /\ o.file \in Files
                /\ alone[t] => o.right \in {{}, Whole(o.file)}

\* A handler parses the object it made at once, and lists it.
MountObject(t) ==
  LET o == obj[t]
      new == NewNca(o.file, o.right)
  IN  /\ ~python => answer[t].is # "sections"
      /\ ~python /\ Has(t) =>
           /\ pc[t] \in {"parse", "list", "idle"}
           /\ "header" \in console /\ Image[o.file].magic \in Magics
           /\ alone[t] => o.right = Sectors
           /\ pc[t] = "parse" => o = new
           /\ pc[t] = "list" => o.num = new.num /\ o.sections = MadeSections(new)

\* What the handler told its caller: OpenRight of one thread.
MountAnswer(t) ==
  LET a == answer[t]
      o == obj[t]
  IN  ~python /\ alone[t] /\ o # None /\ pc[t] = "idle" =>
        /\ a.is \in {"listed", "failed", "undefined"}
        /\ a.is = "failed" => Image[o.file].rights # None /\ userKey = None
        /\ a.is = "undefined" => ~AllSupported(o.file)
        /\ a.is = "listed" =>
             /\ [k \in DOMAIN a.files |-> a.files[k].section.entry] =
                  InOrder({i \in Entries : Image[o.file].entries[i].enc # "Absent"})
             /\ \A k \in DOMAIN a.files :
                  LET key == a.files[k].section.key
                  IN  /\ key \in {"plain", "right", "other", "unloaded"}
                      /\ key = "other" => userKey # None
                      /\ key = "unloaded" => "area" \notin console

ListRight(o) ==
  /\ [k \in DOMAIN o.list |-> o.list[k].entry] = Supported(o.file, Sectors)
  /\ \A k \in DOMAIN o.list : o.list[k].key # "twice"

\* A program parses its object when it likes; until that succeeds the object is
\* as it was made.
PythonObject(t) ==
  LET o == obj[t]
  IN  python =>
        /\ o # None /\ ~o.parsed => o = NewNca(o.file, o.right)
        /\ o # None /\ o.parsed /\ ~o.again => ListRight(o)
        /\ answer[t].is = "sections" =>
             o.parsed /\ answer[t].files = o.list /\ (~o.again => ListRight(o))

ObjectInv ==
  /\ obj = [t \in Threads |-> obj[t]] /\ answer = [t \in Threads |-> answer[t]]
  /\ KeyedOnly /\ MountKeys /\ PythonCalls
  /\ \A t \in Threads : ObjectOK(t) /\ MountObject(t) /\ MountAnswer(t) /\ PythonObject(t)

LEMMA ObjectInit == Init => ObjectInv
<1> SUFFICES ASSUME Init
             PROVE  ObjectInv
  OBVIOUS
<1>1. /\ obj = [t \in Threads |-> obj[t]] /\ answer = [t \in Threads |-> answer[t]]
      /\ KeyedOnly /\ MountKeys /\ PythonCalls
  BY DEF Init, KeyedOnly, MountKeys, PythonCalls, InCalls, Inside
<1>2. ASSUME NEW t \in Threads
      PROVE  ObjectOK(t) /\ MountObject(t) /\ MountAnswer(t) /\ PythonObject(t)
  <2>1. obj[t] = None /\ pc[t] = "idle" /\ answer[t].is = "nothing" /\ ~Has(t)
    BY DEF Init, NoAnswer, Answer, Has
  <2> QED
    BY <2>1 DEF ObjectOK, MountObject, MountAnswer, PythonObject
<1> QED
  BY <1>1, <1>2 DEF ObjectInv

-----------------------------------------------------------------------------
(* The calls that are in progress.                                          *)

LEMMA KeyedOnlyStep ==
  ASSUME HeaderInv, ObjectInv, [Next]_vars
  PROVE  KeyedOnly'
<1> USE DEF KeyedOnly, InCalls
<1>a. Shape /\ KeyedOnly
  BY DEF HeaderInv, ObjectInv
<1>1. ASSUME NEW t \in Threads, NEW op \in {"match", "new"}, NEW f \in Files, Begin(t, op, f)
      PROVE  KeyedOnly'
  BY <1>1, <1>a DEF Begin, Goto, Shape, Inside
<1>2. ASSUME NEW t \in Threads, Construct(t)
      PROVE  KeyedOnly'
  <2>1. /\ pc[t] = "construct" /\ call' = call /\ cipher'.key = ("header" \in console)
        /\ pc' = [pc EXCEPT ![t] = "flag"]
    BY <1>2 DEF Construct, Goto
  <2>2. ASSUME NEW u \in Threads, pc'[u] \in InCalls, call'[u].right # {}
        PROVE  cipher'.key
    <3>1. u # t /\ pc[u] \in InCalls /\ Keyed(u) /\ cipher.key
      BY <1>a, <2>1, <2>2 DEF Keyed, HeaderInv, Fresh, Inside, Shape
    <3>2. ~python
      BY <2>1, <3>1 DEF HeaderInv, OneCall, Inside
    <3> QED
      BY <2>1, <3>1, <3>2 DEF HeaderInv, KeyStays
  <2> QED
    BY <2>2
<1>3. ASSUME NEW t \in Threads, Decrypting(t), ~Construct(t)
      PROVE  KeyedOnly'
  <2>1. cipher'.key = cipher.key
    BY <1>a, <1>3 DEF Shape, Decrypting, Enter, Flag, Tweak, DecryptSector, Advance, ResetSector, SetSector
  <2>2. \A u \in Threads : u # t => pc'[u] = pc[u] /\ call'[u] = call[u]
    BY <1>a, <1>3, Moves, MoveTypes
  <2>3. call'[t].right # {} => call[t].right # {} \/ cipher.key
    <3>1. CASE DecryptSector(t)
      <4> DEFINE new == {k \in {call[t].at} : cipher.key /\ cipher.iv = SectorNumber(call[t].file, k)}
      <4>1. call'[t].right = call[t].right \cup new
        BY <1>a, <3>1 DEF DecryptSector, Shape, Calls
      <4>2. new # {} => cipher.key
        OBVIOUS
      <4> HIDE DEF new
      <4> QED
        BY <4>1, <4>2
    <3>2. CASE Advance(t)
      BY <1>a, <3>2 DEF Advance, Shape, Calls
    <3> QED
      BY <1>3, <3>1, <3>2 DEF Decrypting, Enter, Flag, Tweak, ResetSector
  <2>4. pc[t] \in InCalls
    BY <1>a, <1>3, Moves
  <2> QED
    BY <1>a, <2>1, <2>2, <2>3, <2>4
<1>4. ASSUME NEW t \in Threads, Matched(t)
      PROVE  KeyedOnly'
  BY <1>4, <1>a DEF Matched, Goto, Shape, Inside, Idle
<1>5. ASSUME NEW t \in Threads, Constructed(t) \/ Lists(t)
      PROVE  KeyedOnly'
  BY <1>5, <1>a DEF Constructed, Lists, Goto, Shape, Inside, Idle
<1>6. CASE Quiet
  BY <1>6, <1>a DEF Quiet
<1> QED
  BY <1>1, <1>2, <1>3, <1>4, <1>5, <1>6, NextKinds

LEMMA MountKeysStep ==
  ASSUME HeaderInv, ObjectInv, [Next]_vars
  PROVE  MountKeys'
<1> USE DEF MountKeys, InCalls
<1>a. Shape /\ MountKeys
  BY DEF HeaderInv, ObjectInv
<1>1. ASSUME NEW t \in Threads, NEW op \in {"match", "new"}, NEW f \in Files,
             op = "new" => python, Begin(t, op, f)
      PROVE  MountKeys'
  BY <1>1, <1>a DEF Begin, Goto, Shape, Inside, keys
<1>2. ASSUME NEW t \in Threads, Decrypting(t)
      PROVE  MountKeys'
  <2>1. \A u \in Threads : call'[u].file = call[u].file /\ call'[u].op = call[u].op
    <3>1. \A u \in Threads : call'[u].op = call[u].op
      BY <1>2, <1>a DEF Shape, Calls, Decrypting, Enter, Construct, Flag, Tweak, DecryptSector,
                        Advance, ResetSector
    <3> QED
      BY <3>1, <1>2, <1>a, MoveTypes
  <2> QED
    BY <1>2, <1>a, <2>1, Moves
<1>3. ASSUME NEW t \in Threads, Matched(t)
      PROVE  MountKeys'
  <2>1. CASE python
    BY <1>3, <2>1 DEF Matched
  <2>2. CASE ~python /\ Magic(call[t].file, call[t].right) \in Magics
    <3>1. /\ Image[call[t].file].magic \in Magics /\ call[t].right # {}
          /\ pc[t] = "decrypted"
      BY <1>3, <2>2 DEF Magic, Readable, Magics, Matched, Goto
    <3>2. "header" \in console
      BY <2>2, <3>1 DEF HeaderInv, KeyStays, Keyed, ObjectInv, KeyedOnly
    <3> QED
      BY <1>3, <1>a, <2>2, <3>1, <3>2 DEF Matched, Goto, Shape, keys
  <2>3. CASE ~python /\ Magic(call[t].file, call[t].right) \notin Magics
    BY <1>3, <1>a, <2>3 DEF Matched, Goto, Shape, Inside, keys
  <2> QED
    BY <2>1, <2>2, <2>3
<1>4. ASSUME NEW t \in Threads, Constructed(t) \/ Lists(t)
      PROVE  MountKeys'
  BY <1>4, <1>a DEF Constructed, Lists, Goto, Shape, Inside, keys
<1>5. CASE Quiet
  BY <1>5, <1>a DEF Quiet
<1> QED
  BY <1>1, <1>2, <1>3, <1>4, <1>5, NextKinds

\* Other than by the end of a call, answers come from a program's own calls,
\* while no call is in progress.
LEMMA PythonCallsStep ==
  ASSUME HeaderInv, ObjectInv, [Next]_vars
  PROVE  PythonCalls'
<1> SUFFICES ASSUME python
             PROVE  PythonCalls'
  BY DEF PythonCalls, Next, vars, Begin, InCall, Decrypting, Enter, Construct, Flag, Tweak,
         DecryptSector, Advance, ResetSector, OnCipher, Matched, Constructed, Parse, ReadFiles,
         PyParse, PySections, SetKey, SetTitlekey, SetUserTitlekey, KeysLoaded
<1> USE DEF PythonCalls
<1>a. Shape /\ OneCall /\ PythonCalls /\ answer = [t \in Threads |-> answer[t]]
  BY DEF HeaderInv, ObjectInv
<1>1. ASSUME NEW t \in Threads, NEW op \in {"match", "new"}, NEW f \in Files, Begin(t, op, f)
      PROVE  PythonCalls'
  BY <1>1, <1>a DEF Begin, Goto, Shape
<1>2. ASSUME NEW t \in Threads, Decrypting(t)
      PROVE  PythonCalls'
  <2>1. pc[t] \in Inside /\ pc[t] # "idle" /\ answer' = answer
    BY <1>2, <1>a, Moves DEF Inside, Decrypting, Enter, Construct, Flag, Tweak, DecryptSector,
                             Advance, ResetSector, OnCipher, results
  <2>2. \A u \in Threads : u # t => pc[u] \notin Inside
    BY <1>a, <2>1 DEF OneCall, Inside
  <2>3. \A u \in Threads : alone'[u]
    BY <1>a, <1>2, <2>2, Moves
  <2>4. pc'[t] \notin {"parse", "list"}
    BY <1>2, <1>a, AfterOp DEF Shape, Goto, Decrypting, Enter, Construct, Flag, Tweak,
                               DecryptSector, Advance, ResetSector
  <2> QED
    BY <1>a, <1>2, <2>1, <2>3, <2>4, Moves
<1>3. ASSUME NEW t \in Threads, Matched(t) \/ Constructed(t)
      PROVE  PythonCalls'
  BY <1>3, <1>a DEF Matched, Constructed, Goto, Shape
<1>4. ASSUME NEW t \in Threads, Parse(t) \/ ReadFiles(t)
      PROVE  PythonCalls'
  BY <1>4, <1>a DEF Parse, ReadFiles, Goto
<1>5. ASSUME NEW t \in Threads, PyParse(t) \/ PySections(t)
      PROVE  PythonCalls'
  BY <1>5, <1>a DEF PyParse, PySections, Free
<1>6. ASSUME \/ \E key \in {"header", "area"} : SetKey(key)
             \/ \E id \in Rights : SetTitlekey(id)
             \/ \E id \in UserKeys \cup {None} : SetUserTitlekey(id)
      PROVE  PythonCalls'
  BY <1>6, <1>a DEF SetKey, SetTitlekey, SetUserTitlekey, KeysLoaded
<1>7. CASE UNCHANGED vars
  BY <1>7, <1>a DEF vars
<1> QED
  BY <1>1, <1>2, <1>3, <1>4, <1>5, <1>6, <1>7 DEF Next, InCall

-----------------------------------------------------------------------------
(* The sections of an object.                                               *)

LEMMA InOrderOf ==
  ASSUME NEW S \in SUBSET Entries
  PROVE  /\ Cardinality(S) \in Nat
         /\ InOrder(S) = [k \in 1 .. Cardinality(S) |-> InOrder(S)[k]]
<1>1. IsFiniteSet(Entries)
  BY NcaAssumption, FS_Interval DEF Entries
<1>2. Cardinality(S) \in Nat
  BY <1>1, FS_Subset, FS_CardinalityType
<1> DEFINE nth(k) == CHOOSE i \in S : Cardinality({j \in S : j < i}) = k - 1
<1>3. InOrder(S) = [k \in 1 .. Cardinality(S) |-> nth(k)]
  BY Zenon DEF InOrder
<1> HIDE DEF nth
<1> QED
  BY <1>2, <1>3

LEMMA EmptyConcat ==
  ASSUME NEW n \in Nat, NEW s, s = [k \in 1 .. n |-> s[k]]
  PROVE  Len(s) = n /\ <<>> \o s = s
<1>1. s \in Seq({s[k] : k \in 1 .. n})
  BY IsASeq
<1>2. Len(s) = n
  BY <1>1
<1> QED
  BY <1>1, <1>2, ConcatEmptySeq

LEMMA MadeOp ==
  ASSUME NEW o
  PROVE  LET made == Supported(o.file, o.right)
             s == MadeSections(o)
         IN  /\ DOMAIN s = DOMAIN made
             /\ <<>> \o s = s
             /\ [k \in DOMAIN s |-> s[k].entry] = made
             /\ \A k \in DOMAIN s : s[k].key \in {"plain", BodyKey(o)}
<1> DEFINE S == {i \in Entries : Exists(o.file, o.right, i)
                                   /\ Encryption(o.file, o.right, i) \in {"None", "AesCtr"}}
           made == Supported(o.file, o.right)
           s == MadeSections(o)
<1>1. made = InOrder(S) /\ S \in SUBSET Entries
  BY DEF Supported
<1> HIDE DEF S
<1>2. Cardinality(S) \in Nat /\ made = [k \in 1 .. Cardinality(S) |-> made[k]]
  BY <1>1, InOrderOf
<1>3. /\ s = [k \in DOMAIN made |-> s[k]]
      /\ \A k \in DOMAIN made : s[k].entry = made[k] /\ s[k].key \in {"plain", BodyKey(o)}
  BY DEF MadeSections
<1> HIDE DEF made, s
<1>4. DOMAIN made = 1 .. Cardinality(S) /\ DOMAIN s = DOMAIN made
  BY <1>2, <1>3
<1>5. <<>> \o s = s
  BY <1>2, <1>3, <1>4, EmptyConcat
<1>6. [k \in DOMAIN s |-> s[k].entry] = made
  BY <1>2, <1>3, <1>4
<1> QED
  BY <1>3, <1>4, <1>5, <1>6 DEF made, s

\* The constructor of an object, and what parse leaves of it.
LEMMA NewOp ==
  ASSUME NEW f, NEW right, NEW o, o = NewNca(f, right)
  PROVE  /\ IsNca(o) /\ o.file = f /\ o.right = right /\ o.depth = 0
         /\ o.sections = <<>> /\ ~o.parsed
BY DEF NewNca, IsNca

LEMMA NewNum ==
  ASSUME NEW f, NEW right
  PROVE  NewNca(f, right).num = Cardinality({i \in Entries : Exists(f, right, i)})
BY DEF NewNca

LEMMA ParsedOp ==
  ASSUME NEW o, IsNca(o)
  PROVE  LET p == Parsed(o)
         IN  /\ IsNca(p) /\ p.file = o.file /\ p.right = o.right /\ p.num = o.num
             /\ ParseFails(o) => p = o
             /\ ~ParseFails(o) => p.sections = o.sections \o MadeSections(o)
<1>1. CASE ParseFails(o)
  BY <1>1 DEF Parsed
<1>2. CASE ~ParseFails(o)
  <2> DEFINE s == o.sections \o MadeSections(o)
             d == IF RightsId(o.file, o.right) = None THEN o.depth + 1 ELSE o.depth
  <2>1. Parsed(o) = [file |-> o.file, right |-> o.right, num |-> o.num, depth |-> d,
                     sections |-> s, parsed |-> o.parsed, again |-> o.again, list |-> o.list]
    BY <1>2 DEF Parsed, IsNca
  <2> HIDE DEF s, d
  <2> QED
    BY <1>2, <2>1 DEF IsNca, s
<1> QED
  BY <1>1, <1>2

\* With the header whole, the sections are those of the archive.
LEMMA WholeHeader ==
  ASSUME NEW f \in Files, Image[f].magic \in Magics
  PROVE  /\ Whole(f) = Sectors
         /\ RightsId(f, Sectors) = Image[f].rights
         /\ {i \in Entries : Exists(f, Sectors, i)} = {i \in Entries : Image[f].entries[i].enc # "Absent"}
         /\ AllSupported(f) =>
              Supported(f, Sectors) = InOrder({i \in Entries : Image[f].entries[i].enc # "Absent"})
         /\ ~AllSupported(f) =>
              \E S : /\ Supported(f, Sectors) = InOrder(S)
                     /\ S \subseteq {i \in Entries : Image[f].entries[i].enc # "Absent"}
                     /\ S # {i \in Entries : Image[f].entries[i].enc # "Absent"}
<1>1. Image[f].magic # "other" /\ 1 \in Sectors
  BY NcaAssumption DEF Magics, Sectors
<1>2. ASSUME NEW i \in Entries
      PROVE  /\ i + 1 \in Sectors
             /\ Image[f].entries[i].enc \in Encryptions
  BY NcaAssumption DEF Entries, Sectors
<1>3. ASSUME NEW i \in Entries
      PROVE  /\ Exists(f, Sectors, i) <=> Image[f].entries[i].enc # "Absent"
             /\ Encryption(f, Sectors, i) = Image[f].entries[i].enc
  BY <1>1, <1>2 DEF Exists, Encryption, Readable
<1>4. Whole(f) = Sectors /\ RightsId(f, Sectors) = Image[f].rights
  BY <1>1 DEF Whole, RightsId, Readable
<1>5. ASSUME AllSupported(f)
      PROVE  {i \in Entries : Exists(f, Sectors, i) /\ Encryption(f, Sectors, i) \in {"None", "AesCtr"}}
               = {i \in Entries : Image[f].entries[i].enc # "Absent"}
  BY <1>2, <1>3, <1>5 DEF AllSupported, Encryptions
<1>6. ASSUME ~AllSupported(f)
      PROVE  LET S == {i \in Entries : Exists(f, Sectors, i)
                                         /\ Encryption(f, Sectors, i) \in {"None", "AesCtr"}}
             IN  /\ S \subseteq {i \in Entries : Image[f].entries[i].enc # "Absent"}
                 /\ S # {i \in Entries : Image[f].entries[i].enc # "Absent"}
  BY <1>3, <1>6 DEF AllSupported
<1> QED
  BY <1>3, <1>4, <1>5, <1>6 DEF Supported

-----------------------------------------------------------------------------
(* The objects and the answers.                                             *)

ThreadInv(t) == ObjectOK(t) /\ MountObject(t) /\ MountAnswer(t) /\ PythonObject(t)

\* A step that leaves a thread's object and answer alone keeps what is known of
\* them; in a mount a thread has no object during its calls of decrypt_header.
LEMMA Untouched ==
  ASSUME ObjectInv, NEW u \in Threads,
         obj'[u] = obj[u], answer'[u] = answer[u], python' = python, alone'[u] => alone[u],
         ~python => console' = console /\ userKey' = userKey,
         \/ pc'[u] = pc[u]
         \/ pc[u] \in InCalls /\ pc'[u] \notin {"parse", "list"}
  PROVE  ThreadInv(u)'
<1>1. ObjectOK(u) /\ MountObject(u) /\ MountAnswer(u) /\ PythonObject(u)
  BY DEF ObjectInv
<1>2. Has(u)' => Has(u)
  BY DEF Has
<1>3. ObjectOK(u)'
  BY <1>1, <1>2 DEF ObjectOK
<1>4. PythonObject(u)'
  BY <1>1 DEF PythonObject
<1>5. ASSUME ~python, Has(u)'
      PROVE  pc'[u] = pc[u]
  <2>1. pc[u] \notin InCalls
    BY <1>1, <1>2, <1>5 DEF MountObject, InCalls, Inside
  <2> QED
    BY <2>1
<1>6. MountObject(u)'
  <2>1. CASE python
    BY <2>1 DEF MountObject
  <2>2. CASE ~python
    <3>1. ASSUME NEW n
          PROVE  MadeSections(n)' = MadeSections(n)
      BY <2>2 DEF MadeSections, BodyKey
    <3> QED
      BY <1>1, <1>2, <1>5, <2>2, <3>1 DEF MountObject
  <2> QED
    BY <2>1, <2>2
<1>7. MountAnswer(u)'
  <2>1. CASE ~python /\ obj[u] # None
    <3>1. pc'[u] = pc[u]
      BY <1>5, <2>1 DEF Has
    <3> QED
      BY <1>1, <2>1, <3>1 DEF MountAnswer
  <2>2. CASE python \/ obj[u] = None
    BY <2>2 DEF MountAnswer
  <2> QED
    BY <2>1, <2>2
<1> QED
  BY <1>3, <1>4, <1>6, <1>7 DEF ThreadInv

\* The steps of a call, up to the header of an object.
LEMMA BeginObject ==
  ASSUME HeaderInv, ObjectInv, NEW t \in Threads, NEW op \in {"match", "new"}, NEW f \in Files,
         op = "new" => python, Begin(t, op, f)
  PROVE  \A u \in Threads : ThreadInv(u)'
<1>1. ASSUME NEW u \in Threads, u # t
      PROVE  ThreadInv(u)'
  BY <1>1, Untouched DEF Begin, Goto, keys, HeaderInv, Shape, ObjectInv
<1>2. /\ answer'[t] = NoAnswer /\ pc'[t] = "enter" /\ pc[t] = "idle" /\ python' = python
      /\ obj'[t] \in {obj[t], None} /\ (~python => obj'[t] = None)
      /\ alone'[t] = TRUE
  BY DEF Begin, Goto, HeaderInv, Shape, ObjectInv
<1>3. answer'[t].is = "nothing"
  BY <1>2 DEF NoAnswer, Answer
<1>4. /\ Has(t)' => python /\ obj'[t] = obj[t] /\ obj[t] # None /\ alone[t]
      /\ obj'[t] # None => Has(t)'
  BY <1>2 DEF Has, ObjectInv, PythonCalls
<1>5. ObjectOK(t)'
  BY <1>4 DEF ObjectOK, ObjectInv, Has
<1>6. PythonObject(t)'
  BY <1>2, <1>3, <1>4 DEF PythonObject, ObjectInv
<1>7. MountObject(t)' /\ MountAnswer(t)'
  BY <1>2, <1>3, <1>4 DEF MountObject, MountAnswer
<1>8. ThreadInv(t)'
  BY <1>5, <1>6, <1>7 DEF ThreadInv
<1> QED
  BY <1>1, <1>8

LEMMA DecryptingObject ==
  ASSUME HeaderInv, ObjectInv, NEW t \in Threads, Decrypting(t)
  PROVE  \A u \in Threads : ThreadInv(u)'
<1> SUFFICES ASSUME NEW u \in Threads
             PROVE  ThreadInv(u)'
  OBVIOUS
<1>1. OnCipher(t)
  BY DEF Decrypting, Enter, Construct, Flag, Tweak, DecryptSector, Advance, ResetSector
<1>2. pc'[t] \notin {"parse", "list"}
  BY AfterOp DEF Decrypting, Enter, Construct, Flag, Tweak, DecryptSector, Advance, ResetSector, Goto,
                 HeaderInv, Shape
<1>3. pc[t] \in InCalls /\ (u # t => pc'[u] = pc[u]) /\ (alone'[u] => alone[u])
  BY Moves DEF HeaderInv, InCalls
<1> QED
  BY <1>1, <1>2, <1>3, Untouched DEF OnCipher, keys, results

LEMMA MatchedObject ==
  ASSUME HeaderInv, ObjectInv, NEW t \in Threads, Matched(t)
  PROVE  \A u \in Threads : ThreadInv(u)'
<1>1. ASSUME NEW u \in Threads, u # t
      PROVE  ThreadInv(u)'
  BY <1>1, Untouched DEF Matched, Goto, keys, HeaderInv, Shape, ObjectInv
<1>2. /\ pc[t] = "decrypted" /\ pc'[t] \in {"enter", "idle"} /\ obj' = obj /\ alone' = alone
      /\ python' = python
      /\ answer'[t] = answer[t] \/ answer'[t].is \in {"nca", "unknown"}
  BY DEF Matched, Goto, HeaderInv, Shape, ObjectInv, Answer
<1>3. Has(t)' => obj[t] # None
  BY <1>2 DEF Has
<1>4. ~python => obj[t] = None
  BY <1>2 DEF ObjectInv, MountObject, Has
<1>5. ObjectOK(t)' /\ PythonObject(t)'
  BY <1>2, <1>3 DEF ObjectInv, ObjectOK, PythonObject, Has
<1>6. MountObject(t)' /\ MountAnswer(t)'
  BY <1>2, <1>3, <1>4 DEF ObjectInv, MountObject, MountAnswer, Has
<1>7. ThreadInv(t)'
  BY <1>5, <1>6 DEF ThreadInv
<1> QED
  BY <1>1, <1>7

\* An object made in a call that nobody disturbed has its header whole, or has
\* nothing of it when there was no key; a handler made it of an archive.
LEMMA ConstructedObject ==
  ASSUME HeaderInv, ObjectInv, NEW t \in Threads, Constructed(t)
  PROVE  \A u \in Threads : ThreadInv(u)'
<1> DEFINE f == call[t].file
           right == call[t].right
           o == NewNca(f, right)
<1>1. ASSUME NEW u \in Threads, u # t
      PROVE  ThreadInv(u)'
  BY <1>1, Untouched DEF Constructed, Goto, keys, HeaderInv, Shape, ObjectInv
<1>2. /\ pc[t] = "decrypted" /\ pc[t] \in InCalls /\ call[t].op = "new"
      /\ pc'[t] = IF python THEN "idle" ELSE "parse"
      /\ python' = python /\ console' = console /\ answer' = answer /\ alone' = alone
      /\ obj'[t] = o /\ f \in Files
  BY DEF Constructed, Goto, keys, HeaderInv, Shape, ObjectInv, InCalls
<1>3. o.file = f /\ o.right = right /\ ~o.parsed /\ IsNca(o)
  BY NewOp
<1>4. alone[t] /\ cipher.key => right = Whole(f)
  BY <1>2 DEF HeaderInv, InStep, Step
<1>5. ~cipher.key => right = {}
  BY <1>2 DEF ObjectInv, KeyedOnly
<1> HIDE DEF o
<1>6. ObjectOK(t)'
  BY <1>2, <1>3, <1>4, <1>5 DEF ObjectOK, IsNca
<1>7. PythonObject(t)'
  <2>1. python => answer[t].is = "nothing"
    BY <1>2 DEF ObjectInv, PythonCalls, NoAnswer, Answer
  <2> QED
    BY <1>2, <1>3, <2>1 DEF PythonObject, o
<1>8. ASSUME ~python
      PROVE  MountObject(t)'
  <2>1. "header" \in console /\ Image[f].magic \in Magics
    BY <1>2, <1>8 DEF ObjectInv, MountKeys
  <2>2. cipher.key
    BY <1>2, <1>8, <2>1 DEF HeaderInv, KeyStays, Keyed
  <2>3. alone[t] => right = Sectors
    BY <1>2, <1>4, <2>1, <2>2, WholeHeader
  <2>4. answer'[t].is # "sections"
    BY <1>2, <1>8 DEF ObjectInv, MountObject
  <2>5. pc'[t] = "parse" /\ obj'[t] = NewNca(obj'[t].file, obj'[t].right)
    BY <1>2, <1>3, <1>8 DEF o
  <2> QED
    BY <1>2, <1>3, <2>1, <2>3, <2>4, <2>5 DEF MountObject
<1>9. python => MountObject(t)'
  BY <1>2 DEF MountObject
<1>10. MountAnswer(t)'
  BY <1>2 DEF MountAnswer
<1>11. ThreadInv(t)'
  BY <1>6, <1>7, <1>8, <1>9, <1>10 DEF ThreadInv
<1> QED
  BY <1>1, <1>11

\* A handler's parse: the one it does on an object that is as it was made.
LEMMA ParseObject ==
  ASSUME HeaderInv, ObjectInv, NEW t \in Threads, Parse(t)
  PROVE  \A u \in Threads : ThreadInv(u)'
<1> DEFINE o == obj[t]
           p == Parsed(o)
<1>1. ASSUME NEW u \in Threads, u # t
      PROVE  ThreadInv(u)'
  BY <1>1, Untouched DEF Parse, Goto, keys, HeaderInv, Shape, ObjectInv
<1>2. /\ pc[t] = "parse" /\ ~python /\ python' = python /\ alone' = alone
      /\ pc'[t] = IF ParseFails(o) THEN "idle" ELSE "list"
      /\ obj'[t] = p /\ console' = console /\ userKey' = userKey
      /\ answer'[t] = IF ParseFails(o) THEN Answer("failed", <<>>) ELSE answer[t]
  <2>1. pc[t] = "parse" /\ ~python
    BY DEF Parse, Goto, ObjectInv, PythonCalls
  <2> QED
    BY <2>1 DEF Parse, Goto, keys, HeaderInv, Shape, ObjectInv
<1>3. Has(t) /\ ObjectOK(t) /\ MountObject(t)
  BY <1>2 DEF Has, ObjectInv
<1>4. /\ o = NewNca(o.file, o.right) /\ IsNca(o) /\ o.file \in Files
      /\ Image[o.file].magic \in Magics /\ "header" \in console
      /\ alone[t] => o.right = Sectors
      /\ answer[t].is # "sections"
  BY <1>2, <1>3 DEF ObjectOK, MountObject
<1>5. /\ IsNca(p) /\ p.file = o.file /\ p.right = o.right /\ p.num = o.num
      /\ ParseFails(o) => p = o
      /\ ~ParseFails(o) => p.sections = MadeSections(o)
  <2>1. o.sections = <<>> /\ <<>> \o MadeSections(o) = MadeSections(o)
    <3>1. NewNca(o.file, o.right).sections = <<>>
      BY NewOp
    <3>2. <<>> \o MadeSections(o) = MadeSections(o)
      BY MadeOp, Zenon
    <3> QED
      BY <1>4, <3>1, <3>2
  <2> QED
    BY <1>4, <2>1, ParsedOp
<1> HIDE DEF p
<1>6. ObjectOK(t)'
  BY <1>2, <1>3, <1>5 DEF ObjectOK, IsNca
<1>7. PythonObject(t)'
  BY <1>2 DEF PythonObject
<1>8. MountObject(t)'
  <2>1. answer'[t].is # "sections"
    BY <1>2, <1>4 DEF Answer
  <2>2. /\ pc'[t] \in {"idle", "list"}
        /\ "header" \in console' /\ Image[p.file].magic \in Magics
        /\ alone'[t] => p.right = Sectors
    BY <1>2, <1>4, <1>5
  <2>3. ASSUME pc'[t] = "list"
        PROVE  LET new == NewNca(o.file, o.right)
               IN  p.num = new.num /\ p.sections = MadeSections(new)
    BY <1>2, <1>4, <1>5, <2>3
  <2>4. ASSUME NEW n
        PROVE  MadeSections(n)' = MadeSections(n)
    BY <1>2 DEF MadeSections, BodyKey
  <2> QED
    BY <1>2, <1>5, <2>1, <2>2, <2>3, <2>4 DEF MountObject
<1>9. MountAnswer(t)'
  <2>1. ASSUME alone[t], ParseFails(o)
        PROVE  Image[o.file].rights # None /\ userKey = None
    BY <1>4, <2>1, WholeHeader DEF ParseFails, TitlekeyKnown
  <2>2. ASSUME pc'[t] = "idle"
        PROVE  ParseFails(o) /\ answer'[t].is = "failed"
    BY <1>2, <2>2 DEF Answer
  <2> QED
    BY <1>2, <1>5, <2>1, <2>2 DEF MountAnswer
<1>10. ThreadInv(t)'
  BY <1>6, <1>7, <1>8, <1>9 DEF ThreadInv
<1> QED
  BY <1>1, <1>10

\* Of an object that a handler made undisturbed and parsed, each section is
\* listed, if the library can read them all; if not, one that is not there is read.
LEMMA ReadFilesObject ==
  ASSUME HeaderInv, ObjectInv, NEW t \in Threads, ReadFiles(t)
  PROVE  \A u \in Threads : ThreadInv(u)'
<1> DEFINE o == obj[t]
           f == o.file
           new == NewNca(f, o.right)
           a == answer'[t]
           all == {i \in Entries : Image[f].entries[i].enc # "Absent"}
<1>1. ASSUME NEW u \in Threads, u # t
      PROVE  ThreadInv(u)'
  BY <1>1, Untouched DEF ReadFiles, Goto, keys, HeaderInv, Shape, ObjectInv
<1>2. /\ pc[t] = "list" /\ ~python /\ python' = python /\ alone' = alone /\ pc'[t] = "idle"
      /\ obj' = obj /\ console' = console /\ userKey' = userKey
      /\ a = IF o.num <= Len(o.sections) THEN Answer("listed", Listing(o)) ELSE Answer("undefined", <<>>)
  <2>1. pc[t] = "list" /\ ~python
    BY DEF ReadFiles, Goto, ObjectInv, PythonCalls
  <2> QED
    BY <2>1 DEF ReadFiles, Goto, keys, HeaderInv, Shape, ObjectInv
<1>3. Has(t) /\ ObjectOK(t) /\ MountObject(t)
  BY <1>2 DEF Has, ObjectInv
<1>4. /\ IsNca(o) /\ f \in Files
      /\ Image[f].magic \in Magics /\ "header" \in console
      /\ alone[t] => o.right = Sectors
      /\ o.num = new.num /\ o.sections = MadeSections(new)
  BY <1>2, <1>3 DEF ObjectOK, MountObject
<1>5. Has(t)' => obj[t] # None
  BY <1>2 DEF Has
<1>a. obj'[t] = obj[t] /\ userKey' = userKey /\ console' = console /\ alone' = alone
  BY <1>2
<1>6. ObjectOK(t)' /\ PythonObject(t)'
  BY <1>2, <1>3 DEF ObjectOK, PythonObject
<1>7. MountObject(t)'
  BY <1>2, <1>3, <1>4 DEF MountObject, Answer
<1>8. ASSUME alone[t], AllSupported(f)
      PROVE  /\ a = Answer("listed", Listing(o)) /\ DOMAIN Listing(o) = DOMAIN InOrder(all)
             /\ [k \in DOMAIN Listing(o) |-> Listing(o)[k].section.entry] = InOrder(all)
             /\ \A k \in DOMAIN Listing(o) : Listing(o)[k].section.key \in {"plain", BodyKey(new)}
  <2>1. o.right = Sectors /\ Supported(f, Sectors) = InOrder(all)
        /\ {i \in Entries : Exists(f, Sectors, i)} = all
    BY <1>4, <1>8, WholeHeader
  <2>2. new.file = f /\ new.right = Sectors /\ o.num = Cardinality(all)
    BY <1>4, <2>1, NewOp, NewNum
  <2> HIDE DEF new
  <2>3. /\ DOMAIN o.sections = DOMAIN InOrder(all)
        /\ [k \in DOMAIN o.sections |-> o.sections[k].entry] = InOrder(all)
        /\ \A k \in DOMAIN o.sections : o.sections[k].key \in {"plain", BodyKey(new)}
        /\ <<>> \o o.sections = o.sections
    BY <1>4, <2>1, <2>2, MadeOp
  <2>4. /\ Cardinality(all) \in Nat
        /\ InOrder(all) = [k \in 1 .. Cardinality(all) |-> InOrder(all)[k]]
    BY InOrderOf
  <2> HIDE DEF all
  <2>5. DOMAIN o.sections = 1 .. o.num /\ o.num \in Nat
    BY <2>2, <2>3, <2>4
  <2>6. Len(o.sections) = o.num
    BY <2>5
  <2>7. /\ DOMAIN Listing(o) = 1 .. o.num
        /\ \A k \in 1 .. o.num : Listing(o)[k].section = o.sections[k]
    BY DEF Listing
  <2>8. [k \in DOMAIN Listing(o) |-> Listing(o)[k].section.entry] = InOrder(all)
    BY <2>3, <2>5, <2>7
  <2> QED
    BY <1>2, <2>3, <2>5, <2>6, <2>7, <2>8
<1>9. ASSUME alone[t], ~AllSupported(f)
      PROVE  a = Answer("undefined", <<>>)
  <2>1. /\ o.right = Sectors /\ {i \in Entries : Exists(f, Sectors, i)} = all
        /\ \E S : Supported(f, Sectors) = InOrder(S) /\ S \subseteq all /\ S # all
    BY <1>4, <1>9, WholeHeader
  <2>2. new.file = f /\ new.right = Sectors /\ o.num = Cardinality(all)
    BY <1>4, <2>1, NewOp, NewNum
  <2> HIDE DEF new
  <2>3. PICK S : Supported(f, Sectors) = InOrder(S) /\ S \subseteq all /\ S # all
    BY <2>1
  <2>4. DOMAIN o.sections = DOMAIN InOrder(S)
    BY <1>4, <2>2, <2>3, MadeOp
  <2>5. all \in SUBSET Entries /\ IsFiniteSet(all)
    <3>1. IsFiniteSet(Entries)
      BY NcaAssumption, FS_Interval DEF Entries
    <3> QED
      BY <3>1, FS_Subset
  <2> HIDE DEF all
  <2>6. S \in SUBSET Entries /\ Cardinality(S) \in Nat /\ Cardinality(all) \in Nat
        /\ InOrder(S) = [k \in 1 .. Cardinality(S) |-> InOrder(S)[k]]
    BY <2>3, <2>5, InOrderOf
  <2>7. Cardinality(S) <= Cardinality(all) /\ Cardinality(S) # Cardinality(all)
    BY <2>3, <2>5, FS_Subset
  <2>8. DOMAIN o.sections = 1 .. Cardinality(S)
    BY <2>4, <2>6
  <2>9. Len(o.sections) = Cardinality(S)
    BY <2>6, <2>8
  <2> QED
    BY <1>2, <2>2, <2>6, <2>7, <2>9
<1>10. /\ BodyKey(new) \in {"right", "other", "unloaded"}
       /\ BodyKey(new) = "other" => userKey # None
       /\ BodyKey(new) = "unloaded" => "area" \notin console
  <2>1. new.depth = 0
    BY NewOp
  <2> HIDE DEF new
  <2> QED
    BY <2>1 DEF BodyKey
<1>11. MountAnswer(t)'
  <2>1. CASE alone[t] /\ ~AllSupported(f)
    <3>1. answer'[t].is = "undefined"
      BY <1>9, <2>1 DEF Answer
    <3> HIDE DEF new
    <3> QED
      BY <1>a, <2>1, <3>1 DEF MountAnswer, AllSupported
  <2>2. CASE alone[t] /\ AllSupported(f)
    <3> HIDE DEF all, new
    <3>1. a.is = "listed" /\ a.files = Listing(o)
      BY <1>8, <2>2 DEF Answer
    <3>2. [k \in DOMAIN a.files |-> a.files[k].section.entry] = InOrder(all)
      BY <1>8, <2>2, <3>1
    <3>3. ASSUME NEW k \in DOMAIN a.files
          PROVE  LET key == a.files[k].section.key
                 IN  /\ key \in {"plain", "right", "other", "unloaded"}
                     /\ key = "other" => userKey # None
                     /\ key = "unloaded" => "area" \notin console
      BY <1>8, <1>10, <2>2, <3>1
    <3> QED
      BY <1>a, <2>2, <3>1, <3>2, <3>3 DEF MountAnswer, all
  <2>3. CASE ~alone[t]
    BY <1>2, <2>3 DEF MountAnswer
  <2> QED
    BY <2>1, <2>2, <2>3
<1>12. ThreadInv(t)'
  BY <1>6, <1>7, <1>11 DEF ThreadInv
<1> QED
  BY <1>1, <1>12

\* A parse of a program: of an object that has not been parsed it makes the list
\* of the sections, or leaves the object as it is.
LEMMA PyParsedOp ==
  ASSUME NEW o, IsNca(o), o.file \in Files, o.right \in {{}, Whole(o.file)},
         ~o.parsed => o = NewNca(o.file, o.right),
         o.parsed /\ ~o.again => ListRight(o)
  PROVE  LET p == PyParsed(o)
         IN  /\ IsNca(p) /\ p.file = o.file /\ p.right = o.right
             /\ ~p.parsed => p = NewNca(p.file, p.right)
             /\ p.parsed /\ ~p.again => ListRight(p)
<1> DEFINE p == PyParsed(o)
           s == Parsed(o).sections
<1>1. CASE ~PyValid(o) \/ ParseFails(o)
  <2>1. p = o
    BY <1>1, ParsedOp DEF PyParsed
  <2> QED
    BY <2>1
<1>2. CASE PyValid(o) /\ ~ParseFails(o)
  <2>1. /\ IsNca(Parsed(o)) /\ Parsed(o).file = o.file /\ Parsed(o).right = o.right
        /\ s = o.sections \o MadeSections(o)
    BY <1>2, ParsedOp
  <2>2. p = [Parsed(o) EXCEPT !.again = o.parsed, !.parsed = TRUE, !.list = s]
    BY <1>2 DEF PyParsed
  <2> HIDE DEF p, s
  <2>3. /\ IsNca(p) /\ p.file = o.file /\ p.right = o.right
        /\ p.parsed = TRUE /\ p.again = o.parsed /\ p.list = s
    BY <2>1, <2>2 DEF IsNca
  <2>4. ASSUME ~o.parsed
        PROVE  ListRight(p)
    <3>1. o.right = Sectors
      BY <1>2, WholeHeader DEF PyValid, Magic, Readable, Magics
    <3>2. o.sections = <<>> /\ o.depth = 0
      BY <2>4, NewOp
    <3>3. /\ s = MadeSections(o) /\ [k \in DOMAIN s |-> s[k].entry] = Supported(o.file, Sectors)
          /\ \A k \in DOMAIN s : s[k].key \in {"plain", BodyKey(o)}
      BY <2>1, <3>1, <3>2, MadeOp
    <3>4. BodyKey(o) # "twice"
      BY <3>2 DEF BodyKey
    <3> QED
      BY <2>3, <3>3, <3>4 DEF ListRight
  <2> QED
    BY <2>3, <2>4 DEF p
<1> QED
  BY <1>1, <1>2

LEMMA ProgramObject ==
  ASSUME HeaderInv, ObjectInv, NEW t \in Threads, PyParse(t) \/ PySections(t)
  PROVE  \A u \in Threads : ThreadInv(u)'
<1> DEFINE o == obj[t]
           p == obj'[t]
           a == answer'[t]
<1>1. ASSUME NEW u \in Threads, u # t
      PROVE  ThreadInv(u)'
  BY <1>1, Untouched DEF PyParse, PySections, keys, ObjectInv
<1>2. python /\ python' = python /\ pc' = pc /\ alone' = alone /\ o # None /\ pc[t] = "idle"
  BY DEF PyParse, PySections, Free
<1>3. /\ (p = o /\ o.parsed) \/ p = PyParsed(o)
      /\ a.is = "sections" => p.parsed /\ a.files = p.list
  <2>1. CASE PyParse(t)
    BY <2>1 DEF PyParse, ObjectInv, NoAnswer, Raised, Answer
  <2>2. CASE PySections(t)
    BY <2>2 DEF PySections, ObjectInv, Raised, Answer
  <2> QED
    BY <2>1, <2>2
<1>4. /\ IsNca(o) /\ o.file \in Files /\ o.right \in {{}, Whole(o.file)}
      /\ ~o.parsed => o = NewNca(o.file, o.right)
      /\ o.parsed /\ ~o.again => ListRight(o)
  BY <1>2 DEF ObjectInv, PythonCalls, ObjectOK, PythonObject, Has
<1>5. /\ IsNca(p) /\ p.file = o.file /\ p.right = o.right
      /\ ~p.parsed => p = NewNca(p.file, p.right)
      /\ p.parsed /\ ~p.again => ListRight(p)
  BY <1>3, <1>4, PyParsedOp
<1> HIDE DEF p, a
<1>6. ObjectOK(t)'
  BY <1>4, <1>5 DEF ObjectOK, IsNca, p
<1>7. MountObject(t)' /\ MountAnswer(t)'
  BY <1>2 DEF MountObject, MountAnswer, ObjectInv, PythonCalls
<1>8. PythonObject(t)'
  <2>1. a.is = "sections" => p.parsed /\ a.files = p.list /\ (~p.again => ListRight(p))
    BY <1>3, <1>5
  <2> QED
    BY <1>5, <2>1 DEF PythonObject, p, a
<1>9. ThreadInv(t)'
  BY <1>6, <1>7, <1>8 DEF ThreadInv
<1> QED
  BY <1>1, <1>9

LEMMA ObjectStep == HeaderInv /\ ObjectInv /\ [Next]_vars => ObjectInv'
<1> SUFFICES ASSUME HeaderInv, ObjectInv, [Next]_vars
             PROVE  ObjectInv'
  OBVIOUS
<1>1. KeyedOnly' /\ MountKeys' /\ PythonCalls'
  BY KeyedOnlyStep, MountKeysStep, PythonCallsStep
<1>2. obj' = [t \in Threads |-> obj'[t]] /\ answer' = [t \in Threads |-> answer'[t]]
  <2>1. /\ \/ obj' = obj
           \/ \E t \in Threads : \E o : obj' = [obj EXCEPT ![t] = o]
        /\ \/ answer' = answer
           \/ \E t \in Threads : \E a : answer' = [answer EXCEPT ![t] = a]
    BY ZenonT(60) DEF Next, vars, Begin, InCall, Decrypting, Enter, Construct, Flag, Tweak, DecryptSector,
       Advance, ResetSector, OnCipher, results, Matched, Constructed, Parse, ReadFiles, PyParse,
       PySections, SetKey, SetTitlekey, SetUserTitlekey, KeysLoaded
  <2> QED
    BY <2>1 DEF ObjectInv
<1>3. \A u \in Threads : ThreadInv(u)'
  <2>1. CASE \E t \in Threads, op \in {"match", "new"}, f \in Files :
               (op = "new" => python) /\ Begin(t, op, f)
    BY <2>1, BeginObject
  <2>2. CASE \E t \in Threads : InCall(t)
    BY <2>2, DecryptingObject, MatchedObject, ConstructedObject, ParseObject, ReadFilesObject DEF InCall
  <2>3. CASE \E t \in Threads : PyParse(t) \/ PySections(t)
    BY <2>3, ProgramObject
  <2>4. CASE \/ \E key \in {"header", "area"} : SetKey(key)
             \/ \E id \in Rights : SetTitlekey(id)
             \/ \E id \in UserKeys \cup {None} : SetUserTitlekey(id)
    BY <2>4, Untouched DEF SetKey, SetTitlekey, SetUserTitlekey, KeysLoaded
  <2>5. CASE UNCHANGED vars
    BY <2>5, Untouched DEF vars, keys, results
  <2> QED
    BY <2>1, <2>2, <2>3, <2>4, <2>5 DEF Next
<1> QED
  BY <1>1, <1>2, <1>3 DEF ObjectInv, ThreadInv

LEMMA OpenEnough == ObjectInv => OpenRight /\ SectionsRight
<1> SUFFICES ASSUME ObjectInv
             PROVE  OpenRight /\ SectionsRight
  OBVIOUS
<1>1. OpenRight
  <2>1. \A t \in Threads : MountAnswer(t)
    BY DEF ObjectInv
  <2> QED
    BY <2>1 DEF MountAnswer, OpenRight
<1>2. ASSUME NEW t \in Threads, answer[t].is = "sections", ~obj[t].again
      PROVE  /\ answer[t].files = obj[t].list
             /\ ListRight(obj[t])
  BY <1>2 DEF ObjectInv, MountObject, PythonObject
<1>3. SectionsRight
  BY <1>2 DEF ListRight, SectionsRight
<1> QED
  BY <1>1, <1>3

LEMMA ObjectsHold == Spec => [](HeaderInv /\ ObjectInv)
BY HeaderInit, HeaderStep, ObjectInit, ObjectStep, PTL DEF Spec

\* A handler that nobody disturbs opens each archive it recognises unless its
\* title key is missing, and lists its sections each once, in the order of their
\* entries: with the key of the archive, but for a key of the user's and for a key
\* file that has the header key only, whose other keys are zeros.  It reads beyond
\* the sections there are only if one is not supported.  This holds for any
\* archives, number of entries, keys and threads (nca.cpp:105-171,
\* containers.cpp:82-93, keys.cpp:63-77).
THEOREM HandlersOpenRight == Spec => []OpenRight
BY ObjectsHold, OpenEnough, PTL

\* However often parse failed before its title key was set, what Nca.sections
\* gives a Python program is each section the library can read, once, in order
\* and under a key that went through its cipher once, unless the program called
\* parse again itself (hac.py:317-330 and 367-372, nca.cpp:144-171).
THEOREM ProgramSectionsRight == Spec => []SectionsRight
BY ObjectsHold, OpenEnough, PTL
=============================================================================
