--------------------------------- MODULE Nca ---------------------------------
(***************************************************************************)
(* Opening NCA archives (src/lib/nca.cpp, NcaContainer, and the Nca class  *)
(* of the Python bindings).  A header is an array of sectors, each         *)
(* encrypted under its number; Nca::decrypt_header takes them through one  *)
(* static AesXtsNintendo, built at the first call from the header key of   *)
(* that moment, which all threads share without a lock.  What is read of a *)
(* header is in sector 1 (magic, entries, rights id, key area) and, for    *)
(* entry i, in sector 1 + i; a sector that was not decrypted under its     *)
(* number and key is noise.                                                *)
(*                                                                         *)
(* Two hosts are modelled, of which Init chooses one: a mount, whose       *)
(* handlers open files on several threads with keys read before, and a     *)
(* Python program, whose calls hold the interpreter's lock and may load    *)
(* keys at any time.  find, list and dump are a mount with one thread.     *)
(***************************************************************************)
EXTENDS Naturals, Sequences, FiniteSets, Ordered

CONSTANTS
  Threads,      \* the threads that open files
  Files,        \* the files that are not a Pfs, Hfs, RomFs or Xci
  MaxSections,  \* entries in a header
  Rights,       \* rights ids of the files
  UserKeys,     \* rights ids a key the user gives may belong to
  None,         \* no rights id, no user key, no object
  Image,        \* file -> [magic, entries, rights]
  CallBound,    \* calls that decrypt a header, per thread
  SectionBound  \* a Python program calls parse while it has fewer sections

Magics == {"NCA2", "NCA3"}
\* "Absent": no such entry; "AesCtrEx" stands for every one that is not supported.
Encryptions == {"Absent", "None", "AesCtr", "AesCtrEx"}
SectionTypes == {"Pfs", "RomFs"}

ASSUME NcaAssumption ==
  /\ MaxSections \in Nat \ {0} /\ CallBound \in Nat /\ SectionBound \in Nat
  /\ None \notin Rights \cup UserKeys \cup Files
  /\ Image \in [Files -> [magic   : Magics \cup {"other"},
                          entries : [1 .. MaxSections -> [enc : Encryptions, type : SectionTypes]],
                          rights  : Rights \cup {None}]]

VARIABLES
  python,     \* the host is a Python program
  console,    \* KeySet: "header", and "area": all others that the archives need
  titlekeys,  \* TitlekeySet: rights ids with a key
  userKey,    \* TitlekeySet::cli_key: the rights id it belongs to
  inited,     \* decrypt_header's init_ctx
  cipher,     \* decrypt_header's ctx: [key, sector, iv]
  pc,         \* where each thread is
  call,       \* thread -> [op, file, at, right] of its call of decrypt_header
  obj,        \* thread -> the Nca it made
  answer,     \* thread -> what the last call told its caller
  calls,      \* thread -> calls of decrypt_header so far
  alone       \* history: no other thread has used the cipher during the call

vars == <<python, console, titlekeys, userKey, inited, cipher, pc, call, obj, answer, calls, alone>>
keys == <<console, titlekeys, userKey>>
results == <<obj, answer, calls>>

NoTweak == None
Sectors == 0 .. MaxSections + 1
Entries == 1 .. MaxSections

\* The sector number a sector of the file was encrypted under: the fs headers
\* of an NCA2 each start anew.
SectorNumber(f, k) == IF Image[f].magic = "NCA2" /\ k > 1 THEN 0 ELSE k

\* A header of f as it is in memory when the sectors in right came out well.
Readable(f, right, k) == k \in right /\ Image[f].magic # "other"
Magic(f, right) == IF Readable(f, right, 1) THEN Image[f].magic ELSE "noise"
Exists(f, right, i) == Readable(f, right, 1) => Image[f].entries[i].enc # "Absent"
Encryption(f, right, i) == IF Readable(f, right, i + 1) THEN Image[f].entries[i].enc ELSE "noise"
RightsId(f, right) == IF Readable(f, right, 1) THEN Image[f].rights ELSE "noise"

Answer(is, files) == [is |-> is, files |-> files]
NoAnswer == Answer("nothing", <<>>)
Idle == [op |-> "match", file |-> None, at |-> 0, right |-> {}]

Inside == {"enter", "construct", "flag", "tweak", "decrypt", "advance", "reset"}
PCs == {"idle", "decrypted", "parse", "list"} \cup Inside

Init ==
  /\ python \in BOOLEAN
  /\ console \in IF python THEN {{}} ELSE SUBSET {"header", "area"}
  /\ titlekeys = {}
  /\ userKey \in IF python THEN {None} ELSE UserKeys \cup {None}
  /\ inited = FALSE
  /\ cipher = [key |-> FALSE, sector |-> 0, iv |-> NoTweak]
  /\ pc = [t \in Threads |-> "idle"]
  /\ call = [t \in Threads |-> Idle]
  /\ obj = [t \in Threads |-> None]
  /\ answer = [t \in Threads |-> NoAnswer]
  /\ calls = [t \in Threads |-> 0]
  /\ alone = [t \in Threads |-> TRUE]

Goto(t, from, to) == pc[t] = from /\ pc' = [pc EXCEPT ![t] = to]

-----------------------------------------------------------------------------
(* Nca::decrypt_header, one step per access of the cipher.                  *)

\* A step of t on the cipher disturbs the others that are inside.
OnCipher(t) ==
  /\ alone' = [u \in Threads |-> alone[u] /\ (u = t \/ pc[u] \notin Inside)]
  /\ UNCHANGED <<python, keys, results>>

SetSector(n) == cipher' = [cipher EXCEPT !.sector = n, !.iv = n]

EnterMut(t) ==
  /\ IF inited THEN Goto(t, "enter", "tweak") /\ UNCHANGED cipher
     ELSE Goto(t, "enter", "construct") /\ UNCHANGED cipher
  /\ UNCHANGED <<inited, call>>
  /\ OnCipher(t)

Enter(t) ==
  /\ IF inited THEN Goto(t, "enter", "tweak") /\ SetSector(0)
     ELSE Goto(t, "enter", "construct") /\ UNCHANGED cipher
  /\ UNCHANGED <<inited, call>>
  /\ OnCipher(t)

Construct(t) ==
  /\ Goto(t, "construct", "flag")
  /\ cipher' = [key |-> "header" \in console, sector |-> 0, iv |-> NoTweak]
  /\ UNCHANGED <<inited, call>>
  /\ OnCipher(t)

Flag(t) ==
  /\ Goto(t, "flag", "tweak")
  /\ inited' = TRUE
  /\ UNCHANGED <<cipher, call>>
  /\ OnCipher(t)

\* AesXtsNintendo::decrypt: set_sector(sector), decrypt_sector, ++sector.
Tweak(t) ==
  /\ Goto(t, "tweak", "decrypt")
  /\ SetSector(cipher.sector)
  /\ UNCHANGED <<inited, call>>
  /\ OnCipher(t)

DecryptSector(t) ==
  /\ Goto(t, "decrypt", "advance")
  /\ call' = [call EXCEPT ![t].right = @ \cup
       {k \in {call[t].at} : cipher.key /\ cipher.iv = SectorNumber(call[t].file, k)}]
  /\ UNCHANGED <<inited, cipher>>
  /\ OnCipher(t)

\* What follows sector k of a header with this magic: the two main sectors, then
\* the fs headers if the magic is known.
After(magic, k) ==
  CASE k = 0                            -> "tweak"
    [] k = MaxSections + 1              -> "decrypted"
    [] k \in 1 .. MaxSections /\ magic = "NCA3" -> "tweak"
    [] k \in 1 .. MaxSections /\ magic = "NCA2" -> "reset"
    [] OTHER                            -> "decrypted"

Advance(t) ==
  /\ Goto(t, "advance", After(Magic(call[t].file, call[t].right), call[t].at))
  /\ cipher' = [cipher EXCEPT !.sector = @ + 1]
  /\ call' = [call EXCEPT ![t].at = @ + 1]
  /\ UNCHANGED inited
  /\ OnCipher(t)

\* The fs headers of an NCA2.
ResetSector(t) ==
  /\ Goto(t, "reset", "tweak")
  /\ SetSector(0)
  /\ UNCHANGED <<inited, call>>
  /\ OnCipher(t)

Decrypting(t) ==
  Enter(t) \/ Construct(t) \/ Flag(t) \/ Tweak(t) \/ DecryptSector(t) \/ Advance(t) \/ ResetSector(t)

-----------------------------------------------------------------------------
(* The calls that decrypt a header.                                         *)

\* A Python program has one call in progress, whichever of its threads it is on.
Free(t) == python => \A u \in Threads : pc[u] = "idle"

Begin(t, op, f) ==
  /\ Free(t)
  /\ calls[t] < CallBound
  /\ Goto(t, "idle", "enter")
  /\ call' = [call EXCEPT ![t] = [op |-> op, file |-> f, at |-> 0, right |-> {}]]
  /\ calls' = [calls EXCEPT ![t] = @ + 1]
  /\ answer' = [answer EXCEPT ![t] = NoAnswer]
  /\ obj' = [obj EXCEPT ![t] = IF python /\ op = "match" THEN @ ELSE None]
  /\ alone' = [alone EXCEPT ![t] = TRUE]
  /\ UNCHANGED <<python, keys, inited, cipher>>

NewNcaMut(f, right) ==
  [file |-> f, right |-> right, num |-> MaxSections, depth |-> 0,
   sections |-> <<>>, parsed |-> FALSE, again |-> FALSE, list |-> <<>>]

\* The constructor of Nca, its header decrypted.
NewNca(f, right) ==
  [file     |-> f,
   right    |-> right,
   num      |-> Cardinality({i \in Entries : Exists(f, right, i)}),
   depth    |-> 0,      \* times header.key_area went through its cipher
   sections |-> <<>>,
   parsed   |-> FALSE,  \* hac.py: parsed
   again    |-> FALSE,  \* history: parse was called when it was parsed
   list     |-> <<>>]   \* hac.py: _sections

\* Of a match that says Nca, File::make_container makes an NcaContainer, which
\* decrypts the header once more.
Matched(t) ==
  LET f == call[t].file
      known == Magic(f, call[t].right) \in Magics
  IN  /\ call[t].op = "match"
      /\ IF known /\ ~python
         THEN /\ Goto(t, "decrypted", "enter")
              /\ call' = [call EXCEPT ![t] = [op |-> "new", file |-> f, at |-> 0, right |-> {}]]
              /\ UNCHANGED answer
         ELSE /\ Goto(t, "decrypted", "idle")
              /\ call' = [call EXCEPT ![t] = Idle]
              /\ answer' = [answer EXCEPT ![t] = Answer(IF known THEN "nca" ELSE "unknown", <<>>)]
      /\ UNCHANGED <<python, keys, inited, cipher, obj, calls, alone>>

Constructed(t) ==
  /\ call[t].op = "new"
  /\ Goto(t, "decrypted", IF python THEN "idle" ELSE "parse")
  /\ obj' = [obj EXCEPT ![t] = NewNca(call[t].file, call[t].right)]
  /\ call' = [call EXCEPT ![t] = Idle]
  /\ UNCHANGED <<python, keys, inited, cipher, answer, calls, alone>>

-----------------------------------------------------------------------------
(* Nca::parse and what is listed.                                           *)

\* The sections parse makes, in the order of their entries.
Supported(f, right) ==
  InOrder({i \in Entries : Exists(f, right, i) /\ Encryption(f, right, i) \in {"None", "AesCtr"}})

TitlekeyKnown(id) == userKey # None \/ id \in titlekeys

\* What body_key is: the right one, or why not.
BodyKey(o) ==
  LET id == RightsId(o.file, o.right)
  IN  CASE "area" \notin console                               -> "unloaded"
        [] id # None /\ userKey \notin {None, id}              -> "other"
        [] id = None /\ o.depth > 0                            -> "twice"
        [] OTHER                                               -> "right"

MadeSections(o) ==
  LET made == Supported(o.file, o.right)
  IN  [k \in DOMAIN made |->
         [entry |-> made[k],
          key   |-> IF Encryption(o.file, o.right, made[k]) = "None" THEN "plain" ELSE BodyKey(o)]]

ParseFails(o) ==
  LET id == RightsId(o.file, o.right) IN id # None /\ ~TitlekeyKnown(id)

ParsedMut(o) ==
  IF ParseFails(o) THEN [o EXCEPT !.sections = @ \o MadeSections(o)]
  ELSE [o EXCEPT !.sections = @ \o MadeSections(o),
                 !.depth    = IF RightsId(o.file, o.right) = None THEN @ + 1 ELSE @]

Parsed(o) ==
  IF ParseFails(o) THEN o
  ELSE [o EXCEPT !.sections = @ \o MadeSections(o),
                 !.depth    = IF RightsId(o.file, o.right) = None THEN @ + 1 ELSE @]

Parse(t) ==
  /\ Goto(t, "parse", IF ParseFails(obj[t]) THEN "idle" ELSE "list")
  /\ obj' = [obj EXCEPT ![t] = Parsed(@)]
  /\ answer' = [answer EXCEPT ![t] = IF ParseFails(obj[t]) THEN Answer("failed", <<>>) ELSE @]
  /\ UNCHANGED <<python, keys, inited, cipher, call, calls, alone>>

\* NcaContainer::read_files: the name of a section is its place in the list.
\* Beyond the sections that were parsed, get_section is undefined.
Listing(o) ==
  [k \in 1 .. o.num |->
     [name    |-> <<k - 1, Image[o.file].entries[o.sections[k].entry].type>>,
      section |-> o.sections[k]]]

ReadFiles(t) ==
  LET o == obj[t]
  IN  /\ Goto(t, "list", "idle")
      /\ answer' = [answer EXCEPT ![t] =
           IF o.num <= Len(o.sections) THEN Answer("listed", Listing(o)) ELSE Answer("undefined", <<>>)]
      /\ UNCHANGED <<python, keys, inited, cipher, call, obj, calls, alone>>

-----------------------------------------------------------------------------
(* The Python program (src/bindings): the methods of hac.py, and what loads *)
(* keys.                                                                    *)

PyValid(o) == Magic(o.file, o.right) \in Magics

PyParsed(o) ==
  IF ~PyValid(o) THEN o
  ELSE IF ParseFails(o) THEN Parsed(o)
  ELSE [Parsed(o) EXCEPT !.again = o.parsed, !.parsed = TRUE, !.list = Parsed(o).sections]

Raised == Answer("raised", <<>>)

\* Nca.parse raises when the header is not valid or the title key is not there.
PyParse(t) ==
  /\ python /\ Free(t)
  /\ obj[t] # None /\ Len(obj[t].sections) < SectionBound
  /\ obj' = [obj EXCEPT ![t] = PyParsed(@)]
  /\ answer' = [answer EXCEPT ![t] =
       IF PyValid(obj[t]) /\ ~ParseFails(obj[t]) THEN NoAnswer ELSE Raised]
  /\ UNCHANGED <<python, keys, inited, cipher, pc, call, calls, alone>>

\* Nca.sections parses first if that has not been done.
PySections(t) ==
  /\ python /\ Free(t)
  /\ obj[t] # None
  /\ obj[t].parsed \/ Len(obj[t].sections) < SectionBound
  /\ LET o == IF obj[t].parsed THEN obj[t] ELSE PyParsed(obj[t])
      IN  /\ obj' = [obj EXCEPT ![t] = o]
          /\ answer' = [answer EXCEPT ![t] = IF o.parsed THEN Answer("sections", o.list) ELSE Raised]
  /\ UNCHANGED <<python, keys, inited, cipher, pc, call, calls, alone>>

\* Between calls, or in a mount while another thread opens a file.
KeysLoaded ==
  /\ python => \A t \in Threads : pc[t] = "idle"
  /\ UNCHANGED <<python, inited, cipher, pc, call, obj, answer, calls, alone>>

SetKey(key) == python /\ console' = console \cup {key} /\ UNCHANGED <<titlekeys, userKey>> /\ KeysLoaded

\* Also the tickets a mount finds when it opens a Pfs.
SetTitlekey(id) == titlekeys' = titlekeys \cup {id} /\ UNCHANGED <<console, userKey>> /\ KeysLoaded

\* set_user_titlekey and, with None, remove_user_titlekey.
SetUserTitlekey(id) == python /\ userKey' = id /\ UNCHANGED <<console, titlekeys>> /\ KeysLoaded

-----------------------------------------------------------------------------
InCall(t) == Decrypting(t) \/ Matched(t) \/ Constructed(t) \/ Parse(t) \/ ReadFiles(t)

Next ==
  \/ \E t \in Threads :
       \/ \E f \in Files : Begin(t, "match", f) \/ (python /\ Begin(t, "new", f))
       \/ InCall(t)
       \/ PyParse(t)
       \/ PySections(t)
  \/ \E key \in {"header", "area"} : SetKey(key)
  \/ \E id \in Rights : SetTitlekey(id)
  \/ \E id \in UserKeys \cup {None} : SetUserTitlekey(id)

Spec == Init /\ [][Next]_vars

-----------------------------------------------------------------------------
SectionIn(key) == [entry : Entries, key : key]
Keys == {"plain", "right", "other", "twice", "unloaded"}

TypeOK ==
  /\ python \in BOOLEAN
  /\ console \subseteq {"header", "area"} /\ titlekeys \subseteq Rights
  /\ userKey \in UserKeys \cup {None}
  /\ inited \in BOOLEAN
  /\ cipher.key \in BOOLEAN /\ cipher.sector \in Nat /\ cipher.iv \in Nat \cup {NoTweak}
  /\ \A t \in Threads :
       /\ pc[t] \in PCs /\ alone[t] \in BOOLEAN
       /\ calls[t] \in 0 .. CallBound
       /\ call[t].op \in {"match", "new"} /\ call[t].file \in Files \cup {None}
       /\ call[t].right \subseteq Sectors
       /\ call[t].at \in Sectors \cup {MaxSections + 2}
       /\ pc[t] \in Inside => call[t].at \in Sectors
       /\ obj[t] # None =>
            /\ obj[t].num \in 0 .. MaxSections
            /\ obj[t].sections \in Seq(SectionIn(Keys)) /\ obj[t].list \in Seq(SectionIn(Keys))

Whole(f) == IF Image[f].magic = "other" THEN {0, 1} ELSE Sectors

\* A header decrypted while nobody else uses the cipher comes out whole, whatever
\* races left in it before, and also when it is the first one, if the header key
\* was there at the first of all calls (nca.cpp:82-103).
HeaderRight ==
  \A t \in Threads :
    pc[t] = "decrypted" /\ alone[t] /\ cipher.key => call[t].right = Whole(call[t].file)

AllSupported(f) == \A i \in Entries : Image[f].entries[i].enc # "AesCtrEx"

\* What a handler that nobody disturbs makes of an archive it recognised.  It
\* opens unless its title key is missing.  Its sections are listed each once and
\* in order, with the key of the archive, unless the user gave another, or the
\* key file has a header key only: then they are listed under one that is made of
\* zeros.  The sections beyond those that were parsed are read only when there
\* is one that the library does not support (vfs.cpp:48-82, containers.cpp:82-93,
\* keys.cpp:63-77, nca.cpp:115-171).
OpenRight ==
  \A t \in Threads :
    LET a == answer[t]
        o == obj[t]
    IN  ~python /\ alone[t] /\ o # None /\ pc[t] = "idle" =>
          /\ a.is \in {"listed", "failed", "undefined"}
          /\ a.is = "failed" => Image[o.file].rights # None /\ userKey = None
          /\ a.is = "undefined" => ~AllSupported(o.file)
          /\ a.is = "listed" =>
               /\ [k \in DOMAIN a.files |-> a.files[k].section.entry] =
                    InOrder({i \in Entries : Image[o.file].entries[i].enc # "Absent"})
               /\ \A k \in DOMAIN a.files :
                    LET key == a.files[k].section.key
                    IN  /\ key \in {"plain", "right", "other", "unloaded"}
                        /\ key = "other" => userKey # None
                        /\ key = "unloaded" => "area" \notin console

\* Nca.sections of a Python program holds each section the library can read once
\* and in order, however often parse failed before its title key was set, if the
\* program did not call parse again itself; and its key area went through its
\* cipher once (hac.py:317-330 and 367-372, nca.cpp:144-171).
SectionsRight ==
  \A t \in Threads :
    LET listed == answer[t].files
    IN  answer[t].is = "sections" /\ ~obj[t].again =>
          /\ [k \in DOMAIN listed |-> listed[k].entry] = Supported(obj[t].file, Sectors)
          /\ \A k \in DOMAIN listed : listed[k].key # "twice"

\* An archive is recognised by the magic of its header, on every thread
\* (README.md:19; nca.cpp:105-110).
Recognised ==
  \A t \in Threads :
    pc[t] = "decrypted" /\ cipher.key /\ Image[call[t].file].magic # "other" =>
      Magic(call[t].file, call[t].right) \in Magics
=============================================================================
