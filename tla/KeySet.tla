-------------------------------- MODULE KeySet --------------------------------
(***************************************************************************)
(* The console keys and title keys (src/lib/keyset.cpp, keyset.hpp), and   *)
(* the two programs that load them: the command line, which reads a file   *)
(* of each kind into a new set and then the --titlekey option              *)
(* (KeyOptions::init), and a Python program, which adds the lines of as    *)
(* many files as it likes to the sets of the process (Keys of hac.py).     *)
(*                                                                         *)
(* A name is a sequence of syllables, the digits of a generation among     *)
(* them, so that one name can begin another; case is folded away.  The     *)
(* object KeySet is its memory, one row per AES key in the order of        *)
(* declaration: a generation too large names a row behind its array.       *)
(***************************************************************************)
EXTENDS Naturals, Sequences

CONSTANTS
  Keys,         \* values of keys
  Zero,         \* the key of zeros a new set is filled with
  Noise,        \* a key made of characters that were no key
  Text,         \* a value that is not hexadecimal
  Missing,      \* no title key, no user key
  Rights,       \* rights ids of archives
  Digits,       \* the hexadecimal digits, in order
  Generations,  \* master keys, and title key encryption keys
  Lines,        \* lines of key files: records [form, name, value]
  TitleLines,   \* lines of title key files
  LineBound     \* lines, tickets and calls that set keys, of all kinds

\* The names tested in full, in the order of the tests (keyset.cpp:65-76), and
\* the rows of each.
Singles ==
  <<<<"aes_k", "ek_generation_source">>, <<"aes_k", "ey_generation_source">>,
    <<"key_area_key_", "application_source">>, <<"key_area_key_", "ocean_source">>,
    <<"key_area_key_", "system_source">>, <<"header_key">>>>

Rows == 1 .. 2 * Generations + 7

SingleRows(i) ==
  IF i = 6 THEN {2 * Generations + 1, 2 * Generations + 2} ELSE {2 * Generations + 2 + i}

IsDigit(s) == \E d \in 1 .. Len(Digits) : Digits[d] = s
DigitValue(s) == (CHOOSE d \in 1 .. Len(Digits) : Digits[d] = s) - 1
Number(s1, s2) == Len(Digits) * DigitValue(s1) + DigitValue(s2)

-----------------------------------------------------------------------------
(* KeySet::set_key.                                                         *)

SameMut(lhs, rhs) ==
  /\ lhs # <<>> /\ rhs # <<>>
  /\ \A i \in 1 .. Len(lhs) : i <= Len(rhs) => lhs[i] = rhs[i]

\* operator == of keyset.cpp: only the left side is compared to its end.
Same(lhs, rhs) ==
  /\ lhs # <<>> /\ rhs # <<>>
  /\ Len(lhs) <= Len(rhs) /\ \A i \in 1 .. Len(lhs) : lhs[i] = rhs[i]

SingleNamed(id) == {i \in 1 .. 6 : Same(id, Singles[i])}

IsGeneration(prefix, id) ==
  Same(<<prefix>>, id) /\ \A i \in 2 .. Len(id) : IsDigit(id[i])

\* The rows an identifier stands for: of several keys it begins, the first one
\* tested; of a generation, two digits, whether or not the arrays have it.
RowsSet(id) ==
  IF SingleNamed(id) # {}
  THEN SingleRows(CHOOSE i \in SingleNamed(id) : \A j \in SingleNamed(id) : i <= j)
  ELSE IF IsGeneration("master_key_", id) THEN {Number(id[2], id[3]) + 1}
  ELSE IF IsGeneration("titlekek_", id) THEN {Generations + Number(id[2], id[3]) + 1}
  ELSE {}

Generational(id) ==
  SingleNamed(id) = {} /\ (IsGeneration("master_key_", id) \/ IsGeneration("titlekek_", id))

\* at() throws when there are fewer than two digits, and nobody catches it.
Throws(id) == Generational(id) /\ Len(id) < 3

\* A generation its array does not have: what std::array does then is undefined.
Overruns(id) == Generational(id) /\ Len(id) >= 3 /\ Number(id[2], id[3]) >= Generations

SetKeyMut(set, id, value) ==
  [r \in Rows |-> IF r \in RowsSet(id) THEN value ELSE set[r]]

SetKey(set, id, value) ==
  [r \in Rows |-> IF value \in Keys /\ r \in RowsSet(id) THEN value ELSE set[r]]

-----------------------------------------------------------------------------
(* Lines of key files, and the values they are made of: "pair" has a name   *)
(* and a value apart by blanks and =, "tabs" by tabs and =, "bare" a name   *)
(* only, "note" is a comment, "blank" an empty line.                        *)

Forms == {"pair", "tabs", "bare", "note", "blank"}

\* parse_line of keys.cpp: a tab is a character of the name and of the value;
\* without a value, the value starts before the line (and is undefined there).
ReadLine(l) ==
  [id    |-> IF l.form = "tabs" THEN Append(l.name, "tab") ELSE l.name,
   value |-> IF l.form = "pair" THEN l.value ELSE Text]

\* _key_reg of hac.py, which skips a line it does not match.
Matches(l) == l.form \in {"pair", "tabs"} /\ l.value \in Keys

Line == [form : Forms, name : Seq(STRING), value : Keys \cup {Text}]

ASSUME KeySetAssumption ==
  /\ Generations \in Nat \ {0} /\ LineBound \in Nat
  /\ {Zero, Noise, Text, Missing} \cap Keys = {}
  /\ Missing \notin {Zero, Noise}
  /\ Rights \subseteq STRING \ {"tab"}
  /\ Lines \cup TitleLines \subseteq Line

VARIABLES
  host,      \* "cli" or "python"
  pc,        \* which file is read; the option is taken; nothing; or the end
  rows,      \* the KeySet
  titles,    \* TitlekeySet::map on the ids of archives
  user,      \* TitlekeySet::cli_key
  given,     \* history: the lines that went into the KeySet
  tgiven     \* history: the lines, tickets and calls that went into the map

vars == <<host, pc, rows, titles, user, given, tgiven>>

Init ==
  /\ host \in {"cli", "python"}
  /\ pc = IF host = "cli" THEN "console" ELSE "idle"
  /\ rows = [r \in Rows |-> Zero]
  /\ titles = [id \in Rights |-> Missing]
  /\ user = Missing
  /\ given = <<>>
  /\ tgiven = <<>>

-----------------------------------------------------------------------------
(* The loops over the lines of a file, of which each line comes as it is    *)
(* read.                                                                    *)

Alive == pc \notin {"ended", "undefined"}
Bounded == Len(given) + Len(tgiven) < LineBound

\* What set_key is called with; a line hac.py skips is one without a value.
Read(l) ==
  IF host = "cli" THEN ReadLine(l)
  ELSE [id |-> l.name, value |-> IF Matches(l) THEN l.value ELSE Text]

\* A line ends the program when at() throws, or when the build checks the index
\* of an array; when it does not, the key goes to the row it finds there, or
\* outside the set, after which nothing can be told.
ConsoleLine(l) ==
  LET id == Read(l).id
      value == Read(l).value
  IN  /\ pc = "console" /\ Bounded
      /\ given' = Append(given, l)
      /\ \/ /\ value \in Keys /\ (Throws(id) \/ Overruns(id))
            /\ pc' = "ended"
            /\ UNCHANGED rows
         \/ /\ ~(value \in Keys /\ Throws(id))
            /\ pc' = IF value \in Keys /\ ~(RowsSet(id) \subseteq Rows) THEN "undefined" ELSE pc
            /\ rows' = SetKey(rows, id, value)
      /\ UNCHANGED <<host, titles, user, tgiven>>

SetTitleMut(map, name, value) ==
  [id \in Rights |->
     IF name # <<>> /\ name[1] = id /\ map[id] = Missing
     THEN (IF value \in Keys THEN value ELSE Noise) ELSE map[id]]

\* TitlekeySet::set_key takes any characters for an id and for a key.
SetTitle(map, name, value) ==
  [id \in Rights |->
     IF name # <<>> /\ name[1] = id THEN (IF value \in Keys THEN value ELSE Noise) ELSE map[id]]

TitleLine(l) ==
  /\ pc = "titles" /\ Bounded
  /\ titles' = IF host = "cli" \/ Matches(l) THEN SetTitle(titles, Read(l).id, Read(l).value)
               ELSE titles
  /\ tgiven' = Append(tgiven, l)
  /\ UNCHANGED <<host, pc, rows, user, given>>

\* The end of the file, at once when there is none.  KeyOptions::init: the
\* console keys, the title keys, the option.
FileRead ==
  /\ \/ pc = "console" /\ pc' = IF host = "cli" THEN "titles" ELSE "idle"
     \/ pc = "titles" /\ pc' = IF host = "cli" THEN "option" ELSE "idle"
  /\ UNCHANGED <<host, rows, titles, user, given, tgiven>>

Option ==
  /\ pc = "option"
  /\ pc' = "idle"
  /\ user' \in Keys \cup {Missing}
  /\ UNCHANGED <<host, rows, titles, given, tgiven>>

-----------------------------------------------------------------------------
(* The calls of a Python program, and the tickets of either.                *)

InitKeys ==
  /\ host = "python" /\ pc = "idle" /\ Bounded
  /\ pc' \in {"console", "titles"}
  /\ UNCHANGED <<host, rows, titles, user, given, tgiven>>

\* Keys.set_titlekey, on another thread between two lines too, or a ticket that
\* is found when a Pfs is opened, which a command line program does when the
\* keys are loaded.
Ticket(id, key) ==
  /\ Alive /\ (host = "python" \/ pc = "idle")
  /\ Bounded
  /\ titles' = SetTitle(titles, <<id>>, key)
  /\ tgiven' = Append(tgiven, [form |-> "pair", name |-> <<id>>, value |-> key])
  /\ UNCHANGED <<host, pc, rows, user, given>>

\* set_user_titlekey and, with Missing, remove_user_titlekey.
SetUser(key) ==
  /\ Alive /\ host = "python"
  /\ user' = key
  /\ UNCHANGED <<host, pc, rows, titles, given, tgiven>>

\* TitlekeySet::get_key, at() failing when it returns Missing.
GetTitle(id) == IF user # Missing THEN user ELSE titles[id]

Next ==
  \/ \E l \in Lines : ConsoleLine(l)
  \/ \E l \in TitleLines : TitleLine(l)
  \/ FileRead
  \/ Option
  \/ InitKeys
  \/ \E id \in Rights, key \in Keys : Ticket(id, key)
  \/ \E key \in Keys \cup {Missing} : SetUser(key)

Spec == Init /\ [][Next]_vars

-----------------------------------------------------------------------------
TypeOK ==
  /\ host \in {"cli", "python"}
  /\ pc \in {"console", "titles", "option", "idle", "ended", "undefined"}
  /\ rows \in [Rows -> Keys \cup {Zero}]
  /\ titles \in [Rights -> Keys \cup {Noise, Missing}]
  /\ user \in Keys \cup {Missing}
  /\ given \in Seq(Lines) /\ tgiven \in Seq(Line)

\* A line a host reads a key from.
Understood(l) == l.value \in Keys /\ l.form \in IF host = "cli" THEN {"pair"} ELSE {"pair", "tabs"}

\* What a name means: a key by its whole name, or a generation the set has.
Means(name, r) ==
  \/ \E i \in 1 .. 6 : name = Singles[i] /\ r \in SingleRows(i)
  \/ /\ Len(name) = 3 /\ IsDigit(name[2]) /\ IsDigit(name[3])
     /\ Number(name[2], name[3]) < Generations
     /\ \/ name[1] = "master_key_" /\ r = Number(name[2], name[3]) + 1
        \/ name[1] = "titlekek_" /\ r = Generations + Number(name[2], name[3]) + 1

Gives(l, r) == Understood(l) /\ Means(l.name, r)

\* A name that only begins the name of a key.
Begins(name, whole) ==
  /\ name # <<>> /\ Len(name) < Len(whole)
  /\ \A i \in 1 .. Len(name) : name[i] = whole[i]

\* A prefix of generations and nothing but digits, if any.
Numbered(name) ==
  /\ name # <<>> /\ name[1] \in {"master_key_", "titlekek_"}
  /\ \A i \in 2 .. Len(name) : IsDigit(name[i])

\* A name that means no key and may set this one all the same: it begins the name
\* of the key, or it has two digits of this generation and more behind them, or
\* its generation lies beyond its array, where this row is.
Strays(l, r) ==
  /\ Understood(l)
  /\ \/ \E i \in 1 .. 6 : Begins(l.name, Singles[i]) /\ r \in SingleRows(i)
     \/ /\ Numbered(l.name) /\ Len(l.name) >= 3
        /\ Len(l.name) > 3 \/ Number(l.name[2], l.name[3]) >= Generations
        /\ r = Number(l.name[2], l.name[3]) + 1 + (IF l.name[1] = "titlekek_" THEN Generations ELSE 0)

\* A number of less than two digits, or one no generation has.
Unreadable(name) ==
  Numbered(name) /\ (Len(name) < 3 \/ Number(name[2], name[3]) >= Generations)

\* Of the lines with any names at all: each console key is the last one they gave
\* for its whole name, zero before any did, unless a line after it has a name of
\* one of the three kinds that stray; and only a number that cannot be read
\* ends the program (keyset.cpp:27-32 and 53-84, keys.cpp:64-79, hac.py:462-484).
KeysFaithful ==
  /\ \A r \in Rows : \E i \in 0 .. Len(given) :
       LET later == i + 1 .. Len(given)
       IN  /\ i > 0 => Gives(given[i], r)
           /\ \A j \in later : ~Gives(given[j], r)
           /\ \/ rows[r] = IF i = 0 THEN Zero ELSE given[i].value
              \/ \E j \in later : Strays(given[j], r) /\ rows[r] = given[j].value
  /\ ~Alive => given # <<>> /\ Understood(given[Len(given)]) /\ Unreadable(given[Len(given)].name)

\* A line that sets the key of a rights id, if only to noise.
Sets(l, id) == l.name # <<>> /\ l.name[1] = id /\ (host = "cli" \/ Understood(l))

\* An archive gets the key the user set while there is one, else the last key a
\* file, a ticket or a call gave for its rights id, and none before; unless the
\* last line with its id was one the program cannot read (keyset.hpp:85-89,
\* keyset.cpp:102-108).
TitleRight ==
  \A id \in Rights :
    IF user # Missing THEN GetTitle(id) = user
    ELSE \/ GetTitle(id) = Missing /\ \A i \in 1 .. Len(tgiven) : ~Sets(tgiven[i], id)
         \/ \E i \in 1 .. Len(tgiven) :
              /\ Sets(tgiven[i], id)
              /\ Understood(tgiven[i]) => GetTitle(id) = tgiven[i].value
              /\ \A j \in i + 1 .. Len(tgiven) : ~Sets(tgiven[j], id)
=============================================================================
