------------------------------ MODULE MCKeySet ------------------------------
(* An instance of KeySet for TLC: digits to base 4 and three generations, of *)
(* sixteen that two digits can name; lines with names that begin like a      *)
(* known one, that begin a known one, generations with too few or too many   *)
(* digits, behind their array and behind the set, comments, and lines apart  *)
(* by tabs or without a value.                                               *)
EXTENDS KeySet

CONSTANTS k1, k2

MCDigits == <<"0", "1", "2", "3">>

Pair(name, value) == [form |-> "pair", name |-> name, value |-> value]
Apart(form, name) == [form |-> form, name |-> name, value |-> Text]

Blank == Apart("blank", <<>>)
Note == Apart("note", <<"#">>)

MCLines ==
  {Blank, Note,
   Pair(<<"header_key">>, k1), Pair(<<"header_key">>, k2), Pair(<<"header_key">>, Text),
   Pair(<<"aes_k", "ey_generation_source">>, k1),
   Pair(<<"header_key", "_source">>, k2),
   Pair(<<"aes_k">>, k2),
   Pair(<<"master_key_", "0", "1">>, k2), Pair(<<"master_key_", "0", "1", "0">>, k1),
   Pair(<<"master_key_", "1", "0">>, k1), Pair(<<"master_key_", "source">>, k1),
   Pair(<<"master_key_", "1">>, k2),
   Pair(<<"titlekek_", "0", "1">>, k1), Pair(<<"titlekek_", "0", "3">>, k2),
   Pair(<<"titlekek_", "3", "3">>, k1),
   [form |-> "tabs", name |-> <<"titlekek_", "0", "1">>, value |-> k2]}

MCTitleLines ==
  {Note, Pair(<<"game">>, k1), Pair(<<"game">>, k2), Pair(<<"other">>, k1),
   [form |-> "tabs", name |-> <<"game">>, value |-> k2], Apart("bare", <<"game">>)}
=============================================================================
