-------------------------------- MODULE Str --------------------------------
(***************************************************************************)
(* struct mystr: a buffer of counted characters that may hold any character*)
(* (str.c), and lists of strings with sort keys (strlist.c).  A string is  *)
(* a sequence of characters, a character is a one-letter string, and the   *)
(* positions that the locate functions return count from 0, as in the C.   *)
(* Allocation and the terminating zero are in module Heap.                 *)
(***************************************************************************)
EXTENDS Integers, Sequences, SequencesExt, FiniteSetsExt

CR == "\r"
LF == "\n"
NUL == "nul"
NotFound == -1

\* The characters the models use, in the order of their codes.
Digits == <<"0", "1", "2", "3", "4", "5", "6", "7", "8", "9">>
Uppers == <<"A", "B", "C", "D", "E", "F", "G", "H", "I", "J", "K", "L", "M", "N", "O", "P", "Q", "R",
            "S", "T", "U", "V", "W", "X", "Y", "Z">>
Lowers == <<"a", "b", "c", "d", "e", "f", "g", "h", "i", "j", "k", "l", "m", "n", "o", "p", "q", "r",
            "s", "t", "u", "v", "w", "x", "y", "z">>
Ascii == <<NUL, LF, CR, " ", "#", "%", "*", "+", ",", "-", ".", "/">> \o Digits
         \o <<":", ";", "=", "?">> \o Uppers \o <<"_">> \o Lowers \o <<"{", "|", "}", "~">>
Place(seq, c) == SelectInSeq(seq, LAMBDA x : x = c)
Code(c) == Place(Ascii, c)

isdigit(c) == Place(Digits, c) # 0
toupper(c) == IF Place(Lowers, c) = 0 THEN c ELSE Uppers[Place(Lowers, c)]
isspace(c) == c \in {" ", LF, CR}
isalnum(c) == Place(Digits \o Uppers \o Lowers, c) # 0

\* str_left, str_right, str_mid_to_end: copies of a part.  The parts asked
\* for are always inside the string; bug() ends the process otherwise.
str_left(s, chars) == SubSeq(s, 1, chars)
str_mid_to_end(s, indexx) == SubSeq(s, indexx + 1, Len(s))

\* The places where text occurs; an empty text occurs nowhere.
Occurrences(s, text) ==
  IF text = <<>> THEN {}
  ELSE {i \in 0 .. Len(s) - Len(text) : SubSeq(s, i + 1, i + Len(text)) = text}

str_locate_text(s, text) ==
  IF Occurrences(s, text) = {} THEN NotFound ELSE Min(Occurrences(s, text))

str_locate_text_reverse(s, text) ==
  IF Occurrences(s, text) = {} THEN NotFound ELSE Max(Occurrences(s, text))

str_locate_chars(s, chars) ==
  LET at == {i \in 1 .. Len(s) : s[i] \in chars}
  IN IF at = {} THEN NotFound ELSE Min(at) - 1

\* str_split_text_common: the part before the text and the part after it; a
\* string without the text stays whole and the second part is empty.
SplitAt(s, at, len) ==
  IF at = NotFound THEN [lhs |-> s, rhs |-> <<>>]
  ELSE [lhs |-> str_left(s, at), rhs |-> str_mid_to_end(s, at + len)]

str_split_text(s, text) == SplitAt(s, str_locate_text(s, text), Len(text))
str_split_char(s, c) == str_split_text(s, <<c>>)
str_split_char_reverse(s, c) == SplitAt(s, str_locate_text_reverse(s, <<c>>), 1)

\* str_replace_text: the left part of each split and, after a hit, the new
\* text; the right part is split again until nothing is left.
RECURSIVE str_replace_text(_, _, _)
str_replace_text(s, from, to) ==
  LET split == str_split_text(s, from)
      hit == Len(split.lhs) < Len(s)
  IN split.lhs \o (IF hit THEN to ELSE <<>>)
       \o (IF split.rhs = <<>> THEN <<>> ELSE str_replace_text(split.rhs, from, to))

str_replace_char(s, from, to) == [i \in 1 .. Len(s) |-> IF s[i] = from THEN to ELSE s[i]]

str_upper(s) == [i \in 1 .. Len(s) |-> toupper(s[i])]
str_all_space(s) == \A i \in 1 .. Len(s) : isspace(s[i])

\* str_getline: the line that starts at pos, and where the next one starts.
str_getline(s, pos) ==
  LET end == {i \in pos .. Len(s) : i = Len(s) \/ s[i + 1] = LF}
      curr == Min(end)
  IN [line |-> SubSeq(s, pos + 1, curr),
      pos |-> IF curr < Len(s) THEN curr + 1 ELSE curr]

\* The loop over str_getline that parses files and banners.
RECURSIVE LinesFrom(_, _)
LinesFrom(s, pos) ==
  IF pos = Len(s) THEN <<>>
  ELSE <<str_getline(s, pos).line>> \o LinesFrom(s, str_getline(s, pos).pos)

\* str_equal_internal: memcmp over the shorter length, then the lengths.
str_strcmp(s, t) ==
  LET n == Min({Len(s), Len(t)})
      differ == {i \in 1 .. n : s[i] # t[i]}
  IN IF differ # {} THEN Code(s[Min(differ)]) - Code(t[Min(differ)]) ELSE Len(s) - Len(t)

\* str_rpad and str_lpad.
Blanks(n) == [i \in 1 .. n |-> " "]
str_rpad(s, min_width) == IF Len(s) >= min_width THEN s ELSE s \o Blanks(min_width - Len(s))
str_lpad(s, min_width) == IF Len(s) >= min_width THEN s ELSE Blanks(min_width - Len(s)) \o s

\* str_list_add: a string and its sort key, which may be empty.
Node(s, key) == [str |-> s, sort_key |-> key]

\* str_list_sort: qsort by the sort key, or by the string of a node without
\* one.  Nodes that compare equal come in any order; SetToSortSeq picks one.
SortKey(node) == IF node.sort_key # <<>> THEN node.sort_key ELSE node.str
sort_compare(a, b, reverse) ==
  IF reverse THEN str_strcmp(SortKey(b), SortKey(a))
  ELSE str_strcmp(SortKey(a), SortKey(b))
str_list_sort(list, reverse) ==
  LET before(i, j) ==
        LET c == sort_compare(list[i], list[j], reverse) IN c < 0 \/ (c = 0 /\ i < j)
      order == SetToSortSeq(1 .. Len(list), before)
  IN [i \in 1 .. Len(list) |-> list[order[i]]]
=============================================================================
