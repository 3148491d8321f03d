------------------------------- MODULE Names -------------------------------
(***************************************************************************)
(* Names: the filter of LIST and of deny_file and hide_file, the real path *)
(* of a name, "~", the argument of LIST, and the lines of a listing.  Pure *)
(* functions over the strings of module Str.                               *)
(***************************************************************************)
EXTENDS Parse

CONSTANTS
  VSFTP_MATCHITERS_MAX,   \* 1000 in defs.h
  TimeWidth               \* 30 in ls.c: digits of the sort key of -t

ASSUME NamesAssumption ==
  /\ VSFTP_MATCHITERS_MAX \in Nat \ {0}
  /\ TimeWidth \in Nat \ {0}

-----------------------------------------------------------------------------
(* vsf_filename_passes_filter.  iters counts the turns of the loop, over   *)
(* all the alternatives of a brace.                                        *)

Token(filter) ==
  LET at == str_locate_chars(filter, {"*", "?", "{"})
  IN IF at = NotFound THEN [text |-> filter, token |-> NUL, rest |-> <<>>]
     ELSE [text |-> str_left(filter, at), token |-> filter[at + 1], rest |-> str_mid_to_end(filter, at + 1)]

Outcome(ok, iters) == [ok |-> ok, iters |-> iters]
AtEnd(name, last, iters) ==
  Outcome((name = <<>> \/ last = "*") /\ iters # VSFTP_MATCHITERS_MAX, iters)

\* The text up to the token is looked for, and must be at the start unless a
\* "*" came before it.
Chop(name, text, must) ==
  LET at == str_locate_text(name, text)
  IN IF text = <<>> THEN [found |-> TRUE, rest |-> name]
     ELSE [found |-> at # NotFound /\ (must => at = 0), rest |-> str_mid_to_end(name, at + Len(text))]

RECURSIVE MatchFrom(_, _, _, _, _)
RECURSIVE Braces(_, _, _, _)

MatchFrom(filter, name, must, last, iters) ==
  IF filter = <<>> \/ iters >= VSFTP_MATCHITERS_MAX THEN AtEnd(name, last, iters)
  ELSE
    LET t == Token(filter)
        c == Chop(name, t.text, must)
        n == iters + 1
    IN CASE ~c.found -> Outcome(FALSE, n)
         [] c.found /\ t.token = "?" ->
              IF c.rest = <<>> THEN Outcome(FALSE, n)
              ELSE MatchFrom(t.rest, Tail(c.rest), TRUE, "?", n)
         [] c.found /\ t.token = "{" /\ str_locate_text(t.rest, <<"}">>) # NotFound ->
              LET close == str_split_char(t.rest, "}")
              IN Braces(close.lhs, close.rhs, c.rest, n)
         [] c.found /\ t.token = "{" /\ str_locate_text(t.rest, <<"}">>) = NotFound ->
              IF c.rest = <<>> \/ c.rest[1] # "{" THEN Outcome(FALSE, n)
              ELSE MatchFrom(t.rest, Tail(c.rest), TRUE, "{", n)
         [] OTHER -> MatchFrom(t.rest, c.rest, FALSE, t.token, n)

\* The alternatives in turn, up to an empty one.
Braces(list, tail, name, iters) ==
  IF list = <<>> THEN Outcome(FALSE, iters)
  ELSE LET split == str_split_char(list, ",")
           try == MatchFrom(split.lhs \o tail, name, TRUE, NUL, iters)
       IN IF split.lhs = <<>> THEN Outcome(FALSE, iters)
          ELSE IF try.ok THEN try ELSE Braces(split.rhs, tail, name, try.iters)

vsf_filename_passes_filter(name, filter) == MatchFrom(filter, name, TRUE, NUL, 0)

\* vsf_access_check_file and vsf_access_check_file_visible, with deny_file or
\* hide_file set: a match of the filter or its text anywhere.
vsf_access_check_file(name, filter) ==
  ~vsf_filename_passes_filter(name, filter).ok /\ str_locate_text(name, filter) = NotFound

-----------------------------------------------------------------------------
(* Paths.  root is the directory of the bucket under user_home_dir, cwd the*)
(* current directory, both as getcwd() gives them.                         *)

EndsWith(s, c) == s # <<>> /\ s[Len(s)] = c
WithSlash(s) == IF EndsWith(s, "/") THEN s ELSE Append(s, "/")

\* get_user_root_dir: user_home_dir/appid/bucket.
get_user_root_dir(home, appid, bucket) ==
  WithSlash(IF home = <<>> THEN <<".", "/">> ELSE home) \o appid \o <<"/">> \o bucket

prepend_session_path_to_filename(s, cwd, root) ==
  (IF s = <<>> \/ s[1] # "/" THEN WithSlash(cwd) ELSE root) \o s

RECURSIVE DropDots(_)
DropDots(s) ==
  LET t == str_replace_text(s, <<"/", ".", "/">>, <<"/">>)
  IN IF Len(t) = Len(s) THEN s ELSE DropDots(t)

\* The directory before "/../" goes.
Climb(split) == str_split_char_reverse(split.lhs, "/").lhs

RECURSIVE DropUps(_)
DropUps(s) ==
  LET split == str_split_text(s, <<"/", ".", ".", "/">>)
  IN IF Len(split.lhs) = Len(s) THEN s
     ELSE DropUps(Climb(split) \o (IF split.rhs = <<>> THEN <<>> ELSE <<"/">> \o split.rhs))

session_real_path(s, cwd, root) == DropUps(DropDots(prepend_session_path_to_filename(s, cwd, root)))

\* vsf_access_session_check_file, the part before deny_file.
UnderRoot(s, cwd, root) ==
  IsPrefix(Append(root, "/"), WithSlash(session_real_path(s, cwd, root)))

\* resolve_tilde; homes gives the home directory of the users there are.
resolve_tilde(s, home, homes, tilde_user_enable) ==
  LET user == str_split_char(Tail(s), "/") IN
  CASE s = <<>> \/ s[1] # "~" -> s
    [] s # <<>> /\ s[1] = "~" /\ (Len(s) = 1 \/ s[2] = "/") -> home \o Tail(s)
    [] OTHER ->
         IF tilde_user_enable /\ user.lhs \in DOMAIN homes
           THEN homes[user.lhs] \o (IF user.rhs = <<>> THEN <<>> ELSE <<"/">> \o user.rhs)
           ELSE s

-----------------------------------------------------------------------------
(* LIST.                                                                   *)

PathPart(filter) == str_split_char_reverse(filter, "/")

\* handle_dir_common: options, directory and filter of an argument; isdir
\* says whether the rest of the argument is a directory of the bucket.
DirArg(arg, isdir, stat_cmd, home, homes, user_enable) ==
  LET opt == arg # <<>> /\ arg[1] = "-"
      split == IF opt THEN str_split_char(Tail(arg), " ") ELSE [lhs |-> <<>>, rhs |-> arg]
      filter == resolve_tilde(split.rhs, home, homes, user_enable)
      option == IF stat_cmd THEN Append(split.lhs, "a") ELSE split.lhs
      part == PathPart(filter)
  IN CASE filter # <<>> /\ ~stat_cmd /\ isdir -> [option |-> option, dir |-> filter, filter |-> <<>>]
       [] filter # <<>> /\ ~(~stat_cmd /\ isdir) /\ str_locate_text(filter, <<"/">>) # NotFound ->
            [option |-> option, dir |-> IF part.lhs = <<>> THEN <<"/">> ELSE part.lhs, filter |-> part.rhs]
       [] OTHER -> [option |-> option, dir |-> <<".">>, filter |-> filter]

Has(option, c) == str_locate_text(option, <<c>>) # NotFound
\* vsf_ls_populate_dir_list: the options; -t turns -r round.
Verbose(option, is_verbose) == is_verbose \/ Has(option, "l")
ReverseOption(option) == IF Has(option, "t") THEN ~Has(option, "r") ELSE Has(option, "r")

\* The base directory as a prefix for names.
Normalised(dir) == IF dir \in {<<".">>, <<>>} THEN <<>> ELSE WithSlash(dir)

Zeros(n) == [i \in 1 .. n |-> "0"]

\* "%030ld".
TimeKey(mtime) == Zeros(TimeWidth - Len(Numeral(mtime, 10))) \o Numeral(mtime, 10)

HalfYear == 182
\* time_get_date, in days: the year when the date is not of the last half year.
time_get_date(mtime, curr_time) ==
  IF mtime > curr_time \/ curr_time - mtime > HalfYear
    THEN <<"J", "a", "n", " ", "0", "2", " ", " ", "2", "0", "1", "6">>
    ELSE <<"J", "a", "n", " ", "0", "2", " ", "1", "0", ":", "2", "0">>

SizeColumn(size) == Append(str_lpad(Numeral(size, 10), 8), " ")

\* build_dir_line: every entry belongs to ftp and has one link.
build_dir_line(name, info, curr_time) ==
  LET ftp == str_rpad(<<"f", "t", "p">>, 8)
  IN <<IF info.type = "file" THEN "-" ELSE "d">> \o [i \in 1 .. 9 |-> "-"] \o <<" ">>
       \o str_lpad(<<"1">>, 4) \o <<" ">> \o ftp \o <<" ">> \o ftp \o <<" ">>
       \o SizeColumn(info.size) \o time_get_date(info.mtime, curr_time) \o <<" ">>
       \o name \o <<CR, LF>>

str_all_normal_char(s) == \A i \in 1 .. Len(s) : isalnum(s[i]) \/ s[i] \in {"-", "_", "."}

\* vsf_ls_populate_dir_list.  one is what COS says of the directory and the
\* filter put together, with a type of "none" when it is nothing; content is
\* what cos_get_list returns for the directory.  Only a list of several
\* lines is sorted.
vsf_ls_populate_dir_list(dir, option, filter, is_verbose, is_stat, one, content, curr_time) ==
  LET base == Normalised(dir)
      line(shown, path, info) == IF Verbose(option, is_verbose) THEN build_dir_line(shown, info, curr_time)
                                 ELSE path \o <<CR, LF>>
      single == <<Node(line(base \o filter, base \o filter, one), base \o filter)>>
      passes(info) == filter = <<>> \/ vsf_filename_passes_filter(info.name, filter).ok
      node(info) == Node(line(info.name, base \o info.name, info),
                         IF Has(option, "t") THEN TimeKey(info.mtime) ELSE info.name)
      kept == SelectSeq(content, passes)
  IN CASE is_stat -> IF one.type = "none" THEN <<>> ELSE single
       [] ~is_stat /\ filter # <<>> /\ one.type = "file" -> single
       [] ~is_stat /\ filter # <<>> /\ one.type # "file" /\ str_all_normal_char(filter) -> <<>>
       [] OTHER -> str_list_sort([i \in 1 .. Len(kept) |-> node(kept[i])], ReverseOption(option))

Quote == "q"     \* the double quote
Doubled(s) == str_replace_text(s, <<Quote>>, <<Quote, Quote>>)
\* handle_pwd: quotes in a path are doubled.
PwdReply(cwd) ==
  <<Quote>> \o Doubled(IF cwd = <<>> THEN <<"/">> ELSE cwd) \o <<Quote>>

-----------------------------------------------------------------------------
(* The line of the xferlog, its date in five words.                        *)

Word1(w) == Append(w, " ")
\* str_replace_char(&s_filename_str, ' ', '_')
NameColumn(name) == str_replace_char(name, " ", "_")

vsf_log_do_log_wuftpd_format(p) ==
  FlattenSeq([i \in 1 .. 5 |-> Word1(p.date[i])])
    \o Word1(Numeral(IF p.delta_sec <= 0 THEN 1 ELSE p.delta_sec, 10))
    \o Word1(p.remote_ip) \o Word1(Numeral(p.transfer_size, 10)) \o Word1(NameColumn(p.log_str))
    \o (IF p.is_ascii THEN <<"a", " ">> ELSE <<"b", " ">>) \o <<"_", " ">>
    \o (IF p.log_type = "upload" THEN <<"i", " ">> ELSE <<"o", " ">>)
    \o (IF p.is_anonymous /\ ~p.is_guest THEN <<"a", " ">> \o Word1(p.anon_pass)
        ELSE <<IF p.is_guest THEN "g" ELSE "r", " ">> \o Word1(p.user))
    \o <<"f", "t", "p", " ", "0", " ", "*", " ">>
    \o (IF p.succeeded THEN <<"c">> ELSE <<"i">>)
=============================================================================
