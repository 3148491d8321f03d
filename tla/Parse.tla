------------------------------- MODULE Parse -------------------------------
(***************************************************************************)
(* Numbers, addresses and settings written as text: atoi and its kin       *)
(* (sysutil.c), the arguments of PORT and EPRT (postlogin.c,               *)
(* ipaddrparse.c), the settings of vsftpd (parseconf.c, tunables.c and the *)
(* start of main.c) and the users they name (cosswitch.cpp).               *)
(***************************************************************************)
EXTENDS Str

CONSTANT
  MaxDigits     \* 15 in sysutil.c: the most digits of a file size

ASSUME ParseAssumption == MaxDigits \in Nat \ {0}

-----------------------------------------------------------------------------
(* Numbers.                                                                *)

\* The value of a run of digits; numbers stay below the limits of an int.
ValueOf(s, base) == FoldLeft(LAMBDA v, c : base * v + (Place(Digits, c) - 1), 0, s)
\* The longest start of s whose characters are all in set.
Leading(s, set) ==
  SubSeq(s, 1, Min({i \in 0 .. Len(s) : i = Len(s) \/ s[i + 1] \notin set}))

\* atoi: space, a sign, digits; anything else ends the number.
vsf_sysutil_atoi(s) ==
  LET rest == str_mid_to_end(s, Len(Leading(s, {" ", LF, CR})))
      sign == IF rest # <<>> /\ rest[1] = "-" THEN -1 ELSE 1
      body == IF rest # <<>> /\ rest[1] \in {"-", "+"} THEN Tail(rest) ELSE rest
  IN sign * ValueOf(Leading(body, ToSet(Digits)), 10)

\* vsf_sysutil_a_to_filesize_t: zero for anything but a short run of digits.
vsf_sysutil_a_to_filesize_t(s) ==
  IF Len(s) > MaxDigits \/ \E i \in 1 .. Len(s) : ~isdigit(s[i]) THEN 0 ELSE ValueOf(s, 10)

vsf_sysutil_octal_to_uint(s) == ValueOf(Leading(s, ToSet(SubSeq(Digits, 1, 8))), 8)

\* "%lu", "%d", "%lld" and, with base 8, "%o".
RECURSIVE Numeral(_, _)
Numeral(n, base) ==
  IF n < 0 THEN <<"-">> \o Numeral(-n, base)
  ELSE IF n < base THEN <<Digits[n + 1]>>
  ELSE Append(Numeral(n \div base, base), Digits[(n % base) + 1])
vsf_sysutil_uint_to_octal(n) == IF n = 0 THEN <<"0">> ELSE <<"0">> \o Numeral(n, 8)

-----------------------------------------------------------------------------
(* Addresses are sequences of bytes; Bad is the null pointer.              *)

Bad == <<-1>>

RECURSIVE Fields(_, _, _)
Fields(s, sep, items) ==
  LET split == str_split_char(s, sep)
      n == vsf_sysutil_atoi(split.lhs)
      more == Fields(split.rhs, sep, items - 1)
  IN IF (items > 1) = (split.rhs = <<>>) \/ n \notin 0 .. 255 THEN Bad
     ELSE IF items = 1 THEN <<n>>
     ELSE IF more = Bad THEN Bad ELSE <<n>> \o more

vsf_sysutil_parse_uchar_string_sep(s, sep, items) == Fields(s, sep, items)
vsf_sysutil_parse_ipv4(s) == vsf_sysutil_parse_uchar_string_sep(s, ".", 4)

Hex == Digits \o SubSeq(Uppers, 1, 6)
ipv6_parse_hex(s) ==
  LET value(t) == FoldLeft(LAMBDA v, c : IF v > 65535 THEN v ELSE 16 * v + (Place(Hex, toupper(c)) - 1), 0, t)
  IN IF (\E i \in 1 .. Len(s) : Place(Hex, toupper(s[i])) = 0) \/ value(s) > 65535 THEN Bad
     ELSE <<value(s) \div 256, value(s) % 256>>

\* Four numbers, each of at least one digit and at most 255: done holds the
\* numbers before a dot, val and seen are those of the code.
ipv4_parse_dotquad(s) ==
  LET step(d, c) ==
        CASE c = "." -> [ok |-> d.ok /\ d.seen /\ Len(d.done) < 3, done |-> Append(d.done, d.val),
                         val |-> 0, seen |-> FALSE]
          [] isdigit(c) -> LET v == 10 * d.val + (Place(Digits, c) - 1)
                           IN [d EXCEPT !.ok = @ /\ v <= 255, !.val = Min({v, 256}), !.seen = TRUE]
          [] OTHER -> [d EXCEPT !.ok = FALSE]
      end == FoldLeft(step, [ok |-> TRUE, done |-> <<>>, val |-> 0, seen |-> FALSE], s)
  IN IF end.ok /\ Len(end.done) = 3 /\ end.seen THEN Append(end.done, end.val) ELSE Bad

\* ipv6_parse_main: groups between colons, none of them empty; a colon at the
\* end is not seen, since nothing is left after it.
RECURSIVE ipv6_parse_main(_)
ipv6_parse_main(s) ==
  LET split == str_split_char(s, ":")
      group == IF str_locate_text(split.lhs, <<".">>) # NotFound THEN ipv4_parse_dotquad(split.lhs)
               ELSE ipv6_parse_hex(split.lhs)
      more == ipv6_parse_main(split.rhs)
  IN IF s = <<>> THEN <<>>
     ELSE IF split.lhs = <<>> \/ group = Bad THEN Bad
     ELSE IF more = Bad THEN Bad ELSE group \o more

Nulls(n) == [i \in 1 .. n |-> 0]
\* Mutant: the zeros of "::" are put at the end.
GapLast(lhs, rhs) == lhs \o rhs \o Nulls(16 - Len(lhs) - Len(rhs))
\* The zeros that "::" stands for, only when something follows it.
Gap(lhs, rhs) == IF rhs = <<>> THEN lhs ELSE lhs \o Nulls(16 - Len(lhs) - Len(rhs)) \o rhs

vsf_sysutil_parse_ipv6(s) ==
  LET split == str_split_text(s, <<":", ":">>)
      lhs == ipv6_parse_main(split.lhs)
      rhs == ipv6_parse_main(split.rhs)
  IN IF lhs = Bad \/ rhs = Bad THEN Bad
     ELSE IF Len(lhs) + Len(rhs) > 16 THEN Bad
     ELSE Gap(lhs, rhs)

\* struct vsf_sysutil_sockaddr: four bytes or sixteen, by family.
Mapped == Nulls(10) \o <<255, 255>>
is_ipv6(addr) == Len(addr) = 16
vsf_sysutil_sockaddr_ipv6_v4(addr) ==
  IF is_ipv6(addr) /\ SubSeq(addr, 1, 12) = Mapped THEN SubSeq(addr, 13, 16) ELSE Bad
vsf_sysutil_sockaddr_addr_equal(a, b) ==
  IF Len(a) = Len(b) THEN a = b
  ELSE IF is_ipv6(b) THEN vsf_sysutil_sockaddr_ipv6_v4(b) = a
  ELSE vsf_sysutil_sockaddr_ipv6_v4(a) = b

\* vsf_sysutil_sockaddr_set_ipv4addr and set_ipv6addr on an address of the
\* family of local.  An IPv6 address shorter than 16 bytes is copied with
\* whatever the string buffer held behind it: junk.
SetAddr(local, raw, junk) ==
  IF ~is_ipv6(local) THEN raw
  ELSE IF Len(raw) = 4 THEN Mapped \o raw
  ELSE raw \o SubSeq(junk, Len(raw) + 1, 16)

IPPORT_RESERVED == 1024
PortLegal(remote, addr, port, promiscuous) ==
  promiscuous \/ (vsf_sysutil_sockaddr_addr_equal(remote, addr) /\ port >= IPPORT_RESERVED)

Refused(why) == [reply |-> why, addr |-> <<>>, port |-> 0]
\* The end of both handlers: p_port_sockaddr is set, and freed again if the
\* client may not name it.
SetPort(local, remote, raw, port, promiscuous, junk) ==
  LET addr == SetAddr(local, raw, junk)
  IN IF PortLegal(remote, addr, port, promiscuous)
       THEN [reply |-> "PORTOK", addr |-> addr, port |-> port]
       ELSE Refused("illegal")

handle_port(arg, local, remote, promiscuous) ==
  LET v == vsf_sysutil_parse_uchar_string_sep(arg, ",", 6)
  IN IF v = Bad THEN Refused("illegal")
     ELSE SetPort(local, remote, SubSeq(v, 1, 4), 256 * v[5] + v[6], promiscuous, <<>>)

handle_eprt(arg, local, remote, promiscuous, junk) ==
  LET first == str_split_char(arg, "|")
      second == str_split_char(first.rhs, "|")
      third == str_split_char(second.rhs, "|")
      fourth == str_split_char(third.rhs, "|")
      proto == vsf_sysutil_atoi(second.lhs)
      raw == IF proto = 2 THEN vsf_sysutil_parse_ipv6(str_split_char(third.lhs, "%").lhs)
             ELSE vsf_sysutil_parse_ipv4(third.lhs)
      port == vsf_sysutil_atoi(fourth.lhs)
  IN CASE first.lhs # <<>> -> Refused("bad")
       [] first.lhs = <<>> /\ (proto \notin {1, 2} \/ (~is_ipv6(local) /\ proto = 2)) -> Refused("protocol")
       [] OTHER ->
            IF raw = Bad \/ fourth.rhs # <<>> \/ fourth.lhs = <<>> \/ port \notin 0 .. 65535
              THEN Refused("bad")
              ELSE SetPort(local, remote, raw, port, promiscuous, junk)

-----------------------------------------------------------------------------
(* Settings.  One name stands for each of the three tables; a string of    *)
(* zero pointer is empty.  dead is set when die2() is called.              *)

parseconf_str_array == {<<"s">>}
parseconf_bool_array == {<<"b">>}
parseconf_uint_array == {<<"n">>}
tunables_load_defaults == [str |-> <<"d">>, bool |-> FALSE, uint |-> 3, dead |-> FALSE]

Yes == {<<"Y", "E", "S">>, <<"T", "R", "U", "E">>, <<"1">>}
No == {<<"N", "O">>, <<"F", "A", "L", "S", "E">>, <<"0">>}
\* "0" first means octal; a negative number becomes a large one.
UintValue(value) == IF value[1] = "0" THEN vsf_sysutil_octal_to_uint(value) ELSE vsf_sysutil_atoi(value)

Dies(t, errs_fatal) == [t EXCEPT !.dead = @ \/ errs_fatal]

vsf_parseconf_load_setting(t, line, errs_fatal) ==
  LET p == str_split_char(str_mid_to_end(line, Len(Leading(line, {" ", LF, CR}))), "=")
      value == str_upper(p.rhs)
  IN CASE p.lhs \in parseconf_str_array -> [t EXCEPT !.str = p.rhs]
       [] p.lhs \notin parseconf_str_array /\ p.rhs = <<>> -> Dies(t, errs_fatal)
       [] p.lhs \in parseconf_bool_array /\ p.rhs # <<>> ->
            IF value \in Yes \cup No THEN [t EXCEPT !.bool = value \in Yes] ELSE Dies(t, errs_fatal)
       [] p.lhs \in parseconf_uint_array /\ p.rhs # <<>> -> [t EXCEPT !.uint = UintValue(p.rhs)]
       [] OTHER -> Dies(t, errs_fatal)

\* vsf_parseconf_load_file, for a file that can be read: comments start in
\* the first column.  Nothing is read after die2().
vsf_parseconf_load_file(t, text, errs_fatal) ==
  FoldLeft(LAMBDA u, line : IF u.dead \/ str_all_space(line) \/ line[1] = "#" THEN u
                            ELSE vsf_parseconf_load_setting(u, line, errs_fatal),
           t, LinesFrom(text, 0))

NeedsDefault(args) == \A i \in 1 .. Len(args) : args[i].kind # "file"

\* The settings with which main() starts a session: the arguments in order,
\* the default file if they name none, and the file of VSFTPD_LOAD_CONF.
\* An argument is a file, with its text, "-o" and a setting, or another
\* option, which ends the program; a file that is not there is <<NUL>>.
MainLoads(args, default, load_conf) ==
  LET file(t, text) == IF t.dead \/ text = <<NUL>> THEN t ELSE vsf_parseconf_load_file(t, text, TRUE)
      load(t, a) == CASE t.dead -> t
                      [] ~t.dead /\ a.kind = "file" -> file(t, a.text)
                      [] ~t.dead /\ a.kind = "-o" -> vsf_parseconf_load_setting(t, a.text, TRUE)
                      [] OTHER -> Dies(t, TRUE)
      given == FoldLeft(load, tunables_load_defaults, args)
  IN file(IF NeedsDefault(args) THEN file(given, default) ELSE given, load_conf)

-----------------------------------------------------------------------------
(* cos_handle_login.                                                       *)

\* strtok_r: the parts between separators, the empty ones left out.
RECURSIVE Tokens(_, _)
Tokens(s, sep) ==
  LET split == str_split_char(s, sep)
  IN IF s = <<>> THEN <<>>
     ELSE (IF split.lhs = <<>> THEN <<>> ELSE <<split.lhs>>) \o Tokens(split.rhs, sep)

NoLogin == [result |-> -1, permission |-> {}]
EntryIs(entry, user, passwd) == Len(entry) >= 3 /\ entry[1] = user /\ entry[2] = passwd

\* The first entry "user:password:permissions" of login_users that fits.
cos_handle_login(login_users, user, passwd) ==
  LET entries == LET whole == Tokens(login_users, ";") IN [i \in 1 .. Len(whole) |-> Tokens(whole[i], ":")]
      fits == {i \in 1 .. Len(entries) : EntryIs(entries[i], user, passwd)}
  IN IF fits = {} THEN NoLogin
     ELSE [result |-> 0, permission |-> ToSet(str_upper(entries[Min(fits)][3])) \cap {"R", "W"}]
=============================================================================
