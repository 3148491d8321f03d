------------------------------- MODULE MCText -------------------------------
(* The instance of Stream, with every probe of Text beside it: a behaviour   *)
(* is one stream, or one call of one text function.                          *)
EXTENDS MCStream, Text

CONSTANTS MaxFilter, MaxName, MaxPath, MaxMessage, MaxOps

Strings(chars, n) == BoundedSeq(chars, n)

Filters ==
  Strings({"a", "b", "*", "?"}, MaxFilter)
    \cup {<<"{">> \o x \o y \o z : x \in Strings({"a", "b", "*"}, 2), y \in {<<",">>, <<",", "b", "}">>, <<"}">>},
                                   z \in {<<>>, <<"a">>, <<"*">>, <<"?", "}">>, <<"{", "a", "}">>}}
MatchProbes == [name : Strings({"a", "b"}, MaxName) \cup {<<"{", "a">>}, filter : Filters]

Component == {<<"a">>, <<"b">>, <<".">>, <<".", ".">>}
Slashed(names) == Tail(Joined(names))
RelativePaths == {Slashed(n) : n \in BoundedSeq(Component, MaxPath) \ {<<>>}}
Root == get_user_root_dir(<<"/", "h">>, <<"1">>, <<"k">>)
PathProbes ==
  [name : RelativePaths \cup {<<"/">> \o p : p \in RelativePaths} \cup {<<>>, <<"/">>},
   cwd : {Root, Root \o <<"/", "a">>, Root \o <<"/", "b", "/", "a">>}, root : {Root}]

DirProbes ==
  [arg : {o \o f : o \in {<<>>, <<"-", "l", " ">>, <<"-", "t", "r", " ">>},
                   f \in Strings({"a", "/", "*"}, 4) \cup {<<"~", "/", "a">>, <<"~", "u", "/", "a">>, <<"~">>}}
           \cup {<<"-", "l">>},
   isdir : BOOLEAN, stat : BOOLEAN, user_enable : BOOLEAN, home : {<<"/", "h">>},
   homes : {(<<"u">>) :> <<"/", "u">>}]

Entry(n, t, s, m) == [name |-> n, type |-> t, size |-> s, mtime |-> m]
EntrySets ==
  LET x == Entry(<<"a">>, "file", 0, 9)
      y == Entry(<<"b", " ", "a">>, "file", 123456789, 10)
      z == Entry(<<"b", "/">>, "dir", 7, 300)
  IN {<<>>, <<x>>, <<x, y>>, <<y, x>>, <<z, y, x>>, <<x, z, y>>, <<y, z, x>>}
ListProbes ==
  [dir : {<<".">>, <<"a">>, <<"a", "/">>}, option : {<<>>, <<"r">>, <<"t">>, <<"t", "r">>, <<"l", "a">>},
   filter : {<<>>, <<"b", "*">>, <<"?">>, <<"a">>}, verbose : BOOLEAN, content : EntrySets, now : {10, 200, 500}]

Decimals(numbers, sep) == Tail(FlattenSeq([i \in 1 .. Len(numbers) |-> <<sep>> \o Numeral(numbers[i], 10)]))
Local4 == <<9, 9, 9, 9>>
Remote4 == <<10, 0, 2, 255>>
Mapped4(a) == Mapped \o a
PortNumbers ==
  {Remote4 \o p : p \in {<<4, 0>>, <<3, 255>>, <<255, 255>>, <<256, 1>>, <<4>>, <<4, 0, 0>>, <<-1, 9>>}}
    \cup {<<10, 0, 2, 1, 4, 0>>, <<10, 0, 256, 255, 4, 0>>, <<10, 0, 2>>}
PortProbe(v, six, mapped, prom) ==
  LET good == Len(v) = 6 /\ \A i \in 1 .. Len(v) : v[i] \in 0 .. 255
  IN [arg |-> Decimals(v, ","), fields |-> IF good THEN SubSeq(v, 1, 4) ELSE Bad,
      port |-> IF good THEN 256 * v[5] + v[6] ELSE 0,
      local |-> IF six THEN Mapped4(Local4) ELSE Local4,
      remote |-> IF six /\ mapped THEN Mapped4(Remote4) ELSE Remote4, promiscuous |-> prom]
PortProbes == {PortProbe(v, six, mapped, prom) : v \in PortNumbers, six \in BOOLEAN, mapped \in BOOLEAN, prom \in BOOLEAN}

\* Groups of an IPv6 address: left of "::" and right of it; gap says whether
\* there is one.
Group(g) == LET h(k) == (IF k > 9 THEN Lowers[k - 9] ELSE Digits[k + 1])
            IN IF g < 16 THEN <<h(g)>> ELSE <<h(g \div 4096), h((g \div 256) % 16), h((g \div 16) % 16), h(g % 16)>>
Groups(gs) == IF gs = <<>> THEN <<>> ELSE Tail(FlattenSeq([i \in 1 .. Len(gs) |-> <<":">> \o Group(gs[i])]))
Six(left, right) == [left |-> left, right |-> right,
                     text |-> Groups(left) \o (IF right = <<>> /\ Len(left) >= 8 THEN <<>> ELSE <<":", ":">>) \o Groups(right)]
SomeGroups == {<<>>, <<65152>>, <<0, 1>>, <<65535, 4660, 0>>, <<1, 2, 3, 4, 5, 6, 7>>, <<1, 2, 3, 4, 5, 6, 7, 4660>>,
               <<1, 2, 3, 4, 5, 6, 7, 8, 9>>}
Ipv6Probes == {Six(l, r) : l \in SomeGroups, r \in SomeGroups}

EprtProbe(six, addr, port, tail, prom) ==
  LET raw == IF six THEN FlattenSeq([i \in 1 .. 2 |-> <<addr[i] \div 256, addr[i] % 256>>]) ELSE addr
      whole == IF six THEN SubSeq(raw, 1, 2) \o Nulls(12) \o SubSeq(raw, 3, 4) ELSE raw
      text == IF six THEN Six(<<addr[1]>>, <<addr[2]>>).text \o <<"%", "1">> ELSE Decimals(addr, ".")
      good == tail = <<"|">> /\ port \in 0 .. 65535 /\ Len(whole) \in {4, 16}
  IN [arg |-> <<"|", IF six THEN "2" ELSE "1", "|">> \o text \o <<"|">> \o Numeral(port, 10) \o tail,
      fields |-> IF good THEN whole ELSE Bad, port |-> port,
      local |-> IF six THEN Nulls(15) \o <<1>> ELSE Local4,
      remote |-> IF six THEN <<254, 128>> \o Nulls(12) \o <<18, 52>> ELSE Remote4,
      promiscuous |-> prom, junk |-> Nulls(16)]
EprtProbes ==
  {EprtProbe(FALSE, a, p, t, b) : a \in {Remote4, <<10, 0, 2, 1>>, <<10, 0, 2>>}, p \in {0, 1023, 1024, 65535, 65536},
                                  t \in {<<"|">>, <<"|", "1">>}, b \in BOOLEAN}
    \cup {EprtProbe(TRUE, a, p, t, b) : a \in {<<65152, 4660>>, <<65152, 4661>>}, p \in {1023, 1024, 65536},
                                        t \in {<<"|">>, <<"|", "1">>}, b \in BOOLEAN}

Line(text) == Append(text, LF)
Settings == {<<"s", "=", "x">>, <<"s", "=">>, <<"b", "=", "y", "e", "s">>, <<"b", "=", "0">>, <<"b", "=", "q">>, <<"b", "=">>,
             <<" ", "n", "=", "1", "2">>, <<"n", "=", "0", "1", "2">>, <<"z", "=", "1">>}
Comments == {<<>>, <<" ">>, <<"#", "b", "=", "q">>}
Files == {<<>>} \cup {Line(l) : l \in Settings \cup Comments} \cup {Line(l) \o k : l \in Settings, k \in Settings}
Args == [kind : {"file"}, text : Files] \cup [kind : {"-o"}, text : Settings]
SettingsProbes ==
  [args : {<<>>} \cup {<<a>> : a \in Args} \cup {<<a, b>> : a \in Args, b \in [kind : {"-o", "file"}, text : Settings]},
   default : {<<NUL>>, <<"b", "=", "1">>, <<"n", "=", "7">>}, load_conf : {<<NUL>>, <<"b", "=", "0">>}]

LoginEntry == [user : {<<"u">>, <<"v">>}, passwd : {<<"p">>, <<"o">>}, perm : {<<"R">>, <<"r", "w">>, <<"x">>}]
Written3(e) == e.user \o <<":">> \o e.passwd \o <<":">> \o e.perm \o <<";">>
LoginProbes ==
  {[entries |-> es, users |-> FlattenSeq([i \in 1 .. Len(es) |-> Written3(es[i])]), user |-> u, passwd |-> p]
     : es \in BoundedSeq(LoginEntry, 2), u \in {<<"u">>, <<"v">>, <<"w">>}, p \in {<<"p">>, <<"o">>}}

UrlProbes ==
  [cwd : {<<>>, <<Slash, 97>>}, name : Strings({97, Slash, Space, Percent, 228}, MaxPath),
   endpoint : {<<104, Slash>>}, appid : {49}, bucket : {<<98>>}, domain : {100}, sign : {<<115, 61>>}]

Letters(n) == [i \in 1 .. n |-> i]
ShaProbes == {LET all == Letters(a + b + c) IN <<SubSeq(all, 1, a), SubSeq(all, a + 1, a + b), SubSeq(all, a + b + 1, a + b + c)>>
                : a \in 0 .. MaxMessage, b \in 0 .. MaxMessage, c \in 0 .. 2}
PartsProbes == {[file |-> Letters(n), slice_size |-> s] : n \in 0 .. 3 * MaxMessage, s \in {SHA_BLOCKSIZE, 2 * SHA_BLOCKSIZE}}

\* Characters of one, two, three and four bytes.
Utf8Chars == {<<97>>, <<195, 164>>, <<228, 184, 173>>, <<240, 159, 152, 128>>}
Gbk == {<<196, 227>>, <<186, 195>>, <<65>>}
Utf8Probes ==
  [text : {FlattenSeq(cs) : cs \in BoundedSeq(Utf8Chars, 4)}, valid : {TRUE}, converted : {<<0>>}]
    \cup [text : {FlattenSeq(cs) : cs \in BoundedSeq(Gbk, 3)}, valid : {FALSE}, converted : {<<0>>}]

XferlogProbes ==
  [date : {<<<<"a">>, <<"b">>, <<"1">>, <<"0">>, <<"9">>>>}, delta_sec : {-1, 0, 12}, remote_ip : {<<"1", ".", "2">>},
   transfer_size : {0, 10}, log_str : {<<"/">> \o s : s \in Strings({"a", " ", "/"}, 3)}, is_ascii : BOOLEAN,
   log_type : {"upload", "download", "delete"}, is_anonymous : BOOLEAN, is_guest : BOOLEAN, anon_pass : {<<"p">>},
   user : {<<"u">>}, succeeded : BOOLEAN]

Sizes == {0, 1, 2, IntMax - 1, IntMax, IntMax + 1, Word - 1}
Filled(c, n) == [i \in 1 .. n |-> c]
MystrOps ==
  [op : {"alloc"}, text : {Filled("a", n) : n \in Sizes}] \cup [op : {"append"}, text : {Filled("b", n) : n \in Sizes}]
    \cup [op : {"trunc", "reserve"}, n : Sizes] \cup [op : {"empty", "free"}]
    \cup [op : {"read"}, text : {<<>>, <<"c">>}, n : {1, IntMax}] \cup [op : {"ssl_read"}, text : {<<"d">>}, ok : BOOLEAN]
MystrProbes == BoundedSeq(MystrOps, MaxOps)

HashProbes ==
  BoundedSeq([op : {"add"}, key : 1 .. 3, value : {7}] \cup [op : {"free"}, key : 1 .. 3], MaxName + MaxOps)
SecbufProbes == BoundedSeq(0 .. 2 * PageSize + 1, MaxOps) \ {<<>>}

MCProbes ==
  [k \in Kinds |->
     CASE k = "match" -> MatchProbes [] k = "path" -> PathProbes [] k = "dir" -> DirProbes [] k = "list" -> ListProbes
       [] k = "pwd" -> Strings({"a", "/", Quote}, 4)
       [] k = "number" -> -20 .. 1100
       [] k = "port" -> PortProbes [] k = "eprt" -> EprtProbes [] k = "ipv6" -> Ipv6Probes
       [] k = "settings" -> SettingsProbes [] k = "login" -> LoginProbes [] k = "url" -> UrlProbes
       [] k = "base64" -> Strings({0, 1, 127, 254}, 4)
       [] k = "sha" -> ShaProbes [] k = "parts" -> PartsProbes [] k = "utf8" -> Utf8Probes
       [] k = "xferlog" -> XferlogProbes [] k = "mystr" -> MystrProbes [] k = "hash" -> HashProbes
       [] k = "secbuf" -> SecbufProbes]

Quiet == /\ kind = "line" /\ source = <<>> /\ is_ascii = FALSE /\ have = 0 /\ pos = 0 /\ offset = 0
         /\ prev_cr = FALSE /\ buf = <<>> /\ out = <<>> /\ lines = <<>> /\ transferred = 0 /\ ret = 0 /\ pc = "done"
MCInit == (Init /\ probe = Idle /\ answer = Unanswered) \/ (Quiet /\ TextInit)
MCNext == (Next /\ UNCHANGED <<probe, answer>>) \/ (Call /\ UNCHANGED vars)
MCFairSpec == /\ MCInit /\ [][MCNext]_<<vars, probe, answer>>
              /\ WF_vars(Progress /\ UNCHANGED <<probe, answer>>)
=============================================================================
