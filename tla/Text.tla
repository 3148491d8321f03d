-------------------------------- MODULE Text --------------------------------
(***************************************************************************)
(* The functions of modules Names, Parse, Codec and Heap, called with one  *)
(* input each and compared with what they are for.  A probe is a call with *)
(* its arguments, answer is its result.                                    *)
(***************************************************************************)
EXTENDS Names, Codec, Heap

CONSTANT Probes   \* for every kind of call the inputs to try

VARIABLES probe, answer

Kinds == {"match", "path", "dir", "list", "pwd", "number", "port", "eprt", "ipv6", "settings", "login",
          "url", "base64", "sha", "parts", "utf8", "xferlog", "mystr", "hash", "secbuf"}
Unanswered == [done |-> FALSE]
Idle == [kind |-> "none"]

TextInit == /\ \E k \in Kinds : \E p \in Probes[k] : probe = [kind |-> k, in |-> p]
            /\ answer = Unanswered

\* What the function called returns.
Result(k, p) ==
  CASE k = "match" -> [pass |-> vsf_filename_passes_filter(p.name, p.filter),
                       allowed |-> vsf_access_check_file(p.name, p.filter)]
    [] k = "path" -> [real |-> session_real_path(p.name, p.cwd, p.root), under |-> UnderRoot(p.name, p.cwd, p.root)]
    [] k = "dir" -> DirArg(p.arg, p.isdir, p.stat, p.home, p.homes, p.user_enable)
    [] k = "list" -> vsf_ls_populate_dir_list(p.dir, p.option, p.filter, p.verbose, FALSE, [type |-> "none"],
                                              p.content, p.now)
    [] k = "pwd" -> PwdReply(p)
    [] k = "number" -> [atoi |-> vsf_sysutil_atoi(Numeral(p, 10)), size |-> vsf_sysutil_a_to_filesize_t(Numeral(p, 10)),
                        octal |-> vsf_sysutil_octal_to_uint(vsf_sysutil_uint_to_octal(p))]
    [] k = "port" -> handle_port(p.arg, p.local, p.remote, p.promiscuous)
    [] k = "eprt" -> handle_eprt(p.arg, p.local, p.remote, p.promiscuous, p.junk)
    [] k = "ipv6" -> vsf_sysutil_parse_ipv6(p.text)
    [] k = "settings" -> MainLoads(p.args, p.default, p.load_conf)
    [] k = "login" -> cos_handle_login(p.users, p.user, p.passwd)
    [] k = "url" ->
         LET path == get_cos_path_from_disk_path(p.cwd, p.name)
         IN [upload |-> UploadUrl(p.endpoint, p.appid, p.bucket, path), stat |-> StatUrl(p.endpoint, p.appid, p.bucket, path),
             delete |-> DeleteUrl(p.endpoint, p.appid, p.bucket, path), signed |-> SignedFile(p.appid, p.bucket, path),
             download |-> DownloadUrl(p.appid, p.bucket, path, p.domain, p.sign),
             create |-> FolderCreateUrl(p.endpoint, p.appid, p.bucket, FolderPath(path)),
             list |-> FolderListUrl(p.endpoint, p.appid, p.bucket, FolderPath(path)),
             signed_dir |-> SignedFile(p.appid, p.bucket, FolderPath(path)),
             legal |-> IsLegalFilePath(path), legal_dir |-> isLegalFolderPath(FolderPath(path))]
    [] k = "base64" -> Base64Encode(p)
    [] k = "sha" -> sha_final(FoldLeft(sha_update, sha_init, p)).digest
    [] k = "parts" -> conv_file_to_upload_parts(p.file, p.slice_size)
    [] k = "utf8" -> cos_conv_gbk_2_utf(p.text, p.converted)
    [] k = "xferlog" -> vsf_log_do_log_wuftpd_format(p)
    [] k = "mystr" -> MystrAfter(p)
    [] k = "hash" -> HashAfter(p)
    [] k = "secbuf" -> SecbufAfter(p)

Call == /\ probe # Idle /\ answer = Unanswered
        /\ answer' = [done |-> TRUE, out |-> Result(probe.kind, probe.in)]
        /\ UNCHANGED probe

\* A call of this kind was answered.
Answered(k) == probe.kind = k /\ answer.done

-----------------------------------------------------------------------------
(* References.                                                             *)

Drop(s, n) == SubSeq(s, n + 1, Len(s))
\* What a filter without braces stands for: "*" for any text, "?" for any
\* character, everything else for itself.
RECURSIVE Globs(_, _)
Globs(name, filter) ==
  IF filter = <<>> THEN name = <<>>
  ELSE CASE filter[1] = "*" -> \E n \in 0 .. Len(name) : Globs(Drop(name, n), Tail(filter))
         [] filter[1] = "?" -> name # <<>> /\ Globs(Tail(name), Tail(filter))
         [] OTHER -> name # <<>> /\ name[1] = filter[1] /\ Globs(Tail(name), Tail(filter))

\* The filters a brace stands for, one alternative each.
RECURSIVE Expand(_)
Expand(filter) ==
  LET open == str_locate_text(filter, <<"{">>)
      close == str_locate_text(Drop(filter, open + 1), <<"}">>)
      inner == SubSeq(filter, open + 2, open + 1 + close)
      all == Tokens(inner, ",")
  IN IF open = NotFound THEN {filter}
     ELSE IF close = NotFound
       THEN {SubSeq(filter, 1, open + 1) \o e : e \in Expand(Drop(filter, open + 1))}
     ELSE UNION {{SubSeq(filter, 1, open) \o all[k] \o e : e \in Expand(Drop(filter, open + close + 2))}
                   : k \in 1 .. Len(all)}

\* A "*" only at the end, and no braces: a search from the left is exact.
Simple(filter) ==
  \A i \in 1 .. Len(filter) : filter[i] # "{" /\ (filter[i] = "*" => i = Len(filter))

\* The filter lets through only names its text stands for, lets through every
\* such name when a "*" is only at its end, and gives up, refusing, after
\* VSFTP_MATCHITERS_MAX turns over all the alternatives of its braces.  As
\* deny_file it also holds for its bare text inside a name, so that giving up
\* does not let a name through that is written out
\* (vsf_filename_passes_filter, vsf_access_check_file).
FilterAgrees ==
  Answered("match") =>
    LET in == probe.in
        out == answer.out.pass
    IN /\ out.ok => \E f \in Expand(in.filter) : Globs(in.name, f)
       /\ Simple(in.filter) /\ out.iters < VSFTP_MATCHITERS_MAX => (Globs(in.name, in.filter) => out.ok)
       /\ out.iters <= VSFTP_MATCHITERS_MAX
       /\ answer.out.allowed /\ in.filter # <<>> =>
            ~out.ok /\ ~\E i \in 0 .. Len(in.name) : IsPrefix(in.filter, Drop(in.name, i))

\* The names along a path, "." left out and ".." taking one back.
Walk(from, names) ==
  FoldLeft(LAMBDA at, n : CASE n = <<".">> -> at
                            [] n = <<".", ".">> -> IF at = <<>> THEN at ELSE Front(at)
                            [] OTHER -> Append(at, n),
           from, names)
Joined(names) == FlattenSeq([i \in 1 .. Len(names) |-> <<"/">> \o names[i]])

\* A name without empty parts is resolved from the current directory, or from
\* the bucket's when it is absolute; its last part is kept as it is.  And the
\* access check lets through every name that never leaves the bucket on its
\* way (session_real_path, vsf_access_session_check_file).
PathMeans ==
  Answered("path") =>
    LET in == probe.in
        names == Tokens(in.name, "/")
        from == Tokens(IF in.name # <<>> /\ in.name[1] = "/" THEN in.root ELSE in.cwd, "/")
        inside(n) == Len(Walk(from, SubSeq(names, 1, n))) >= Len(Tokens(in.root, "/"))
    IN /\ names # <<>> => answer.out.real = Joined(Walk(from, Front(names)) \o <<Last(names)>>)
       /\ (\A n \in 0 .. Len(names) : inside(n)) => answer.out.under

Absolute(path) == path # <<>> /\ path[1] = "/"
\* The argument of LIST comes apart without loss: the filter has no slash,
\* directory and filter put together are the path behind the options, slashes
\* counted once, and STAT always asks for all names (handle_dir_common).
DirArgKeeps ==
  Answered("dir") =>
    LET in == probe.in
        out == answer.out
        given == resolve_tilde(IF in.arg # <<>> /\ in.arg[1] = "-" THEN str_split_char(Tail(in.arg), " ").rhs ELSE in.arg,
                               in.home, in.homes, in.user_enable)
        base == IF out.dir = <<".">> /\ given # <<".">> THEN <<>> ELSE WithSlash(out.dir)
    IN /\ str_locate_text(out.filter, <<"/">>) = NotFound
       /\ Tokens(base \o out.filter, "/") = Tokens(given, "/")
       /\ Absolute(base \o out.filter) = Absolute(given)
       /\ in.stat => Has(out.option, "a")

\* The words of a line, and what follows eight of them and one space.
RECURSIVE AfterFields(_, _)
AfterFields(line, n) ==
  LET rest == Drop(line, Len(Leading(line, {" "})))
      word == Len(Leading(rest, ToSet(rest) \ {" "}))
  IN IF line = <<>> THEN line ELSE IF n = 0 THEN Tail(line) ELSE AfterFields(Drop(rest, word), n - 1)

\* A client that skips the eight columns of a line of LIST has the name of
\* the entry, blanks in it included, whatever the size and the date are
\* (build_dir_line).
LineNames ==
  Answered("list") /\ Verbose(probe.in.option, probe.in.verbose) =>
    \A i \in 1 .. Len(answer.out) :
      \E e \in 1 .. Len(probe.in.content) :
        AfterFields(answer.out[i].str, 8) = probe.in.content[e].name \o <<CR, LF>>

\* A listing has a line for every entry that the filter lets through and no
\* other; it is in the order of the names, or with -t from the newest to the
\* oldest, and turned round by -r (vsf_ls_populate_dir_list, str_list_sort).
ListingOrder ==
  Answered("list") /\ ~Verbose(probe.in.option, probe.in.verbose) =>
    LET in == probe.in
        out == answer.out
        entry(i) == CHOOSE e \in 1 .. Len(in.content) :
                      out[i].str = Normalised(in.dir) \o in.content[e].name \o <<CR, LF>>
        before(a, b) == IF Has(in.option, "t") THEN a.mtime >= b.mtime ELSE str_strcmp(a.name, b.name) <= 0
        kept == {e \in 1 .. Len(in.content) :
                   in.filter = <<>> \/ vsf_filename_passes_filter(in.content[e].name, in.filter).ok}
    IN /\ in.filter = <<>> \/ ~str_all_normal_char(in.filter) =>
            {entry(i) : i \in 1 .. Len(out)} = kept /\ Len(out) = Cardinality(kept)
       /\ \A i, j \in 1 .. Len(out) : i < j =>
            LET a == in.content[entry(i)]
                b == in.content[entry(j)]
            IN IF Has(in.option, "r") THEN before(b, a) ELSE before(a, b)

\* Quotes taken two for one give the directory back (handle_pwd).
PwdGivesDirectory ==
  Answered("pwd") =>
    LET inner == SubSeq(answer.out, 2, Len(answer.out) - 1)
    IN /\ str_replace_text(inner, <<Quote, Quote>>, <<Quote>>) = (IF probe.in = <<>> THEN <<"/">> ELSE probe.in)
       /\ \A i \in Occurrences(inner, <<Quote>>) : i + 1 \in Occurrences(inner, <<Quote>>)
                                                    \/ i - 1 \in Occurrences(inner, <<Quote>>)

\* A number that is printed and read again is the same, in decimal up to the
\* number of digits a file size may have, and in octal (sysutil.c).
NumbersReadBack ==
  Answered("number") =>
    LET n == probe.in
    IN /\ answer.out.atoi = n
       /\ answer.out.size = IF n < 0 \/ Len(Numeral(n, 10)) > MaxDigits THEN 0 ELSE n
       /\ n >= 0 => answer.out.octal = n

\* The client's own address, in the family of the control connection.
Own(local, raw) == IF is_ipv6(local) /\ Len(raw) = 4 THEN Mapped \o raw ELSE raw

\* PORT and EPRT set the address and the port that were written, whole: a
\* command with numbers missing, too many or too large sets nothing.  Unless
\* port_promiscuous is set, what is set is the address of the client itself
\* and no reserved port (handle_port, handle_eprt).
PortMeans ==
  Answered("port") \/ Answered("eprt") =>
    LET in == probe.in
        out == answer.out
        good == in.fields # Bad /\ (in.promiscuous \/ (in.port >= IPPORT_RESERVED
                  /\ vsf_sysutil_sockaddr_addr_equal(in.remote, Own(in.local, in.fields))))
    IN /\ out.reply = "PORTOK" <=> good
       /\ good => out.port = in.port /\ out.addr = Own(in.local, in.fields)

\* An IPv6 address whose "::" stands before something, or that has none, is
\* read as its bytes, and one of more than sixteen bytes is refused.
\* An address that stops before its sixteenth byte comes out short
\* (vsf_sysutil_parse_ipv6).
Ipv6Means ==
  Answered("ipv6") =>
    LET in == probe.in
        n == 2 * (Len(in.left) + Len(in.right))
        bytes(groups) == FlattenSeq([i \in 1 .. Len(groups) |-> <<groups[i] \div 256, groups[i] % 256>>])
    IN answer.out = IF n > 16 THEN Bad
                    ELSE IF in.right = <<>> THEN bytes(in.left)
                    ELSE bytes(in.left) \o Nulls(16 - n) \o bytes(in.right)

\* The lines that count, in the order they are read.
SettingLines(in) ==
  LET lines(text) == IF text = <<NUL>> THEN <<>>
                     ELSE SelectSeq(LinesFrom(text, 0), LAMBDA l : ~str_all_space(l) /\ l[1] # "#")
      arg(a) == IF a.kind = "file" THEN lines(a.text) ELSE <<a.text>>
      given == FlattenSeq([i \in 1 .. Len(in.args) |-> arg(in.args[i])])
      files == {i \in 1 .. Len(in.args) : in.args[i].kind = "file"}
  IN given \o (IF files = {} THEN lines(in.default) ELSE <<>>) \o lines(in.load_conf)
\* Name and value of a line, and whether vsftpd can do with them.
NameOf(line) == str_split_char(Drop(line, Len(Leading(line, {" "}))), "=").lhs
ValueIn(line) == str_split_char(Drop(line, Len(Leading(line, {" "}))), "=").rhs
Sound(line) ==
  \/ NameOf(line) = <<"s">>
  \/ NameOf(line) = <<"b">> /\ str_upper(ValueIn(line)) \in Yes \cup No
  \/ NameOf(line) = <<"n">> /\ ValueIn(line) # <<>>

\* Every setting has the value of the last line that names it, over all files
\* and options in the order they are read, and its default if none does; a
\* line that makes no sense ends the program, and the default file counts
\* only when no other file is named (main, vsf_parseconf_load_setting).
SettingsLast ==
  Answered("settings") =>
    LET lines == SettingLines(probe.in)
        of(name) == {i \in 1 .. Len(lines) : NameOf(lines[i]) = name}
        value(name) == ValueIn(lines[Max(of(name))])
        out == answer.out
    IN /\ out.dead <=> \E i \in 1 .. Len(lines) : ~Sound(lines[i])
       /\ ~out.dead =>
            /\ out.str = IF of(<<"s">>) = {} THEN tunables_load_defaults.str ELSE value(<<"s">>)
            /\ out.bool = IF of(<<"b">>) = {} THEN tunables_load_defaults.bool
                          ELSE str_upper(value(<<"b">>)) \in Yes
            /\ out.uint = IF of(<<"n">>) = {} THEN tunables_load_defaults.uint
                          ELSE ValueOf(Leading(value(<<"n">>), ToSet(Digits)), IF value(<<"n">>)[1] = "0" THEN 8 ELSE 10)

\* A user logs in with the password of their own entry, and gets what the
\* first such entry allows (cos_handle_login).
LoginFirst ==
  Answered("login") =>
    LET in == probe.in
        own == {i \in 1 .. Len(in.entries) : in.entries[i].user = in.user /\ in.entries[i].passwd = in.passwd}
        allowed(e) == {c \in {"R", "W"} : \E i \in 1 .. Len(e.perm) : toupper(e.perm[i]) = c}
    IN answer.out = IF own = {} THEN NoLogin
                    ELSE [result |-> 0, permission |-> allowed(in.entries[Min(own)])]

\* The bytes that an encoded text stands for.
HexValue(b) == IF b >= 65 THEN b - 65 + 10 ELSE b - 48
RECURSIVE UrlDecode(_)
UrlDecode(s) ==
  IF s = <<>> THEN <<>>
  ELSE IF s[1] = Percent /\ Len(s) > 2 THEN <<16 * HexValue(s[2]) + HexValue(s[3])>> \o UrlDecode(Drop(s, 3))
  ELSE <<s[1]>> \o UrlDecode(Tail(s))
Decoded(url) == LET n == Nonempty(Parts(url)) IN [i \in 1 .. Len(n) |-> UrlDecode(n[i])]

\* All requests about one FTP name are about one object: the URLs that STOR,
\* RETR, SIZE and DELE send, and the path that is signed for the delete, stand
\* for the same parts of the name in the same bucket, whatever bytes are in
\* them and however many slashes are between them.  Names that end in a slash
\* or a blank are left out: there a delete, or a download, uses another path;
\* and so are signatures that do not fit their buffer.  MKD, LIST and RMD of a
\* name that is not refused are about the one folder of that name.
SameObject ==
  Answered("url") =>
    LET in == probe.in
        out == answer.out
        path == get_cos_path_from_disk_path(in.cwd, in.name)
        names == Nonempty(Parts(path))
        behind(s) == SubSeq(Decoded(s), 3, Len(Decoded(s)))      \* the appid and the bucket are before it
        url(s) == behind(Drop(s, Len(in.endpoint)))
        signs(s) == Len(s) < FileIdSize - 1 => behind(s) = names
    IN /\ in.name # <<>> /\ Last(in.name) \notin {Slash, Space} =>
            /\ out.legal
            /\ url(out.upload) = names /\ url(out.stat) = names /\ url(out.delete) = names
            /\ signs(out.signed)
            /\ LET cut == SubSeq(out.download, 1, Len(out.download) - 1 - Len(in.sign))
               IN Tail(Decoded(cut)) = names
       /\ out.legal_dir =>
            /\ url(out.create) = names /\ out.list = out.create /\ Last(out.list) = Slash
            /\ signs(out.signed_dir)

\* Base64 gives every bit of the signature back, padded to a multiple of four
\* (CodecUtil::Base64Encode).
Base64Keeps ==
  Answered("base64") =>
    LET out == answer.out
        chars == SelectSeq(out, LAMBDA c : c # Pad)
        bit(k) == (chars[((k - 1) \div 6) + 1] \div 2 ^ (5 - ((k - 1) % 6))) % 2
        byte(i) == FoldLeft(LAMBDA v, k : 2 * v + bit(8 * (i - 1) + k), 0, <<1, 2, 3, 4, 5, 6, 7, 8>>)
    IN /\ Len(out) % 4 = 0
       /\ Len(chars) = (8 * Len(probe.in) + 5) \div 6
       /\ [i \in 1 .. Len(probe.in) |-> byte(i)] = probe.in

\* A message cut into blocks, padded as SHA-1 asks.
Blocks(message) ==
  LET zeros == (2 * SHA_BLOCKSIZE - 1 - LengthBytes - (Len(message) % SHA_BLOCKSIZE)) % SHA_BLOCKSIZE
      all == Append(message, End) \o Run(zeros, Zero) \o Run(LengthBytes, Count)
  IN [i \in 1 .. Len(all) \div SHA_BLOCKSIZE |-> SubSeq(all, (i - 1) * SHA_BLOCKSIZE + 1, i * SHA_BLOCKSIZE)]

\* The digest is that of the whole message however it comes in pieces; and in
\* the list of slices that COS is told, every byte is in one slice, and the
\* digest of a slice covers the file up to its end, the last one padded
\* (sha_update, sha_final, conv_file_to_upload_parts).
DigestOfAll ==
  /\ Answered("sha") => answer.out = Blocks(FlattenSeq(probe.in))
  /\ Answered("parts") =>
       LET file == probe.in.file
           out == answer.out
           end(i) == out[i].offset + out[i].datalen
       IN /\ file # <<>> => end(Len(out)) = Len(file) /\ out[Len(out)].datasha = Blocks(file)
          /\ \A i \in 1 .. Len(out) :
               /\ out[i].datalen > 0 /\ out[i].offset = IF i = 1 THEN 0 ELSE end(i - 1)
               /\ i < Len(out) => FlattenSeq(out[i].datasha) = SubSeq(file, 1, end(i))

\* A name that is UTF-8 is never taken for GBK and converted (IsUtf8,
\* cos_conv_gbk_2_utf).
Utf8Kept == Answered("utf8") /\ probe.in.valid => answer.out = probe.in.text

\* A transfer's line in the xferlog comes apart at its blanks whatever is in
\* the name of the file: the ninth word is the name, the ones before it are
\* the date, the seconds (at least one), the address and the bytes, and the
\* ones after it say how and whether it was transferred
\* (vsf_log_do_log_wuftpd_format).
XferlogColumns ==
  Answered("xferlog") =>
    LET in == probe.in
        words == Tokens(answer.out, " ")
    IN /\ Len(words) = 18
       /\ words[6] # <<"0">> /\ words[7] = in.remote_ip /\ words[8] = Numeral(in.transfer_size, 10)
       /\ Len(words[9]) = Len(in.log_str)
       /\ \A i \in 1 .. Len(in.log_str) : in.log_str[i] # " " => words[9][i] = in.log_str[i]
       /\ words[10] = (IF in.is_ascii THEN <<"a">> ELSE <<"b">>)
       /\ words[12] = (IF in.log_type = "upload" THEN <<"i">> ELSE <<"o">>)
       /\ words[18] = (IF in.succeeded THEN <<"c">> ELSE <<"i">>)

\* No sequence of operations on a string writes outside its buffer, wherever
\* the sizes wrap round, and the string holds what the operations put there;
\* the process gives up only for sizes above INT_MAX and for cuts behind the
\* buffer (private_str_append_memchunk, str_trunc, str_reserve).
MystrHolds ==
  Answered("mystr") =>
    /\ MystrFits(answer.out)
    /\ MystrTells(answer.out, FoldLeft(MystrMeans, [known |-> TRUE, text |-> <<>>], probe.in))
    /\ MystrDies(answer.out, FoldLeft(LAMBDA n, o : n + MystrAsks(o), 1, probe.in),
                 \E i \in 1 .. Len(probe.in) : probe.in[i].op = "trunc")

\* The pairs in the table after each operation, and whether an operation was
\* about a key that was there twice or not at all.
Pairs(r, o) ==
  IF o.op = "add" THEN [bad |-> r.bad \/ o.key \in DOMAIN r.of, of |-> (o.key :> o.value) @@ r.of]
  ELSE [bad |-> r.bad \/ o.key \notin DOMAIN r.of, of |-> [k \in DOMAIN r.of \ {o.key} |-> r.of[k]]]

\* The table is a map for every order of adding and taking out, also of keys
\* that share a bucket: a lookup finds the value of a key that is there and
\* nothing for one that is not, and the process ends only when a key is added
\* twice or one is taken out that is not there (hash_add_entry,
\* hash_free_entry).
HashIsMap ==
  Answered("hash") =>
    LET h == answer.out
        r == FoldLeft(Pairs, [bad |-> FALSE, of |-> <<>>], probe.in)
        keys == {probe.in[i].key : i \in 1 .. Len(probe.in)}
    IN /\ h.status = "bug" <=> r.bad
       /\ ~r.bad => \A k \in keys : hash_lookup_entry(h, k) = IF k \in DOMAIN r.of THEN r.of[k] ELSE 0

\* After any number of allocations through one pointer there is one mapping,
\* the buffer ends where its last page begins, and a whole page is before it:
\* the earlier mappings were found again from the pointer alone and are gone
\* (vsf_secbuf_alloc, vsf_secbuf_free).
SecbufFenced == Answered("secbuf") => Fenced(answer.out, Last(probe.in))

\* What comes from a client, a name or a file is read as what it means:
\* filters, paths, arguments of LIST, numbers, addresses, settings, user
\* entries and the bytes of names.
ReadAsMeant ==
  /\ FilterAgrees /\ PathMeans /\ DirArgKeeps
  /\ NumbersReadBack /\ PortMeans /\ Ipv6Means
  /\ SettingsLast /\ LoginFirst /\ Utf8Kept

\* What is written can be read back by its reader as what was meant: the lines
\* of a listing, of PWD and of the log by a client, and URLs, signatures and
\* digests by COS.
WrittenAsMeant ==
  /\ LineNames /\ ListingOrder /\ PwdGivesDirectory /\ XferlogColumns
  /\ SameObject /\ Base64Keeps /\ DigestOfAll

\* Strings, tables and fenced buffers hold what the operations on them put
\* there, inside the memory they have, after every sequence of operations.
MemoryHolds == MystrHolds /\ HashIsMap /\ SecbufFenced
=============================================================================
