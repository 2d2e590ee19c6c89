----------------------------- MODULE MCCopyFrom -----------------------------
(* Instances of CopyFrom: scans of every pattern over a directory and two   *)
(* buckets with awkward keys, for all settings of a call and its secrets;   *)
(* scans of every kind of host; and copies of files in every compression,   *)
(* framing and state into tables of every type.                             *)
EXTENDS CopyFrom

Leaf(name, offset, width, kind) ==
    [name |-> name, offset |-> offset, width |-> width, kind |-> kind, occurs |-> Once, controller |-> NoField]

(* A letter and a number of three digits. *)
Pair == <<Leaf("L", 0, 1, Chars("left", Space)), Leaf("N", 1, 3, DisplayInt(FALSE, "unsigned"))>>
(* A text of three. *)
Line == <<Leaf("T", 0, 3, Chars("left", Space))>>
(* A list of two digits, and one as long as a digit says. *)
Twice  == <<[Leaf("D", 0, 1, DisplayInt(FALSE, "unsigned")) EXCEPT !.occurs = 2]>>
Counted == <<Leaf("C", 0, 1, DisplayInt(FALSE, "unsigned")),
             [Leaf("D", 1, 1, DisplayInt(FALSE, "unsigned")) EXCEPT !.occurs = 2, !.controller = "C"]>>

Whole  == Scalar("int")
Tiny == Scalar("tiny")
Text == Scalar("text")

Plain(bytes, says) == [raw |-> bytes, codec |-> "none", plain |-> bytes, whole |-> TRUE, rows |-> says]
(* What a write leaves under a name with an extension. *)
Written(f, args, extension) == Compress(f, WriteCompression(args, extension).ok)
Gzipped(f) == Written(f, <<>>, "gz")
Damaged(f)  == [f EXCEPT !.whole = FALSE]

PairRow(l, n) == <<TextVal(<<l>>), IntVal(n)>>
PairBytes(l, n) == <<l, Zero + n \div 100, Zero + ((n \div 10) % 10), Zero + (n % 10)>>
Numbers == <<7, 200, 31>>
PairRows(k) == [i \in 1 .. k |-> PairRow(96 + i, Numbers[i])]
PairFile(k) == Plain(FlattenSeq([i \in 1 .. k |-> Append(PairBytes(96 + i, Numbers[i]), 10)]), PairRows(k))
PairFixed(k) == Plain(FlattenSeq([i \in 1 .. k |-> PairBytes(96 + i, Numbers[i])]), PairRows(k))
Short     == Plain(<<97, 48, 10>>, NotRows)
Cut       == Plain(PairBytes(97, 1) \o <<98>>, NotRows)
Lettered  == Plain(<<97, 97, 97, 97, 10>>, NotRows)
Empty     == Plain(<<>>, <<>>)
LineRows  == Plain(<<45, 56, 32, 10>> \o <<120, 32, 32, 10>> \o <<49, 50, 57, 10>>,
                   <<<<TextVal(<<45, 56>>)>>, <<TextVal(<<120>>)>>, <<TextVal(<<49, 50, 57>>)>>>>)
Disguised == Plain(<<31, 139, 97, 10>>, <<<<TextVal(<<31, 139, 97>>)>>>>)
ListFile  == Plain(<<49, 50, 10>>, <<<<ListVal(<<IntVal(1), IntVal(2)>>)>>>>)
CountFile == Plain(<<50, 49, 50, 10>>, <<<<IntVal(2), ListVal(<<IntVal(1), IntVal(2)>>)>>>>)

-----------------------------------------------------------------------------
(* Places *)

At(host, key) == [host |-> host, key |-> key]
Path(scheme, host, key) == [scheme |-> scheme, host |-> host, key |-> key]

LocalKeys == {<<"a">>, <<"a", "a">>, <<"b", "/", "a">>, <<"b", "/", "a", "b">>, <<"b", "/", "b", "/", "b">>}
Folders   == {<<"b">>, <<"b", "/", "b">>}
BucketKeys == {<<"a", "a">>, <<"a", "/", "a">>, <<"a", "/", "a", "b">>, <<"a", "/", "#">>,
               <<"a", "/", "?">>, <<"b", "/", "a", "/", "b">>}
(* Names that read as escaped ones, and a directory of such a name. *)
OddKeys == {<<"a", "/", "?">>, <<"a", "/", "%", "3", "F">>, <<"a", "/", "b">>, <<"#", "/", "a">>}
Places == {At("", k) : k \in LocalKeys} \cup {At("m", k) : k \in BucketKeys} \cup {At("q", k) : k \in OddKeys}
          \cup {At("n", <<"b">>), At("h", <<"a">>)}

Patterns == {<<"*">>, <<"a", "*">>, <<"a", "/", "*">>, <<"a", "/", "a", "*">>, <<"?", "/", "?">>, <<"**">>,
             <<"**", "/", "b">>, <<"*", "/", "[ab]", "/", "b">>, <<"[ab]">>, <<"a", "a">>, <<"a", "/", "#">>,
             <<"a", "/", "%", "3", "F">>, <<"b", "?">>}
LocalPatterns == Patterns \cup {<<"b">>, <<"b", "/", "*">>, <<"b", "/", "a", "*">>, <<"b", "/", "**">>, <<"b", "/", "b", "/", "b">>}
OddPatterns == {<<"a", "/", "*">>, <<"a", "/", "?">>, <<"**">>, <<"#", "/", "*">>, <<"a", "/", "[ab]">>, <<"#", "/", "a">>}

Secret(scope, fields) == [scope |-> scope, fields |-> fields]
EndpointOf(scheme, host) == [scheme |-> scheme, host |-> host]
Own   == Secret("m", "key_id" :> "K1" @@ "region" :> "r1" @@ "endpoint" :> EndpointOf("none", "e1")
                     @@ "url_style" :> "path" @@ "use_ssl" :> "false")
Other == Secret("n", "key_id" :> "K2" @@ "region" :> "" @@ "endpoint" :> EndpointOf("none", "")
                     @@ "use_ssl" :> "maybe")
All   == Secret("", "key_id" :> "K3" @@ "region" :> "r3")

Settings ==
    {<<>>, "region" :> "r9", "endpoint" :> EndpointOf("none", "e9") @@ "use_ssl" :> "false" @@ "url_style" :> "path",
     "endpoint" :> EndpointOf("https", "e8") @@ "url_style" :> "vhost"}

V4(a, b) == [v4 |-> <<a, b, 1, 1>>]
Addresses ==
    UNION {{V4(a, b) : a \in {0, 9, 10, 100, 127, 169, 172, 192, 255}} : b \in {15, 16, 31, 32, 63, 64, 127, 128, 168, 254}}
    \cup {[v4 |-> <<255, 255, 255, 255>>]}
    \cup {[v6 |-> <<w, 0, 0, 0, 0, 0, 0, n>>] : w \in {0, 64511, 64512, 65023, 65024, 65151, 65152, 65215, 65216},
                                                n \in {0, 1, 2}}
    \cup {[v6 |-> <<0, 0, 0, 0, 0, 65535, w, 1>>] : w \in {2560, 2816, 49320, 49321}}

Nothing == [objects |-> << >>, places |-> {}, locked |-> {}, secrets |-> {}, directories |-> {}, literals |-> << >>, addresses |-> << >>,
            allow |-> FALSE]

Job(call, paths, args, layout, columns, world) ==
    [call |-> call, paths |-> paths, args |-> args, layout |-> layout, columns |-> columns, world |-> world]

Scan(arg, args, world) == Job("scan", arg, args, Pair, <<Text, Whole>>, world)
One(path)   == [t |-> "text", path |-> path]
List(paths) == [t |-> "list", paths |-> paths]

Directory == [Nothing EXCEPT !.objects = [p \in Places |-> PairFile(1)], !.directories = Folders]

PatternJobs ==
    {Scan(One(Path("none", "", key)), <<>>, [Directory EXCEPT !.locked = locked]) :
        key \in LocalPatterns, locked \in {{}, {<<"b", "/">>}, {<<"b", "/", "b", "/">>}}}
    \cup {Scan(One(Path("s3", "m", key)), <<>>, Directory) : key \in Patterns}
    \cup {Job("copy", Path("none", "", key), <<>>, Pair, <<Text, Whole>>, Directory) : key \in {<<"*">>, <<"b">>, <<"b", "/", "a", "*">>}}

NameJobs == {Scan(One(Path("s3", "q", key)), <<>>, Directory) : key \in OddPatterns}

SettingJobs ==
    {Scan(List(<<Path("s3", "m", key), Path("null", "", <<>>), Path("s3a", "n", <<"b">>), Path("none", "", <<"a">>),
                 Path("s3", "m", <<"a", "a">>)>>),
          args, [Directory EXCEPT !.secrets = known]) :
        key \in {<<"a", "*">>, <<"a", "a">>}, args \in Settings, known \in SUBSET {Own, Other, All}}

HostJobs ==
    {Scan(One(Path("https", "h", <<"a">>)), <<>>, [Directory EXCEPT !.addresses = "h" :> {ip, V4(8, 8)}, !.allow = allow]) :
        ip \in Addresses, allow \in BOOLEAN}
    \cup {Scan(One(Path("https", "h", <<"a">>)), <<>>, [Directory EXCEPT !.literals = "h" :> ip, !.allow = allow]) :
            ip \in {a \in Addresses : "v4" \in DOMAIN a}, allow \in BOOLEAN}

OddJobs ==
    {Scan(arg, <<>>, Directory) :
        arg \in {[t |-> "number"], List(<<>>), List(<<Path("null", "", <<>>)>>), One(Path("gs", "m", <<"a">>)),
                 One(Path("a_b", "", <<"a">>)), One(Path("http", "h", <<"a", "?", "b">>)), One(Path("http", "o", <<"a">>)),
                 One(Path("http", "h", <<"a", "*">>)), List(<<Path("none", "", <<"a">>), Path("none", "", <<"%">>)>>)}}

-----------------------------------------------------------------------------
(* Copies *)

World2(first, second) ==
    [Nothing EXCEPT !.objects = At("", <<"a", "a">>) :> first @@ At("", <<"a", "b">>) :> second]
(* Where another file may appear, or replace one. *)
Changing(world) == [world EXCEPT !.places = {At("", <<"a", "a">>), At("", <<"a">>)}]

Both == Path("none", "", <<"a", "*">>)
Copy(args, layout, columns, world) == Job("copy", Both, args, layout, columns, world)

PairFiles == {PairFile(k) : k \in 1 .. 3} \cup {Short, Lettered}
             \cup {Written(PairFile(2), args, ext) : ext \in {"gzip", "zst"}, args \in {<<>>, "compression" :> "zstd"}}
             \cup {Damaged(Gzipped(PairFile(2)))}

Arguments ==
    {<<>>} \cup {"compression" :> c : c \in {"gzip", "zst", "off", "brotli"}}
    \cup {"max_decompressed_bytes" :> n : n \in {0, 4, 9, 10}}
    \cup {"encoding" :> "utf-16", "framing" :> "lines", "framing" :> "tape", "codepage" :> "latin1"}

FileJobs == {Copy(args, Pair, <<Text, Tiny>>, Changing(World2(f, g))) :
                args \in Arguments, f \in PairFiles, g \in {PairFile(1), Gzipped(PairFile(3))}}

FixedJobs == {Copy("framing" :> "fixed" @@ len, Pair, <<Text, Whole>>, World2(PairFixed(k), f)) :
                 len \in {<<>>} \cup {"record_length" :> n : n \in {-1, 0, 4, 41}}, k \in 1 .. 2, f \in {Cut, Empty, PairFixed(3)}}

TypeJobs ==
    {Copy(<<>>, Pair, <<a, b>>, World2(PairFile(3), f)) : a, b \in {Text, Whole, Tiny}, f \in {Empty, PairFile(2)}}
    \cup {Copy(args, Line, <<a>>, World2(f, LineRows)) :
             args \in {<<>>, "compression" :> "none"}, a \in {Text, Whole, Tiny}, f \in {Empty, LineRows, Disguised}}
    \cup {Copy(<<>>, Pair, columns, World2(PairFile(1), Empty)) : columns \in {<<Text>>, <<Text, Whole, Whole>>}}
    \cup {Copy(<<>>, Twice, <<a>>, World2(f, Empty)) : a \in {Whole, ListOf(Whole)}, f \in {Empty, ListFile}}
    \cup {Copy("framing" :> framing, Counted, <<Whole, ListOf(Whole)>>, World2(CountFile, Empty)) : framing \in {"text", "fixed"}}

MCJobs == PatternJobs \cup NameJobs \cup SettingJobs \cup HostJobs \cup OddJobs \cup FileJobs \cup FixedJobs \cup TypeJobs

MCArrivals == {PairFile(3), Damaged(Gzipped(PairFile(1)))}
=============================================================================
