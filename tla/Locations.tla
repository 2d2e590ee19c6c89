----------------------------- MODULE Locations -----------------------------
(***************************************************************************)
(* Where a path argument leads: fixedformat-worker/src/cloud.rs and         *)
(* resolve_locations in table/mod.rs.  A path is [scheme, host, key], with  *)
(* the scheme "none" for a local file; a key is a sequence of characters,   *)
(* "**" and a class of characters such as "[ab]" being one each.  A URL is  *)
(* [scheme, host, path], as it is written.                                  *)
(*                                                                         *)
(* The world has the objects [host, key] that exist, the host "" being the  *)
(* local file system, the local directories and those that may not be read, *)
(* the secrets, the addresses that are written as a host, those that a      *)
(* host's name stands for, and whether internal ones are allowed.           *)
(***************************************************************************)
EXTENDS Options

Glob    == {"*", "**", "?", "[ab]"}
Classes == "[ab]" :> {"a", "b"}

(* Characters in the order of their codes. *)
Rank == "#" :> 1 @@ "%" :> 2 @@ "*" :> 3 @@ "/" :> 4 @@ "2" :> 5 @@ "3" :> 6 @@ "5" :> 7 @@ "?" :> 8 @@
        "F" :> 9 @@ "a" :> 10 @@ "b" :> 11

(* An order of texts. *)
Precedes(s, t) ==
    LET differ == {i \in 1 .. Min({Len(s), Len(t)}) : s[i] # t[i]}
    IN  IF differ = {} THEN Len(s) < Len(t) ELSE Rank[s[Min(differ)]] < Rank[t[Min(differ)]]

HasGlob(key) == \E i \in 1 .. Len(key) : key[i] \in Glob

-----------------------------------------------------------------------------
(* classify *)

(* How a character is written in a URL when it may not stand for itself.    *)
Percent == "%" :> <<"%", "2", "5">> @@ "?" :> <<"%", "3", "F">> @@ "#" :> <<"%", "2", "3">>

(* S3_KEY_ESCAPE: the delimiters of a URL.  Slip: not the one that is a     *)
(* wildcard, too.                                                           *)
EscapesDelimiter == {"%", "#"}
Escapes == {"%", "?", "#"}

EncodeKey(key) ==
    FlattenSeq([i \in 1 .. Len(key) |-> IF key[i] \in Escapes THEN Percent[key[i]] ELSE <<key[i]>>])

(* Url::parse: what follows a delimiter is not of the path. *)
ParseUrl(scheme, host, text) ==
    LET ends == {i \in 1 .. Len(text) : text[i] \in {"?", "#"}}
    IN  [scheme |-> scheme, host |-> host, path |-> SubSeq(text, 1, Min({Len(text) + 1} \cup ends) - 1)]

S3Url(scheme, host, key) == ParseUrl(scheme, host, EncodeKey(key))

(* percent_decode_str: the characters that were escaped, of those there are *)
(* here.                                                                    *)
Decoded(s) ==
    LET at(i) == {c \in DOMAIN Percent : i > 0 /\ i + 2 =< Len(s) /\ SubSeq(s, i, i + 2) = Percent[c]}
    IN  FlattenSeq([i \in 1 .. Len(s) |->
                       IF at(i) # {} THEN <<CHOOSE c \in at(i) : TRUE>>
                       ELSE IF at(i - 1) \cup at(i - 2) # {} THEN <<>> ELSE <<s[i]>>])

RemoteKey(url) == Decoded(url.path)

IsRemote(path) == path.scheme \in {"s3", "s3a", "http", "https"}

(* A text before `://` that no scheme could be belongs to a local path. *)
Classify(path) ==
    CASE path.scheme \in {"none", "a_b"} -> Ok([local |-> path.key])
      [] path.scheme \in {"s3", "s3a"}   -> Ok([remote |-> S3Url(path.scheme, path.host, path.key)])
      [] path.scheme \in {"http", "https"} -> Ok([remote |-> ParseUrl(path.scheme, path.host, path.key)])
      [] OTHER -> Err

-----------------------------------------------------------------------------
(* Secrets *)

SecretTypeFor(url) == IF url.scheme \in {"s3", "s3a"} THEN "s3" ELSE "none"

(* The secrets to ask for: one for each URL that needs one, in order.       *)
SecretLookups(paths) ==
    LET scopes == {i \in 1 .. Len(paths) :
                      LET c == Classify(paths[i])
                      IN  IsOk(c) /\ "remote" \in DOMAIN c.ok /\ SecretTypeFor(c.ok.remote) = "s3"}
        scope(i) == Classify(paths[i]).ok.remote
        first(i) == \A j \in scopes : j < i => scope(j) # scope(i)
    IN  [k \in 1 .. Cardinality({i \in scopes : first(i)}) |->
            scope(CHOOSE i \in scopes : first(i) /\ Cardinality({j \in scopes : j < i /\ first(j)}) = k - 1)]

(* for_scope_of_type: the one of the longest scope, a bucket or all.        *)
ForScope(secrets, url) ==
    LET of(scope) == {s \in secrets : s.scope = scope}
    IN  IF of(url.host) # {} THEN of(url.host) ELSE of("")

IsEmpty(field, value) == IF field = "endpoint" THEN value.host = "" ELSE value = ""

S3Options(secrets, url) ==
    LET fields == (CHOOSE s \in ForScope(secrets, url) : TRUE).fields
        said   == [f \in {g \in DOMAIN fields : ~IsEmpty(g, fields[g])} |-> fields[f]]
    IN  IF ForScope(secrets, url) = {} THEN <<>>
        ELSE (IF "key_id" \in DOMAIN said THEN <<<<"aws_access_key_id", said["key_id"]>>>> ELSE <<>>)
             \o Addressing(said)

-----------------------------------------------------------------------------
(* Hosts and stores *)

(* An address is [v4 |-> four bytes] or [v6 |-> eight words].               *)
IsInternalV4(o) ==
    \/ o[1] \in {0, 10, 127}
    \/ o[1] = 172 /\ o[2] \in 16 .. 31
    \/ o[1] = 192 /\ o[2] = 168
    \/ o[1] = 169 /\ o[2] = 254
    \/ o[1] = 100 /\ o[2] \div 64 = 1
    \/ o = <<255, 255, 255, 255>>

IsInternalIp(ip) ==
    IF "v4" \in DOMAIN ip THEN IsInternalV4(ip.v4)
    ELSE \/ \A i \in 1 .. 7 : ip.v6[i] = 0 /\ ip.v6[8] \in {0, 1}
         \/ ip.v6[1] \div 512 = 126 \/ ip.v6[1] \div 64 = 1018
         \/ /\ \A i \in 1 .. 5 : ip.v6[i] = 0 /\ ip.v6[6] = 65535
            /\ IsInternalV4(<<ip.v6[7] \div 256, ip.v6[7] % 256, ip.v6[8] \div 256, ip.v6[8] % 256>>)

(* A host that parses as an address is that address; IPv6 addresses stand   *)
(* in brackets in a URL, and do not.                                        *)
IsLiteral(world, host) == host \in DOMAIN world.literals

(* Of a name all addresses are looked up; an unknown one has none. *)
ResolveAnyInternal(world, host) == \E ip \in Named(world.addresses, host, {}) : IsInternalIp(ip)

GuardHost(world, host) ==
    \/ world.allow
    \/ IsLiteral(world, host) /\ ~IsInternalIp(world.literals[host])
    \/ ~IsLiteral(world, host) /\ ~ResolveAnyInternal(world, host)

(* The last setting of a key counts. *)
Configured(opts) ==
    [key \in {opts[i][1] : i \in 1 .. Len(opts)} |->
        opts[Max({i \in 1 .. Len(opts) : opts[i][1] = key})][2]]

(* Slip of BuildStore: the secret's settings come last. *)
BuildStoreSecretLast(world, url, overrides) ==
    IF url.scheme \in {"http", "https"} /\ ~GuardHost(world, url.host) THEN Err
    ELSE Ok([url |-> url, key |-> RemoteKey(url),
             config |-> Configured(overrides \o (IF SecretTypeFor(url) = "s3" THEN S3Options(world.secrets, url)
                                                 ELSE <<>>))])

BuildStore(world, url, overrides) ==
    IF url.scheme \in {"http", "https"} /\ ~GuardHost(world, url.host) THEN Err
    ELSE Ok([url |-> url, key |-> RemoteKey(url),
             config |-> Configured((IF SecretTypeFor(url) = "s3" THEN S3Options(world.secrets, url) ELSE <<>>)
                                   \o overrides)])

-----------------------------------------------------------------------------
(* Globs *)

(* Patterns of the glob crate: a wildcard stands for characters of one      *)
(* segment, `**` for any number of segments.                                *)
RECURSIVE GlobMatches(_, _)
GlobMatches(pattern, key) ==
    IF pattern = <<>> THEN key = <<>>
    ELSE LET p == Head(pattern)
             one(ok) == key # <<>> /\ ok /\ GlobMatches(Tail(pattern), Tail(key))
         IN  CASE p = "*"  -> \/ GlobMatches(Tail(pattern), key)
                              \/ key # <<>> /\ Head(key) # "/" /\ GlobMatches(pattern, Tail(key))
               [] p = "**" -> \/ Len(pattern) = 1
                              \/ \E i \in {0} \cup {j \in 1 .. Len(key) : key[j] = "/"} :
                                    GlobMatches(SubSeq(pattern, 3, Len(pattern)), SubSeq(key, i + 1, Len(key)))
               [] p = "?"  -> one(key # <<>> /\ Head(key) # "/")
               [] p \in DOMAIN Classes -> one(key # <<>> /\ Head(key) \in Classes[p])
               [] OTHER -> one(key # <<>> /\ Head(key) = p)

(* Up to the last slash before the first wildcard.  Slip: up to the         *)
(* wildcard.                                                                *)
GlobPrefixAll(key) == SubSeq(key, 1, Min({Len(key) + 1} \cup {i \in 1 .. Len(key) : key[i] \in Glob}) - 1)

GlobPrefix(key) ==
    LET wild == {i \in 1 .. Len(key) : key[i] \in Glob}
    IN  IF wild = {} THEN key
        ELSE SubSeq(key, 1, Max({0} \cup {i \in 1 .. Min(wild) : key[i] = "/"}))

(* What is between the slashes, without what is empty. *)
Segments(key) ==
    SelectSeq(FoldLeft(LAMBDA st, c : IF c = "/" THEN Append(st, <<>>) ELSE [st EXCEPT ![Len(st)] = Append(@, c)],
                       <<<<>>>>, key),
              LAMBDA s : s # <<>>)

(* The objects of a bucket whose first segments are these, and which have   *)
(* more.                                                                    *)
Listed(world, host, prefix) ==
    {o \in world.objects : /\ o.host = host /\ Len(Segments(o.key)) > Len(Segments(prefix))
                           /\ SubSeq(Segments(o.key), 1, Len(Segments(prefix))) = Segments(prefix)}

(* The directory to list is escaped on its way to the store, and what is    *)
(* listed is taken for escaped: its names are decoded, and written as URLs. *)
ListGlob(world, url, overrides) ==
    LET pattern == RemoteKey(url)
        listed  == {o \in Listed(world, url.host, EncodeKey(GlobPrefix(pattern))) :
                       GlobMatches(pattern, Decoded(o.key))}
        address(o) == S3Url(url.scheme, url.host, Decoded(o.key))
        before(o, p) == IF address(o) = address(p) THEN Precedes(o.key, p.key)
                        ELSE Precedes(address(o).path, address(p).path)
        sorted  == SetToSortSeq(listed, before)
    IN  IF url.scheme \in {"http", "https"} THEN Ok(<<url>>)
        ELSE Then(BuildStore(world, url, overrides),
                  LAMBDA s : Ok([i \in 1 .. Len(sorted) |-> address(sorted[i])]))

(* Local files and directories.  What a directory that may not be read has  *)
(* is left out of a glob.                                                   *)
Visible(world, key) == \A d \in world.locked : ~IsPrefix(d, key)

Entries(world) == {o.key : o \in {x \in world.objects : x.host = ""}} \cup world.directories

(* A pattern that ends in `**` finds directories alone. *)
LocalMatches(world, pattern) ==
    {k \in Entries(world) : /\ GlobMatches(pattern, k) /\ Visible(world, k)
                            /\ Last(pattern) = "**" => k \in world.directories}

ResolveLocal(world, key) ==
    IF HasGlob(key) THEN Ok(SetToSortSeq(LocalMatches(world, key), Precedes))
    ELSE IF key \in Entries(world) THEN Ok(<<key>>) ELSE Err

ResolveLocations(world, path, overrides) ==
    Then(Classify(path), LAMBDA c :
        IF "local" \in DOMAIN c
        THEN Then(ResolveLocal(world, c.local), LAMBDA keys : Ok([i \in 1 .. Len(keys) |-> [local |-> keys[i]]]))
        ELSE IF ~HasGlob(RemoteKey(c.remote)) THEN Ok(<<c>>)
        ELSE Then(ListGlob(world, c.remote, overrides),
                  LAMBDA urls : Ok([i \in 1 .. Len(urls) |-> [remote |-> urls[i]]])))

(* resolve_sources: stores are built for all of them before one is read.    *)
ResolveSources(world, locations, overrides) ==
    LET source(l) == IF "local" \in DOMAIN l
                     THEN Ok([host |-> "", key |-> l.local])
                     ELSE Then(BuildStore(world, l.remote, overrides),
                               LAMBDA s : Ok([host |-> l.remote.host, key |-> s.key, store |-> s]))
    IN  IF \E i \in 1 .. Len(locations) : ~IsOk(source(locations[i])) THEN Err
        ELSE Ok([i \in 1 .. Len(locations) |-> source(locations[i]).ok])
=============================================================================
