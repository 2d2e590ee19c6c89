------------------------------ MODULE Options ------------------------------
(***************************************************************************)
(* What a call's arguments ask for (fixedformat-worker/src/options.rs), and *)
(* how a file is decompressed (fixedformat-core/src/compression.rs and      *)
(* decompress_reader in stream.rs).  The arguments are a function of the    *)
(* names given; the words of an option are taken in lower case.             *)
(***************************************************************************)
EXTENDS Numerals, TLC

Named(args, name, default) == IF name \in DOMAIN args THEN args[name] ELSE default

(* A word that stands for one of some values, an error without one. *)
OneOfWords(words, s) ==
    IF \E v \in DOMAIN words : s \in words[v] THEN Ok(CHOOSE v \in DOMAIN words : s \in words[v]) ELSE Err

EncodingWords ==
    "ascii" :> {"ascii", "latin1", "latin-1", "utf8", "utf-8"} @@
    "ebcdic" :> {"ebcdic", "cp037", "ibm037", "ibm-037"}
FramingWords ==
    "newline" :> {"newline", "lines", "text"} @@ "fixed" :> {"fixed", "fb", "none"} @@
    "rdw" :> {"rdw", "vb", "variable"} @@
    "rdw_blocked" :> {"rdw_blocked", "rdwblocked", "vb_blocked", "blocked"}
CodecWords ==
    "none" :> {"none", "raw", "off"} @@ "gzip" :> {"gzip", "gz"} @@ "zstd" :> {"zstd", "zst"}

EncodingOption(args) ==
    OneOfWords(EncodingWords, Named(args, "encoding", Named(args, "codepage", "ascii")))

FramingOption(args) == OneOfWords(FramingWords, Named(args, "framing", "newline"))

(* "auto" leaves it to the bytes, or to the name of what is written. *)
CompressionOption(args) ==
    LET s == Named(args, "compression", "auto")
    IN  IF s = "auto" THEN Ok("auto") ELSE OneOfWords(CodecWords, s)

FromPath(extension) ==
    CASE extension \in {"gz", "gzip"} -> "gzip"
      [] extension \in {"zst", "zstd"} -> "zstd"
      [] OTHER -> "none"

WriteCompression(args, extension) ==
    Then(CompressionOption(args), LAMBDA c : Ok(IF c = "auto" THEN FromPath(extension) ELSE c))

ReadLimit(args, default) ==
    LET n == Named(args, "max_decompressed_bytes", default)
    IN  IF n =< 0 THEN Err ELSE Ok(n)

RecordLength(args, layoutLength) == Named(args, "record_length", layoutLength)

(* A path argument is a text, a list of texts and NULLs, or something else. *)
PathsArgument(arg) ==
    CASE arg.t = "text" -> Ok(<<arg.path>>)
      [] arg.t = "list" ->
            LET given == SelectSeq(arg.paths, LAMBDA p : p.scheme # "null")
            IN  IF given = <<>> THEN Err ELSE Ok(given)
      [] OTHER -> Err

-----------------------------------------------------------------------------
(* Settings of an object store, as a sequence of keys and values. *)

(* Neither true nor false: what is no word for either. *)
ParseBool(s) ==
    CASE s \in {"true", "1", "yes", "on"} -> "true"
      [] s \in {"false", "0", "no", "off"} -> "false"
      [] OTHER -> "unsaid"

(* An endpoint [scheme, host] gets a scheme where it has none. *)
NormalizeEndpoint(ep, useSsl) ==
    IF ep.scheme # "none" THEN ep
    ELSE [ep EXCEPT !.scheme = IF useSsl = "false" THEN "http" ELSE "https"]

(* The settings of an endpoint, a region, a style and TLS, of which only    *)
(* the path style and plain HTTP are ever said.                             *)
Addressing(fields) ==
    LET useSsl == ParseBool(Named(fields, "use_ssl", "unsaid"))
        when(said, key, value) == IF said THEN <<<<key, value>>>> ELSE <<>>
    IN  when("region" \in DOMAIN fields, "aws_region", Named(fields, "region", ""))
        \o (IF "endpoint" \notin DOMAIN fields THEN <<>>
            ELSE <<<<"aws_endpoint", NormalizeEndpoint(fields["endpoint"], useSsl)>>>>)
        \o when(Named(fields, "url_style", "") = "path", "aws_virtual_hosted_style_request", "false")
        \o when(useSsl = "false", "aws_allow_http", "true")

CloudOverrides(args) == Addressing(args)

-----------------------------------------------------------------------------
(* Decompression.  A file is [raw, codec, plain, whole]: its bytes, how     *)
(* they were compressed, the bytes that they stand for, and whether the     *)
(* compressed stream is undamaged.                                          *)

Detect(head) ==
    CASE Len(head) >= 2 /\ SubSeq(head, 1, 2) = <<31, 139>> -> "gzip"
      [] Len(head) >= 4 /\ SubSeq(head, 1, 4) = <<40, 181, 47, 253>> -> "zstd"
      [] OTHER -> "none"

(* Slip of Decompress: the limit counts the compressed bytes, too.         *)
DecompressLimitingAll(file, compression, limit) ==
    LET codec == IF compression = "auto" THEN Detect(file.raw) ELSE compression
    IN  IF Len(file.raw) > limit THEN Err
        ELSE IF codec = "none" THEN Ok(file.raw)
        ELSE IF codec # file.codec \/ ~file.whole \/ Len(file.plain) > limit THEN Err
        ELSE Ok(file.plain)

(* The decoder of the codec, whose output is limited; what is read as it    *)
(* stands is not.  The codec is looked for in the first bytes, which here   *)
(* arrive at once: the code looks at what the first read brought.           *)
Decompress(file, compression, limit) ==
    LET codec == IF compression = "auto" THEN Detect(file.raw) ELSE compression
    IN  IF codec = "none" THEN Ok(file.raw)
        ELSE IF codec # file.codec \/ ~file.whole \/ Len(file.plain) > limit THEN Err
        ELSE Ok(file.plain)

(* A file that is not compressed, as the codec writes it. *)
Compress(file, codec) ==
    CASE codec = "none" -> file
      [] codec = "gzip" -> [file EXCEPT !.raw = <<31, 139, 8, 0>>, !.codec = "gzip"]
      [] codec = "zstd" -> [file EXCEPT !.raw = <<40, 181, 47, 253>>, !.codec = "zstd"]
=============================================================================
