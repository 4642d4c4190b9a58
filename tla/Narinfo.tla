------------------------------ MODULE Narinfo -------------------------------
(***************************************************************************)
(* A narinfo as text, pushed and served: bincache-core's narinfo.rs,       *)
(* narinfo/parse.rs, storepath.rs, hash.rs, narurl.rs and compression.rs,  *)
(* the publish, rotate and delete of bincache-ingest that join them with   *)
(* the index, and the key files and store directories of boot.rs.          *)
(*                                                                         *)
(* A body is a sequence of lines.  A line is its key, the separator behind *)
(* it and its value; a value is its words, split at spaces.  A word is its *)
(* prefix (a store directory, `sha256:`, `nar/`), a run of digits and the  *)
(* rest (a name, an extension).  What a well-formed `Sig` decodes to is    *)
(* kept beside the words.  Option is a sequence of at most one element.    *)
(***************************************************************************)
EXTENDS Base32, Sign, Fault, SequencesExt

CONSTANTS
    HashWidth,     \* bytes of a store path hash; 20 in the code
    DigestWidth,   \* bytes of a digest; 32 in the code
    Names,         \* the legal store path names
    U64Max,        \* the largest size; u64::MAX in the code
    Uploads,       \* NARs as uploads store them: a NAR hash and its Entry
    Dirs,          \* the legal --store-dir, with the slash that ends them
    KeyFiles,      \* what --secret-key-file may hold
    KeyTexts,      \* what clients put before `.narinfo` in a target
    Bodies,        \* what clients push
    MaxPuts,       \* bound on pushes
    MaxStarts      \* bound on processes

ASSUME WidthAssumption ==
    HashWidth \in Nat \ {0} /\ DigestWidth \in Nat \ {0} /\ U64Max \in Nat

VARIABLES
    table,         \* table NARINFO: store path hash -> NarInfo
    nars,          \* table NAR: NAR hash -> Entry
    stored,        \* the artifacts, which no process unlinks
    request,       \* the last request: the key of a GET, the body of a PUT
    answer,        \* its status
    served,        \* its body, of a 200
    puts,          \* pushes so far
    signer,        \* the key of the server that runs, or NoKey
    store_dir,     \* its store directory, or NoDir
    refused,       \* the file the last process refused to start with, if any
    shown,         \* the public keys operators were shown, and hand to clients
    starts         \* processes so far

vars == <<table, nars, stored, request, answer, served, puts, signer, store_dir,
          refused, shown, starts>>

Field == {"StorePath", "URL", "Compression", "FileHash", "FileSize", "NarHash",
          "NarSize", "References", "Deriver", "Sig", "CA"}

-----------------------------------------------------------------------------
(* Words and what they spell.                                              *)

Word(prefix, digits, rest) ==
    [prefix |-> prefix, digits |-> digits, rest |-> rest]

Words == [prefix : STRING, digits : Seq(Nat), rest : STRING]

Plain(text) == Word("", <<>>, text)

\* Display for Path: the base name
Base(p) == Word("", Encode(p.hash), p.name)

\* Path::parse
IsBase(w) == w.prefix = "" /\ Decodable(w.digits, HashWidth) /\ w.rest \in Names

\* Dir::print
FullPath(dir, p) == Word(dir, Encode(p.hash), p.name)

\* Dir::parse
IsFullPath(dir, w) == w.prefix = dir /\ IsBase([w EXCEPT !.prefix = ""])

\* The path that a base name, or what follows the directory, spells.
PathOf(w) == [hash |-> Decode(w.digits, HashWidth), name |-> w.rest]

\* Sha256::parse.  Hex and base64 are library codecs, their words hold the
\* bytes; the length of the text tells the three spellings apart.
IsDigest(w) ==
    /\ w.prefix \in {"", "sha256:", "sha256-"}
    /\ \/ w.rest = "" /\ Decodable(w.digits, DigestWidth)
       \/ w.rest \in {"hex", "base64"} /\ Len(w.digits) = DigestWidth

DigestOf(w) == IF w.rest = "" THEN Decode(w.digits, DigestWidth) ELSE w.digits

\* Display for Sha256
PrintDigest(d) == Word("sha256:", Encode(d), "")

Number(n) == Word("", <<n>>, "")

\* str::parse::<u64>
IsNumber(w) ==
    w.prefix = "" /\ Len(w.digits) = 1 /\ w.rest = "" /\ w.digits[1] <= U64Max

\* Compression and its extensions
Extension == [none |-> "", zstd |-> ".zst", xz |-> ".xz", bzip2 |-> ".bz2",
              br |-> ".br"]
Compression == DOMAIN Extension

\* An Entry is of bytes and sizes, no NAR is empty, and two with one hash are
\* one, of one size.
ASSUME UploadsAssumption ==
    /\ Uploads \subseteq
           [nar_hash : [1 .. DigestWidth -> 0 .. 255], nar_size : 1 .. U64Max,
            file_hash : [1 .. DigestWidth -> 0 .. 255], file_size : 0 .. U64Max,
            compression : Compression]
    /\ \A u, v \in Uploads : u.nar_hash = v.nar_hash => u.nar_size = v.nar_size

\* NarInfo::nar and NarUrl::url
Url(r) == Word("nar/", Encode(r.file_hash), Extension[r.compression])

\* route::resolve and NarUrl::parse of that target: the digest may be spelled
\* as Sha256::parse allows, base32 here.
IsNarUrl(w) ==
    /\ w.prefix = "nar/"
    /\ Decodable(w.digits, DigestWidth)
    /\ \E c \in Compression : Extension[c] = w.rest

NarUrlOf(w) ==
    [file_hash |-> Decode(w.digits, DigestWidth),
     compression |-> CHOOSE c \in Compression : Extension[c] = w.rest]

\* What clients send is text.
ASSUME BodiesAssumption ==
    \A body \in Bodies :
        /\ Len(body) \in Nat /\ DOMAIN body = 1 .. Len(body)
        /\ \A i \in DOMAIN body : body[i].value \in Seq(Words)

ASSUME KeyTextsAssumption == KeyTexts \subseteq Seq(Nat)

\* So is a key file.
ASSUME KeyFilesAssumption ==
    KeyFiles \subseteq [name : [lead : {"", " "}, parts : Seq(STRING)],
                       halves : Seq(Nat), padded : BOOLEAN]

\* DERIVER_UNKNOWN
UnknownDeriver == <<Plain("unknown-deriver")>>

-----------------------------------------------------------------------------
(* narinfo/parse.rs                                                        *)

\* Key: value
Line(key, value) == [key |-> key, sep |-> ": ", value |-> value, sig |-> <<>>]

\* Sig: <name>:<base64>, Display for Signature
SigLine(s) == [key |-> "Sig", sep |-> ": ", value |-> <<>>, sig |-> <<s>>]

Empty(line) == line.key = "" /\ line.sep = "" /\ line.value = <<>>

\* parse: split at the first ": ", or a bare `Key:`
Splits(line) == line.sep = ": " \/ (line.sep = ":" /\ line.value = <<>>)

\* absorb: does the value parse as its field's?
Absorbs(dir, line) ==
    LET value == line.value
        One(IsWord(_)) == Len(value) = 1 /\ IsWord(value[1])
        IsPath(w) == IsFullPath(dir, w)
    IN  CASE line.key = "StorePath" -> One(IsPath)
          [] line.key \in {"FileHash", "NarHash"} -> One(IsDigest)
          [] line.key \in {"FileSize", "NarSize"} -> One(IsNumber)
          [] line.key = "Compression" -> \E c \in Compression : value = <<Plain(c)>>
          [] line.key = "References" -> \A i \in DOMAIN value : IsBase(value[i])
          [] line.key = "Deriver" -> value = UnknownDeriver \/ One(IsBase)
          [] line.key = "Sig" -> line.sig # <<>> /\ IsSignature(line.sig[1])
          [] OTHER -> TRUE

\* What the line's value spells, as a sequence.
Spelled(line) ==
    LET value == line.value
    IN  CASE line.key \in {"StorePath", "References", "Deriver"} ->
                [i \in DOMAIN value |-> PathOf(value[i])]
          [] line.key \in {"FileHash", "NarHash"} -> <<DigestOf(value[1])>>
          [] line.key \in {"FileSize", "NarSize"} -> value[1].digits
          [] line.key = "Compression" -> <<value[1].rest>>
          [] line.key = "Sig" -> line.sig
          [] line.key = "URL" -> value
          [] line.key = "CA" -> <<value>>

\* Draft::default
Fresh == [f \in Field |-> <<>>]

\* The first line of a field kept against the later ones.
Absorb_FirstWins(draft, line) ==
    [draft EXCEPT ![line.key] =
        IF line.key = "Deriver" /\ line.value = UnknownDeriver THEN @
        ELSE IF line.key \in {"References", "Sig"} THEN @ \o Spelled(line)
        ELSE IF @ # <<>> THEN @
        ELSE Spelled(line)]

\* absorb: references and signatures accumulate, of the rest the last stands,
\* and an unknown deriver says nothing.
Absorb(draft, line) ==
    [draft EXCEPT ![line.key] =
        IF line.key = "Deriver" /\ line.value = UnknownDeriver THEN @
        ELSE IF line.key \in {"References", "Sig"} THEN @ \o Spelled(line)
        ELSE Spelled(line)]

\* The draft after so many lines: an unknown key is passed over.
Drafted(body) ==
    LET draft[i \in 0 .. Len(body)] ==
            IF i = 0 THEN Fresh
            ELSE IF body[i].key \in Field THEN Absorb(draft[i - 1], body[i])
            ELSE draft[i - 1]
    IN  draft

\* parse, its loop
Draft(body) == Drafted(body)[Len(body)]

\* finish: the required fields; an empty URL is none
Finishes(draft) ==
    /\ \A f \in {"StorePath", "URL", "FileHash", "FileSize", "NarHash", "NarSize"} :
           draft[f] # <<>>
    /\ draft["NarSize"][1] # 0

Finish(draft) ==
    [store_path |-> draft["StorePath"][1],
     compression |-> IF draft["Compression"] = <<>> THEN "bzip2"
                     ELSE draft["Compression"][1],
     file_hash |-> draft["FileHash"][1], file_size |-> draft["FileSize"][1],
     nar_hash |-> draft["NarHash"][1], nar_size |-> draft["NarSize"][1],
     references |-> draft["References"], deriver |-> draft["Deriver"],
     sigs |-> draft["Sig"], ca |-> draft["CA"]]

\* parse succeeds
Parses(dir, body) ==
    /\ \A i \in DOMAIN body :
           Empty(body[i]) \/ (Splits(body[i]) /\ Absorbs(dir, body[i]))
    /\ Finishes(Draft(body))

Parse(body) == Finish(Draft(body))

-----------------------------------------------------------------------------
(* narinfo.rs                                                              *)

\* The elements of a sequence with their number: a list, sorted.
Sorted(s) == [e \in ToSet(s) |-> Cardinality({i \in DOMAIN s : s[i] = e})]

\* NarInfo::fingerprint: every path in it is printed under the directory.
Fingerprint(dir, r) ==
    [dir |-> dir, store_path |-> r.store_path, nar_hash |-> r.nar_hash,
     nar_size |-> r.nar_size, references |-> Sorted(r.references)]

\* NarInfo::resign
Resign(dir, r, k) == [r EXCEPT !.sigs = <<Signature(k, Fingerprint(dir, r))>>]

\* render: the trailing space survives an empty list
References(r) ==
    Line("References", [i \in DOMAIN r.references |-> Base(r.references[i])])

\* The deriver as a full path, like StorePath.
Deriver_FullPath(r) ==
    [i \in DOMAIN r.deriver |->
        Line("Deriver", <<FullPath("/nix/store/", r.deriver[i])>>)]

\* render: the deriver is a base name
Deriver(r) ==
    [i \in DOMAIN r.deriver |-> Line("Deriver", <<Base(r.deriver[i])>>)]

\* NarInfo::render
Render(dir, r) ==
    << Line("StorePath", <<FullPath(dir, r.store_path)>>),
       Line("URL", <<Url(r)>>),
       Line("Compression", <<Plain(r.compression)>>),
       Line("FileHash", <<PrintDigest(r.file_hash)>>),
       Line("FileSize", <<Number(r.file_size)>>),
       Line("NarHash", <<PrintDigest(r.nar_hash)>>),
       Line("NarSize", <<Number(r.nar_size)>>),
       References(r) >>
    \o Deriver(r)
    \o [i \in DOMAIN r.sigs |-> SigLine(r.sigs[i])]
    \o [i \in DOMAIN r.ca |-> Line("CA", r.ca[i])]

-----------------------------------------------------------------------------
(* Ingest::publish, by the server that runs                                *)

\* What is wrong with a body: it does not parse, there is no row for its NAR,
\* or the NAR is of another size.
Errors(body) ==
    IF ~Parses(store_dir, body) THEN {"Narinfo"}
    ELSE LET declared == Parse(body)
         IN  IF declared.nar_hash \notin DOMAIN nars THEN {"UnknownNar"}
             ELSE IF nars[declared.nar_hash].nar_size # declared.nar_size
                  THEN {"NarSizeMismatch"}
             ELSE {}

\* The payload's fields are the entry's.
Placed(declared, entry) ==
    [declared EXCEPT !.compression = entry.compression,
                     !.file_hash = entry.file_hash,
                     !.file_size = entry.file_size]

\* The pusher's signatures kept beside the server's.
RecordFor_KeepsSigs(declared) ==
    LET record == Placed(declared, nars[declared.nar_hash])
    IN  [Resign(store_dir, record, signer) EXCEPT !.sigs = declared.sigs \o @]

\* The signature is the server's.
RecordFor(declared) ==
    Resign(store_dir, Placed(declared, nars[declared.nar_hash]), signer)

\* The keys route::resolve accepts.
Keys == {text \in KeyTexts : Decodable(text, HashWidth)}

\* The key files a server or a rotation starts with.
Usable == {file \in KeyFiles : IsSecretKey(file)}

NoName == [lead |-> "", parts |-> <<>>]
NoKey == Generate(NoName, 0)
NoDir == ""

-----------------------------------------------------------------------------

NoRequest == [key |-> <<>>, body |-> <<>>]

Init ==
    /\ table = <<>>
    /\ nars = <<>>
    /\ stored = {}
    /\ request = NoRequest
    /\ answer = 0
    /\ served = <<>>
    /\ puts = 0
    /\ signer = NoKey
    /\ store_dir = NoDir
    /\ refused = {}
    /\ shown = {}
    /\ starts = 0

process == <<signer, store_dir, refused, shown, starts>>
exchange == <<request, answer, served, puts>>
uploaded == <<nars, stored>>

\* put: a row written or replaced
With(f, k, v) == [x \in DOMAIN f \cup {k} |-> IF x = k THEN v ELSE f[x]]

\* Upload::store, on a connection of its own: the artifact gets its name, and
\* the row of the NAR is put whether or not there is one.  The file is
\* another at another --zstd-level.
StoreNar(upload) ==
    /\ signer # NoKey
    /\ stored' = stored \cup {upload}
    /\ nars' = With(nars, upload.nar_hash, upload)
    /\ UNCHANGED <<table, exchange, process>>

Ask(text, body) ==
    /\ signer # NoKey
    /\ request' = [key |-> text, body |-> body]

Answer(status, body) == answer' = status /\ served' = body

\* route::resolve: a key that is not a hash is answered before any lookup.
BadKey(text) ==
    /\ text \notin Keys
    /\ Ask(text, <<>>)
    /\ Answer(400, <<>>)
    /\ UNCHANGED <<table, uploaded, puts, process>>

\* PUT <key>.narinfo.  The record goes where its own StorePath says; the key
\* is decoded and not looked at again.  The row is read in a transaction of
\* its own; the uploads of one server, at one level, put the same row again.
Put(body) ==
    /\ puts < MaxPuts
    /\ Keys # {}
    /\ Ask(<<>>, body)
    /\ Errors(body) = {}
    /\ LET record == RecordFor(Parse(body))
       IN  table' = With(table, record.store_path.hash, record)
    /\ Answer(201, <<>>)
    /\ puts' = puts + 1
    /\ UNCHANGED <<uploaded, process>>

\* Every refusal of a body, which is not kept, and a failed transaction.
Refuse(body) ==
    /\ puts < MaxPuts
    /\ Keys # {}
    /\ Ask(<<>>, <<>>)
    /\ \E error \in Errors(body) \cup {"Index"} : Answer(StatusOf(error), <<>>)
    /\ puts' = puts + 1
    /\ UNCHANGED <<table, uploaded, process>>

\* GET <key>.narinfo
Miss(text) ==
    /\ text \in Keys
    /\ Decode(text, HashWidth) \notin DOMAIN table
    /\ Ask(text, <<>>)
    /\ Answer(404, <<>>)
    /\ UNCHANGED <<table, uploaded, puts, process>>

Hit(text) ==
    /\ text \in Keys
    /\ Decode(text, HashWidth) \in DOMAIN table
    /\ Ask(text, <<>>)
    /\ Answer(200, Render(store_dir, table[Decode(text, HashWidth)]))
    /\ UNCHANGED <<table, uploaded, puts, process>>

-----------------------------------------------------------------------------
(* Processes.  Only one has the index at a time (see Cache).  A store      *)
(* directory that is not legal ends one before it has done anything.       *)

\* The public key is taken from the file, which has one.
Showing_FromFile(file) == Spell(SecretKeyOf(file).name, <<file.halves[2]>>)

\* key.public().render()
Showing(file) == PublicText(SecretKeyOf(file))

\* secret_key fails: the process ends.
Malformed(file) ==
    /\ signer = NoKey /\ starts < MaxStarts
    /\ file \notin Usable
    /\ refused' = {file}
    /\ starts' = starts + 1
    /\ UNCHANGED <<table, uploaded, exchange, signer, store_dir, shown>>

\* serve: dir and secret_key, and the public half in the log.
Serve(file, dir) ==
    /\ signer = NoKey /\ starts < MaxStarts
    /\ file \in Usable
    /\ signer' = SecretKeyOf(file)
    /\ store_dir' = dir
    /\ refused' = {}
    /\ shown' = shown \cup {Showing(file)}
    /\ starts' = starts + 1
    /\ UNCHANGED <<table, uploaded, exchange>>

\* The process ends, and its connections with it.
Stop ==
    /\ signer # NoKey
    /\ signer' = NoKey /\ store_dir' = NoDir
    /\ request' = NoRequest /\ Answer(0, <<>>)
    /\ UNCHANGED <<table, uploaded, puts, refused, shown, starts>>

\* rotate: every record signed again, under the key of another file and for
\* the directory of this process.
Rotate(file, dir) ==
    /\ signer = NoKey /\ starts < MaxStarts
    /\ file \in Usable
    /\ table' = [h \in DOMAIN table |-> Resign(dir, table[h], SecretKeyOf(file))]
    /\ refused' = {}
    /\ shown' = shown \cup {Showing(file)}
    /\ starts' = starts + 1
    /\ UNCHANGED <<uploaded, exchange, signer, store_dir>>

\* delete: the record and the row of its NAR, whoever else has that NAR; the
\* artifact stays.
Delete(text) ==
    LET h == Decode(text, HashWidth)
        n == table[h].nar_hash
    IN  /\ signer = NoKey
        /\ text \in Keys
        /\ h \in DOMAIN table
        /\ table' = [x \in DOMAIN table \ {h} |-> table[x]]
        /\ nars' = [x \in DOMAIN nars \ {n} |-> nars[x]]
        /\ UNCHANGED <<stored, exchange, process>>

Next ==
    \/ \E text \in KeyTexts :
          \/ BadKey(text)
          \/ Miss(text)
          \/ Hit(text)
          \/ Delete(text)
    \/ \E body \in Bodies : Put(body) \/ Refuse(body)
    \/ \E upload \in Uploads : StoreNar(upload)
    \/ \E file \in KeyFiles :
          \/ Malformed(file)
          \/ \E dir \in Dirs : Serve(file, dir) \/ Rotate(file, dir)
    \/ Stop

Spec == Init /\ [][Next]_vars

-----------------------------------------------------------------------------
(* The client: nix's NarInfo and ValidPathInfo.                            *)

\* NarInfo::NarInfo takes a value from two characters past the colon.
ClientReads(body) == \A i \in DOMAIN body : body[i].sep = ": "

\* The value of a field that is there once.
ValueOf(body, key) ==
    body[CHOOSE i \in DOMAIN body : body[i].key = key].value

\* ValidPathInfo::fingerprint prints a set of references, and every path under
\* the directory of the client's own store.
ClientFingerprint(dir, body) ==
    LET refs == ValueOf(body, "References")
    IN  [dir |-> dir,
         store_path |-> PathOf(ValueOf(body, "StorePath")[1]),
         nar_hash |-> DigestOf(ValueOf(body, "NarHash")[1]),
         nar_size |-> ValueOf(body, "NarSize")[1].digits[1],
         references |-> [p \in {PathOf(w) : w \in ToSet(refs)} |-> 1]]

\* What a client finds at the URL is what the body says of it.
Describes(body, upload) ==
    LET url == ValueOf(body, "URL")[1]
    IN  /\ IsNarUrl(url)
        /\ NarUrlOf(url) = [file_hash |-> upload.file_hash,
                            compression |-> upload.compression]
        /\ ValueOf(body, "FileSize")[1] = Number(upload.file_size)
        /\ DigestOf(ValueOf(body, "NarHash")[1]) = upload.nar_hash
        /\ ValueOf(body, "NarSize")[1] = Number(upload.nar_size)

-----------------------------------------------------------------------------
(* Properties.                                                             *)

\* The "render round-trip property": parse is the inverse of render on every
\* record a push can make, under whatever key a file gave the server and
\* whatever directory it prints paths under.
ReadsBack ==
    \A h \in DOMAIN table, dir \in Dirs :
        /\ Parses(dir, Render(dir, table[h]))
        /\ Parse(Render(dir, table[h])) = table[h]

\* What keygen prints for a name, with the newline of println.
Printed(name, seed) == [SecretText(Generate(name, seed)) EXCEPT !.padded = TRUE]

\* "`bincache keygen --name x > key` is the whole workflow": no process refuses
\* to start with what keygen printed, unless the name was blank or has a colon
\* in it; and what a server signs verifies under the public key that keygen
\* shows for the name and the seed of a file, space around the name included.
KeygenStartsServer ==
    /\ \A file \in refused :
           \/ file # Printed(file.name, file.halves[1])
           \/ Len(file.name.parts) # 1 \/ file.name.parts[1] = ""
    /\ signer # NoKey => \E file \in Usable :
           Verifies(PublicText(Generate(file.name, file.halves[1])),
                    "text", Signature(signer, "text"))

\* Every record a push without repeated references makes, as a server prints
\* it for the clients of a store directory: the client reads it, and finds in
\* it a signature that verifies under a key the operator was shown, over the
\* fingerprint it computes itself, exactly if the process that signed it last
\* ran for that directory; and the URL in it routes to an artifact that was
\* stored and is what the rest of it says, whatever became of the row since.
ClientAccepts ==
    \A h \in DOMAIN table, dir \in Dirs :
        LET r == table[h]
            body == Render(dir, r)
        IN  IsInjective(r.references) =>
                /\ ClientReads(body)
                /\ (\E sig \in ToSet(r.sigs) : sig.over.dir = dir)
                        <=> \E text \in shown, sig \in ToSet(r.sigs) :
                               Verifies(text, ClientFingerprint(dir, body), sig)
                /\ \E upload \in stored : Describes(body, upload)

\* A record fetched and pushed back, any number of times, is unchanged, but for
\* the key of the server that signed it last and for the file, which is the
\* row's now; once a path that shares its NAR was deleted it is refused until
\* the NAR is uploaded again.
RepushStable ==
    \A h \in DOMAIN table : signer # NoKey =>
        LET r == table[h]
            body == Render(store_dir, r)
        IN  IF r.nar_hash \in DOMAIN nars
            THEN /\ Errors(body) = {}
                 /\ RecordFor(Parse(body))
                        = Resign(store_dir, Placed(r, nars[r.nar_hash]), signer)
            ELSE Errors(body) = {"UnknownNar"}

\* A key is answered with the record whose path it spells, and no two keys
\* are answered with one record.
KeyNamesRecord ==
    answer = 200 => ValueOf(served, "StorePath")[1].digits = request.key

\* The value of the last line of a field.
LastOf(body, key) ==
    body[CHOOSE i \in DOMAIN body :
            body[i].key = key /\ \A j \in i + 1 .. Len(body) : body[j].key # key].value

\* The last line of a field stands, whatever the order of the lines; the
\* references are all those listed; an unknown key changes nothing.
LastLineStands ==
    answer = 201 =>
        LET path == PathOf(LastOf(request.body, "StorePath")[1])
            Lines(key) == {i \in DOMAIN request.body : request.body[i].key = key}
        IN  /\ path.hash \in DOMAIN table
            /\ LET r == table[path.hash]
               IN  /\ r.store_path = path
                   /\ r.nar_hash = DigestOf(LastOf(request.body, "NarHash")[1])
                   /\ <<r.nar_size>> = LastOf(request.body, "NarSize")[1].digits
                   /\ ToSet(r.references) =
                        UNION {{PathOf(w) : w \in ToSet(request.body[i].value)} :
                                  i \in Lines("References")}
                   /\ r.ca = IF Lines("CA") = {} THEN <<>>
                             ELSE <<LastOf(request.body, "CA")>>

=============================================================================
