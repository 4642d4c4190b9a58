----------------------------- MODULE MCNarinfo ------------------------------
(* Bodies and keys for TLC: what nix pushes, with a line changed, missing, *)
(* or added in front and behind.                                           *)
EXTENDS Narinfo

H1 == <<255, 1>>
H2 == <<9, 128>>
N1 == <<200>>
N2 == <<7>>
F1 == <<33>>
F2 == <<34>>

Hello == [hash |-> H1, name |-> "hello"]
Glibc == [hash |-> H2, name |-> "glibc"]

\* One NAR, compressed at two levels.
SomeUploads ==
    {[nar_hash |-> N1, nar_size |-> 6, file_hash |-> f, file_size |-> size,
      compression |-> "zstd"] : <<f, size>> \in {<<F1, 3>>, <<F2, 4>>}}

Nix == "/nix/store/"
Gnu == "/gnu/store/"
SomeDirs == {Nix, Gnu}

\* The hashes as they are spelled, with spare bits set, with a byte outside the
\* alphabet, and cut short.
SomeKeys ==
    {Encode(H1), Encode(H2),
     [Encode(H1) EXCEPT ![1] = @ + 2],
     [Encode(H1) EXCEPT ![3] = Foreign], Tail(Encode(H2))}

\* Two that keygen printed, one for a name with a space in front, one with the
\* halves of two keys, and some that are no key files: an empty name, a blank
\* one, a colon in it, half a key, no colon.
Name(lead, parts) == [lead |-> lead, parts |-> parts]

SomeKeyFiles ==
    {Printed(Name("", <<"host-1">>), 1), Printed(Name(" ", <<"host-1">>), 1),
     Printed(Name("", <<"">>), 1), Printed(Name(" ", <<"">>), 1),
     Printed(Name("", <<"host", "1">>), 1),
     Spell(Name("", <<"host-2">>), <<2, PublicHalf(1)>>),
     Spell(Name("", <<"host-1">>), <<1>>), Spell(NoName, <<1, PublicHalf(1)>>)}

Bare(key) == [key |-> key, sep |-> ":", value |-> <<>>, sig |-> <<>>]
Stuck(key) == [key |-> key, sep |-> ":", value |-> <<Plain("x")>>, sig |-> <<>>]
Blank == [key |-> "", sep |-> "", value |-> <<>>, sig |-> <<>>]
Garbage == [key |-> "", sep |-> "", value |-> <<Plain("garbage")>>, sig |-> <<>>]

\* What nix renders before the server has signed it.
Usual(refs) ==
    << Line("StorePath", <<FullPath(Nix, Hello)>>),
       Line("URL", <<Word("nar/", Encode(N1), "")>>),
       Line("Compression", <<Plain("none")>>),
       Line("FileHash", <<PrintDigest(N1)>>),
       Line("FileSize", <<Number(6)>>),
       Line("NarHash", <<PrintDigest(N1)>>),
       Line("NarSize", <<Number(6)>>),
       Line("References", [i \in DOMAIN refs |-> Base(refs[i])]),
       Line("Deriver", <<Base(Glibc)>>),
       SigLine(Signature(Generate(Name("", <<"theirs">>), 9), Fingerprint(Nix,
           [store_path |-> Glibc, nar_hash |-> N2, nar_size |-> 1,
            references |-> <<>>]))) >>

Others ==
    { Line("StorePath", <<FullPath(Nix, Glibc)>>),
      Line("StorePath", <<Base(Glibc)>>),
      Line("StorePath", <<Word(Nix, Encode(H2), ".hidden")>>),
      Line("StorePath", <<FullPath(Gnu, Hello)>>),
      Bare("URL"), Stuck("URL"),
      Line("Compression", <<Plain("lzip")>>),
      Line("Compression", <<Plain("xz")>>),
      Line("FileHash", <<Word("md5:", Encode(F1), "")>>),
      Line("FileHash", <<Word("sha256-", F1, "base64")>>),
      Line("NarHash", <<PrintDigest(N2)>>),
      Line("NarHash", <<Word("", N1, "hex")>>),
      Line("NarHash", <<Word("sha256:", [Encode(N1) EXCEPT ![1] = @ + 8], "")>>),
      Line("NarSize", <<Number(0)>>),
      Line("NarSize", <<Number(5)>>),
      Line("NarSize", <<Number(U64Max + 1)>>),
      Line("NarSize", <<Plain("six")>>),
      Bare("References"),
      Line("References", <<Base(Glibc)>>),
      Line("References", <<FullPath(Nix, Glibc)>>),
      Line("Deriver", UnknownDeriver),
      Line("Deriver", <<FullPath(Nix, Glibc)>>),
      Line("Sig", <<Plain("unsplit")>>),
      Line("CA", <<Plain("fixed:r:sha256")>>),
      Line("Mystery", <<Plain("x")>>),
      Blank, Garbage }

\* Lines that a later one of their field overrules, or adds to.
Overruled ==
    { Line("StorePath", <<FullPath(Nix, Glibc)>>), Line("NarHash", <<PrintDigest(N2)>>),
      Line("References", <<Base(Glibc)>>), Line("CA", <<Plain("text:sha256")>>) }

\* A line changed, missing, or added in front or behind, or both for one field.
SomeBodies ==
    LET usual == Usual(<<Hello, Glibc>>)
        Like(l) == {x \in Others : x.key = l.key}
    IN  {usual}
        \cup {RemoveAt(usual, i) : i \in 1 .. 10}
        \cup UNION {{ReplaceAt(usual, i, l) : l \in Like(usual[i])} : i \in 1 .. 10}
        \cup {<<l>> \o usual : l \in Overruled}
        \cup {Append(usual, l) :
                 l \in Overruled \cup {x \in Others : \A i \in 1 .. 10 : x.key # usual[i].key}}
        \cup {<<l>> \o usual \o <<x>> : l \in {y \in Overruled : y.key = "CA"}, x \in Like(Line("CA", <<>>))}

=============================================================================
