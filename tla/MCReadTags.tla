------------------------------ MODULE MCReadTags ------------------------------
(***************************************************************************)
(* Two small files, alone and together, for ReadTags.                      *)
(***************************************************************************)
EXTENDS ReadTags

CONSTANTS a, b

Plain(t) == [text |-> t, bytes |-> Len(t), whole |-> TRUE]
Archive(t, n) == [text |-> t, bytes |-> n, whole |-> TRUE]
TornArchive(t, n) == [text |-> t, bytes |-> n, whole |-> FALSE]

One  == <<"x">>
Two  == <<"x", "newline", "newline", "y", "newline">>

(* Archives that are cut off at once or later, and one of the same size.   *)
Archives ==
    {Archive(One, 1), Archive(Two, 2), Archive(<<"y", "y">>, 1),
     TornArchive(<<>>, 0), TornArchive(<<"x">>, 1)}

MCContents ==
    [none  |-> {Missing, Plain(<<>>), Plain(One), Plain(Two),
                Plain(<<"newline", "y", "y">>)},
     gzip  |-> {Missing} \cup Archives,
     lzma  |-> {Missing} \cup Archives,
     other |-> {Plain(One)}]

Read(type, name) == [type |-> type, name |-> name]

MCArgLists ==
    {<<Read(type, a)>> : type \in Types} \cup
    {<<Read("none", a), Read("gzip", b)>>, <<Read("lzma", a), Read("none", b)>>,
     <<Read("other", a), Read("none", b)>>}
=============================================================================
