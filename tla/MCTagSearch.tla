---------------------------- MODULE MCTagSearch -----------------------------
(***************************************************************************)
(* Small instances of TagSearch.  "p" is equivalent to "f"; "n" is no      *)
(* letter of the order; "c" comes before "f".  The name "s:x" has a scope, *)
(* "x" is what print_tags_vim leaves of it, and "s" is what tokenize_vim   *)
(* makes of the word besides.  Of "1x" strsep_f leaves "x".  In the buffer *)
(* of an objc file "sub" is the language of C, which python does not take. *)
(***************************************************************************)
EXTENDS TagSearch, TLC

CONSTANTS
    MaxLines, \* bound: number of lines in the tags files
    VimLines  \* bound: number of lines in those with scopes, or with digits

MCKinds == {"c", "f", "v", "p", "n"}
MCEquivalent == [k \in MCKinds |-> IF k = "p" THEN "f" ELSE k]
MCKindRank == "c" :> 1 @@ "f" :> 2 @@ "n" :> 3 @@ "p" :> 4 @@ "v" :> 5

MCNames == {"s", "x", "y", "1x", "s:x", "a.b"}
MCNameRank == "s" :> 1 @@ "x" :> 2 @@ "y" :> 3 @@ "1x" :> 4 @@ "a.b" :> 5 @@ "s:x" :> 6
MCBare == [n \in MCNames |-> IF n = "s:x" THEN "x" ELSE n]
MCLed == [n \in MCNames |-> IF n = "1x" THEN {"x"} ELSE {n}]
MCFragment == [n \in MCNames |-> IF n = "s:x" THEN "s" ELSE n]
MCPieces == [n \in MCNames |-> IF n = "s:x" THEN {"s", "x"} ELSE {n}]

Entry(n, k, l, f) == [name |-> n, kind |-> k, lang |-> l, file |-> f]

MCLines == {Entry("x", "f", "this", "other"), Entry("x", "v", "this", "other"),
            Entry("y", "p", "this", "other"), Entry("y", "v", "this", "own"),
            Entry("a.b", "f", "this", "other"), Entry("x", "n", "this", "other")}
MCScoped == {Entry("s:x", "f", "this", "other"), Entry("s:x", "v", "this", "other"),
             Entry("s", "v", "this", "other"), Entry("x", "f", "this", "other"),
             Entry("y", "c", "this", "own")}
MCOthers == {Entry("1x", "f", "this", "other"), Entry("x", "v", "sub", "other"),
             Entry("x", "v", "this", "other"), Entry("y", "p", "this", "other")}
MCDropped == {Entry("y", "f", "that", "other"), Entry("y", NoField, "this", "other"),
              Comment}

SeqsUpTo(S, n) == UNION {[1..m -> S] : m \in 0..n}

MCInputs == SeqsUpTo(MCLines, MaxLines)
            \cup SeqsUpTo(MCScoped, VimLines)
            \cup SeqsUpTo(MCOthers, VimLines)
            \cup {<<d, l>> : d \in MCDropped, l \in MCLines}
            \cup {<<l, d>> : d \in MCDropped, l \in MCLines}
MCTexts == {<<>>, <<"x">>, <<"x", "y">>, <<"y", "x", "y">>, <<"y", "1x">>}
MCVimTexts == {<<"x">>, <<"s:x">>, <<"s:x", "y">>}
=============================================================================
