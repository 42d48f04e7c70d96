---------------------------- MODULE MCFuncProto ----------------------------
(* Prototypes of one case with every type, and of two cases with a few. *)
EXTENDS FuncProto

Plain(type) == Elem(type, "", "")
AllElems == {Plain(type) : type \in TypeTokens \ {"%0"}}
            \cup {Elem(type, bytes, "") : type \in {"%d", "%u"}, bytes \in {"1", "8"}}
            \cup {Elem("%F", "4", ""), Elem("%f", "8", ""), Elem("%U", "", "t")}
FewElems == {Plain("%d"), Plain("%S"), Plain("%a"), Elem("%u", "2", ""), Elem("%U", "", "t")}

Case_(d, varlen) == [d |-> d, noarg |-> FALSE, varlen |-> varlen]
NoArg(varlen) == [d |-> <<>>, noarg |-> TRUE, varlen |-> varlen]

\* Arguments of one type each, and groups of two; only a single type may be
\* repeated.
Single(S) == {<<e>> : e \in S}
Groups(S) == {<<e, f>> : e, f \in S}
Repeatable(d) == d # <<>> /\ Len(Last(d)) = 1
Cases(ds) == {Case_(d, v) : d \in ds, v \in {FALSE}} \cup {Case_(d, TRUE) : d \in {x \in ds : Repeatable(x)}}

OneArg == {<<a>> : a \in Single(AllElems) \cup Groups(AllElems)}
TwoArgs == {<<a, b>> : a \in Single(FewElems) \cup {<<Plain("%d"), Plain("%n")>>},
                       b \in Single(AllElems) \cup Groups(FewElems)}
FewCases == Cases({<<>>} \cup {<<a>> : a \in Single(FewElems)} \cup {<<a, b>> : a, b \in Single(FewElems)})
            \cup {NoArg(FALSE), NoArg(TRUE)}

MCPrototypes == {<<c>> : c \in Cases({<<>>} \cup OneArg \cup TwoArgs) \cup {NoArg(FALSE), NoArg(TRUE)}}
                \cup {<<c, d>> : c, d \in FewCases} \cup {Always}

MCArguments == {<<>>} \cup {<<v>> : v \in Values} \cup {<<v, w>> : v, w \in {"0", "-1", "", "str", "null", "t", "1.5", "script"}}
               \cup {<<v, w, x>> : v, w, x \in {"-1", "str", "t"}}
=============================================================================
