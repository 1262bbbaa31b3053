------------------------------ MODULE MCCodecs ------------------------------
(***************************************************************************)
(* How a codec comes to be and is kept: the compilation of one type, and   *)
(* the cache of compiled encoders that goroutines share.  A behaviour is   *)
(* about one of them; the cache knows of the compilation only whether it   *)
(* succeeds.                                                               *)
(***************************************************************************)
EXTENDS MarshalCache, TypeCompiler

VARIABLE subject                \* "compile" or "marshal"

(***************************************************************************)
(* Type graphs of four types: a struct at the root, a second type of any   *)
(* kind, a third that is no struct, and a channel.  Each part may be any   *)
(* of them, so that every kind of recursion and of repetition occurs, with *)
(* the channel in front of the parts that succeed or behind them.          *)
(***************************************************************************)
TypeIds == 1..4

Made(kind, parts, inline, hook) == [kind |-> kind, parts |-> parts, inline |-> inline, hook |-> hook]

Bare ==
    { Made("scalar", <<>>, FALSE, h) : h \in BOOLEAN }
    \cup { Made(k, <<t>>, FALSE, h) : k \in {"ref", "map"}, t \in TypeIds, h \in BOOLEAN }

Structs ==
    { Made("struct", <<a, b>>, i, h) : a \in TypeIds, b \in TypeIds, i \in BOOLEAN, h \in BOOLEAN }

\* Go has no struct that contains itself by value.
Held(d) == IF d.kind = "struct" THEN { d.parts[k] : k \in 1..(IF d.inline THEN 1 ELSE 2) } ELSE {}
IsGo(g) == 1 \notin Held(g[1]) /\ 2 \notin Held(g[2]) /\ ~(1 \in Held(g[2]) /\ 2 \in Held(g[1]))

Uses(g, t) == \E u \in TypeIds \ {t} : t \in Range(g[u].parts)

TypeGraphs ==
    { g \in { <<a, b, c, Made("chan", <<>>, FALSE, FALSE)>> :
                a \in Structs, b \in Bare \cup Structs, c \in Bare } :
        IsGo(g) /\ Uses(g, 2) /\ Uses(g, 3) }

ASSUME CompilerAssumption

AnyGraph == CHOOSE g \in TypeGraphs : TRUE

CodecsInit ==
    \/ subject = "compile" /\ CompilerInit /\ Init /\ compiles = FALSE
    \/ subject = "marshal" /\ CompilerInit /\ graph = AnyGraph /\ mode = "decode" /\ Init

CodecsNext ==
    \/ subject = "marshal" /\ Next /\ UNCHANGED <<compilerVars, subject>>
    \/ subject = "compile" /\ CompilerNext /\ UNCHANGED <<vars, subject>>
    \* CompileDecoder or CompileEncoder has returned.
    \/ subject = "compile" /\ step \in {"published", "failed"} /\ UNCHANGED <<vars, compilerVars, subject>>

CodecsSpec == CodecsInit /\ [][CodecsNext]_<<vars, compilerVars, subject>>
=============================================================================
