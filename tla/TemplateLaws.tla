---------------------------- MODULE TemplateLaws ----------------------------
(***************************************************************************)
(* The template engine on pairs of templates.  A pair is made from trees:  *)
(* the left and the right side of a law, put into the same context of      *)
(* blocks.  The trees are printed as source and go through the three       *)
(* stages of evaluate_template(): the parser must give the trees back, and *)
(* the two outputs must be related as the law says.                        *)
(***************************************************************************)
EXTENDS Template

VARIABLES
  pair,    \* the law and its two sides, as trees
  stage,   \* source, tokens, tree, done
  work     \* work[i]: what the stage has made of side i

vars == <<pair, stage, work>>
-----------------------------------------------------------------------------
(* Trees                                                                   *)

\* Neighbouring texts are one text.
Join(a, b) ==
  IF a # <<>> /\ b # <<>> /\ Last(a).k = "text" /\ Head(b).k = "text"
    THEN Front(a) \o <<TextNode(Last(a).params \o Head(b).params)>> \o Tail(b)
    ELSE a \o b

X == <<TextNode(<<"x">>)>>
Y == <<TextNode(<<"y">>)>>
Mark == <<TextNode(<<"!">>)>>
Do(name, params) == <<DirectiveNode(name, params)>>
BlockOf(name, params, body) == <<Node("block", name, params, body, <<>>, <<>>)>>
IfElse(c, a, d, b, e) == <<Node("block", "if", <<c>>, a, <<[cond |-> <<d>>, body |-> b]>>, e)>>
For(v, body) == BlockOf("for", <<v, "0", "2">>, body)
Set(v, s) == Do("set", <<v, s>>)
Section_(s, body) == <<SectionNode(s, body)>>
Yield_(s) == <<YieldNode(s)>>

Piece(w) == IF \E x \in DOMAIN Dollar : Dollar[x] = w
              THEN <<"var", CHOOSE x \in DOMAIN Dollar : Dollar[x] = w>> ELSE <<"txt", w>>
Txt(seq) == [i \in 1 .. Len(seq) |-> Piece(seq[i])]
Args(params) ==
  IF params = <<>> THEN <<>> ELSE Txt(<<"(">> \o Separated(params, ",") \o <<")">>)

\* How a tree is written.
RECURSIVE WriteNode(_)
WriteTree(nodes) == FoldLeft(LAMBDA s, n : s \o WriteNode(n), <<>>, nodes)
Braced(body) == Txt(<<"{">>) \o WriteTree(body) \o Txt(<<"}">>)
WriteNode(n) ==
  CASE n.k = "text" -> Txt(n.params)
    [] n.k = "var" -> <<<<"var", n.name>>>>
    [] n.k = "yield" -> <<<<"dir", "yield">>>> \o Args(<<n.name>>)
    [] n.k = "section" -> <<<<"dir", "section">>>> \o Args(<<n.name>>) \o Braced(n.body)
    [] n.k = "directive" -> <<<<"dir", n.name>>>> \o Args(n.params)
    [] n.k = "block" ->
         <<<<"dir", n.name>>>> \o Args(n.params) \o Braced(n.body)
         \o FoldLeft(LAMBDA s, e : s \o Txt(<<"elif">>) \o Args(e.cond) \o Braced(e.body), <<>>, n.elifs)
         \o (IF n.els = <<>> THEN <<>> ELSE Txt(<<"else">>) \o Braced(n.els))

\* Small bodies, with an inner loop that has a break of its own, and none.
Bodies == {<<>>, X, Do("write", <<"z", "$i">>), <<VarNode("v")>>,
           For("k", Join(Y, Do("break", <<>>)))}

Around(k, body) ==
  CASE k = "none" -> body
    [] k = "text" -> Join(Join(Y, body), Y)
    [] k = "if" -> BlockOf("if", <<"1">>, Join(body, X))
    [] k = "else" -> IfElse("0", X, "w", Y, Join(X, body))
    [] k = "for" -> Join(For("j", body), Y)
    [] k = "function" -> BlockOf("function", <<"g">>, body) \o Do("g", <<>>) \o Do("g", <<>>)
    [] k = "section" -> Join(Y, Section_("t", body) \o Yield_("t"))

Contexts == {"none", "text", "if", "else", "for", "function", "section"}
-----------------------------------------------------------------------------
(* Laws                                                                    *)

Sides(law, a, b) ==
  CASE law = "unroll" -> <<For("i", Join(a, b)),
                           Join(Join(Set("i", "0") \o a, b), Join(Set("i", "1") \o a, b))>>
    [] law = "break" -> <<For("i", Join(a, Do("break", <<>>) \o b)), Set("i", "0") \o a>>
    [] law = "break in if" ->
         <<For("i", Join(a, BlockOf("if", <<"1">>, Do("break", <<>>) \o b))), Set("i", "0") \o a>>
    [] law = "break in call" ->
         <<BlockOf("function", <<"f">>, Do("break", <<>>) \o b) \o For("i", Join(a, Do("f", <<>>) \o b)),
           Set("i", "0") \o a>>
    [] law = "while" ->
         <<Set("w", "1") \o BlockOf("while", <<"w">>, Join(a, Set("w", "0") \o b)),
           Set("w", "1") \o Join(a, Set("w", "0") \o b)>>
    [] law = "choice" -> <<Join(IfElse("w", a, "1", b, X), Y), Join(b, Y)>>
    [] law = "call" ->
         <<Join(BlockOf("function", <<"f">>, a) \o Do("f", <<>>), b \o Do("f", <<>>)),
           Join(Join(a, b), a)>>
    [] law = "yield" -> <<Section_("s", a) \o Join(b, Yield_("s")), Join(b, a)>>
    [] law = "exit" -> <<Join(a, Do("exit", <<>>) \o b), Join(Join(a, Mark), b)>>

\* `a' as the body of a section runs before `b': it must not use the variables
\* that b sets.  A section around @exit is another matter (see README).
Sensible(law, a, b, k1, k2) ==
  /\ law = "yield" => a = X \/ b = X
  /\ law = "exit" => "section" \notin {k1, k2}

Pairs ==
  { [law |-> law, sides |-> [i \in 1 .. 2 |->
       Set("v", "1") \o Set("w", "0") \o Around(k1, Around(k2, Sides(law, a, b)[i]))]] :
    <<law, a, b, k1, k2>> \in
      {q \in {"unroll", "break", "break in if", "break in call", "while", "choice", "call", "yield", "exit"}
             \X Bodies \X Bodies \X Contexts \X Contexts :
         Sensible(q[1], q[2], q[3], q[4], q[5])} }
-----------------------------------------------------------------------------
(* evaluate_template() on both sides                                       *)

Init ==
  /\ pair \in Pairs
  /\ stage = "source"
  /\ work = [i \in 1 .. 2 |-> WriteTree(pair.sides[i])]

Advance(from, to, Op(_)) ==
  /\ stage = from
  /\ stage' = to
  /\ work' = [i \in 1 .. 2 |-> Op(work[i])]
  /\ UNCHANGED pair

Lex == Advance("source", "tokens", tokenize)
Parse == Advance("tokens", "tree", parse)
Evaluate == Advance("tree", "done", LAMBDA nodes : Program(Ctx, nodes).output)

Next == Lex \/ Parse \/ Evaluate

Spec == Init /\ [][Next]_vars
-----------------------------------------------------------------------------
(* Properties                                                              *)

\* The parser gives back the tree that was written down: nested blocks, their
\* elif and else branches and the text around them, though the pieces of one
\* text token belong to several blocks.
RoundTrip == stage = "tree" => \A i \in 1 .. 2 : work[i] = pair.sides[i]

\* In every context: a loop is its body unrolled and @break leaves the
\* innermost loop, be it in an @if or in a function that the loop calls; of the
\* branches of an @if one is taken; a function is its body wherever it is
\* called; a section writes where it is yielded and nowhere else.
Laws == stage = "done" /\ pair.law # "exit" => work[1] = work[2]

\* @exit cuts off what comes after it and nothing else: with a mark in its
\* place the output is the same up to the first mark.
ExitCutsOff ==
  stage = "done" /\ pair.law = "exit" =>
    LET at == SelectInSeq(work[2], LAMBDA word : word = "!") IN
    work[1] = IF at = 0 THEN work[2] ELSE SubSeq(work[2], 1, at - 1)
=============================================================================
