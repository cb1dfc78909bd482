------------------------------ MODULE Template ------------------------------
(***************************************************************************)
(* evaluate_template() (crates/parser): the lexer groups the source into   *)
(* tokens, the parser builds the tree, the evaluator walks it.             *)
(*                                                                         *)
(* A source is a sequence of pieces: <<"dir", name>> for @name, <<"var",   *)
(* name>> for $name, and <<"txt", s>> for a word, bracket or comma of the  *)
(* text.  White space, quotes, comments, escapes and the operators are     *)
(* left out; an argument is one word.  The parser splits a text token and  *)
(* pushes the remainder back in front of the others.                       *)
(***************************************************************************)
EXTENDS Integers, Sequences, SequencesExt

CONSTANT WhileLimit   \* max_iterations: 100000 in the code

Digits == <<"0", "1", "2">>         \* the numbers of the templates
Dollar == [v |-> "$v", i |-> "$i"]  \* the variables of their arguments
-----------------------------------------------------------------------------
(* Lexer::tokenize()                                                       *)

Token(t, v) == [t |-> t, v |-> v]
Text(v) == Token("txt", v)

\* Text goes on to the next directive or variable.
Scan(ts, p) ==
  IF p[1] = "txt" /\ ts # <<>> /\ Last(ts).t = "txt"
    THEN Append(Front(ts), Text(Append(Last(ts).v, p[2])))
    ELSE Append(ts, Token(p[1], <<p[2]>>))

tokenize(src) == FoldLeft(Scan, <<>>, src)
-----------------------------------------------------------------------------
(* Parser: every operator takes the tokens that are left and returns, as   *)
(* `rest', those it leaves.                                                *)

Node(k, name, params, body, elifs, els) ==
  [k |-> k, name |-> name, params |-> params, body |-> body, elifs |-> elifs, els |-> els]
TextNode(v) == Node("text", "", v, <<>>, <<>>, <<>>)
VarNode(x) == Node("var", x, <<>>, <<>>, <<>>, <<>>)
DirectiveNode(name, params) == Node("directive", name, params, <<>>, <<>>, <<>>)
YieldNode(name) == Node("yield", name, <<>>, <<>>, <<>>, <<>>)
SectionNode(name, body) == Node("section", name, <<>>, body, <<>>, <<>>)
ExtendsNode(layout) == Node("extends", layout, <<>>, <<>>, <<>>, <<>>)
ParentNode == Node("parent", "", <<>>, <<>>, <<>>, <<>>)

is_block_directive(name) ==
  name \in {"if", "for", "while", "do-while", "f++", "n++", "f--", "n--", "script", "lua",
            "exprtk", "read", "line", "getline", "function", "console", "section"}

\* The text at the front of the tokens.
Front1(ts) == IF ts # <<>> /\ Head(ts).t = "txt" THEN Head(ts).v ELSE <<>>
StartsWith(v, x) == v # <<>> /\ Head(v) = x

\* find(): 0 for npos.
Find(v, x) ==
  LET at == {i \in 1 .. Len(v) : v[i] = x} IN
  IF at = {} THEN 0 ELSE CHOOSE i \in at : \A j \in at : i <= j

Before(v, x) == SubSeq(v, 1, Find(v, x) - 1)
After(v, x) == SubSeq(v, Find(v, x) + 1, Len(v))

\* Mutant: what follows in the text token is dropped.
PushNothing(v, ts) == ts

PushBack(v, ts) == IF v = <<>> THEN ts ELSE <<Text(v)>> \o ts

\* A word per argument: no empty ones, no nesting, and no ; for a comma.
split_args(v) == SelectSeq(v, LAMBDA x : x # ",")

\* ( in one token, ) in a later one: variables in between are put back into
\* the text as they were written.
RECURSIVE Collect(_, _)
Collect(accum, ts) ==
  IF ts = <<>> \/ Head(ts).t = "dir" THEN [params |-> split_args(accum), rest |-> ts]
  ELSE IF Find(Front1(ts), ")") # 0
    THEN [params |-> split_args(accum \o Before(Front1(ts), ")")),
          rest |-> PushBack(After(Front1(ts), ")"), Tail(ts))]
    ELSE Collect(accum \o (IF Head(ts).t = "var" THEN <<Dollar[Head(ts).v[1]]>> ELSE Head(ts).v),
                 Tail(ts))

\* {options} and (params) at the front of the text after @name.
parse_directive_args(ts) ==
  LET v == Front1(ts)
      none == [params |-> <<>>, rest |-> ts] IN
  CASE StartsWith(v, "{") /\ Find(v, "}") # 0 ->
         LET remainder == After(v, "}")
             inner == After(remainder, "(") IN
         IF Find(remainder, "(") = 0
           THEN [none EXCEPT !.rest = PushBack(remainder, Tail(ts))]
           ELSE IF Find(inner, ")") = 0 THEN [none EXCEPT !.rest = Tail(ts)]
           ELSE [params |-> split_args(Before(inner, ")")),
                 rest |-> PushBack(After(inner, ")"), Tail(ts))]
    [] StartsWith(v, "(") /\ Find(v, ")") # 0 ->
         [params |-> split_args(Before(Tail(v), ")")),
          rest |-> PushBack(After(v, ")"), Tail(ts))]
    [] StartsWith(v, "(") /\ Find(v, ")") = 0 -> Collect(Tail(v), Tail(ts))
    [] OTHER -> none

check_for_brace(ts) == StartsWith(Front1(ts), "{")
SkipBrace(ts) == PushBack(Tail(Front1(ts)), Tail(ts))

RECURSIVE parse_node(_), parse_block_body(_, _), Branches(_, _, _)

\* Up to the first }, @endsection, or a text that begins with elif or else.
parse_block_body(body, ts) ==
  LET v == Front1(ts) IN
  CASE ts = <<>> -> [body |-> body, rest |-> ts]
    [] Find(v, "}") # 0 ->
         [body |-> IF Before(v, "}") = <<>> THEN body
                   ELSE Append(body, TextNode(Before(v, "}"))),
          rest |-> PushBack(After(v, "}"), Tail(ts))]
    [] ts # <<>> /\ Head(ts) \in {Token("dir", <<x>>) : x \in {"endsection", "ends"}} ->
         [body |-> body, rest |-> Tail(ts)]
    [] Find(v, "}") = 0 /\ (StartsWith(v, "elif") \/ StartsWith(v, "else")) ->
         [body |-> body, rest |-> ts]
    [] OTHER -> LET n == parse_node(ts) IN parse_block_body(Append(body, n.node), n.rest)

\* The elif and else branches after a block.
Branches(elifs, els, ts) ==
  LET v == Front1(ts)
      inner == After(v, "(")
      closed == Find(v, "(") # 0 /\ Find(inner, ")") # 0
      cond == IF closed THEN Before(inner, ")") ELSE <<>>
      next == IF StartsWith(v, "else") THEN PushBack(Tail(v), Tail(ts))
              ELSE IF closed THEN PushBack(After(inner, ")"), Tail(ts)) ELSE Tail(ts)
      b == parse_block_body(<<>>, SkipBrace(next)) IN
  CASE ~StartsWith(v, "elif") /\ ~StartsWith(v, "else") ->
         [elifs |-> elifs, els |-> els, rest |-> ts]
    [] (StartsWith(v, "elif") \/ StartsWith(v, "else")) /\ ~check_for_brace(next) ->
         Branches(elifs, els, next)
    [] StartsWith(v, "elif") /\ check_for_brace(next) ->
         Branches(Append(elifs, [cond |-> cond, body |-> b.body]), els, b.rest)
    [] OTHER -> Branches(elifs, b.body, b.rest)

parse_block(name, params, ts) ==
  LET b == parse_block_body(<<>>, SkipBrace(ts))
      e == Branches(<<>>, <<>>, b.rest) IN
  [node |-> Node("block", name, params, b.body, e.elifs, e.els), rest |-> e.rest]

parse_directive(name, ts) ==
  LET a == parse_directive_args(ts)
      b == parse_block(name, a.params, a.rest) IN
  CASE name = "extends" /\ a.params # <<>> -> [node |-> ExtendsNode(a.params[1]), rest |-> a.rest]
    [] name = "yield" /\ a.params # <<>> -> [node |-> YieldNode(a.params[1]), rest |-> a.rest]
    [] name = "parent" -> [node |-> ParentNode, rest |-> a.rest]
    [] is_block_directive(name) /\ check_for_brace(a.rest) ->
         IF name = "section" /\ a.params # <<>>
           THEN [node |-> SectionNode(a.params[1], b.node.body), rest |-> b.rest]
           ELSE b
    [] OTHER -> [node |-> DirectiveNode(name, a.params), rest |-> a.rest]

parse_node(ts) ==
  CASE Head(ts).t = "dir" -> parse_directive(Head(ts).v[1], Tail(ts))
    [] Head(ts).t = "var" -> [node |-> VarNode(Head(ts).v[1]), rest |-> Tail(ts)]
    [] Head(ts).t = "txt" -> [node |-> TextNode(Head(ts).v), rest |-> Tail(ts)]

RECURSIVE parse(_)
parse(ts) == IF ts = <<>> THEN <<>> ELSE LET n == parse_node(ts) IN <<n.node>> \o parse(n.rest)
-----------------------------------------------------------------------------
(* Evaluator: accept(c, n) returns an EvalResult and the context.          *)

Ctx == [output |-> <<>>, variables |-> [x \in {} |-> ""], sections |-> [x \in {} |-> <<>>],
        block_handlers |-> [x \in {} |-> <<>>]]

Result(r, c) == [r |-> r, c |-> c]
Ok(c) == Result("Ok", c)
Write(c, s) == [c EXCEPT !.output = @ \o SelectSeq(s, LAMBDA w : w # "")]
Put(f, x, y) == [z \in DOMAIN f \union {x} |-> IF z = x THEN y ELSE f[z]]
get_var(c, x) == IF x \in DOMAIN c.variables THEN c.variables[x] ELSE ""
set_var(c, x, s) == [c EXCEPT !.variables = Put(@, x, s)]

\* A condition is a variable if there is one of that name, else a literal.
Holds(c, x) ==
  (IF x \in DOMAIN c.variables THEN c.variables[x] ELSE x) \notin {"", "0", "false"}

\* stoi(): 0 for text that is no number, else one more than the number.
Index(s) == Find(Digits, s)

RECURSIVE accept(_, _), RunBody(_, _), LoopBody(_, _), handle_for(_, _, _), handle_while(_, _, _)

\* The children in order, up to one that is not Ok.
RunBody(c, body) ==
  IF body = <<>> THEN Ok(c)
  ELSE LET a == accept(c, Head(body)) IN
       IF a.r = "Ok" THEN RunBody(a.c, Tail(body)) ELSE a

\* In a loop Skip goes on with the next child.
LoopBody(c, body) ==
  IF body = <<>> THEN Ok(c)
  ELSE LET a == accept(c, Head(body)) IN
       IF a.r \in {"Ok", "Skip"} THEN LoopBody(a.c, Tail(body)) ELSE a

\* Mutant: Break leaves the loop that is around this one, too.
ForBreaksOut(c, n, i) ==
  IF i >= Index(n.params[3]) THEN Ok(c)
  ELSE LET a == LoopBody(set_var(c, n.params[1], Digits[i]), n.body) IN
       IF a.r = "Ok" THEN handle_for(a.c, n, i + 1) ELSE a

handle_for(c, n, i) ==
  IF i >= Index(n.params[3]) THEN Ok(c)
  ELSE LET a == LoopBody(set_var(c, n.params[1], Digits[i]), n.body) IN
       CASE a.r = "Break" -> Ok(a.c)
         [] a.r = "Ok" -> handle_for(a.c, n, i + 1)
         [] OTHER -> a

handle_while(c, n, left) ==
  IF left = 0 \/ ~Holds(c, n.params[1]) THEN Ok(c)
  ELSE LET a == LoopBody(c, n.body) IN
       CASE a.r = "Break" -> Ok(a.c)
         [] a.r = "Ok" -> handle_while(a.c, n, left - 1)
         [] OTHER -> a

handle_if(c, n) ==
  LET taken == {i \in 1 .. Len(n.elifs) :
                  n.elifs[i].cond # <<>> /\ Holds(c, n.elifs[i].cond[1])}
  IN CASE Holds(c, n.params[1]) -> RunBody(c, n.body)
       [] ~Holds(c, n.params[1]) /\ taken # {} ->
            RunBody(c, n.elifs[CHOOSE i \in taken : \A j \in taken : i <= j].body)
       [] OTHER -> RunBody(c, n.els)

\* The block of the call is not used.
handle_function(c, n) ==
  Ok([c EXCEPT !.block_handlers = Put(@, IF n.params = <<>> THEN n.name ELSE n.params[1], n.body)])

\* visit(BlockNode): a function may take the place of a default handler.
Block(c, n) ==
  CASE n.name \in DOMAIN c.block_handlers -> RunBody(c, c.block_handlers[n.name])
    [] n.name = "if" -> IF n.params = <<>> THEN Result("Error", c) ELSE handle_if(c, n)
    [] n.name = "for" ->
         IF Len(n.params) < 3 THEN Result("Error", c)
         ELSE IF Index(n.params[2]) = 0 \/ Index(n.params[3]) = 0 THEN Result("Error", c)
         ELSE handle_for(c, n, Index(n.params[2]))
    [] n.name \in {"while", "do-while"} ->
         IF n.params = <<>> THEN Result("Error", c) ELSE handle_while(c, n, WhileLimit)
    [] n.name \in {"function", "fn"} -> handle_function(c, n)
    [] OTHER -> RunBody(c, n.body)

\* An argument that is a variable is replaced by its value.
Resolve(c, params) ==
  [i \in 1 .. Len(params) |->
     IF \E x \in DOMAIN Dollar : Dollar[x] = params[i]
       THEN get_var(c, CHOOSE x \in DOMAIN Dollar : Dollar[x] = params[i]) ELSE params[i]]

Separated(params, by) ==
  IF params = <<>> THEN <<>>
  ELSE FoldLeft(LAMBDA a, p : a \o <<by, p>>, <<Head(params)>>, Tail(params))

\* visit(DirectiveNode): only the directives' handlers see the values.
Directive(c, n) ==
  LET p == Resolve(c, n.params) IN
  CASE n.name = "write" -> Ok(Write(c, p))
    [] n.name = "echo" -> Ok(Write(c, Separated(p, " ")))
    [] n.name \in {"input", "inject", "include", "content"} ->
         Ok(Write(c, IF p = <<>> THEN <<"[content]">> ELSE <<"[input:", p[1], "]">>))
    [] n.name = "set" -> Ok(IF Len(p) >= 2 THEN set_var(c, p[1], p[2]) ELSE c)
    [] n.name = "def" -> Ok(IF p = <<>> THEN c ELSE set_var(c, p[1], IF Len(p) = 1 THEN "" ELSE p[2]))
    [] n.name \in {"exit", "quit"} -> Result("Return", c)
    [] n.name = "continue" -> Result("Skip", c)
    [] n.name = "break" -> Result("Break", c)
    [] n.name \in DOMAIN c.block_handlers \union {"if", "for", "while", "do-while", "function", "fn"} ->
         Block(c, n)
    [] OTHER ->
         Ok(Write(c, <<"@", n.name>> \o (IF n.params = <<>> THEN <<>>
                                        ELSE <<"(">> \o Separated(n.params, ", ") \o <<")">>)))

\* The output before the section comes back only if its body ends with Ok.
Section(c, n) ==
  LET a == RunBody([c EXCEPT !.output = <<>>], n.body) IN
  IF a.r # "Ok" THEN a
  ELSE Ok([a.c EXCEPT !.sections = Put(@, n.name, a.c.output), !.output = c.output])

accept(c, n) ==
  CASE n.k = "text" -> Ok(Write(c, n.params))
    [] n.k = "var" -> Ok(Write(c, <<get_var(c, n.name)>>))
    [] n.k = "extends" -> Ok(set_var(c, "__extends", n.name))
    [] n.k = "parent" -> Ok(c)
    [] n.k = "directive" -> Directive(c, n)
    [] n.k = "block" -> Block(c, n)
    [] n.k = "section" -> Section(c, n)
    [] n.k = "yield" -> Ok(IF n.name \in DOMAIN c.sections THEN Write(c, c.sections[n.name]) ELSE c)

\* Mutant: Return ends the block it is in and the program goes on.
ProgramReturns(c, nodes) == FoldLeft(LAMBDA d, n : accept(d, n).c, c, nodes)

\* visit(ProgramNode): Skip and Break are ignored here.
RECURSIVE Program(_, _)
Program(c, nodes) ==
  IF nodes = <<>> THEN c
  ELSE LET a == accept(c, Head(nodes)) IN
       IF a.r \in {"Return", "Error"} THEN a.c ELSE Program(a.c, Tail(nodes))
=============================================================================
