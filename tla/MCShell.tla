------------------------------ MODULE MCShell ------------------------------
EXTENDS Shell, MCEditor

MCWords == {<<"a", "b", "a">>, <<"c">>}

MCNames == {<<"A">>, <<"B", "B">>, <<"B", "B", "B">>}
MCTyped ==
  {<<"A">>, <<"$", "A">>, <<"$", "{", "B", "}", "A", "A">>, <<"$", "B", "B", " ", "A">>, <<"$", "{", "A", "}">>}
MCBehind == {<<>>, <<"B">>}

MCAscii == "\n" :> 10 @@ "\t" :> 9 @@ " " :> 32 @@ "/" :> 47 @@ "a" :> 97

MCFpNamed == [pi |-> 50, e |-> 43, phi |-> 25, sqrt2 |-> 22, tau |-> 100]

MCPieces ==
  [file |-> DOMAIN MCAscii,
   cipher |-> {97, 90, 77, 32, 37, 43, 49, 200},
   sci |-> {"2", "3", "e", "~", "+", "-", "*", "/", "^", "max", "mod"},
   values |-> {-5, 0, 3, 16},
   memory |-> {0, 45, 49, 50},
   line |-> {Word(<<"a">>), Word(<<"-", ">">>), MarkPiece(<<";">>), MarkPiece(<<"|">>), MarkPiece(<<">">>), MarkPiece(<<">", ">">>),
             Quoted(<<>>), Quoted(<<";">>), Quoted(<<"|", " ", "a">>), Quoted(<<">">>)}]
MCMostPieces == [file |-> 5, cipher |-> 3, sci |-> 5, values |-> 4, memory |-> 5, line |-> 4]

MCRun(f) == [kind |-> "source", file |-> f]
MCCopy(f, g) == [kind |-> "copy", file |-> f, to |-> g]
MCOther == [kind |-> "other"]
MCLineParts == {MCOther, MCCopy("b", "a")} \cup {MCRun(f) : f \in {"a", "b", "c"}}
MCScriptLines ==
  [a |-> <<<<MCRun("b"), MCOther>>, <<MCRun("a")>>>>, b |-> <<<<MCCopy("b", "a"), MCRun("a"), MCRun("b")>>>>]
MCTypedLines == {<<MCOther, MCRun("a"), MCRun("b"), MCRun("a")>>, <<MCRun("b"), MCRun("c")>>}

Symmetry == Permutations(Blocks)
=============================================================================
