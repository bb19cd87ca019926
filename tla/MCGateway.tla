------------------------------ MODULE MCGateway ------------------------------
\* Small instances of Gateway for TLC.
EXTENDS Gateway

CONSTANTS alpha, beta, stranger, secretA, secretB, wrong, s1, s2, s3

Alphabet == {"d", "e", "n", "m", "k", "a"}

\* A marker goes on over whatever is neither end of one.
Between == Alphabet \ {"m", "k"}

\* Events with a harmless delta, either half of a marker, a whole one, and a
\* whole one that is no delta.
Delta(text) == <<"d">> \o text \o <<"e", "n", "n">>
Events == {Delta(<<"a">>), Delta(<<"m">>), Delta(<<"k">>), <<"m", "k", "n", "n">>}

\* Two lines in one event; a last event without its end; a line broken off; two
\* that are too long to wait for, with a marker across the cut; and markers
\* longer than the tail, in one event, over two, and in the text of three.
Others == {
  <<"d", "m", "e", "n", "d", "k", "e", "n", "n">>,
  Delta(<<"a">>) \o <<"d", "m", "k", "e">>,
  Delta(<<"m">>) \o <<"d", "k">>,
  <<"a", "a", "a", "a", "a", "a", "m", "a", "k", "n", "n">>,
  <<"d", "a", "a", "a", "a", "m", "a", "k", "e", "n", "n">>,
  <<"m", "a", "a", "a", "k", "n", "n">>,
  <<"m", "n", "n", "k", "n", "n">>,
  Delta(<<"m">>) \o Delta(<<"a", "a">>) \o Delta(<<"k">>)}

Sayings == {x \o y \o z : x, y, z \in Events} \cup Others

\* Conversations of up to three messages, with contents that are missing, null,
\* empty, fit together, and fit with nothing else; with a list of strings; and
\* with images, typed texts and calls of tools.
Word(n) == [text |-> n, beside |-> 0]
Said(roles, contents) == [role : roles, content : contents, beside : {0}]
Strings == {<<Word(n)>> : n \in {0, 2, 9}}
Lists == {<<Word(1), Word(1), Word(0), Word(1), Word(1)>>,
          <<[text |-> 2, beside |-> 1], [text |-> 0, beside |-> 4]>>}
SaidByAll == Said({"system", "user", "assistant", "tool"}, {<<>>, <<Word(4)>>} \cup Strings)
Shown == Said({"system", "user"}, Lists)
           \cup [role : {"assistant"}, content : {<<>>}, beside : {4}]
Talks == [{1} -> SaidByAll] \cup [1..2 -> SaidByAll]
           \cup [1..3 -> Said({"system", "user", "assistant"}, {<<Word(2)>>, <<Word(9)>>})]
           \cup [{1} -> Shown] \cup [1..2 -> Shown] \cup [1..3 -> Shown]
Body(m, p, st) == [messages |-> m, prompt |-> p, stream |-> st]
Talker(role) == [role |-> role, content |-> <<Word(2)>>, beside |-> 0]
Payloads == {Body(t, Absent, FALSE) : t \in Talks}
               \cup {Body(Absent, Absent, FALSE), Body(Absent, 3, FALSE),
                     Body(Absent, 3, TRUE), Body(<<>>, 3, FALSE),
                     Body(<<Talker("blank")>>, Absent, FALSE),
                     Body(<<Talker("system")>>, 3, FALSE)}
FirstThenAnthropic == <<"openai", "anthropic">>

\* The owners of two tenants and others in their name, on every route.
TokenOfEach == (alpha :> secretA @@ beta :> secretB)
OnlyOne == (beta :> {s2})
Come == [route : {"healthz", "readyz", "servers"}, tenant : {alpha, stranger, "none"},
         token : {secretA}, server : {s1}, message : {"request"}]
  \cup [route : {"rpc"}, tenant : {alpha, beta, stranger, "none"},
        token : {secretA, secretB, wrong, "none", "not ascii"},
        server : {s1, s2, s3}, message : Messages]
  \cup [route : {"chat"}, tenant : {alpha}, token : {secretA, secretB},
        server : {s1}, message : {"request"}]
=============================================================================
