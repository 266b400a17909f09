----------------------------- MODULE MCCommands -----------------------------
(* One client, two keys (a word and a number), and lines that reach every  *)
(* handler with too few, enough and too many arguments.                    *)
EXTENDS Commands

A == Token("a")
One == Number(1)
Host == Token("host")

MCKey == {A, One}

\* An empty host, and a port of more than 16 bits
MCEnvironment == (Host :> << >>) @@ (Token("port") :> <<Number(65537)>>)

MCArguments == <<Token("--data-dir"), A, Token("--quiet"), Token("--host")>>

\* The command's name and its arguments; blanks before, between and after them.
Spaced(name, args) ==
  <<Blank, Token(name), Blank, Blank>>
    \o FlattenSeq([i \in 1 .. Len(args) |-> <<args[i], Blank>>])

Calls ==
  ({"get", "Del", "INCR", "MGET", "AUTH"} \X {<<A>>})
  \cup ({"INCRBY", "EXPIRE", "PUBLISH", "PING", "INFO", "FLUSHDB", "DBSIZE", "BGREWRITEAOF",
         "CONFIG", "EXISTS", "MGET", "MSET", "Del"} \X {<<A, One>>})
  \cup ({"MSET", "INCRBY", "EXPIRE"} \X {<<One, A>>})
  \cup ({"SET", "MSET", "GET"} \X {<<A, One, A>>})
  \cup ({"INCR", "DECR", "SET", "CONFIG", "SCAN", "NOSUCH", "DELETE"} \X {<< >>, <<One>>})
  \cup {<<"SUBSCRIBE", <<A>>>>,
        <<"EXPIRE", <<One, Number(0)>>>>,
        <<"CONFIG", <<Token("GET"), Token("requirepass")>>>>,
        <<"CONFIG", <<Token("SET"), Host, A>>>>,
        <<"CONFIG", <<Token("GET"), Host>>>>,
        <<"SCAN", <<One, Token("COUNT"), One, Token("MATCH")>>>>,
        <<"SCAN", <<One, Token("MATCH"), A>>>>,
        <<"SCAN", <<One, Token("COUNT"), A>>>>}

MCLines == {<<Blank>>} \cup {Spaced(c[1], c[2]) : c \in Calls}

=============================================================================
