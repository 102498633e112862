-------------------------------- MODULE Lexer --------------------------------
(***************************************************************************)
(* The lexer (scanner/lex.go): a goroutine that turns the input into       *)
(* tokens and hands them over an unbuffered channel.  A newline is a       *)
(* semicolon when something of the line asked for it and no parenthesis is *)
(* open.  To send is to wait until the parser receives, and what the lexer *)
(* did since its last token nobody can see: both are one step.             *)
(*                                                                         *)
(* The input is not given: what comes next is chosen when it is read.      *)
(* Tokens are those of token/token.go; "In" is the Ident in.               *)
(***************************************************************************)
EXTENDS Integers, Sequences

CONSTANT MaxTokens   \* bound: tokens and newlines of the input

ASSUME LexerAssumption == MaxTokens \in Nat

Keyword == {"Import", "SetEnv", "BindFn", "Dump", "Return", "If", "Else", "For",
            "Rfork", "Fn", "Var"}
Identifier == {"Ident", "In"}
Word == Identifier \cup Keyword \cup {"Arg"}
(* Tokens that say nothing about the end of the line. *)
Plain == {"String", "Number", "Variable", "Assign", "AssignCmd", "Equal", "NotEqual",
          "Plus", "Gt", "Lt", "Pipe", "LBrack", "RBrack", "Comma", "Dotdotdot"}
Token == Word \cup Plain \cup {"LParen", "RParen", "LBrace", "RBrace", "Semicolon",
                               "Comment", "EOF"}
NoToken == "none"

VARIABLES
  state,         \* "run", "nil" (no state function left), "eof" or "closed"
  rest,          \* the input that may follow: "any", the end of the "line",
                 \* or the "end" of the input
  length,        \* of the input read
  addSemicolon,
  openParens,
  tok            \* the token the parser looks at, if it is not receiving
lexer == <<state, rest, length, addSemicolon, openParens>>

InitLexer ==
  /\ state = "run" /\ rest = "any" /\ length = 0
  /\ addSemicolon = FALSE /\ openParens = 0
  /\ tok = NoToken

emit(t) == tok = NoToken /\ tok' = t

(* A token of the input. *)
Scan(t) ==
  /\ state = "run" /\ rest = "any" /\ length < MaxTokens
  /\ length' = length + 1
  /\ emit(t)

LexPlain(t) ==
  /\ Scan(t)
  /\ UNCHANGED <<state, rest, addSemicolon, openParens>>

(* A word asks for a semicolon, unless it ends an input with an open       *)
(* parenthesis. One that starts with a digit leaves that as it is, and one *)
(* that starts with another sign than a letter always asks.                *)
LexWord(t, last) ==
  /\ Scan(t)
  /\ rest' = IF last THEN "end" ELSE rest
  /\ addSemicolon' \in
       {~(last /\ openParens > 0)}
         \cup (IF t \in Identifier \cup {"Arg"} THEN {addSemicolon} ELSE {})
         \cup (IF t = "Arg" THEN {TRUE} ELSE {})
  /\ UNCHANGED <<state, openParens>>

LexParen(t) ==
  /\ Scan(t)
  /\ openParens' = IF t = "LParen" THEN openParens + 1 ELSE openParens - 1
  /\ addSemicolon' = (t = "RParen")
  /\ UNCHANGED <<state, rest>>

LexBrace(t) ==
  /\ Scan(t)
  /\ addSemicolon' = FALSE
  /\ UNCHANGED <<state, rest, openParens>>

LexSemicolon ==
  /\ Scan("Semicolon")
  /\ UNCHANGED <<state, rest, addSemicolon, openParens>>

LexComment ==
  /\ Scan("Comment")
  /\ rest' = "line"
  /\ UNCHANGED <<state, addSemicolon, openParens>>

LexNewline ==
  /\ state = "run" /\ rest # "end" /\ length < MaxTokens
  /\ length' = length + 1
  /\ rest' = "any"
  /\ IF addSemicolon /\ openParens = 0 THEN emit("Semicolon") ELSE UNCHANGED tok
  /\ addSemicolon' = FALSE
  /\ UNCHANGED <<state, openParens>>

(* errorf: what the lexer does not know ends it. *)
LexIllegal ==
  /\ Scan("Illegal")
  /\ state' = "nil"
  /\ UNCHANGED <<rest, addSemicolon, openParens>>

(* The input is read. *)
LexEnd ==
  /\ state = "run"
  /\ IF addSemicolon THEN emit("Semicolon") ELSE UNCHANGED tok
  /\ addSemicolon' = FALSE
  /\ state' = "nil"
  /\ UNCHANGED <<rest, length, openParens>>

EmitEOF ==
  /\ state = "nil"
  /\ emit("EOF")
  /\ state' = "eof"
  /\ UNCHANGED <<rest, length, addSemicolon, openParens>>

Close ==
  /\ state = "eof"
  /\ state' = "closed"
  /\ UNCHANGED <<rest, length, addSemicolon, openParens, tok>>

Run ==
  \/ \E t \in Plain : LexPlain(t)
  \/ \E t \in Word, last \in BOOLEAN : LexWord(t, last)
  \/ \E t \in {"LParen", "RParen"} : LexParen(t)
  \/ \E t \in {"LBrace", "RBrace"} : LexBrace(t)
  \/ LexSemicolon \/ LexComment \/ LexNewline \/ LexIllegal
  \/ LexEnd \/ EmitEOF \/ Close

=============================================================================
