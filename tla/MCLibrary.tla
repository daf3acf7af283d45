------------------------------ MODULE MCLibrary ------------------------------
(***************************************************************************)
(* The pieces of formats and the fields of typed lines that TLC uses for    *)
(* Library, with the text each stands for written out.                      *)
(***************************************************************************)
EXTENDS Library

Piece(fmt, args, text) ==
    [fmt |-> fmt, args |-> args, text |-> text, plain |-> args = << >> /\ fmt = text,
     percent |-> args = << >> /\ fmt # text]
D(n, text) == Piece(<<PCT, Cd>>, <<n>>, text)
X(n, text) == Piece(<<PCT, Cx>>, <<n>>, text)
S(text) == Piece(<<PCT, Cs>>, <<text>>, text)

MCPieces ==
    {Piece(<<Ca>>, << >>, <<Ca>>),
     Piece(<<PCT, PCT>>, << >>, <<PCT>>),
     Piece(<<PCT, Cc>>, <<Cd>>, <<Cd>>),
     D(0, <<48>>), D(-7, <<45, 55>>), D(105, <<49, 48, 53>>),
     D(-2147483647 - 1, <<45, 50, 49, 52, 55, 52, 56, 51, 54, 52, 56>>),
     X(10, <<97>>), X(-1, <<102, 102, 102, 102, 102, 102, 102, 102>>),
     S(<<Cd>>), S(<<Ca, Cs, Cx, Cd>>)}

\* "ends" says that the field must be the last of its line: atoi to base 16
\* does not stop at a blank or at a comma.
Field(fmt, typed, value) == [fmt |-> fmt, typed |-> typed, value |-> value, ends |-> FALSE]
MCFields ==
    {Field(<<PCT, Cd>>, <<52, 50>>, 42),
     Field(<<PCT, Cd>>, <<BLANK, 48>>, 0),
     Field(<<PCT, Cs>>, <<Ca, Cd>>, <<Ca, Cd>>),
     Field(<<PCT, Cc>>, <<Cs>>, Cs),
     Field(<<Cc, PCT, Cd>>, <<Cc, 55>>, 7),
     [fmt |-> <<PCT, Cx>>, typed |-> <<48, Cx, 49, 102>>, value |-> 31, ends |-> TRUE]}

Comma == <<44>>
Separator(fmt, typed) ==
    [fmt |-> fmt, typed |-> typed, trails |-> typed = <<BLANK, NEWLINE, BLANK>>]
MCSeparators ==
    {Separator(Comma, Comma), Separator(<<BLANK>>, <<BLANK>>),
     Separator(<<BLANK>>, <<BLANK, TAB>>), Separator(<<BLANK>>, <<NEWLINE>>),
     Separator(<< >>, <<BLANK, NEWLINE, BLANK>>),
     Separator(Comma, <<NEWLINE>> \o Comma)}

MCNumbers == 0 .. 300 \cup {4095, 65535, 65536, 99999, 100000, 2147483646, 2147483647}
=============================================================================
