----------------------------- MODULE UrlCoding ------------------------------
(* strCoding: the names in a directory menu's links are in URL coding, and *)
(* a request's path is decoded.  A text is a sequence of bytes.            *)
EXTENDS Integers, Sequences, SequencesExt

Percent   == 37
Dot       == 46
Slash     == 47
Backslash == 92

Digit == 48..57
Upper == 65..90
Lower == 97..122

(* Mutant: the sign that begins a code is passed through. *)
isalnum_Percent(ch) == ch \in Digit \cup Upper \cup Lower \cup {Percent}

isalnum(ch) == ch \in Digit \cup Upper \cup Lower

HexDigit(n) == IF n < 10 THEN 48 + n ELSE 55 + n

UrlEncode(str) ==
  FlattenSeq([i \in 1..Len(str) |->
    IF isalnum(str[i]) THEN <<str[i]>>
    ELSE <<Percent, HexDigit(str[i] \div 16), HexDigit(str[i] % 16)>>])

(* -1, the answer for no digit, is 255 in a byte. *)
CharToInt(ch) ==
  CASE ch \in Digit    -> ch - 48
    [] ch \in 97..102  -> ch - 87
    [] ch \in 65..70   -> ch - 55
    [] OTHER           -> 255

StrToBin(hi, lo) ==
  IF CharToInt(lo) = 255 THEN 255 ELSE ((CharToInt(hi) * 16) % 256) + CharToInt(lo)

(* A code that is cut off ends the text; the guard's subtraction wraps in  *)
(* a text of less than three bytes, whose end is then read as zeros.       *)
UrlDecode(str) ==
  LET len     == Len(str)
      At(i)   == IF i <= len THEN str[i] ELSE 0
      CutOff(i) == len >= 3 /\ i > len - 2
      from[i \in 1..(len + 3)] ==
        IF i > len THEN <<>>
        ELSE IF str[i] # Percent THEN <<str[i]>> \o from[i + 1]
        ELSE IF CutOff(i) THEN <<>>
        ELSE <<StrToBin(At(i + 1), At(i + 2))>> \o from[i + 3]
  IN from[1]

(* Up to the last slash. *)
LastSlash(path) == CHOOSE i \in 0..Len(path) :
                     /\ i = 0 \/ path[i] = Slash
                     /\ \A j \in (i + 1)..Len(path) : path[j] # Slash
Directory(path) == SubSeq(path, 1, LastSlash(path))
LastName(path)  == SubSeq(path, LastSlash(path) + 1, Len(path))

(* The form in which a client that knows a path asks for it: each name on  *)
(* it is coded.                                                            *)
Escaped(path) ==
  FlattenSeq([i \in 1..Len(path) |-> IF path[i] = Slash THEN <<Slash>> ELSE UrlEncode(<<path[i]>>)])
=============================================================================
