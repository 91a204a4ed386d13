------------------------------- MODULE Base64 -------------------------------
(* base64_encode of include/webserver/base64.hpp.                          *)
EXTENDS SequencesExt

T == <<"A","B","C","D","E","F","G","H","I","J","K","L","M","N","O","P",
       "Q","R","S","T","U","V","W","X","Y","Z","a","b","c","d","e","f",
       "g","h","i","j","k","l","m","n","o","p","q","r","s","t","u","v",
       "w","x","y","z","0","1","2","3","4","5","6","7","8","9","+","/">>

\* T[(v >> 18) & 63] and the three after it.
Quad(v) == << T[((v \div 262144) % 64) + 1], T[((v \div 4096) % 64) + 1],
              T[((v \div 64) % 64) + 1], T[(v % 64) + 1] >>

\* Slip: two bytes give two characters.
Tail_Short(p) ==
  LET a == Quad(p[1] * 65536)
  IN  IF p = <<>> THEN <<>> ELSE << a[1], a[2], "=", "=" >>

\* What one or two bytes behind the last group of three give.
Tail_(p) ==
  LET a == Quad(p[1] * 65536)
      b == Quad(p[1] * 65536 + p[2] * 256)
  IN  CASE Len(p) = 0 -> <<>>
        [] Len(p) = 1 -> << a[1], a[2], "=", "=" >>
        [] Len(p) = 2 -> << b[1], b[2], b[3], "=" >>

base64_encode(p) ==
  LET n == Len(p) \div 3
      Group(g) == Quad(p[3*g + 1] * 65536 + p[3*g + 2] * 256 + p[3*g + 3])
  IN  [i \in 1 .. 4 * n |-> Group((i - 1) \div 4)[((i - 1) % 4) + 1]]
        \o Tail_(SubSeq(p, 3 * n + 1, Len(p)))

=============================================================================
