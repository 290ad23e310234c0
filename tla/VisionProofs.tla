---------------------------- MODULE VisionProofs ----------------------------
(***************************************************************************)
(* VisionSafe for every inner stream VisionConstants allows, every size of *)
(* the session buffer, every filter count, every width of the content      *)
(* length, and however TCP cuts what it carries.                           *)
(*                                                                         *)
(* What is between the two ends (in the reader's deframer, in TCP, in the  *)
(* writer's session and in the plaintext waiting behind it) is read by an  *)
(* automaton.  Its states are stations: what may come next in the stream,  *)
(* the command and the length of the packet under way, the position in the *)
(* inner stream and whether half a record has gone by.  SymRel says how a  *)
(* symbol inside TLS moves it, TokRel a half of a record or a bare piece,  *)
(* and Path that a whole sequence leads from one station to another.       *)
(*                                                                         *)
(* The invariant is Flow: what is under way leads from the station of the  *)
(* reader to that of the writer.  A writer only extends the path at its    *)
(* end, a reader only shortens it at its beginning, and a drain only moves *)
(* its middle; so each half of the model keeps Flow without a word about   *)
(* the other, and both change their mode at the same byte because there is *)
(* one way only through a packet that ends the padding.  All of it holds   *)
(* until the stream has strayed, which nothing takes back.                 *)
(*                                                                         *)
(* First come paths, then the recursive functions of Vision, then the      *)
(* writer, the reader and the two together.                                *)
(***************************************************************************)
EXTENDS Vision, FoldTheorems

-----------------------------------------------------------------------------
(* Stations, symbols and paths.  A relation is a set of steps, a path of it a way
   through a sequence. *)
Commands == {"continue", "tls", "direct"}
Stage == {"request", "response", "initial", "command", "content", "padding", "tls", "direct"}
Station == [ph : Stage, cmd : Commands, left : Nat, pos : Nat, half : BOOLEAN]

Symbol ==
    {Padding, Request, Response} \cup {Piece(i) : i \in Nat}
      \cup {Header(c, n, u) : c \in Commands, n \in Nat, u \in BOOLEAN}

Path(R, s, d, t) ==
    \E f \in [0..Len(d) -> Station] :
        /\ f[0] = s /\ f[Len(d)] = t
        /\ \A n \in 1..Len(d) : <<f[n - 1], d[n], f[n]>> \in R

(* A path through two sequences, one behind the other. *)
LEMMA PathJoin ==
    ASSUME NEW S, NEW R, NEW a \in Seq(S), NEW b \in Seq(S), NEW s, NEW u, NEW t,
           Path(R, s, a, u), Path(R, u, b, t)
    PROVE  Path(R, s, a \o b, t)
<1> DEFINE A == Len(a)
           B == Len(b)
           c == a \o b
<1>1. PICK f \in [0..A -> Station] :
         f[0] = s /\ f[A] = u /\ \A n \in 1..A : <<f[n - 1], a[n], f[n]>> \in R
  BY DEF Path
<1>2. PICK g \in [0..B -> Station] :
         g[0] = u /\ g[B] = t /\ \A n \in 1..B : <<g[n - 1], b[n], g[n]>> \in R
  BY DEF Path
<1>3. A \in Nat /\ B \in Nat
  BY LenProperties
<1>4. Len(c) = A + B /\ \A i \in 1..(A + B) : c[i] = IF i <= A THEN a[i] ELSE b[i - A]
  BY ConcatProperties
<1> DEFINE h == [n \in 0..(A + B) |-> IF n <= A THEN f[n] ELSE g[n - A]]
<1> HIDE DEF c, A, B
<1>5. h \in [0..(A + B) -> Station]
  <2> SUFFICES ASSUME NEW n \in 0..(A + B) PROVE h[n] \in Station
    OBVIOUS
  <2>1. CASE n <= A
    <3>1. n \in 0..A
      BY <2>1, <1>3
    <3> QED
      BY <3>1, <2>1, <1>1
  <2>2. CASE ~(n <= A)
    <3>1. n - A \in 0..B
      BY <2>2, <1>3
    <3> QED
      BY <3>1, <2>2, <1>2
  <2> QED
    BY <2>1, <2>2
<1>6. h[0] = s /\ h[A + B] = t
  <2>1. h[0] = s
    BY <1>1, <1>3
  <2>2. CASE B = 0
    BY <2>1, <2>2, <1>1, <1>2, <1>3
  <2>3. CASE B # 0
    <3>1. ~(A + B <= A) /\ (A + B) - A = B /\ A + B \in 0..(A + B)
      BY <2>3, <1>3
    <3> QED
      BY <2>1, <3>1, <1>2
  <2> QED
    BY <2>2, <2>3
<1>7. ASSUME NEW n \in 1..(A + B) PROVE <<h[n - 1], c[n], h[n]>> \in R
  <2>1. n \in 0..(A + B) /\ n - 1 \in 0..(A + B)
    BY <1>3
  <2>2. CASE n <= A
    <3>1. n \in 1..A /\ n - 1 <= A
      BY <2>2, <1>3
    <3>2. h[n] = f[n] /\ h[n - 1] = f[n - 1] /\ c[n] = a[n]
      BY <2>1, <2>2, <3>1, <1>4
    <3> QED
      BY <3>1, <3>2, <1>1
  <2>3. CASE ~(n <= A)
    <3>1. n - A \in 1..B /\ (n - A) - 1 = (n - 1) - A
      BY <2>3, <1>3
    <3>2. h[n] = g[n - A] /\ c[n] = b[n - A]
      BY <2>1, <2>3, <1>4
    <3>3. h[n - 1] = g[(n - A) - 1]
      <4>1. CASE n - 1 = A
        <5>1. (n - A) - 1 = 0 /\ n - 1 <= A
          BY <4>1, <1>3
        <5> QED
          BY <5>1, <4>1, <2>1, <1>1, <1>2
      <4>2. CASE n - 1 # A
        <5>1. ~(n - 1 <= A)
          BY <4>2, <2>3, <1>3
        <5> QED
          BY <5>1, <2>1, <3>1
      <4> QED
        BY <4>1, <4>2
    <3> QED
      BY <3>1, <3>2, <3>3, <1>2
  <2> QED
    BY <2>2, <2>3
<1> HIDE DEF h
<1>8. Path(R, s, c, t)
  BY <1>4, <1>5, <1>6, <1>7 DEF Path
<1> QED
  BY <1>8 DEF c

(* A path, cut behind any element. *)
LEMMA PathCut ==
    ASSUME NEW S, NEW R, NEW d \in Seq(S), NEW s, NEW t, Path(R, s, d, t), NEW k \in 0..Len(d)
    PROVE  \E u \in Station : /\ Path(R, s, SubSeq(d, 1, k), u)
                              /\ Path(R, u, SubSeq(d, k + 1, Len(d)), t)
<1> DEFINE N == Len(d)
           a == SubSeq(d, 1, k)
           b == SubSeq(d, k + 1, N)
<1>1. PICK f \in [0..N -> Station] :
         f[0] = s /\ f[N] = t /\ \A n \in 1..N : <<f[n - 1], d[n], f[n]>> \in R
  BY DEF Path
<1>2. N \in Nat /\ k \in Nat /\ k <= N /\ \A i \in 1..N : d[i] \in S
  BY LenProperties, ElementOfSeq
<1>3. Len(a) = k /\ \A i \in 1..k : a[i] = d[i]
  <2>1. \A i \in 1..k : d[i] \in S
    BY <1>2
  <2>2. /\ Len(a) = IF 1 <= k THEN k - 1 + 1 ELSE 0
        /\ \A i \in 1..(k - 1 + 1) : a[i] = d[1 + i - 1]
    BY <2>1, <1>2, SubSeqProperties
  <2> HIDE DEF a, N
  <2> QED
    BY <2>2, <1>2
<1>4. Len(b) = N - k /\ \A i \in 1..(N - k) : b[i] = d[k + i]
  <2>1. k + 1 \in 1..(N + 1)
    BY <1>2
  <2>2. /\ Len(b) = IF k + 1 <= N THEN N - (k + 1) + 1 ELSE 0
        /\ \A i \in 1..(N - (k + 1) + 1) : b[i] = d[(k + 1) + i - 1]
    <3>1. \A i \in (k + 1)..N : d[i] \in S
      BY <1>2
    <3> HIDE DEF N
    <3> QED
      BY <3>1, <2>1, <1>2, SubSeqProperties
  <2> HIDE DEF b, N
  <2>3. Len(b) = N - k
    BY <2>2, <1>2
  <2>4. ASSUME NEW i \in 1..(N - k) PROVE b[i] = d[k + i]
    <3>1. i \in 1..(N - (k + 1) + 1) /\ (k + 1) + i - 1 = k + i
      BY <1>2
    <3> QED
      BY <3>1, <2>2
  <2> QED
    BY <2>3, <2>4
<1> HIDE DEF a, b, N
<1>5. f[k] \in Station
  BY <1>2
<1>6. Path(R, s, a, f[k])
  <2> DEFINE g == [n \in 0..k |-> f[n]]
  <2>1. g \in [0..k -> Station] /\ g[0] = s /\ g[k] = f[k]
    BY <1>1, <1>2
  <2>2. ASSUME NEW n \in 1..k PROVE <<g[n - 1], a[n], g[n]>> \in R
    <3>1. n \in 1..N /\ n \in 0..k /\ n - 1 \in 0..k
      BY <1>2
    <3> QED
      BY <3>1, <1>1, <1>3
  <2> HIDE DEF g
  <2> QED
    BY <2>1, <2>2, <1>3 DEF Path
<1>7. Path(R, f[k], b, t)
  <2> DEFINE g == [n \in 0..(N - k) |-> f[k + n]]
  <2>0. N - k \in Nat /\ k + 0 = k /\ k + (N - k) = N /\ \A n \in 0..(N - k) : k + n \in 0..N
    BY <1>2
  <2>1. g \in [0..(N - k) -> Station]
    BY <2>0
  <2>2. g[0] = f[k] /\ g[N - k] = t
    BY <2>0, <1>1
  <2>3. ASSUME NEW n \in 1..(N - k) PROVE <<g[n - 1], b[n], g[n]>> \in R
    <3>1. k + n \in 1..N /\ n \in 0..(N - k) /\ n - 1 \in 0..(N - k) /\ (k + n) - 1 = k + (n - 1)
      BY <1>2
    <3> QED
      BY <3>1, <1>1, <1>4
  <2> HIDE DEF g
  <2> QED
    BY <2>0, <2>1, <2>2, <2>3, <1>4 DEF Path
<1> QED
  BY <1>5, <1>6, <1>7 DEF a, b, N

(* The empty path, and the path through one element. *)
LEMMA PathNone ==
    ASSUME NEW R, NEW s, NEW t
    PROVE  Path(R, s, <<>>, t) <=> s = t /\ s \in Station
<1>1. Len(<<>>) = 0
  OBVIOUS
<1>2. ASSUME Path(R, s, <<>>, t) PROVE s = t /\ s \in Station
  BY <1>1, <1>2 DEF Path
<1>3. ASSUME s = t, s \in Station PROVE Path(R, s, <<>>, t)
  <2> DEFINE g == [n \in 0..0 |-> s]
  <2>1. g \in [0..0 -> Station] /\ g[0] = s /\ g[0] = t
    BY <1>3
  <2> HIDE DEF g
  <2> QED
    BY <1>1, <2>1 DEF Path
<1> QED
  BY <1>2, <1>3

(* A path of one step. *)
LEMMA PathOne ==
    ASSUME NEW R, NEW s \in Station, NEW t \in Station, NEW x, <<s, x, t>> \in R
    PROVE  Path(R, s, <<x>>, t)
<1> DEFINE g == [n \in 0..1 |-> IF n = 0 THEN s ELSE t]
<1>1. Len(<<x>>) = 1 /\ <<x>>[1] = x
  OBVIOUS
<1>2. g \in [0..1 -> Station] /\ g[0] = s /\ g[1] = t
  OBVIOUS
<1>3. \A n \in 1..1 : n - 1 = 0 /\ n = 1
  OBVIOUS
<1> HIDE DEF g
<1> QED
  BY <1>1, <1>2, <1>3 DEF Path

(* The first element of a path. *)
LEMMA PathFirst ==
    ASSUME NEW S, NEW R, NEW d \in Seq(S), NEW s, NEW t, Path(R, s, d, t), Len(d) # 0
    PROVE  \E u \in Station : s \in Station /\ <<s, d[1], u>> \in R /\ Path(R, u, Tail(d), t)
<1>1. PICK f \in [0..Len(d) -> Station] :
         f[0] = s /\ f[Len(d)] = t /\ \A n \in 1..Len(d) : <<f[n - 1], d[n], f[n]>> \in R
  BY DEF Path
<1>2. Len(d) \in Nat /\ 1 \in 1..Len(d) /\ 1 \in 0..Len(d) /\ 0 \in 0..Len(d)
  BY LenProperties
<1>0. s \in Station
  BY <1>1, <1>2
<1>3. PICK u \in Station : /\ Path(R, s, SubSeq(d, 1, 1), u)
                           /\ Path(R, u, SubSeq(d, 2, Len(d)), t)
  <2>1. 1 + 1 = 2
    OBVIOUS
  <2>2. \E u \in Station : /\ Path(R, s, SubSeq(d, 1, 1), u)
                            /\ Path(R, u, SubSeq(d, 1 + 1, Len(d)), t)
    BY <1>2, PathCut
  <2> QED
    BY <2>1, <2>2
<1>4. Tail(d) = SubSeq(d, 2, Len(d))
  <2>1. d # <<>>
    OBVIOUS
  <2>2. Len(Tail(d)) = Len(d) - 1 /\ \A i \in 1..(Len(d) - 1) : Tail(d)[i] = d[i + 1]
    BY <2>1, HeadTailProperties
  <2>3. Tail(d) \in Seq(S)
    BY <2>1, HeadTailProperties
  <2> DEFINE b == SubSeq(d, 2, Len(d))
  <2>4. /\ b \in Seq(S) /\ Len(b) = IF 2 <= Len(d) THEN Len(d) - 2 + 1 ELSE 0
        /\ \A i \in 1..(Len(d) - 2 + 1) : b[i] = d[2 + i - 1]
    <3>1. \A i \in 2..Len(d) : d[i] \in S
      BY <1>2, ElementOfSeq
    <3>2. 2 \in 1..(Len(d) + 1)
      BY <1>2
    <3> QED
      BY <3>1, <3>2, <1>2, SubSeqProperties
  <2> HIDE DEF b
  <2>5. Len(b) = Len(d) - 1
    <3> DEFINE N == Len(d)
    <3>1. N \in Nat /\ N # 0
      BY <1>2
    <3>2. Len(b) = IF 2 <= N THEN N - 2 + 1 ELSE 0
      BY <2>4
    <3> HIDE DEF N
    <3>3. Len(b) = N - 1
      BY SMTT(30), <3>1, <3>2
    <3> QED
      BY <3>3 DEF N
  <2>6. \A i \in 1..(Len(d) - 1) : b[i] = Tail(d)[i]
    <3> SUFFICES ASSUME NEW i \in 1..(Len(d) - 1) PROVE b[i] = Tail(d)[i]
      OBVIOUS
    <3>1. i \in 1..(Len(d) - 2 + 1) /\ 2 + i - 1 = i + 1
      BY SMTT(30), <1>2
    <3> QED
      BY <3>1, <2>2, <2>4
  <2>7. b = Tail(d)
    BY <2>2, <2>3, <2>4, <2>5, <2>6, SeqEqual
  <2> QED
    BY <2>7 DEF b
<1>5. <<s, d[1], u>> \in R
  <2> DEFINE a == SubSeq(d, 1, 1)
  <2>1. Len(a) = 1 /\ a[1] = d[1]
    <3>1. \A i \in 1..1 : d[i] \in S
      BY <1>2, ElementOfSeq
    <3> QED
      BY <3>1, <1>2, SubSeqProperties
  <2> HIDE DEF a
  <2>2. Path(R, s, a, u)
    BY <1>3 DEF a
  <2>3. PICK g \in [0..1 -> Station] :
           g[0] = s /\ g[1] = u /\ \A n \in 1..1 : <<g[n - 1], a[n], g[n]>> \in R
    BY <2>1, <2>2 DEF Path
  <2>4. <<g[1 - 1], a[1], g[1]>> \in R /\ 1 - 1 = 0
    BY <2>3
  <2> QED
    BY <2>1, <2>3, <2>4
<1>6. Path(R, u, Tail(d), t)
  BY <1>3, <1>4
<1> QED
  BY <1>0, <1>5, <1>6

(* What the symbols inside TLS do to the station, and what the halves of records
   and the bare pieces do. *)
SymTo(s, x, t) ==
    \/ /\ s.ph \in {"request", "response"} /\ x = <<s.ph>>
       /\ t.ph = "initial" /\ t.cmd = s.cmd /\ t.left = s.left /\ t.pos = s.pos
    \/ /\ s.ph \in {"initial", "command"} /\ t.left # 0
       /\ x = Header(t.cmd, t.left, s.ph = "initial")
       /\ t.ph = "content" /\ t.pos = s.pos
    \/ /\ s.ph = "content" /\ s.left # 0 /\ x = Piece(s.pos + 1)
       /\ t.ph = (IF s.left = 1 THEN "padding" ELSE "content")
       /\ t.cmd = s.cmd /\ t.left = s.left - 1 /\ t.pos = s.pos + 1
    \/ /\ s.ph = "padding" /\ x = Padding
       /\ t.ph = (IF s.cmd = "continue" THEN "command" ELSE s.cmd)
       /\ t.cmd = s.cmd /\ t.left = s.left /\ t.pos = s.pos
    \/ /\ s.ph = "tls" /\ x = Piece(s.pos + 1)
       /\ t.ph = "tls" /\ t.cmd = s.cmd /\ t.left = s.left /\ t.pos = s.pos + 1
SymRel ==
    {e \in Station \X Symbol \X Station : ~e[1].half /\ ~e[3].half /\ SymTo(e[1], e[2], e[3])}

Token == {Half} \cup {Piece(i) : i \in Nat} \cup {Rest(d) : d \in Seq(Symbol)}
Open(s) == [ph |-> s.ph, cmd |-> s.cmd, left |-> s.left, pos |-> s.pos, half |-> FALSE]
TokTo(s, x, t) ==
    \/ /\ x = Half /\ ~s.half /\ t.half /\ s.ph # "direct"
       /\ t.ph = s.ph /\ t.cmd = s.cmd /\ t.left = s.left /\ t.pos = s.pos
    \/ /\ x[1] = "rest" /\ x[2] # <<>> /\ s.half /\ s.ph # "direct"
       /\ Path(SymRel, Open(s), x[2], t)
    \/ /\ x = Piece(s.pos + 1) /\ ~s.half /\ ~t.half /\ s.ph = "direct"
       /\ t.ph = s.ph /\ t.cmd = s.cmd /\ t.left = s.left /\ t.pos = s.pos + 1
TokRel == {e \in Station \X Token \X Station : TokTo(e[1], e[2], e[3])}

(* The steps of symbols, spelled out. *)
LEMMA SymRelIs ==
    ASSUME NEW s, NEW x, NEW t
    PROVE  <<s, x, t>> \in SymRel <=>
              /\ s \in Station /\ x \in Symbol /\ t \in Station
              /\ ~s.half /\ ~t.half /\ SymTo(s, x, t)
BY DEF SymRel

(* The steps of tokens, spelled out. *)
LEMMA TokRelIs ==
    ASSUME NEW s, NEW x, NEW t
    PROVE  <<s, x, t>> \in TokRel <=>
              s \in Station /\ x \in Token /\ t \in Station /\ TokTo(s, x, t)
BY DEF TokRel

(* The fields of a station, which determine it. *)
LEMMA StationIs ==
    /\ \A s \in Station : /\ s.ph \in Stage /\ s.cmd \in Commands /\ s.left \in Nat
                          /\ s.pos \in Nat /\ s.half \in BOOLEAN
                          /\ Open(s) \in Station
                          /\ (~s.half => Open(s) = s)
    /\ \A s, t \in Station : /\ s.ph = t.ph /\ s.cmd = t.cmd /\ s.left = t.left
                             /\ s.pos = t.pos /\ s.half = t.half
                             => s = t
<1>1. ASSUME NEW s \in Station
      PROVE  /\ s.ph \in Stage /\ s.cmd \in Commands /\ s.left \in Nat
             /\ s.pos \in Nat /\ s.half \in BOOLEAN
  BY DEF Station
<1>2. ASSUME NEW s \in Station PROVE Open(s) \in Station
  BY <1>1 DEF Station, Open
<1>3. ASSUME NEW s \in Station, NEW t \in Station,
             s.ph = t.ph, s.cmd = t.cmd, s.left = t.left, s.pos = t.pos, s.half = t.half
      PROVE  s = t
  BY <1>3 DEF Station
<1>4. ASSUME NEW s \in Station, ~s.half PROVE Open(s) = s
  <2>1. s.half = FALSE
    BY <1>1, <1>4
  <2>2. /\ Open(s).ph = s.ph /\ Open(s).cmd = s.cmd /\ Open(s).left = s.left
        /\ Open(s).pos = s.pos /\ Open(s).half = FALSE
    BY DEF Open
  <2> QED
    BY <2>1, <2>2, <1>2, <1>3
<1> QED
  BY <1>1, <1>2, <1>3, <1>4

(* A station outside a record is its own opening. *)
LEMMA OpenSame == ASSUME NEW s \in Station, ~s.half PROVE Open(s) = s
BY StationIs

(* The station at which the symbols of a record begin. *)
LEMMA OpenIs ==
    ASSUME NEW s
    PROVE  /\ Open(s).ph = s.ph /\ Open(s).cmd = s.cmd /\ Open(s).left = s.left
           /\ Open(s).pos = s.pos /\ Open(s).half = FALSE
BY DEF Open

(* Symbols and tokens are told apart by their first field. *)
LEMMA Tags ==
    /\ Half[1] = "half" /\ Padding[1] = "pad" /\ Request[1] = "request" /\ Response[1] = "response"
    /\ \A i : Piece(i)[1] = "piece" /\ Piece(i)[2] = i
    /\ \A d : Rest(d)[1] = "rest" /\ Rest(d)[2] = d
    /\ \A c, n, u : /\ Header(c, n, u)[1] = "hdr" /\ Header(c, n, u)[2] = c
                    /\ Header(c, n, u)[3] = n /\ Header(c, n, u)[4] = u
BY DEF Half, Padding, Request, Response, Piece, Rest, Header

(* The symbols and the tokens of the model are members of their sets. *)
LEMMA Kinds ==
    /\ Half \in Token /\ Padding \in Symbol /\ Request \in Symbol /\ Response \in Symbol
    /\ \A i \in Nat : Piece(i) \in Symbol /\ Piece(i) \in Token
    /\ \A d \in Seq(Symbol) : Rest(d) \in Token
    /\ \A c \in Commands, n \in Nat, u \in BOOLEAN : Header(c, n, u) \in Symbol
    /\ \A x \in Token : \/ x = Half
                        \/ x[1] = "rest" /\ x[2] \in Seq(Symbol) /\ x = Rest(x[2])
                        \/ x[1] = "piece" /\ x[2] \in Nat /\ x = Piece(x[2])
<1>1. /\ Half \in Token /\ Padding \in Symbol /\ Request \in Symbol /\ Response \in Symbol
      /\ \A i \in Nat : Piece(i) \in Symbol /\ Piece(i) \in Token
  <2>1. Half \in Token /\ \A i \in Nat : Piece(i) \in Token
    BY DEF Token
  <2>2. Padding \in Symbol /\ Request \in Symbol /\ Response \in Symbol
    BY DEF Symbol
  <2>3. \A i \in Nat : Piece(i) \in Symbol
    BY DEF Symbol
  <2> QED
    BY <2>1, <2>2, <2>3
<1>4. \A d \in Seq(Symbol) : Rest(d) \in Token
  BY DEF Token
<1>2. \A c \in Commands, n \in Nat, u \in BOOLEAN : Header(c, n, u) \in Symbol
  BY DEF Symbol
<1>3. ASSUME NEW x \in Token
      PROVE  \/ x = Half
             \/ x[1] = "rest" /\ x[2] \in Seq(Symbol) /\ x = Rest(x[2])
             \/ x[1] = "piece" /\ x[2] \in Nat /\ x = Piece(x[2])
  BY Tags DEF Token
<1> QED
  BY <1>1, <1>2, <1>3, <1>4

-----------------------------------------------------------------------------
(* Runs of pieces. *)
LEMMA RunIs ==
    ASSUME NEW lo \in Nat, NEW hi \in Nat, lo <= hi + 1, lo # 0
    PROVE  /\ PieceRun(lo, hi) \in Seq(Symbol) /\ PieceRun(lo, hi) \in Seq(Token)
           /\ Len(PieceRun(lo, hi)) = hi - lo + 1
           /\ \A k \in 1..(hi - lo + 1) : PieceRun(lo, hi)[k] = Piece(lo + k - 1)
<1>1. hi - lo + 1 \in Nat
  OBVIOUS
<1>2. \A k \in 1..(hi - lo + 1) : Piece(lo + k - 1) \in Symbol /\ Piece(lo + k - 1) \in Token
  <2> SUFFICES ASSUME NEW k \in 1..(hi - lo + 1)
               PROVE  Piece(lo + k - 1) \in Symbol /\ Piece(lo + k - 1) \in Token
    OBVIOUS
  <2>1. lo + k - 1 \in Nat
    OBVIOUS
  <2> QED
    BY <2>1, Kinds
<1> DEFINE M == hi - lo + 1
           e(k) == Piece(lo + k - 1)
           g == [k \in 1..M |-> e(k)]
<1>3. g = PieceRun(lo, hi)
  BY DEF PieceRun
<1>4. \A k \in 1..M : e(k) \in Symbol /\ e(k) \in Token
  BY <1>2
<1>5. M \in Nat
  BY <1>1
<1> HIDE DEF M, e
<1>6. g \in Seq(Symbol) /\ g \in Seq(Token) /\ Len(g) = M
  BY <1>4, <1>5, IsASeq, LenProperties
<1>7. \A k \in 1..M : g[k] = e(k)
  OBVIOUS
<1> QED
  BY <1>3, <1>6, <1>7 DEF M, e

(* An empty run of pieces. *)
LEMMA RunNone ==
    ASSUME NEW lo, NEW hi, lo \in Int, hi \in Int, hi < lo
    PROVE  PieceRun(lo, hi) = <<>>
<1>1. 1..(hi - lo + 1) = {}
  OBVIOUS
<1>2. PieceRun(lo, hi) = [k \in {} |-> Piece(lo + k - 1)]
  BY <1>1 DEF PieceRun
<1> QED
  BY <1>2

(* Two runs of pieces, the second where the first ends. *)
LEMMA RunConcat ==
    ASSUME NEW lo \in Nat, NEW mid \in Nat, NEW hi \in Nat, lo # 0, lo <= mid + 1, mid <= hi
    PROVE  PieceRun(lo, mid) \o PieceRun(mid + 1, hi) = PieceRun(lo, hi)
<1> DEFINE a == PieceRun(lo, mid)
           b == PieceRun(mid + 1, hi)
           c == PieceRun(lo, hi)
<1>1. /\ a \in Seq(Symbol) /\ Len(a) = mid - lo + 1
      /\ \A k \in 1..(mid - lo + 1) : a[k] = Piece(lo + k - 1)
  BY RunIs
<1>2. /\ b \in Seq(Symbol) /\ Len(b) = hi - (mid + 1) + 1
      /\ \A k \in 1..(hi - (mid + 1) + 1) : b[k] = Piece((mid + 1) + k - 1)
  <2>1. mid + 1 \in Nat /\ mid + 1 <= hi + 1 /\ mid + 1 # 0
    OBVIOUS
  <2> QED
    BY <2>1, RunIs
<1>3. /\ c \in Seq(Symbol) /\ Len(c) = hi - lo + 1
      /\ \A k \in 1..(hi - lo + 1) : c[k] = Piece(lo + k - 1)
  BY RunIs
<1> HIDE DEF a, b, c
<1>4. /\ a \o b \in Seq(Symbol) /\ Len(a \o b) = Len(a) + Len(b)
      /\ \A i \in 1..(Len(a) + Len(b)) : (a \o b)[i] = IF i <= Len(a) THEN a[i] ELSE b[i - Len(a)]
  BY <1>1, <1>2, ConcatProperties
<1>5. Len(a \o b) = Len(c)
  BY <1>1, <1>2, <1>3, <1>4
<1>6. ASSUME NEW i \in 1..Len(c) PROVE (a \o b)[i] = c[i]
  <2>1. i \in 1..(hi - lo + 1) /\ i \in 1..(Len(a) + Len(b))
    BY <1>1, <1>2, <1>3
  <2>2. c[i] = Piece(lo + i - 1)
    BY <2>1, <1>3
  <2>3. CASE i <= mid - lo + 1
    <3>1. i \in 1..(mid - lo + 1) /\ i <= Len(a)
      BY <2>3, <2>1, <1>1
    <3> QED
      BY <3>1, <2>1, <2>2, <1>1, <1>4
  <2>4. CASE ~(i <= mid - lo + 1)
    <3>1. /\ i - (mid - lo + 1) \in 1..(hi - (mid + 1) + 1) /\ ~(i <= Len(a))
          /\ (mid + 1) + (i - (mid - lo + 1)) - 1 = lo + i - 1
      BY <2>4, <2>1, <1>1
    <3>2. (a \o b)[i] = b[i - (mid - lo + 1)]
      BY <3>1, <2>1, <1>1, <1>4
    <3> QED
      BY <3>1, <3>2, <2>2, <1>2
  <2> QED
    BY <2>3, <2>4
<1>7. a \o b = c
  BY <1>3, <1>4, <1>5, <1>6, SeqEqual
<1> QED
  BY <1>7 DEF a, b, c

(* A run of pieces and the next piece. *)
LEMMA RunAppend ==
    ASSUME NEW lo \in Nat, NEW hi \in Nat, lo # 0, lo <= hi + 1
    PROVE  Append(PieceRun(lo, hi), Piece(hi + 1)) = PieceRun(lo, hi + 1)
<1> DEFINE n == hi + 1
<1>0. n \in Nat /\ n # 0 /\ hi <= n
  OBVIOUS
<1>1. PieceRun(n, n) = <<Piece(hi + 1)>>
  <2> DEFINE b == PieceRun(n, n)
  <2>1. n - n + 1 = 1 /\ n + 1 - 1 = n /\ n <= n + 1 /\ 1 \in 1..1
    BY <1>0
  <2>2. b \in Seq(Symbol) /\ Len(b) = 1 /\ b[1] = Piece(hi + 1)
    <3> HIDE DEF n
    <3>1. /\ b \in Seq(Symbol) /\ Len(b) = n - n + 1
          /\ \A k \in 1..(n - n + 1) : b[k] = Piece(n + k - 1)
      BY <1>0, <2>1, RunIs
    <3>2. b[1] = Piece(n)
      BY <3>1, <2>1
    <3> QED
      BY <3>1, <3>2, <2>1 DEF n
  <2> HIDE DEF b
  <2>3. /\ <<Piece(hi + 1)>> \in Seq(Symbol) /\ Len(<<Piece(hi + 1)>>) = 1
        /\ <<Piece(hi + 1)>>[1] = Piece(hi + 1)
    BY <1>0, Kinds
  <2>4. \A i \in 1..1 : i = 1
    OBVIOUS
  <2>5. b = <<Piece(hi + 1)>>
    BY <2>2, <2>3, <2>4, SeqEqual
  <2> QED
    BY <2>5 DEF b
<1>2. PieceRun(lo, hi) \o PieceRun(hi + 1, n) = PieceRun(lo, n)
  <2> HIDE DEF n
  <2> QED
    BY <1>0, RunConcat
<1>3. PieceRun(lo, hi) \in Seq(Symbol) /\ Piece(hi + 1) \in Symbol
  BY RunIs, Kinds
<1>4. Append(PieceRun(lo, hi), Piece(hi + 1)) = PieceRun(lo, hi) \o <<Piece(hi + 1)>>
  BY <1>3, AppendIsConcat
<1> QED
  BY <1>1, <1>2, <1>4

(* The recursions along a sequence have a solution: what TLS opens, ... *)
OpenedTo(toks) ==
    LET upTo[n \in 0..Len(toks)] ==
            IF n = 0 THEN <<>>
            ELSE IF toks[n][1] = "rest" THEN upTo[n - 1] \o toks[n][2] ELSE upTo[n - 1]
    IN upTo

(* The recursive function inside Opened. *)
LEMMA OpenedToIs ==
    ASSUME NEW toks, Len(toks) \in Nat
    PROVE  OpenedTo(toks) =
             [n \in 0..Len(toks) |->
                IF n = 0 THEN <<>>
                ELSE IF toks[n][1] = "rest" THEN OpenedTo(toks)[n - 1] \o toks[n][2]
                ELSE OpenedTo(toks)[n - 1]]
<1> DEFINE Step(x, n) == IF toks[n][1] = "rest" THEN x \o toks[n][2] ELSE x
           Eqn(g, k) == g = [n \in 0..k |-> IF n = 0 THEN <<>> ELSE Step(g[n - 1], n)]
           P == {k \in Nat : \E g : Eqn(g, k)}
<1> HIDE DEF Step
<1>1. 0 \in P
  <2>1. Eqn([n \in 0..0 |-> <<>>], 0)
    OBVIOUS
  <2> QED
    BY <2>1
<1>2. ASSUME NEW k \in P PROVE k + 1 \in P
  <2>1. PICK g : Eqn(g, k)
    OBVIOUS
  <2> DEFINE h == [n \in 0..(k + 1) |-> IF n = k + 1 THEN Step(g[k], k + 1) ELSE g[n]]
  <2>2. Eqn(h, k + 1)
    <3> DEFINE r == [n \in 0..(k + 1) |-> IF n = 0 THEN <<>> ELSE Step(h[n - 1], n)]
    <3>1. ASSUME NEW n \in 0..(k + 1) PROVE h[n] = r[n]
      <4>1. CASE n = k + 1
        BY <4>1
      <4>2. CASE n = 0
        BY <4>2, <2>1
      <4>3. CASE n \in 1..k
        <5>1. h[n] = g[n] /\ h[n - 1] = g[n - 1]
          BY <4>3
        <5>2. g[n] = Step(g[n - 1], n)
          BY <2>1, <4>3
        <5> QED
          BY <5>1, <5>2, <4>3
      <4> QED
        BY <4>1, <4>2, <4>3
    <3> QED
      BY <3>1
  <2>3. k + 1 \in Nat
    OBVIOUS
  <2> HIDE DEF h, Eqn
  <2> QED
    BY <2>2, <2>3
<1>3. P = Nat
  <2> HIDE DEF P
  <2> QED
    BY <1>1, <1>2, SetInduction DEF P
<1>4. \E g : Eqn(g, Len(toks))
  BY <1>3
<1> QED
  BY <1>4 DEF OpenedTo, Step

(* ... the pieces among symbols, ... *)
PiecesTo(syms) ==
    LET upTo[n \in 0..Len(syms)] ==
            IF n = 0 THEN <<>>
            ELSE IF syms[n][1] = "piece" THEN Append(upTo[n - 1], syms[n]) ELSE upTo[n - 1]
    IN upTo

(* The recursive function inside PiecesOf. *)
LEMMA PiecesToIs ==
    ASSUME NEW syms, Len(syms) \in Nat
    PROVE  PiecesTo(syms) =
             [n \in 0..Len(syms) |->
                IF n = 0 THEN <<>>
                ELSE IF syms[n][1] = "piece" THEN Append(PiecesTo(syms)[n - 1], syms[n])
                ELSE PiecesTo(syms)[n - 1]]
<1> DEFINE Step(x, n) == IF syms[n][1] = "piece" THEN Append(x, syms[n]) ELSE x
           Eqn(g, k) == g = [n \in 0..k |-> IF n = 0 THEN <<>> ELSE Step(g[n - 1], n)]
           P == {k \in Nat : \E g : Eqn(g, k)}
<1> HIDE DEF Step
<1>1. 0 \in P
  <2>1. Eqn([n \in 0..0 |-> <<>>], 0)
    OBVIOUS
  <2> QED
    BY <2>1
<1>2. ASSUME NEW k \in P PROVE k + 1 \in P
  <2>1. PICK g : Eqn(g, k)
    OBVIOUS
  <2> DEFINE h == [n \in 0..(k + 1) |-> IF n = k + 1 THEN Step(g[k], k + 1) ELSE g[n]]
  <2>2. Eqn(h, k + 1)
    <3> DEFINE r == [n \in 0..(k + 1) |-> IF n = 0 THEN <<>> ELSE Step(h[n - 1], n)]
    <3>1. ASSUME NEW n \in 0..(k + 1) PROVE h[n] = r[n]
      <4>1. CASE n = k + 1
        BY <4>1
      <4>2. CASE n = 0
        BY <4>2, <2>1
      <4>3. CASE n \in 1..k
        <5>1. h[n] = g[n] /\ h[n - 1] = g[n - 1]
          BY <4>3
        <5>2. g[n] = Step(g[n - 1], n)
          BY <2>1, <4>3
        <5> QED
          BY <5>1, <5>2, <4>3
      <4> QED
        BY <4>1, <4>2, <4>3
    <3> QED
      BY <3>1
  <2>3. k + 1 \in Nat
    OBVIOUS
  <2> HIDE DEF h, Eqn
  <2> QED
    BY <2>2, <2>3
<1>3. P = Nat
  <2> HIDE DEF P
  <2> QED
    BY ZenonT(60), <1>1, <1>2, SetInduction DEF P
<1>4. \E g : Eqn(g, Len(syms))
  BY <1>3
<1> QED
  BY <1>4 DEF PiecesTo, Step

(* ... and among tokens, ... *)
WayTo(toks) ==
    LET upTo[n \in 0..Len(toks)] ==
            IF n = 0 THEN <<>>
            ELSE IF toks[n][1] = "rest" THEN upTo[n - 1] \o PiecesOf(toks[n][2])
            ELSE IF toks[n][1] = "piece" THEN Append(upTo[n - 1], toks[n]) ELSE upTo[n - 1]
    IN upTo

(* The recursive function inside OnTheWay. *)
LEMMA WayToIs ==
    ASSUME NEW toks, Len(toks) \in Nat
    PROVE  WayTo(toks) =
             [n \in 0..Len(toks) |->
                IF n = 0 THEN <<>>
                ELSE IF toks[n][1] = "rest" THEN WayTo(toks)[n - 1] \o PiecesOf(toks[n][2])
                ELSE IF toks[n][1] = "piece" THEN Append(WayTo(toks)[n - 1], toks[n])
                ELSE WayTo(toks)[n - 1]]
<1> DEFINE Step(x, n) == IF toks[n][1] = "rest" THEN x \o PiecesOf(toks[n][2])
                 ELSE IF toks[n][1] = "piece" THEN Append(x, toks[n]) ELSE x
           Eqn(g, k) == g = [n \in 0..k |-> IF n = 0 THEN <<>> ELSE Step(g[n - 1], n)]
           P == {k \in Nat : \E g : Eqn(g, k)}
<1> HIDE DEF Step
<1>1. 0 \in P
  <2>1. Eqn([n \in 0..0 |-> <<>>], 0)
    OBVIOUS
  <2> QED
    BY <2>1
<1>2. ASSUME NEW k \in P PROVE k + 1 \in P
  <2>1. PICK g : Eqn(g, k)
    OBVIOUS
  <2> DEFINE h == [n \in 0..(k + 1) |-> IF n = k + 1 THEN Step(g[k], k + 1) ELSE g[n]]
  <2>2. Eqn(h, k + 1)
    <3> DEFINE r == [n \in 0..(k + 1) |-> IF n = 0 THEN <<>> ELSE Step(h[n - 1], n)]
    <3>1. ASSUME NEW n \in 0..(k + 1) PROVE h[n] = r[n]
      <4>1. CASE n = k + 1
        BY <4>1
      <4>2. CASE n = 0
        BY <4>2, <2>1
      <4>3. CASE n \in 1..k
        <5>1. h[n] = g[n] /\ h[n - 1] = g[n - 1]
          BY <4>3
        <5>2. g[n] = Step(g[n - 1], n)
          BY <2>1, <4>3
        <5> QED
          BY <5>1, <5>2, <4>3
      <4> QED
        BY <4>1, <4>2, <4>3
    <3> QED
      BY <3>1
  <2>3. k + 1 \in Nat
    OBVIOUS
  <2> HIDE DEF h, Eqn
  <2> QED
    BY <2>2, <2>3
<1>3. P = Nat
  <2> HIDE DEF P
  <2> QED
    BY <1>1, <1>2, SetInduction DEF P
<1>4. \E g : Eqn(g, Len(toks))
  BY <1>3
<1> QED
  BY <1>4 DEF WayTo, Step

Fresh(u) == [u EXCEPT !.content = <<>>]

(* ... and what the unpadder makes of symbols. *)
UnpadTo(u, d) ==
    LET after[n \in 0..Len(d)] == IF n = 0 THEN Fresh(u) ELSE UnpadSymbol(after[n - 1], d[n])
    IN after

(* The recursive function inside Unpad. *)
LEMMA UnpadToIs ==
    ASSUME NEW u, NEW d, Len(d) \in Nat
    PROVE  UnpadTo(u, d) =
             [n \in 0..Len(d) |-> IF n = 0 THEN Fresh(u)
                                ELSE UnpadSymbol(UnpadTo(u, d)[n - 1], d[n])]
<1> DEFINE Step(x, n) == UnpadSymbol(x, d[n])
           Eqn(g, k) == g = [n \in 0..k |-> IF n = 0 THEN Fresh(u) ELSE Step(g[n - 1], n)]
           P == {k \in Nat : \E g : Eqn(g, k)}
<1> HIDE DEF Step
<1>1. 0 \in P
  <2>1. Eqn([n \in 0..0 |-> Fresh(u)], 0)
    OBVIOUS
  <2> QED
    BY <2>1
<1>2. ASSUME NEW k \in P PROVE k + 1 \in P
  <2>1. PICK g : Eqn(g, k)
    OBVIOUS
  <2> DEFINE h == [n \in 0..(k + 1) |-> IF n = k + 1 THEN Step(g[k], k + 1) ELSE g[n]]
  <2>2. Eqn(h, k + 1)
    <3> DEFINE r == [n \in 0..(k + 1) |-> IF n = 0 THEN Fresh(u) ELSE Step(h[n - 1], n)]
    <3>1. ASSUME NEW n \in 0..(k + 1) PROVE h[n] = r[n]
      <4>1. CASE n = k + 1
        BY <4>1
      <4>2. CASE n = 0
        BY <4>2, <2>1
      <4>3. CASE n \in 1..k
        <5>1. h[n] = g[n] /\ h[n - 1] = g[n - 1]
          BY <4>3
        <5>2. g[n] = Step(g[n - 1], n)
          BY <2>1, <4>3
        <5> QED
          BY <5>1, <5>2, <4>3
      <4> QED
        BY <4>1, <4>2, <4>3
    <3> QED
      BY <3>1
  <2>3. k + 1 \in Nat
    OBVIOUS
  <2> HIDE DEF h, Eqn
  <2> QED
    BY <2>2, <2>3
<1>3. P = Nat
  <2> HIDE DEF P
  <2> QED
    BY <1>1, <1>2, SetInduction DEF P
<1>4. \E g : Eqn(g, Len(d))
  BY <1>3
<1> QED
  BY <1>4 DEF UnpadTo, Step

(* Opened is its function at the end of the tokens. *)
LEMMA OpenedIs == \A toks : Opened(toks) = OpenedTo(toks)[Len(toks)]
BY DEF Opened, OpenedTo

(* PiecesOf is its function at the end of the symbols. *)
LEMMA PiecesOfIs == \A syms : PiecesOf(syms) = PiecesTo(syms)[Len(syms)]
BY DEF PiecesOf, PiecesTo

(* OnTheWay is its function at the end of the tokens. *)
LEMMA OnTheWayIs == \A toks : OnTheWay(toks) = WayTo(toks)[Len(toks)]
BY DEF OnTheWay, WayTo

(* Unpad is its function at the end of what it is given, or an error behind END. *)
LEMMA UnpadIs ==
    \A u, d : Unpad(u, d) = IF u.st = "done" THEN [u EXCEPT !.st = "bad"] ELSE UnpadTo(u, d)[Len(d)]
BY DEF Unpad, UnpadTo, Fresh

-----------------------------------------------------------------------------
(* The pieces on a path through symbols are those between its ends. *)
LEMMA SymStep ==
    ASSUME NEW a, NEW x, NEW b, <<a, x, b>> \in SymRel
    PROVE  /\ a \in Station /\ b \in Station /\ x \in Symbol /\ ~a.half /\ ~b.half
           /\ a.ph # "direct"
           /\ \/ x[1] = "piece" /\ x = Piece(a.pos + 1) /\ b.pos = a.pos + 1
              \/ x[1] # "piece" /\ b.pos = a.pos
<1>1. a \in Station /\ b \in Station /\ x \in Symbol /\ ~a.half /\ ~b.half /\ SymTo(a, x, b)
  BY SymRelIs
<1>2. <<a.ph>>[1] = a.ph
  OBVIOUS
<1>3. a.ph # "direct"
  BY <1>1 DEF SymTo
<1>4. \/ x[1] = "piece" /\ x = Piece(a.pos + 1) /\ b.pos = a.pos + 1
      \/ x[1] # "piece" /\ b.pos = a.pos
  BY <1>1, <1>2, Tags DEF SymTo
<1> QED
  BY <1>1, <1>3, <1>4

(* The pieces along a path of symbols are those between the positions of its ends. *)
LEMMA SymPieces ==
    ASSUME NEW d \in Seq(Symbol), NEW s, NEW t, Path(SymRel, s, d, t)
    PROVE  /\ s \in Station /\ t \in Station /\ s.pos <= t.pos
           /\ PiecesOf(d) = PieceRun(s.pos + 1, t.pos)
           /\ d # <<>> => ~s.half /\ ~t.half /\ s.ph # "direct"
           /\ d = <<>> => s = t
<1> DEFINE N == Len(d)
<1>1. PICK f \in [0..N -> Station] :
         f[0] = s /\ f[N] = t /\ \A n \in 1..N : <<f[n - 1], d[n], f[n]>> \in SymRel
  BY DEF Path
<1>2. N \in Nat
  BY LenProperties
<1> HIDE DEF N
<1> DEFINE Q(n) == s.pos <= f[n].pos /\ PiecesTo(d)[n] = PieceRun(s.pos + 1, f[n].pos)
           P == {n \in Nat : n <= N => Q(n)}
<1>3. PiecesTo(d)[0] = <<>> /\ \A n \in 1..N :
         PiecesTo(d)[n] = IF d[n][1] = "piece" THEN Append(PiecesTo(d)[n - 1], d[n]) ELSE PiecesTo(d)[n - 1]
  <2>1. PiecesTo(d) = [n \in 0..N |-> IF n = 0 THEN <<>>
              ELSE IF d[n][1] = "piece" THEN Append(PiecesTo(d)[n - 1], d[n]) ELSE PiecesTo(d)[n - 1]]
    BY <1>2, PiecesToIs DEF N
  <2> DEFINE p == PiecesTo(d)
  <2>2. p = [n \in 0..N |-> IF n = 0 THEN <<>>
              ELSE IF d[n][1] = "piece" THEN Append(p[n - 1], d[n]) ELSE p[n - 1]]
    BY <2>1
  <2> HIDE DEF p
  <2>3. 0 \in 0..N /\ \A n \in 1..N : n \in 0..N /\ n # 0
    BY <1>2
  <2>4. p[0] = <<>> /\ \A n \in 1..N : p[n] = IF d[n][1] = "piece" THEN Append(p[n - 1], d[n]) ELSE p[n - 1]
    BY <2>2, <2>3
  <2> QED
    BY <2>4 DEF p
<1>4. s \in Station /\ t \in Station /\ s.pos \in Nat
  BY <1>1, <1>2, StationIs
<1>5. 0 \in P
  <2>1. f[0].pos = s.pos /\ s.pos <= s.pos /\ s.pos < s.pos + 1 /\ s.pos + 1 \in Int /\ s.pos \in Int
    BY <1>1, <1>4
  <2>2. PieceRun(s.pos + 1, s.pos) = <<>>
    BY <2>1, RunNone
  <2>3. Q(0)
    BY <1>3, <2>1, <2>2
  <2> QED
    BY <2>3
<1>6. ASSUME NEW n \in P PROVE n + 1 \in P
  <2>1. n + 1 \in Nat /\ n \in Nat
    OBVIOUS
  <2>2. ASSUME n + 1 <= N PROVE Q(n + 1)
    <3>1. n + 1 \in 1..N /\ (n + 1) - 1 = n /\ n <= N /\ n \in 0..N /\ n + 1 \in 0..N
      BY <2>1, <2>2, <1>2
    <3> DEFINE a == f[n]
               b == f[n + 1]
               x == d[n + 1]
    <3>2. <<a, x, b>> \in SymRel
      BY <3>1, <1>1
    <3>3. Q(n)
      BY <3>1
    <3>4. PiecesTo(d)[n + 1] = IF x[1] = "piece" THEN Append(PiecesTo(d)[n], x) ELSE PiecesTo(d)[n]
      BY <3>1, <1>3
    <3>5. PiecesTo(d)[n] = PieceRun(s.pos + 1, a.pos) /\ s.pos <= a.pos
      BY <3>3
    <3> HIDE DEF a, b, x, P, Q
    <3>6. /\ a \in Station /\ b \in Station
          /\ \/ x[1] = "piece" /\ x = Piece(a.pos + 1) /\ b.pos = a.pos + 1
             \/ x[1] # "piece" /\ b.pos = a.pos
      BY <3>2, SymStep
    <3>7. a.pos \in Nat
      BY <3>6, StationIs
    <3>8. s.pos <= b.pos /\ PiecesTo(d)[n + 1] = PieceRun(s.pos + 1, b.pos)
      <4>1. CASE x[1] = "piece" /\ x = Piece(a.pos + 1) /\ b.pos = a.pos + 1
        <5>1. s.pos + 1 \in Nat /\ s.pos + 1 # 0 /\ s.pos + 1 <= a.pos + 1 /\ s.pos <= b.pos
          BY <1>4, <3>5, <3>7, <4>1
        <5>2. Append(PieceRun(s.pos + 1, a.pos), Piece(a.pos + 1)) = PieceRun(s.pos + 1, a.pos + 1)
          BY <5>1, <3>7, RunAppend
        <5> QED
          BY <5>1, <5>2, <4>1, <3>4, <3>5
      <4>2. CASE x[1] # "piece" /\ b.pos = a.pos
        BY <4>2, <3>4, <3>5
      <4> QED
        BY <4>1, <4>2, <3>6
    <3> QED
      BY <3>8 DEF Q, b
  <2> QED
    BY <2>1, <2>2
<1>7. P = Nat
  <2>1. P \in SUBSET Nat
    OBVIOUS
  <2> HIDE DEF P
  <2> QED
    BY <2>1, <1>5, <1>6, SetInduction
<1>8. Q(N)
  BY <1>2, <1>7
<1>9. PiecesOf(d) = PiecesTo(d)[N]
  BY PiecesOfIs DEF N
<1>10. ASSUME d # <<>> PROVE ~s.half /\ ~t.half /\ s.ph # "direct"
  <2>1. N # 0
    BY <1>10, EmptySeq DEF N
  <2>2. 1 \in 1..N /\ N \in 1..N /\ 1 - 1 = 0
    BY <2>1, <1>2
  <2>3. <<f[0], d[1], f[1]>> \in SymRel /\ <<f[N - 1], d[N], f[N]>> \in SymRel
    BY <2>2, <1>1
  <2> QED
    BY <2>3, <1>1, SymStep
<1>11. ASSUME d = <<>> PROVE s = t
  <2>1. N = 0
    BY <1>11 DEF N
  <2> QED
    BY <2>1, <1>1
<1> QED
  BY <1>1, <1>4, <1>8, <1>9, <1>10, <1>11

(* In TLS mode the symbols are pieces. *)
LEMMA TlsRun ==
    ASSUME NEW d \in Seq(Symbol), NEW s, NEW t, Path(SymRel, s, d, t), s.ph = "tls"
    PROVE  /\ t.ph = "tls" /\ t.cmd = s.cmd /\ t.left = s.left
           /\ d = PieceRun(s.pos + 1, t.pos)
<1> DEFINE N == Len(d)
<1>1. PICK f \in [0..N -> Station] :
         f[0] = s /\ f[N] = t /\ \A n \in 1..N : <<f[n - 1], d[n], f[n]>> \in SymRel
  BY DEF Path
<1>2. N \in Nat
  BY LenProperties
<1> HIDE DEF N
<1> DEFINE Q(n) == f[n].ph = "tls" /\ f[n].cmd = s.cmd /\ f[n].left = s.left /\ f[n].pos = s.pos + n
           P == {n \in Nat : n <= N => Q(n)}
<1>3. s \in Station /\ s.pos \in Nat
  BY <1>1, <1>2, StationIs
<1>4. 0 \in P
  BY <1>1, <1>3
<1>5. ASSUME NEW n \in 1..N, Q(n - 1) PROVE Q(n) /\ d[n] = Piece(s.pos + n)
  <2> DEFINE a == f[n - 1]
             b == f[n]
  <2>1. <<a, d[n], b>> \in SymRel
    BY <1>1
  <2>2. SymTo(a, d[n], b)
    BY <2>1, SymRelIs
  <2>3. a.ph = "tls" /\ a.cmd = s.cmd /\ a.left = s.left /\ a.pos = s.pos + (n - 1)
    BY <1>5
  <2> HIDE DEF a, b
  <2>4. d[n] = Piece(a.pos + 1) /\ b.ph = "tls" /\ b.cmd = a.cmd /\ b.left = a.left /\ b.pos = a.pos + 1
    BY <2>2, <2>3 DEF SymTo
  <2>5. a.pos + 1 = s.pos + n
    BY <2>3, <1>2, <1>3
  <2> QED
    BY <2>3, <2>4, <2>5 DEF b
<1>6. ASSUME NEW n \in P PROVE n + 1 \in P
  <2>1. n + 1 \in Nat
    OBVIOUS
  <2>2. ASSUME n + 1 <= N PROVE Q(n + 1)
    <3>1. n + 1 \in 1..N /\ (n + 1) - 1 = n /\ n <= N
      BY <2>2, <1>2
    <3>2. Q(n)
      BY <3>1
    <3> HIDE DEF P, Q
    <3> QED
      BY <3>1, <3>2, <1>5
  <2> QED
    BY <2>1, <2>2
<1>7. P = Nat
  <2>1. P \in SUBSET Nat
    OBVIOUS
  <2> HIDE DEF P
  <2> QED
    BY <2>1, <1>4, <1>6, SetInduction
<1>8. ASSUME NEW n \in 1..N PROVE d[n] = Piece(s.pos + n)
  <2>1. n - 1 \in Nat /\ n - 1 <= N
    BY <1>2
  <2>2. Q(n - 1)
    BY <2>1, <1>7
  <2> HIDE DEF P, Q
  <2> QED
    BY <2>2, <1>5
<1>9. Q(N)
  BY <1>2, <1>7
<1>10. d = PieceRun(s.pos + 1, t.pos)
  <2> DEFINE lo == s.pos + 1
             hi == t.pos
             c == PieceRun(lo, hi)
  <2>1. lo \in Nat /\ hi \in Nat /\ lo # 0 /\ lo <= hi + 1 /\ hi - lo + 1 = N
    BY <1>1, <1>2, <1>3, <1>9
  <2>2. \A i \in 1..N : lo + i - 1 = s.pos + i
    BY <1>3, <1>2
  <2> HIDE DEF lo, hi, P, Q
  <2>3. c \in Seq(Symbol) /\ Len(c) = N /\ \A i \in 1..N : c[i] = Piece(lo + i - 1)
    BY <2>1, RunIs
  <2> HIDE DEF c
  <2>4. \A i \in 1..N : c[i] = d[i]
    BY <2>2, <2>3, <1>8
  <2>5. c = d
    BY <2>3, <2>4, SeqEqual DEF N
  <2> QED
    BY <2>5 DEF c, lo, hi
<1> QED
  BY <1>1, <1>9, <1>10

-----------------------------------------------------------------------------
(* The unpadder follows the path of the symbols it is given. *)
Unpadder == [st : Stage \cup {"done"}, cmd : Commands, left : Nat, content : Seq(Symbol)]
UnpadAt(u, s) ==
    /\ s.ph \in {"initial", "command", "content", "padding", "tls", "direct"}
    /\ u.st = (IF s.ph \in {"tls", "direct"} THEN "done" ELSE s.ph)
    /\ s.ph \in {"tls", "direct"} => s.cmd = s.ph
    /\ u.cmd = s.cmd /\ u.left = s.left

(* VisionUnpadder follows the automaton, symbol by symbol. *)
LEMMA UnpadStep ==
    ASSUME NEW u \in Unpadder, NEW a, NEW x, NEW b, <<a, x, b>> \in SymRel, UnpadAt(u, a),
           NEW p \in Nat, p <= a.pos, u.content = PieceRun(p + 1, a.pos)
    PROVE  /\ UnpadSymbol(u, x) \in Unpadder /\ UnpadAt(UnpadSymbol(u, x), b)
           /\ p <= b.pos /\ UnpadSymbol(u, x).content = PieceRun(p + 1, b.pos)
<1>1. a \in Station /\ x \in Symbol /\ b \in Station /\ SymTo(a, x, b)
  BY SymRelIs
<1>2. /\ a.pos \in Nat /\ a.left \in Nat /\ a.cmd \in Commands /\ b.cmd \in Commands
      /\ b.left \in Nat
      /\ b.pos \in Nat /\ b.ph \in Stage
  BY <1>1, StationIs
<1>3. u.st \in Stage \cup {"done"} /\ u.cmd \in Commands /\ u.left \in Nat /\ u.content \in Seq(Symbol)
  BY DEF Unpadder
<1>4. Append(u.content, Piece(a.pos + 1)) = PieceRun(p + 1, a.pos + 1)
  <2>1. p + 1 \in Nat /\ p + 1 # 0 /\ p + 1 <= a.pos + 1
    BY <1>2
  <2> QED
    BY <2>1, <1>2, RunAppend
<1>5. Piece(a.pos + 1) \in Symbol /\ p <= a.pos + 1
  BY <1>2, Kinds
<1>6. Append(u.content, Piece(a.pos + 1)) \in Seq(Symbol)
  BY <1>3, <1>5
<1> DEFINE c == Append(u.content, Piece(a.pos + 1))
<1> HIDE DEF c
<1>7. CASE a.ph \in {"initial", "command"} /\ b.left # 0 /\ x = Header(b.cmd, b.left, a.ph = "initial")
           /\ b.ph = "content" /\ b.pos = a.pos
  <2>1. /\ x[1] = "hdr" /\ x[2] = b.cmd /\ x[3] = b.left /\ x[3] # 0
        /\ x[4] = (a.ph = "initial")
    BY <1>7, Tags
  <2>2. u.st = a.ph
    BY <1>7 DEF UnpadAt
  <2>3. UnpadSymbol(u, x) = [u EXCEPT !.st = "content", !.cmd = x[2], !.left = x[3]]
    BY <2>1, <2>2, <1>7 DEF UnpadSymbol
  <2> DEFINE v == [u EXCEPT !.st = "content", !.cmd = x[2], !.left = x[3]]
  <2>4. v \in Unpadder /\ v.st = "content" /\ v.cmd = b.cmd /\ v.left = b.left /\ v.content = u.content
    BY <2>1, <1>2, <1>3 DEF Unpadder, Stage
  <2> HIDE DEF v
  <2>5. UnpadAt(v, b)
    BY <2>4, <1>7 DEF UnpadAt
  <2> QED
    BY <2>3, <2>4, <2>5, <1>7 DEF v
<1>8. CASE a.ph = "content" /\ a.left # 0 /\ x = Piece(a.pos + 1)
           /\ b.ph = (IF a.left = 1 THEN "padding" ELSE "content")
           /\ b.cmd = a.cmd /\ b.left = a.left - 1 /\ b.pos = a.pos + 1
  <2>1. u.st = "content" /\ u.left = a.left /\ u.cmd = a.cmd
    BY <1>8 DEF UnpadAt
  <2>2. UnpadSymbol(u, x) =
           [u EXCEPT !.content = c, !.left = u.left - 1, !.st = IF u.left = 1 THEN "padding" ELSE u.st]
    BY <2>1, <1>8 DEF UnpadSymbol, c
  <2> DEFINE v == [u EXCEPT !.content = c, !.left = u.left - 1, !.st = IF u.left = 1 THEN "padding" ELSE u.st]
  <2>3. /\ v \in Unpadder /\ v.st = b.ph /\ v.cmd = b.cmd /\ v.left = b.left /\ v.content = c
    BY <2>1, <1>2, <1>3, <1>6, <1>8 DEF Unpadder, Stage, c
  <2> HIDE DEF v
  <2>4. UnpadAt(v, b)
    BY <2>3, <1>8 DEF UnpadAt
  <2> QED
    BY <2>2, <2>3, <2>4, <1>4, <1>5, <1>8 DEF v, c
<1>9. CASE a.ph = "padding" /\ x = Padding
           /\ b.ph = (IF a.cmd = "continue" THEN "command" ELSE a.cmd)
           /\ b.cmd = a.cmd /\ b.left = a.left /\ b.pos = a.pos
  <2>1. u.st = "padding" /\ u.left = a.left /\ u.cmd = a.cmd
    BY <1>9 DEF UnpadAt
  <2>2. UnpadSymbol(u, x) = [u EXCEPT !.st = IF u.cmd = "continue" THEN "command" ELSE "done"]
    BY <2>1, <1>9 DEF UnpadSymbol
  <2> DEFINE v == [u EXCEPT !.st = IF u.cmd = "continue" THEN "command" ELSE "done"]
  <2>3. /\ v \in Unpadder /\ v.st = (IF u.cmd = "continue" THEN "command" ELSE "done")
        /\ v.cmd = u.cmd /\ v.left = u.left /\ v.content = u.content
    BY <1>3 DEF Unpadder, Stage
  <2> HIDE DEF v
  <2>4. UnpadAt(v, b)
    BY <2>1, <2>3, <1>2, <1>9 DEF UnpadAt, Commands
  <2> QED
    BY <2>2, <2>3, <2>4, <1>9 DEF v
<1>10. CASE a.ph = "tls" /\ x = Piece(a.pos + 1)
           /\ b.ph = "tls" /\ b.cmd = a.cmd /\ b.left = a.left /\ b.pos = a.pos + 1
  <2>1. u.st = "done" /\ u.left = a.left /\ u.cmd = a.cmd /\ a.cmd = "tls"
    BY <1>10 DEF UnpadAt
  <2>2. UnpadSymbol(u, x) = [u EXCEPT !.content = c]
    BY <2>1, <1>10 DEF UnpadSymbol, c
  <2> DEFINE v == [u EXCEPT !.content = c]
  <2>3. v \in Unpadder /\ v.st = u.st /\ v.cmd = u.cmd /\ v.left = u.left /\ v.content = c
    BY <1>3, <1>6 DEF Unpadder, c
  <2> HIDE DEF v
  <2>4. UnpadAt(v, b)
    BY <2>1, <2>3, <1>10 DEF UnpadAt
  <2> QED
    BY <2>2, <2>3, <2>4, <1>4, <1>5, <1>10 DEF v, c
<1>11. ~(a.ph \in {"request", "response"})
  BY DEF UnpadAt
<1> QED
  BY <1>1, <1>7, <1>8, <1>9, <1>10, <1>11 DEF SymTo

(* VisionUnpadder follows the automaton, and hands out the pieces on its path. *)
LEMMA UnpadFollows ==
    ASSUME NEW u \in Unpadder, NEW d \in Seq(Symbol), NEW s, NEW t, Path(SymRel, s, d, t),
           u.st # "done", UnpadAt(u, s)
    PROVE  /\ Unpad(u, d) \in Unpadder /\ UnpadAt(Unpad(u, d), t)
           /\ Unpad(u, d).content = PieceRun(s.pos + 1, t.pos)
<1> DEFINE N == Len(d)
<1>1. PICK f \in [0..N -> Station] :
         f[0] = s /\ f[N] = t /\ \A n \in 1..N : <<f[n - 1], d[n], f[n]>> \in SymRel
  BY DEF Path
<1>2. N \in Nat
  BY LenProperties
<1> HIDE DEF N
<1>3. s \in Station /\ s.pos \in Nat /\ s.pos <= s.pos
  BY <1>1, <1>2, StationIs
<1> DEFINE g == UnpadTo(u, d)
<1>4. g[0] = Fresh(u) /\ \A n \in 1..N : g[n] = UnpadSymbol(g[n - 1], d[n])
  <2>1. g = [n \in 0..N |-> IF n = 0 THEN Fresh(u) ELSE UnpadSymbol(g[n - 1], d[n])]
    BY <1>2, UnpadToIs DEF N
  <2> HIDE DEF g
  <2>2. 0 \in 0..N /\ \A n \in 1..N : n \in 0..N /\ n # 0
    BY <1>2
  <2> QED
    BY <2>1, <2>2
<1> HIDE DEF g
<1> DEFINE Q(n) == /\ g[n] \in Unpadder /\ UnpadAt(g[n], f[n]) /\ s.pos <= f[n].pos
                   /\ g[n].content = PieceRun(s.pos + 1, f[n].pos)
           P == {n \in Nat : n <= N => Q(n)}
<1>5. 0 \in P
  <2>1. PieceRun(s.pos + 1, s.pos) = <<>>
    <3>1. s.pos < s.pos + 1 /\ s.pos + 1 \in Int /\ s.pos \in Int
      BY <1>3
    <3> QED
      BY <3>1, RunNone
  <2>2. /\ Fresh(u) \in Unpadder /\ Fresh(u).content = <<>> /\ Fresh(u).st = u.st
        /\ Fresh(u).cmd = u.cmd /\ Fresh(u).left = u.left
    <3>1. <<>> \in Seq(Symbol)
      BY EmptySeq
    <3> DEFINE e == <<>>
    <3>2. e \in Seq(Symbol)
      BY <3>1
    <3> HIDE DEF e
    <3>3. LET v == [u EXCEPT !.content = e]
          IN v \in Unpadder /\ v.content = e /\ v.st = u.st /\ v.cmd = u.cmd /\ v.left = u.left
      BY <3>2 DEF Unpadder
    <3> QED
      BY <3>3 DEF Fresh, e
  <2>3. UnpadAt(Fresh(u), s)
    BY <2>2 DEF UnpadAt
  <2> QED
    BY <1>1, <1>3, <1>4, <2>1, <2>2, <2>3
<1>6. ASSUME NEW n \in P PROVE n + 1 \in P
  <2>1. n + 1 \in Nat
    OBVIOUS
  <2>2. ASSUME n + 1 <= N PROVE Q(n + 1)
    <3>1. n + 1 \in 1..N /\ (n + 1) - 1 = n /\ n <= N
      BY <2>2, <1>2
    <3>2. Q(n)
      BY <3>1
    <3>3. <<f[n], d[n + 1], f[n + 1]>> \in SymRel /\ g[n + 1] = UnpadSymbol(g[n], d[n + 1])
      BY <3>1, <1>1, <1>4
    <3> QED
      BY <3>2, <3>3, <1>3, UnpadStep
  <2> QED
    BY <2>1, <2>2
<1>7. P = Nat
  <2>1. P \in SUBSET Nat
    OBVIOUS
  <2> HIDE DEF P
  <2> QED
    BY <2>1, <1>5, <1>6, SetInduction
<1>8. Q(N)
  BY <1>2, <1>7
<1>9. Unpad(u, d) = g[N]
  BY UnpadIs DEF g, N
<1> QED
  BY <1>1, <1>8, <1>9

-----------------------------------------------------------------------------
(* Steps of a path through tokens. *)
IsHalf(a, x, b) ==
    /\ x = Half /\ x[1] = "half" /\ ~a.half /\ b.half /\ a.ph # "direct"
    /\ b.ph = a.ph /\ b.cmd = a.cmd /\ b.left = a.left /\ b.pos = a.pos
IsRest(a, x, b) ==
    /\ x[1] = "rest" /\ x = Rest(x[2]) /\ x[2] \in Seq(Symbol) /\ x[2] # <<>> /\ a.half /\ ~b.half
    /\ a.ph # "direct" /\ Path(SymRel, Open(a), x[2], b)
IsPiece(a, x, b) ==
    /\ x[1] = "piece" /\ x = Piece(a.pos + 1) /\ ~a.half /\ ~b.half /\ a.ph = "direct"
    /\ b.ph = a.ph /\ b.cmd = a.cmd /\ b.left = a.left /\ b.pos = a.pos + 1

(* A step of tokens is half a record, the rest of one, or a bare piece. *)
LEMMA TokStep ==
    ASSUME NEW a, NEW x, NEW b, <<a, x, b>> \in TokRel
    PROVE  /\ a \in Station /\ b \in Station /\ x \in Token
           /\ IsHalf(a, x, b) \/ IsRest(a, x, b) \/ IsPiece(a, x, b)
<1>1. a \in Station /\ x \in Token /\ b \in Station /\ TokTo(a, x, b)
  BY TokRelIs
<1>2. CASE /\ x = Half /\ ~a.half /\ b.half /\ a.ph # "direct"
           /\ b.ph = a.ph /\ b.cmd = a.cmd /\ b.left = a.left /\ b.pos = a.pos
  BY <1>1, <1>2, Tags DEF IsHalf
<1>3. CASE x[1] = "rest" /\ x[2] # <<>> /\ a.half /\ a.ph # "direct" /\ Path(SymRel, Open(a), x[2], b)
  <2>1. x[2] \in Seq(Symbol) /\ x = Rest(x[2])
    BY <1>1, <1>3, Kinds, Tags
  <2>2. ~b.half
    BY <2>1, <1>3, SymPieces
  <2> QED
    BY <1>1, <1>3, <2>1, <2>2 DEF IsRest
<1>4. CASE /\ x = Piece(a.pos + 1) /\ ~a.half /\ ~b.half /\ a.ph = "direct"
           /\ b.ph = a.ph /\ b.cmd = a.cmd /\ b.left = a.left /\ b.pos = a.pos + 1
  BY <1>1, <1>4, Tags DEF IsPiece
<1> QED
  BY <1>1, <1>2, <1>3, <1>4 DEF TokTo

(* The three kinds of steps are steps. *)
LEMMA TokStepIs ==
    ASSUME NEW a \in Station, NEW b \in Station, NEW x \in Token,
           IsHalf(a, x, b) \/ IsRest(a, x, b) \/ IsPiece(a, x, b)
    PROVE  <<a, x, b>> \in TokRel
BY TokRelIs DEF TokTo, IsHalf, IsRest, IsPiece

(* The pieces on a path through tokens are those between its ends. *)
LEMMA WayPieces ==
    ASSUME NEW toks \in Seq(Token), NEW s, NEW t, Path(TokRel, s, toks, t)
    PROVE  /\ s \in Station /\ t \in Station /\ s.pos <= t.pos
           /\ OnTheWay(toks) = PieceRun(s.pos + 1, t.pos)
<1> DEFINE N == Len(toks)
<1>1. PICK f \in [0..N -> Station] :
         f[0] = s /\ f[N] = t /\ \A n \in 1..N : <<f[n - 1], toks[n], f[n]>> \in TokRel
  BY DEF Path
<1>2. N \in Nat
  BY LenProperties
<1> HIDE DEF N
<1> DEFINE g == WayTo(toks)
<1>3. g[0] = <<>> /\ \A n \in 1..N :
         g[n] = IF toks[n][1] = "rest" THEN g[n - 1] \o PiecesOf(toks[n][2])
                ELSE IF toks[n][1] = "piece" THEN Append(g[n - 1], toks[n]) ELSE g[n - 1]
  <2>1. g = [n \in 0..N |-> IF n = 0 THEN <<>> ELSE
             IF toks[n][1] = "rest" THEN g[n - 1] \o PiecesOf(toks[n][2])
             ELSE IF toks[n][1] = "piece" THEN Append(g[n - 1], toks[n]) ELSE g[n - 1]]
    BY <1>2, WayToIs DEF N
  <2> HIDE DEF g
  <2>3. 0 \in 0..N /\ \A n \in 1..N : n \in 0..N /\ n # 0
    BY <1>2
  <2> QED
    BY <2>1, <2>3
<1> HIDE DEF g
<1> DEFINE Q(n) == s.pos <= f[n].pos /\ g[n] = PieceRun(s.pos + 1, f[n].pos)
           P == {n \in Nat : n <= N => Q(n)}
<1>4. s \in Station /\ t \in Station /\ s.pos \in Nat
  BY <1>1, <1>2, StationIs
<1>5. 0 \in P
  <2>1. f[0].pos = s.pos /\ s.pos <= s.pos /\ s.pos < s.pos + 1 /\ s.pos + 1 \in Int /\ s.pos \in Int
    BY <1>1, <1>4
  <2>2. PieceRun(s.pos + 1, s.pos) = <<>>
    BY <2>1, RunNone
  <2>3. Q(0)
    BY <1>3, <2>1, <2>2
  <2> QED
    BY <2>3
<1>6. ASSUME NEW n \in P PROVE n + 1 \in P
  <2>1. n + 1 \in Nat /\ n \in Nat
    OBVIOUS
  <2>2. ASSUME n + 1 <= N PROVE Q(n + 1)
    <3>1. n + 1 \in 1..N /\ (n + 1) - 1 = n /\ n <= N
      BY <2>1, <2>2, <1>2
    <3> DEFINE a == f[n]
               b == f[n + 1]
               x == toks[n + 1]
    <3>2. <<a, x, b>> \in TokRel
      BY <3>1, <1>1
    <3>3. Q(n)
      BY <3>1
    <3>4. g[n + 1] = IF x[1] = "rest" THEN g[n] \o PiecesOf(x[2])
                     ELSE IF x[1] = "piece" THEN Append(g[n], x) ELSE g[n]
      BY <3>1, <1>3
    <3>5. g[n] = PieceRun(s.pos + 1, a.pos) /\ s.pos <= a.pos
      BY <3>3
    <3> HIDE DEF a, b, x, P, Q
    <3>6. /\ a \in Station /\ b \in Station
          /\ IsHalf(a, x, b) \/ IsRest(a, x, b) \/ IsPiece(a, x, b)
      BY <3>2, TokStep
    <3>7. a.pos \in Nat /\ b.pos \in Nat
      BY <3>6, StationIs
    <3>8. s.pos + 1 \in Nat /\ s.pos + 1 # 0 /\ s.pos + 1 <= a.pos + 1
      BY <1>4, <3>5, <3>7
    <3>9. s.pos <= b.pos /\ g[n + 1] = PieceRun(s.pos + 1, b.pos)
      <4>1. CASE IsHalf(a, x, b)
        BY <4>1, <3>4, <3>5 DEF IsHalf
      <4>2. CASE IsRest(a, x, b)
        <5>1. x[1] = "rest" /\ x[2] \in Seq(Symbol) /\ Path(SymRel, Open(a), x[2], b)
          BY <4>2 DEF IsRest
        <5>2. a.pos <= b.pos /\ PiecesOf(x[2]) = PieceRun(a.pos + 1, b.pos)
          <6> DEFINE o == Open(a)
                     y == x[2]
          <6>1. o.pos = a.pos
            BY OpenIs
          <6>2. y \in Seq(Symbol) /\ Path(SymRel, o, y, b)
            BY <5>1
          <6> HIDE DEF o, y
          <6>3. o.pos <= b.pos /\ PiecesOf(y) = PieceRun(o.pos + 1, b.pos)
            BY <6>2, SymPieces
          <6> QED
            BY <6>1, <6>3 DEF y
        <5>3. PieceRun(s.pos + 1, a.pos) \o PieceRun(a.pos + 1, b.pos) = PieceRun(s.pos + 1, b.pos)
          BY <5>2, <3>7, <3>8, RunConcat
        <5>4. s.pos <= b.pos
          BY <5>2, <3>5, <3>7, <1>4
        <5> QED
          BY <5>1, <5>2, <5>3, <5>4, <3>4, <3>5
      <4>3. CASE IsPiece(a, x, b)
        <5>1. x[1] = "piece" /\ x = Piece(a.pos + 1) /\ b.pos = a.pos + 1
          BY <4>3 DEF IsPiece
        <5>2. Append(PieceRun(s.pos + 1, a.pos), Piece(a.pos + 1)) = PieceRun(s.pos + 1, a.pos + 1)
          BY <3>7, <3>8, RunAppend
        <5>3. s.pos <= b.pos
          BY <5>1, <3>5, <3>7, <1>4
        <5> QED
          BY <5>1, <5>2, <5>3, <3>4, <3>5
      <4> QED
        BY <4>1, <4>2, <4>3, <3>6
    <3> QED
      BY <3>9 DEF Q, b
  <2> QED
    BY <2>1, <2>2
<1>7. P = Nat
  <2>1. P \in SUBSET Nat
    OBVIOUS
  <2> HIDE DEF P
  <2> QED
    BY <2>1, <1>5, <1>6, SetInduction
<1>8. Q(N)
  BY <1>2, <1>7
<1>9. OnTheWay(toks) = g[N]
  BY OnTheWayIs DEF N, g
<1> QED
  BY <1>1, <1>4, <1>8, <1>9

(* What TLS opens on a path without bare pieces is a path through symbols. *)
LEMMA OpenedFollows ==
    ASSUME NEW toks \in Seq(Token), NEW s, NEW t, Path(TokRel, s, toks, t),
           \A n \in 1..Len(toks) : toks[n][1] # "piece"
    PROVE  Opened(toks) \in Seq(Symbol) /\ Path(SymRel, Open(s), Opened(toks), Open(t))
<1> DEFINE N == Len(toks)
<1>1. PICK f \in [0..N -> Station] :
         f[0] = s /\ f[N] = t /\ \A n \in 1..N : <<f[n - 1], toks[n], f[n]>> \in TokRel
  BY DEF Path
<1>2. N \in Nat
  BY LenProperties
<1>0. \A n \in 1..N : toks[n][1] # "piece"
  OBVIOUS
<1> HIDE DEF N
<1> DEFINE g == OpenedTo(toks)
<1>3. g[0] = <<>> /\ \A n \in 1..N :
         g[n] = IF toks[n][1] = "rest" THEN g[n - 1] \o toks[n][2] ELSE g[n - 1]
  <2>1. g = [n \in 0..N |-> IF n = 0 THEN <<>> ELSE
             IF toks[n][1] = "rest" THEN g[n - 1] \o toks[n][2] ELSE g[n - 1]]
    BY <1>2, OpenedToIs DEF N
  <2> HIDE DEF g
  <2>3. 0 \in 0..N /\ \A n \in 1..N : n \in 0..N /\ n # 0
    BY <1>2
  <2> QED
    BY <2>1, <2>3
<1> HIDE DEF g
<1> DEFINE Q(n) == g[n] \in Seq(Symbol) /\ Path(SymRel, Open(s), g[n], Open(f[n]))
           P == {n \in Nat : n <= N => Q(n)}
<1>4. s \in Station /\ Open(s) \in Station
  BY <1>1, <1>2, StationIs
<1>5. 0 \in P
  <2>1. Path(SymRel, Open(s), <<>>, Open(s))
    BY <1>4, PathNone
  <2>2. Q(0)
    BY <1>1, <1>3, <2>1, EmptySeq
  <2> QED
    BY <2>2
<1>6. ASSUME NEW n \in P PROVE n + 1 \in P
  <2>1. n + 1 \in Nat /\ n \in Nat
    OBVIOUS
  <2>2. ASSUME n + 1 <= N PROVE Q(n + 1)
    <3>1. n + 1 \in 1..N /\ (n + 1) - 1 = n /\ n <= N
      BY <2>1, <2>2, <1>2
    <3> DEFINE a == f[n]
               b == f[n + 1]
               x == toks[n + 1]
    <3>2. <<a, x, b>> \in TokRel /\ x[1] # "piece"
      BY <3>1, <1>0, <1>1
    <3>3. Q(n)
      BY <3>1
    <3>4. g[n + 1] = IF x[1] = "rest" THEN g[n] \o x[2] ELSE g[n]
      BY <3>1, <1>3
    <3>5. g[n] \in Seq(Symbol) /\ Path(SymRel, Open(s), g[n], Open(a))
      BY <3>3
    <3> HIDE DEF a, b, x, P, Q
    <3>6. /\ a \in Station /\ b \in Station
          /\ IsHalf(a, x, b) \/ IsRest(a, x, b)
      BY <3>2, TokStep DEF IsPiece
    <3>7. g[n + 1] \in Seq(Symbol) /\ Path(SymRel, Open(s), g[n + 1], Open(b))
      <4>1. CASE IsHalf(a, x, b)
        <5>1. Open(a) = Open(b) /\ x[1] = "half"
          BY <4>1 DEF IsHalf, Open
        <5> QED
          BY <5>1, <3>4, <3>5
      <4>2. CASE IsRest(a, x, b)
        <5>1. x[1] = "rest" /\ x[2] \in Seq(Symbol) /\ Path(SymRel, Open(a), x[2], b) /\ ~b.half
          BY <4>2 DEF IsRest
        <5>2. Open(b) = b
          BY <5>1, <3>6, OpenSame
        <5>3. Path(SymRel, Open(s), g[n] \o x[2], b)
          BY <5>1, <3>5, PathJoin
        <5>4. g[n] \o x[2] \in Seq(Symbol)
          BY <5>1, <3>5, ConcatProperties
        <5> QED
          BY <5>1, <5>2, <5>3, <5>4, <3>4
      <4> QED
        BY <4>1, <4>2, <3>6
    <3> QED
      BY <3>7 DEF Q, b
  <2> QED
    BY <2>1, <2>2
<1>7. P = Nat
  <2>1. P \in SUBSET Nat
    OBVIOUS
  <2> HIDE DEF P
  <2> QED
    BY <2>1, <1>5, <1>6, SetInduction
<1>8. Q(N)
  BY <1>2, <1>7
<1>9. Opened(toks) = g[N]
  BY OpenedIs DEF N, g
<1> QED
  BY <1>1, <1>8, <1>9

-----------------------------------------------------------------------------
(* Sequences cut and joined. *)
LEMMA CutJoin ==
    ASSUME NEW S, NEW q \in Seq(S), NEW k \in Nat, NEW m \in Nat, k <= m, m <= Len(q)
    PROVE  /\ SubSeq(q, 1, k) \in Seq(S) /\ SubSeq(q, k + 1, m) \in Seq(S)
           /\ Len(SubSeq(q, 1, k)) = k /\ Len(SubSeq(q, k + 1, m)) = m - k
           /\ \A i \in 1..k : SubSeq(q, 1, k)[i] = q[i]
           /\ \A i \in 1..(m - k) : SubSeq(q, k + 1, m)[i] = q[k + i]
           /\ SubSeq(q, 1, k) \o SubSeq(q, k + 1, m) = SubSeq(q, 1, m)
<1> DEFINE a == SubSeq(q, 1, k)
           b == SubSeq(q, k + 1, m)
           c == SubSeq(q, 1, m)
           N == Len(q)
<1>1. N \in Nat /\ m <= N /\ \A i \in 1..N : q[i] \in S
  BY LenProperties, ElementOfSeq
<1> HIDE DEF N
<1>2. a \in Seq(S) /\ Len(a) = k /\ \A i \in 1..k : a[i] = q[i]
  <2>1. \A i \in 1..k : q[i] \in S
    BY <1>1
  <2>2. /\ a \in Seq(S) /\ Len(a) = IF 1 <= k THEN k - 1 + 1 ELSE 0
        /\ \A i \in 1..(k - 1 + 1) : a[i] = q[1 + i - 1]
    BY <2>1, <1>1, SubSeqProperties
  <2> HIDE DEF a
  <2> QED
    BY <2>2
<1>3. c \in Seq(S) /\ Len(c) = m /\ \A i \in 1..m : c[i] = q[i]
  <2>1. \A i \in 1..m : q[i] \in S
    BY <1>1
  <2>2. /\ c \in Seq(S) /\ Len(c) = IF 1 <= m THEN m - 1 + 1 ELSE 0
        /\ \A i \in 1..(m - 1 + 1) : c[i] = q[1 + i - 1]
    BY <2>1, <1>1, SubSeqProperties
  <2> HIDE DEF c
  <2> QED
    BY <2>2
<1>4. b \in Seq(S) /\ Len(b) = m - k /\ \A i \in 1..(m - k) : b[i] = q[k + i]
  <2> DEFINE e == k + 1
  <2>1. e \in 1..(m + 1) /\ e \in Nat /\ \A i \in e..m : q[i] \in S
    BY <1>1
  <2> HIDE DEF e
  <2>2. /\ SubSeq(q, e, m) \in Seq(S) /\ Len(SubSeq(q, e, m)) = IF e <= m THEN m - e + 1 ELSE 0
        /\ \A i \in 1..(m - e + 1) : SubSeq(q, e, m)[i] = q[e + i - 1]
    BY <2>1, <1>1, SubSeqProperties
  <2>3. b = SubSeq(q, e, m)
    BY DEF e
  <2> HIDE DEF b
  <2>4. Len(b) = m - k
    BY <2>1, <2>2, <2>3 DEF e
  <2>5. ASSUME NEW i \in 1..(m - k) PROVE b[i] = q[k + i]
    <3>1. i \in 1..(m - e + 1) /\ e + i - 1 = k + i
      BY DEF e
    <3> QED
      BY <3>1, <2>2, <2>3
  <2> QED
    BY <2>2, <2>3, <2>4, <2>5
<1> HIDE DEF a, b, c
<1>5. /\ a \o b \in Seq(S) /\ Len(a \o b) = Len(a) + Len(b)
      /\ \A i \in 1..(Len(a) + Len(b)) : (a \o b)[i] = IF i <= Len(a) THEN a[i] ELSE b[i - Len(a)]
  BY ZenonT(60), <1>2, <1>4, ConcatProperties
<1>6. ASSUME NEW i \in 1..m PROVE (a \o b)[i] = c[i]
  <2>1. i \in 1..(Len(a) + Len(b))
    BY <1>2, <1>4
  <2>2. CASE i <= k
    <3>1. i \in 1..k
      BY <2>2
    <3> QED
      BY <3>1, <2>1, <2>2, <1>2, <1>3, <1>5
  <2>3. CASE ~(i <= k)
    <3>1. i - k \in 1..(m - k) /\ k + (i - k) = i
      BY <2>3
    <3> QED
      BY <3>1, <2>1, <2>3, <1>2, <1>3, <1>4, <1>5
  <2> QED
    BY <2>2, <2>3
<1>7. a \o b = c
  <2>1. Len(a \o b) = m
    BY <1>2, <1>4, <1>5
  <2> QED
    BY <2>1, <1>3, <1>5, <1>6, SeqEqual
<1> QED
  BY <1>2, <1>4, <1>7 DEF a, b, c

(* A sequence cut in two. *)
LEMMA CutAll ==
    ASSUME NEW S, NEW q \in Seq(S), NEW k \in 0..Len(q)
    PROVE  /\ SubSeq(q, 1, k) \in Seq(S) /\ From(q, k + 1) \in Seq(S)
           /\ Len(SubSeq(q, 1, k)) = k /\ Len(From(q, k + 1)) = Len(q) - k
           /\ \A i \in 1..k : SubSeq(q, 1, k)[i] = q[i]
           /\ \A i \in 1..(Len(q) - k) : From(q, k + 1)[i] = q[k + i]
           /\ SubSeq(q, 1, k) \o From(q, k + 1) = q
<1> DEFINE N == Len(q)
<1>1. N \in Nat /\ k \in Nat /\ k <= N /\ N <= N
  BY LenProperties
<1>2. SubSeq(q, 1, N) = q
  <2>1. N = Len(q) /\ N \in Nat
    BY <1>1
  <2>2. /\ SubSeq(q, 1, N) \in Seq(S) /\ Len(SubSeq(q, 1, N)) = N
        /\ \A i \in 1..N : SubSeq(q, 1, N)[i] = q[i]
    <3> HIDE DEF N
    <3> QED
      BY <1>1, <2>1, CutJoin
  <2> HIDE DEF N
  <2> QED
    BY <2>1, <2>2, SeqEqual
<1>3. /\ SubSeq(q, 1, k) \in Seq(S) /\ SubSeq(q, k + 1, N) \in Seq(S)
      /\ Len(SubSeq(q, 1, k)) = k /\ Len(SubSeq(q, k + 1, N)) = N - k
      /\ \A i \in 1..k : SubSeq(q, 1, k)[i] = q[i]
      /\ \A i \in 1..(N - k) : SubSeq(q, k + 1, N)[i] = q[k + i]
      /\ SubSeq(q, 1, k) \o SubSeq(q, k + 1, N) = SubSeq(q, 1, N)
  <2>1. N <= Len(q)
    BY <1>1
  <2> HIDE DEF N
  <2> QED
    BY <1>1, <2>1, CutJoin
<1> QED
  BY <1>2, <1>3 DEF From

(* A path through two sequences has a station between them. *)
LEMMA PathSplit ==
    ASSUME NEW S, NEW R, NEW a \in Seq(S), NEW b \in Seq(S), NEW s, NEW t, Path(R, s, a \o b, t)
    PROVE  \E u \in Station : Path(R, s, a, u) /\ Path(R, u, b, t)
<1> DEFINE A == Len(a)
           B == Len(b)
           c == a \o b
<1>1. A \in Nat /\ B \in Nat
  BY LenProperties
<1>2. /\ c \in Seq(S) /\ Len(c) = A + B
      /\ \A i \in 1..(A + B) : c[i] = IF i <= A THEN a[i] ELSE b[i - A]
  BY ConcatProperties
<1> HIDE DEF A, B
<1>3. A \in 0..Len(c)
  BY <1>1, <1>2
<1>4. Path(R, s, c, t)
  OBVIOUS
<1> HIDE DEF c
<1>5. PICK u \in Station : Path(R, s, SubSeq(c, 1, A), u) /\ Path(R, u, SubSeq(c, A + 1, Len(c)), t)
  BY <1>2, <1>3, <1>4, PathCut
<1>6. /\ SubSeq(c, 1, A) \in Seq(S) /\ From(c, A + 1) \in Seq(S)
      /\ Len(SubSeq(c, 1, A)) = A /\ Len(From(c, A + 1)) = Len(c) - A
      /\ \A i \in 1..A : SubSeq(c, 1, A)[i] = c[i]
      /\ \A i \in 1..(Len(c) - A) : From(c, A + 1)[i] = c[A + i]
  BY <1>2, <1>3, CutAll
<1>7. SubSeq(c, 1, A) = a
  <2>1. \A i \in 1..A : c[i] = a[i]
    BY <1>1, <1>2
  <2> QED
    BY <2>1, <1>6, SeqEqual DEF A
<1>8. From(c, A + 1) = b
  <2>1. Len(c) - A = B
    BY <1>1, <1>2
  <2>2. ASSUME NEW i \in 1..B PROVE From(c, A + 1)[i] = b[i]
    <3>1. A + i \in 1..(A + B) /\ ~(A + i <= A) /\ (A + i) - A = i
      BY <1>1
    <3>2. From(c, A + 1)[i] = c[A + i]
      BY <1>6, <2>1
    <3>3. c[A + i] = b[(A + i) - A]
      BY <3>1, <1>2
    <3> QED
      BY <3>1, <3>2, <3>3
  <2> QED
    BY <2>1, <2>2, <1>6, SeqEqual DEF B
<1> QED
  BY <1>5, <1>7, <1>8 DEF From

-----------------------------------------------------------------------------
(* Outside TLS the tokens are pieces. *)
LEMMA DirectRun ==
    ASSUME NEW toks \in Seq(Token), NEW s, NEW t, Path(TokRel, s, toks, t), s.ph = "direct"
    PROVE  /\ t.ph = "direct" /\ t.cmd = s.cmd /\ t.left = s.left /\ t.half = s.half
           /\ toks = PieceRun(s.pos + 1, t.pos)
<1> DEFINE N == Len(toks)
<1>1. PICK f \in [0..N -> Station] :
         f[0] = s /\ f[N] = t /\ \A n \in 1..N : <<f[n - 1], toks[n], f[n]>> \in TokRel
  BY DEF Path
<1>2. N \in Nat
  BY LenProperties
<1> HIDE DEF N
<1> DEFINE Q(n) == /\ f[n].ph = "direct" /\ f[n].cmd = s.cmd /\ f[n].left = s.left
                   /\ f[n].pos = s.pos + n /\ f[n].half = s.half
           P == {n \in Nat : n <= N => Q(n)}
<1>3. s \in Station /\ s.pos \in Nat
  BY <1>1, <1>2, StationIs
<1>4. 0 \in P
  BY <1>1, <1>3
<1>5. ASSUME NEW n \in 1..N, Q(n - 1) PROVE Q(n) /\ toks[n] = Piece(s.pos + n)
  <2> DEFINE a == f[n - 1]
             b == f[n]
  <2>1. <<a, toks[n], b>> \in TokRel
    BY <1>1
  <2>3. /\ a.ph = "direct" /\ a.cmd = s.cmd /\ a.left = s.left /\ a.pos = s.pos + (n - 1)
        /\ a.half = s.half
    BY <1>5
  <2> HIDE DEF a, b
  <2>2. a \in Station /\ b \in Station /\ IsPiece(a, toks[n], b)
    BY <2>1, <2>3, TokStep DEF IsHalf, IsRest
  <2>4. /\ toks[n] = Piece(a.pos + 1) /\ b.ph = "direct" /\ b.cmd = a.cmd /\ b.left = a.left
        /\ b.pos = a.pos + 1 /\ ~a.half /\ ~b.half
    BY <2>2, <2>3 DEF IsPiece
  <2>5. a.pos + 1 = s.pos + n
    BY <2>3, <1>2, <1>3
  <2>6. a.half = b.half
    BY <2>2, <2>4, StationIs
  <2> QED
    BY <2>3, <2>4, <2>5, <2>6 DEF b
<1>6. ASSUME NEW n \in P PROVE n + 1 \in P
  <2>1. n + 1 \in Nat
    OBVIOUS
  <2>2. ASSUME n + 1 <= N PROVE Q(n + 1)
    <3>1. n + 1 \in 1..N /\ (n + 1) - 1 = n /\ n <= N
      BY <2>2, <1>2
    <3>2. Q(n)
      BY <3>1
    <3> HIDE DEF P, Q
    <3> QED
      BY <3>1, <3>2, <1>5
  <2> QED
    BY <2>1, <2>2
<1>7. P = Nat
  <2>1. P \in SUBSET Nat
    OBVIOUS
  <2> HIDE DEF P
  <2> QED
    BY <2>1, <1>4, <1>6, SetInduction
<1>8. ASSUME NEW n \in 1..N PROVE toks[n] = Piece(s.pos + n)
  <2>1. n - 1 \in Nat /\ n - 1 <= N
    BY <1>2
  <2>2. Q(n - 1)
    BY <2>1, <1>7
  <2> HIDE DEF P, Q
  <2> QED
    BY <2>2, <1>5
<1>9. Q(N)
  BY <1>2, <1>7
<1>10. toks = PieceRun(s.pos + 1, t.pos)
  <2> DEFINE lo == s.pos + 1
             hi == t.pos
             c == PieceRun(lo, hi)
  <2>0. hi = s.pos + N
    BY <1>1, <1>9
  <2>1. lo \in Nat /\ hi \in Nat /\ lo # 0 /\ lo <= hi + 1 /\ hi - lo + 1 = N
    <3> HIDE DEF hi
    <3> QED
      BY <2>0, <1>2, <1>3
  <2>2. \A i \in 1..N : lo + i - 1 = s.pos + i
    BY <1>3, <1>2
  <2> HIDE DEF lo, hi, P, Q
  <2>3. c \in Seq(Token) /\ Len(c) = N /\ \A i \in 1..N : c[i] = Piece(lo + i - 1)
    BY <2>1, RunIs
  <2> HIDE DEF c
  <2>4. \A i \in 1..N : c[i] = toks[i]
    BY <2>2, <2>3, <1>8
  <2>5. c = toks
    BY <2>3, <2>4, SeqEqual DEF N
  <2> QED
    BY <2>5 DEF c, lo, hi
<1> QED
  BY <1>1, <1>9, <1>10

(* Before that, TLS records: a path that does not end outside TLS alternates. *)
Alternates(toks) ==
    \A i \in 1..Len(toks) : IF i % 2 = 1 THEN toks[i] = Half ELSE toks[i][1] = "rest"

(* A path that does not reach DIRECT alternates halves and rests. *)
LEMMA PathAlternates ==
    ASSUME NEW toks \in Seq(Token), NEW s, NEW t, Path(TokRel, s, toks, t),
           ~s.half, t.ph # "direct"
    PROVE  /\ Alternates(toks) /\ (t.half <=> Len(toks) % 2 = 1)
           /\ \A i \in 1..Len(toks) : toks[i][1] # "piece"
<1> DEFINE N == Len(toks)
<1>1. PICK f \in [0..N -> Station] :
         f[0] = s /\ f[N] = t /\ \A n \in 1..N : <<f[n - 1], toks[n], f[n]>> \in TokRel
  BY DEF Path
<1>2. N \in Nat
  BY LenProperties
<1> HIDE DEF N
<1>3. ASSUME NEW n \in 0..N PROVE f[n].ph # "direct"
  <2> SUFFICES ASSUME f[n].ph = "direct" PROVE FALSE
    OBVIOUS
  <2> DEFINE P == {k \in Nat : n + k <= N => f[n + k].ph = "direct"}
  <2>1. 0 \in P
    OBVIOUS
  <2>2. ASSUME NEW k \in P PROVE k + 1 \in P
    <3>1. k + 1 \in Nat
      OBVIOUS
    <3>2. ASSUME n + (k + 1) <= N PROVE f[n + (k + 1)].ph = "direct"
      <4>1. n + (k + 1) \in 1..N /\ (n + (k + 1)) - 1 = n + k /\ n + k <= N
        BY <3>2, <1>2
      <4>2. <<f[n + k], toks[n + (k + 1)], f[n + (k + 1)]>> \in TokRel
        BY <4>1, <1>1
      <4>3. f[n + k].ph = "direct"
        BY <4>1
      <4> QED
        BY <4>2, <4>3, TokStep DEF IsHalf, IsRest, IsPiece
    <3> QED
      BY <3>1, <3>2
  <2>3. P = Nat
    <3>1. P \in SUBSET Nat
      OBVIOUS
    <3> HIDE DEF P
    <3> QED
      BY <3>1, <2>1, <2>2, SetInduction
  <2>4. N - n \in Nat /\ n + (N - n) = N
    BY <1>2
  <2> QED
    BY <2>3, <2>4, <1>1
<1> DEFINE Q(n) == f[n].half <=> n % 2 = 1
           P == {n \in Nat : n <= N => Q(n)}
<1>4. ASSUME NEW n \in 1..N, Q(n - 1)
      PROVE  Q(n) /\ (IF n % 2 = 1 THEN toks[n] = Half ELSE toks[n][1] = "rest") /\ toks[n][1] # "piece"
  <2>1. <<f[n - 1], toks[n], f[n]>> \in TokRel
    BY <1>1
  <2>2. f[n - 1].ph # "direct"
    BY <1>2, <1>3
  <2>3. IsHalf(f[n - 1], toks[n], f[n]) \/ IsRest(f[n - 1], toks[n], f[n])
    BY <2>1, <2>2, TokStep DEF IsPiece
  <2>4. n \in Nat /\ ((n - 1) % 2 = 1 <=> ~(n % 2 = 1))
    BY <1>2
  <2> QED
    BY <2>3, <2>4, <1>4 DEF IsHalf, IsRest
<1>5. 0 \in P
  BY <1>1
<1>6. ASSUME NEW n \in P PROVE n + 1 \in P
  <2>1. n + 1 \in Nat
    OBVIOUS
  <2>2. ASSUME n + 1 <= N PROVE Q(n + 1)
    <3>1. n + 1 \in 1..N /\ (n + 1) - 1 = n /\ n <= N
      BY <2>2, <1>2
    <3>2. Q(n)
      BY <3>1
    <3> HIDE DEF P, Q
    <3> QED
      BY <3>1, <3>2, <1>4
  <2> QED
    BY <2>1, <2>2
<1>7. P = Nat
  <2>1. P \in SUBSET Nat
    OBVIOUS
  <2> HIDE DEF P
  <2> QED
    BY <2>1, <1>5, <1>6, SetInduction
<1>8. ASSUME NEW n \in 1..N
      PROVE  (IF n % 2 = 1 THEN toks[n] = Half ELSE toks[n][1] = "rest") /\ toks[n][1] # "piece"
  <2>1. n - 1 \in Nat /\ n - 1 <= N
    BY <1>2
  <2>2. Q(n - 1)
    BY <2>1, <1>7
  <2> HIDE DEF P, Q
  <2> QED
    BY <2>2, <1>4
<1>9. Q(N)
  BY <1>2, <1>7
<1> QED
  BY <1>1, <1>8, <1>9 DEF N, Alternates

-----------------------------------------------------------------------------
(* The records at the head of some tokens. *)
LEMMA BoundedMax ==
    ASSUME NEW N \in Nat, NEW S \in SUBSET (0..N), S # {}
    PROVE  Max(S) \in S /\ \A y \in S : y <= Max(S)
<1> DEFINE T == {j \in 0..N : N - j \in S}
<1>1. T \subseteq Nat /\ T # {}
  <2>1. PICK y \in S : TRUE
    OBVIOUS
  <2>2. y \in 0..N /\ N - y \in 0..N /\ N - (N - y) = y
    OBVIOUS
  <2>3. N - y \in T
    BY <2>2
  <2> QED
    BY <2>3
<1>2. PICK j \in T : \A i \in T : ~(<<i, j>> \in OpToRel(<, Nat))
  <2> HIDE DEF T
  <2> QED
    BY <1>1, WFMin, NatLessThanWellFounded
<1>3. ASSUME NEW y \in S PROVE N - j >= y
  <2>1. y \in 0..N /\ N - y \in 0..N /\ N - (N - y) = y
    OBVIOUS
  <2>2. N - y \in T
    BY <2>1
  <2>3. ~(N - y < j)
    BY <2>2, <1>1, <1>2 DEF OpToRel
  <2> QED
    BY <2>1, <2>3
<1>4. N - j \in S
  OBVIOUS
<1>5. Max(S) \in S /\ \A y \in S : Max(S) >= y
  BY <1>3, <1>4 DEF Max
<1>6. \A y \in S : y \in 0..N
  OBVIOUS
<1> QED
  BY <1>5, <1>6

(* Whole counts the tokens of the complete records at the head. *)
LEMMA WholeIs ==
    ASSUME NEW toks \in Seq(Token)
    PROVE  /\ Whole(toks) \in 0..Len(toks) /\ Whole(toks) % 2 = 0
           /\ \A i \in 1..Whole(toks) : IF i % 2 = 1 THEN toks[i] = Half ELSE toks[i][1] = "rest"
           /\ Alternates(toks) => Whole(toks) = 2 * (Len(toks) \div 2)
<1> DEFINE N == Len(toks)
           cuts == {k \in 0..N : \A i \in 1..k :
                      IF i % 2 = 1 THEN toks[i] = Half ELSE toks[i][1] = "rest"}
           m == Max(cuts)
<1>1. N \in Nat
  BY LenProperties
<1>2. Whole(toks) = 2 * (m \div 2)
  BY DEF Whole
<1>3. m \in cuts /\ \A y \in cuts : y <= m
  <2>1. 0 \in cuts /\ cuts \in SUBSET (0..N)
    BY <1>1
  <2> HIDE DEF cuts
  <2> QED
    BY <2>1, <1>1, BoundedMax
<1>4. m \in 0..N /\ \A i \in 1..m : IF i % 2 = 1 THEN toks[i] = Half ELSE toks[i][1] = "rest"
  BY <1>3
<1>5. Alternates(toks) => m = N
  <2> SUFFICES ASSUME Alternates(toks) PROVE m = N
    OBVIOUS
  <2>1. N \in cuts
    BY <1>1 DEF Alternates
  <2>2. N <= m
    BY <2>1, <1>3
  <2> HIDE DEF m
  <2> QED
    BY <2>2, <1>1, <1>4
<1> HIDE DEF m
<1>6. m \in Nat
  BY <1>4, <1>1
<1>7. 2 * (m \div 2) \in 0..N /\ (2 * (m \div 2)) % 2 = 0 /\ 2 * (m \div 2) <= m
  BY <1>1, <1>4, <1>6
<1>8. \A i \in 1..(2 * (m \div 2)) : i \in 1..m
  BY <1>6, <1>7
<1> QED
  BY <1>2, <1>4, <1>5, <1>7, <1>8

(* What is left behind the records: nothing, or half a record. *)
LEMMA WholeRest ==
    ASSUME NEW toks \in Seq(Token), Alternates(toks)
    PROVE  From(toks, Whole(toks) + 1) = (IF Len(toks) % 2 = 1 THEN <<Half>> ELSE <<>>)
<1> DEFINE N == Len(toks)
           W == Whole(toks)
           r == From(toks, W + 1)
<1>1. N \in Nat /\ W \in 0..N /\ W = 2 * (N \div 2)
  BY WholeIs, LenProperties
<1> HIDE DEF W
<1>2. r \in Seq(Token) /\ Len(r) = N - W /\ \A i \in 1..(N - W) : r[i] = toks[W + i]
  BY <1>1, CutAll
<1>3. \A i \in 1..N : IF i % 2 = 1 THEN toks[i] = Half ELSE toks[i][1] = "rest"
  BY DEF Alternates
<1> HIDE DEF N, r
<1>4. CASE N % 2 = 1
  <2>1. N - W = 1 /\ W + 1 = N /\ N \in 1..N /\ 1 \in 1..(N - W)
    BY <1>1, <1>4
  <2>2. Len(r) = 1 /\ r[1] = Half
    BY <2>1, <1>2, <1>3, <1>4
  <2>3. <<Half>> \in Seq(Token) /\ Len(<<Half>>) = 1 /\ <<Half>>[1] = Half
    BY Kinds
  <2>4. \A i \in 1..1 : i = 1
    OBVIOUS
  <2>5. r = <<Half>>
    BY <2>2, <2>3, <2>4, <1>2, SeqEqual
  <2> QED
    BY <2>5, <1>4 DEF r, W, N
<1>5. CASE N % 2 # 1
  <2>1. N - W = 0
    BY <1>1, <1>5
  <2>2. r = <<>>
    BY <2>1, <1>2, EmptySeq
  <2> QED
    BY <2>2, <1>5 DEF r, W, N
<1> QED
  BY <1>4, <1>5

-----------------------------------------------------------------------------
(* The writer's way to TCP. *)
HalfOf(s) == [ph |-> s.ph, cmd |-> s.cmd, left |-> s.left, pos |-> s.pos, half |-> TRUE]

(* Symbols sealed in one record, half by half. *)
LEMMA HalfThenRest ==
    ASSUME NEW u \in Station, NEW d \in Seq(Symbol), NEW v, Path(SymRel, u, d, v), d # <<>>
    PROVE  /\ HalfOf(u) \in Station /\ v \in Station /\ ~u.half /\ ~v.half
           /\ <<u, Half, HalfOf(u)>> \in TokRel /\ <<HalfOf(u), Rest(d), v>> \in TokRel
<1>1. u \in Station /\ v \in Station /\ ~u.half /\ ~v.half /\ u.ph # "direct"
  BY SymPieces
<1>2. HalfOf(u) \in Station
  BY StationIs DEF HalfOf, Station
<1>3. /\ HalfOf(u).ph = u.ph /\ HalfOf(u).cmd = u.cmd /\ HalfOf(u).left = u.left
      /\ HalfOf(u).pos = u.pos /\ HalfOf(u).half
  BY DEF HalfOf
<1>4. Open(HalfOf(u)) = u
  <2>1. Open(HalfOf(u)) = Open(u)
    BY <1>3 DEF Open
  <2> QED
    BY <2>1, <1>1, OpenSame
<1>5. <<u, Half, HalfOf(u)>> \in TokRel
  <2>1. IsHalf(u, Half, HalfOf(u))
    BY <1>1, <1>3, Tags DEF IsHalf
  <2> QED
    BY <2>1, <1>2, Kinds, TokStepIs
<1>6. <<HalfOf(u), Rest(d), v>> \in TokRel
  <2>1. IsRest(HalfOf(u), Rest(d), v)
    BY <1>1, <1>3, <1>4, Tags DEF IsRest
  <2> QED
    BY <2>1, <1>1, <1>2, Kinds, TokStepIs
<1> QED
  BY <1>1, <1>2, <1>5, <1>6

(* A pair from its two members. *)
LEMMA PairJoin == ASSUME NEW S, NEW a \in S, NEW b \in S PROVE <<a>> \o <<b>> = <<a, b>>
<1> DEFINE p == <<a>>
           q == <<b>>
           r == <<a, b>>
<1>1. p \in Seq(S) /\ q \in Seq(S) /\ r \in Seq(S)
  OBVIOUS
<1>2. Len(p) = 1 /\ Len(q) = 1 /\ Len(r) = 2 /\ p[1] = a /\ q[1] = b /\ r[1] = a /\ r[2] = b
  OBVIOUS
<1> HIDE DEF p, q, r
<1>3. /\ p \o q \in Seq(S) /\ Len(p \o q) = Len(p) + Len(q)
      /\ \A i \in 1..(Len(p) + Len(q)) : (p \o q)[i] = IF i <= Len(p) THEN p[i] ELSE q[i - Len(p)]
  BY <1>1, ConcatProperties
<1>4. Len(p \o q) = 2 /\ (p \o q)[1] = a /\ (p \o q)[2] = b
  <2>1. 1 \in 1..(1 + 1) /\ 2 \in 1..(1 + 1) /\ 1 <= 1 /\ ~(2 <= 1) /\ 2 - 1 = 1 /\ 1 + 1 = 2
    OBVIOUS
  <2> QED
    BY <2>1, <1>2, <1>3
<1>5. \A i \in 1..2 : i = 1 \/ i = 2
  OBVIOUS
<1>6. p \o q = r
  BY <1>1, <1>2, <1>3, <1>4, <1>5, SeqEqual
<1> QED
  BY <1>6 DEF p, q, r

(* Sealing symbols in a record leads where the symbols lead. *)
LEMMA SealedPath ==
    ASSUME NEW u \in Station, NEW d \in Seq(Symbol), NEW v, Path(SymRel, u, d, v)
    PROVE  Sealed(d) \in Seq(Token) /\ Path(TokRel, u, Sealed(d), v)
<1>1. CASE d = <<>>
  <2>1. Sealed(d) = <<>> /\ u = v
    BY <1>1, SymPieces DEF Sealed
  <2>2. Path(TokRel, u, <<>>, v)
    BY <2>1, PathNone
  <2> QED
    BY <2>1, <2>2, EmptySeq
<1>2. CASE d # <<>>
  <2>1. /\ HalfOf(u) \in Station /\ v \in Station
        /\ <<u, Half, HalfOf(u)>> \in TokRel /\ <<HalfOf(u), Rest(d), v>> \in TokRel
    BY <1>2, HalfThenRest
  <2>2. Path(TokRel, u, <<Half>>, HalfOf(u)) /\ Path(TokRel, HalfOf(u), <<Rest(d)>>, v)
    BY <2>1, PathOne
  <2>3. <<Half>> \in Seq(Token) /\ <<Rest(d)>> \in Seq(Token)
    BY Kinds
  <2>4. Path(TokRel, u, <<Half>> \o <<Rest(d)>>, v)
    BY <2>2, <2>3, PathJoin
  <2>5. <<Half>> \o <<Rest(d)>> = <<Half, Rest(d)>>
    BY Kinds, PairJoin
  <2>6. Sealed(d) = <<Half, Rest(d)>>
    BY <1>2 DEF Sealed
  <2>7. <<Half, Rest(d)>> \in Seq(Token)
    BY Kinds
  <2> QED
    BY <2>4, <2>5, <2>6, <2>7
<1> QED
  BY <1>1, <1>2

(* What records hold are symbols. *)
LEMMA OpenedSeq == ASSUME NEW toks \in Seq(Token) PROVE Opened(toks) \in Seq(Symbol)
<1> DEFINE N == Len(toks)
           g == OpenedTo(toks)
           P == {n \in Nat : n <= N => g[n] \in Seq(Symbol)}
<1>2. N \in Nat /\ \A n \in 1..N : toks[n] \in Token
  BY LenProperties, ElementOfSeq
<1>3. g[0] = <<>> /\ \A n \in 1..N :
         g[n] = IF toks[n][1] = "rest" THEN g[n - 1] \o toks[n][2] ELSE g[n - 1]
  <2>1. g = [n \in 0..N |-> IF n = 0 THEN <<>> ELSE
             IF toks[n][1] = "rest" THEN g[n - 1] \o toks[n][2] ELSE g[n - 1]]
    BY <1>2, OpenedToIs
  <2> HIDE DEF g
  <2>3. 0 \in 0..N /\ \A n \in 1..N : n \in 0..N /\ n # 0
    BY <1>2
  <2> QED
    BY <2>1, <2>3
<1> HIDE DEF g, N
<1>4. 0 \in P
  BY <1>3, EmptySeq
<1>5. ASSUME NEW n \in P PROVE n + 1 \in P
  <2>1. n + 1 \in Nat
    OBVIOUS
  <2>2. ASSUME n + 1 <= N PROVE g[n + 1] \in Seq(Symbol)
    <3>1. n + 1 \in 1..N /\ (n + 1) - 1 = n /\ n <= N
      BY <2>2, <1>2
    <3>2. g[n] \in Seq(Symbol)
      BY <3>1
    <3> DEFINE x == toks[n + 1]
    <3>3. x \in Token /\ g[n + 1] = IF x[1] = "rest" THEN g[n] \o x[2] ELSE g[n]
      BY <3>1, <1>2, <1>3
    <3> HIDE DEF x, P
    <3>4. CASE x[1] = "rest"
      <4>1. x[2] \in Seq(Symbol)
        BY <3>3, <3>4, Kinds, Tags
      <4> QED
        BY <4>1, <3>2, <3>3, <3>4, ConcatProperties
    <3>5. CASE x[1] # "rest"
      BY <3>2, <3>3, <3>5
    <3> QED
      BY <3>4, <3>5
  <2> QED
    BY <2>1, <2>2
<1>6. P = Nat
  <2>1. P \in SUBSET Nat
    OBVIOUS
  <2> HIDE DEF P
  <2> QED
    BY <2>1, <1>4, <1>5, SetInduction
<1>7. g[N] \in Seq(Symbol)
  BY <1>2, <1>6
<1> QED
  BY <1>7, OpenedIs DEF g, N

Writer ==
    [mode : {"padding", "tls", "direct"}, next : {"none", "tls", "direct"},
     pc : {"idle", "filter", "tls", "direct"}, first : BOOLEAN, response : BOOLEAN,
     found : BOOLEAN, lo : Nat, hi : Nat, fed : Nat, had : Nat, done : Nat, acked : Nat,
     zero : BOOLEAN, sess : Seq(Token), plain : Seq(Symbol), flushed : BOOLEAN, shut : BOOLEAN]

(* w and x differ in what waits for TCP only. *)
Carried(w, x) ==
    /\ x.mode = w.mode /\ x.next = w.next /\ x.pc = w.pc /\ x.first = w.first
    /\ x.response = w.response /\ x.found = w.found /\ x.lo = w.lo /\ x.hi = w.hi
    /\ x.fed = w.fed /\ x.had = w.had /\ x.done = w.done /\ x.acked = w.acked
    /\ x.zero = w.zero /\ x.flushed = w.flushed /\ x.shut = w.shut

(* What is under way behind the tokens b leads from s to t. *)
Way(b, w, s, t) ==
    \E u \in Station : Path(TokRel, s, b \o w.sess, u) /\ ~u.half /\ Path(SymRel, u, w.plain, t)

(* The room in the session is a number. *)
LEMMA RoomIs ==
    ASSUME NEW w \in Writer
    PROVE  Room(w) \in Nat
<1>1. Opened(w.sess) \in Seq(Symbol)
  BY OpenedSeq DEF Writer
<1>2. Buffered(w.sess) \in Nat
  BY <1>1, LenProperties DEF Buffered
<1> QED
  BY <1>2, VisionConstants DEF Room

(* The lesser of two numbers. *)
LEMMA LeastIs ==
    ASSUME NEW a \in Nat, NEW b \in Nat
    PROVE  Least(a, b) \in Nat /\ Least(a, b) <= a /\ Least(a, b) <= b /\ Least(a, b) \in {a, b}
BY DEF Least

(* Symbols put into the session, or behind it, are at the end of the way. *)
LEMMA SessionWay ==
    ASSUME NEW w \in Writer, NEW d \in Seq(Symbol), NEW b \in Seq(Token), NEW s, NEW t, NEW v,
           Way(b, w, s, t), Path(SymRel, t, d, v)
    PROVE  /\ ToSession(w, d) \in Writer /\ Carried(w, ToSession(w, d))
           /\ Way(b, ToSession(w, d), s, v)
<1> DEFINE x == ToSession(w, d)
<1>0. w.sess \in Seq(Token) /\ w.plain \in Seq(Symbol)
  BY DEF Writer
<1>1. PICK u \in Station : Path(TokRel, s, b \o w.sess, u) /\ ~u.half /\ Path(SymRel, u, w.plain, t)
  BY DEF Way
<1>2. CASE w.plain # <<>>
  <2> DEFINE q == w.plain \o d
  <2>1. q \in Seq(Symbol)
    BY <1>0, ConcatProperties
  <2>2. x = [w EXCEPT !.plain = q]
    BY <1>2 DEF ToSession
  <2>3. Path(SymRel, u, q, v)
    BY <1>0, <1>1, PathJoin
  <2> HIDE DEF q
  <2>4. x \in Writer /\ Carried(w, x) /\ x.sess = w.sess /\ x.plain = q
    BY <2>1, <2>2 DEF Writer, Carried
  <2> HIDE DEF x
  <2>5. Way(b, x, s, v)
    BY <2>3, <2>4, <1>1 DEF Way
  <2> QED
    BY <2>4, <2>5 DEF x
<1>3. CASE w.plain = <<>>
  <2> DEFINE n == Least(Room(w), Len(d))
             e == SubSeq(d, 1, n)
             q == From(d, n + 1)
             p == w.sess \o Sealed(e)
  <2>1. n \in 0..Len(d)
    <3>1. Room(w) \in Nat /\ Len(d) \in Nat
      BY RoomIs, LenProperties
    <3> QED
      BY <3>1, LeastIs
  <2>2. x = [w EXCEPT !.sess = p, !.plain = q]
    BY <1>3 DEF ToSession
  <2>3. u = t
    BY <1>1, <1>3, SymPieces, EmptySeq
  <2> HIDE DEF n
  <2>4. e \in Seq(Symbol) /\ q \in Seq(Symbol)
    BY <2>1, CutAll
  <2>5. PICK m \in Station : Path(SymRel, u, e, m) /\ Path(SymRel, m, q, v)
    <3>1. Path(SymRel, u, d, v)
      BY <2>3
    <3>2. \E m \in Station : Path(SymRel, u, SubSeq(d, 1, n), m) /\ Path(SymRel, m, SubSeq(d, n + 1, Len(d)), v)
      BY <2>1, <3>1, PathCut
    <3> QED
      BY <3>2 DEF From
  <2> HIDE DEF e, q
  <2>6. Sealed(e) \in Seq(Token) /\ Path(TokRel, u, Sealed(e), m)
    BY <2>4, <2>5, SealedPath
  <2>7. ~m.half
    BY <1>1, <2>4, <2>5, SymPieces
  <2>8. p \in Seq(Token)
    BY <1>0, <2>6, ConcatProperties
  <2>9. Path(TokRel, s, b \o p, m)
    <3>1. b \o w.sess \in Seq(Token)
      BY <1>0, ConcatProperties
    <3>2. Path(TokRel, s, (b \o w.sess) \o Sealed(e), m)
      BY <3>1, <2>6, <1>1, PathJoin
    <3>3. (b \o w.sess) \o Sealed(e) = b \o p
      <4> DEFINE y == w.sess
                 z == Sealed(e)
      <4>1. y \in Seq(Token) /\ z \in Seq(Token)
        BY <1>0, <2>6
      <4> HIDE DEF y, z
      <4>2. (b \o y) \o z = b \o (y \o z)
        BY <4>1, ConcatAssociative
      <4> QED
        BY <4>2 DEF y, z
    <3> QED
      BY <3>2, <3>3
  <2> HIDE DEF p, x
  <2>10. x \in Writer /\ Carried(w, x) /\ x.sess = p /\ x.plain = q
    BY <2>2, <2>4, <2>8 DEF Writer, Carried
  <2>11. Way(b, x, s, v)
    BY <2>5, <2>7, <2>9, <2>10 DEF Way
  <2> QED
    BY <2>10, <2>11 DEF x
<1> QED
  BY <1>2, <1>3

(* A part of a path. *)
LEMMA PathPart ==
    ASSUME NEW S, NEW R, NEW q \in Seq(S), NEW f \in [0..Len(q) -> Station],
           \A n \in 1..Len(q) : <<f[n - 1], q[n], f[n]>> \in R,
           NEW i \in Nat, NEW j \in Nat, i <= j, j <= Len(q)
    PROVE  Path(R, f[i], SubSeq(q, i + 1, j), f[j])
<1> DEFINE N == Len(q)
           b == SubSeq(q, i + 1, j)
           g == [n \in 0..(j - i) |-> f[i + n]]
<1>1. N \in Nat /\ j <= N /\ j - i \in Nat
  BY LenProperties
<1>2. Len(b) = j - i /\ \A n \in 1..(j - i) : b[n] = q[i + n]
  BY CutJoin
<1> HIDE DEF N, b
<1>3. g \in [0..(j - i) -> Station]
  <2> SUFFICES ASSUME NEW n \in 0..(j - i) PROVE f[i + n] \in Station
    OBVIOUS
  <2>1. i + n \in 0..N
    BY <1>1
  <2> QED
    BY <2>1 DEF N
<1>4. g[0] = f[i] /\ g[j - i] = f[j]
  <2>1. 0 \in 0..(j - i) /\ j - i \in 0..(j - i) /\ i + 0 = i /\ i + (j - i) = j
    BY <1>1
  <2> QED
    BY <2>1
<1>5. ASSUME NEW n \in 1..(j - i) PROVE <<g[n - 1], b[n], g[n]>> \in R
  <2>1. /\ n \in 0..(j - i) /\ n - 1 \in 0..(j - i) /\ i + n \in 1..N
        /\ (i + n) - 1 = i + (n - 1)
    BY <1>1
  <2>2. <<f[(i + n) - 1], q[i + n], f[i + n]>> \in R
    BY <2>1 DEF N
  <2> QED
    BY <2>1, <2>2, <1>2
<1> HIDE DEF g
<1>6. Path(R, f[i], b, f[j])
  BY <1>2, <1>3, <1>4, <1>5 DEF Path
<1> QED
  BY <1>6 DEF b

(* A cut behind the first of two sequences. *)
LEMMA ConcatCut ==
    ASSUME NEW S, NEW a \in Seq(S), NEW c \in Seq(S), NEW j \in 0..Len(c)
    PROVE  SubSeq(a \o c, 1, Len(a) + j) = a \o SubSeq(c, 1, j)
<1> DEFINE A == Len(a)
           C == Len(c)
           o == a \o c
           p == SubSeq(o, 1, A + j)
           e == SubSeq(c, 1, j)
<1>1. A \in Nat /\ C \in Nat /\ j \in Nat /\ j <= C
  BY LenProperties
<1>2. /\ o \in Seq(S) /\ Len(o) = A + C
      /\ \A i \in 1..(A + C) : o[i] = IF i <= A THEN a[i] ELSE c[i - A]
  BY ConcatProperties
<1>3. e \in Seq(S) /\ Len(e) = j /\ \A i \in 1..j : e[i] = c[i]
  BY CutAll
<1> HIDE DEF o, e, A, C
<1>4. p \in Seq(S) /\ Len(p) = A + j /\ \A i \in 1..(A + j) : p[i] = o[i]
  <2>1. A + j \in 0..Len(o)
    BY <1>1, <1>2
  <2> QED
    BY <2>1, <1>2, CutAll
<1>5. /\ a \o e \in Seq(S) /\ Len(a \o e) = A + j
      /\ \A i \in 1..(A + j) : (a \o e)[i] = IF i <= A THEN a[i] ELSE e[i - A]
  BY <1>3, ConcatProperties DEF A
<1> HIDE DEF p
<1>6. ASSUME NEW i \in 1..(A + j) PROVE p[i] = (a \o e)[i]
  <2>1. i \in 1..(A + C) /\ (~(i <= A) => i - A \in 1..j)
    BY <1>1
  <2> QED
    BY <2>1, <1>2, <1>3, <1>4, <1>5
<1>7. p = a \o e
  BY <1>4, <1>5, <1>6, SeqEqual
<1> QED
  BY <1>7 DEF p, o, e, A

(* How far k loads of the session go. *)
Edge(w, k) == Least(k * SessCap, Len(w.plain))

(* The loads of the session cut what waits into consecutive parts. *)
LEMMA LoadsAre ==
    ASSUME NEW w \in Writer
    PROVE  /\ Loads(w) \in Nat /\ Edge(w, 0) = 0
           /\ \A k \in 0..Loads(w) :
                 Edge(w, k) \in 0..Len(w.plain) /\ From(w.plain, k * SessCap + 1) = From(w.plain, Edge(w, k) + 1)
           /\ \A k \in 1..Loads(w) :
                 /\ Edge(w, k - 1) < Edge(w, k)
                 /\ Load(w, k) = SubSeq(w.plain, Edge(w, k - 1) + 1, Edge(w, k))
<1> DEFINE N == Len(w.plain)
           L == Loads(w)
           C == SessCap
<1>1. w.plain \in Seq(Symbol)
  BY DEF Writer
<1>2. N \in Nat /\ C \in Nat /\ C # 0
  BY <1>1, LenProperties, VisionConstants
<1>3. L = (N + C - 1) \div C
  BY DEF Loads
<1> HIDE DEF N, L, C
<1>4. L \in Nat /\ L * C <= N + C - 1
  BY <1>2, <1>3
<1>5. ASSUME NEW k \in 0..L PROVE k * C \in Nat /\ Edge(w, k) = IF k * C < N THEN k * C ELSE N
  <2>1. k * C \in Nat
    BY <1>2, <1>4
  <2> QED
    BY <2>1 DEF Edge, Least, N, C
<1>6. Edge(w, 0) = 0
  <2>1. 0 * C = 0 /\ 0 \in 0..L
    BY <1>2, <1>4
  <2>2. Edge(w, 0) = IF 0 < N THEN 0 ELSE N
    BY <2>1, <1>5
  <2> QED
    BY <2>2, <1>2
<1>7. ASSUME NEW k \in 0..L
      PROVE  Edge(w, k) \in 0..N /\ From(w.plain, k * C + 1) = From(w.plain, Edge(w, k) + 1)
  <2>1. Edge(w, k) \in 0..N
    BY <1>2, <1>5
  <2>2. CASE k * C < N
    BY <2>1, <2>2, <1>5
  <2>3. CASE ~(k * C < N)
    <3>1. Edge(w, k) = N
      BY <2>3, <1>5
    <3>2. From(w.plain, N + 1) = <<>>
      <4> DEFINE m == N + 1
      <4>1. m \in Int /\ N \in Int /\ N < m
        BY <1>2
      <4> HIDE DEF m
      <4>2. From(w.plain, m) = SubSeq(w.plain, m, N) /\ SubSeq(w.plain, m, N) = <<>>
        BY <4>1, SubSeqEmpty DEF From, N
      <4> QED
        BY <4>2 DEF m
    <3>3. From(w.plain, k * C + 1) = <<>>
      <4> DEFINE m == k * C + 1
      <4>1. m \in Nat /\ N < m
        BY <2>3, <1>2, <1>5
      <4> HIDE DEF m
      <4>2. From(w.plain, m) = SubSeq(w.plain, m, N)
        BY DEF From, N
      <4>3. SubSeq(w.plain, m, N) = <<>>
        BY <4>1, <1>1, <1>2, SubSeqEmpty
      <4> QED
        BY <4>2, <4>3 DEF m
    <3> QED
      BY <2>1, <3>1, <3>2, <3>3
  <2> QED
    BY <2>2, <2>3
<1>8. ASSUME NEW k \in 1..L
      PROVE  /\ Edge(w, k - 1) < Edge(w, k)
             /\ Load(w, k) = SubSeq(w.plain, Edge(w, k - 1) + 1, Edge(w, k))
  <2>1. k - 1 \in 0..L /\ k \in 0..L /\ k \in Nat /\ k <= L
    BY <1>4
  <2>2. k * C <= L * C
    BY <2>1, <1>2, <1>4
  <2>3. (k - 1) * C = k * C - C /\ k * C \in Nat
    BY <2>1, <1>2
  <2>4. (k - 1) * C < N
    BY <2>2, <2>3, <1>2, <1>4
  <2>5. Edge(w, k - 1) = (k - 1) * C /\ Edge(w, k) = IF k * C < N THEN k * C ELSE N
    BY <2>1, <2>4, <1>5
  <2>6. Load(w, k) = SubSeq(w.plain, (k - 1) * C + 1, Edge(w, k))
    BY DEF Load, Edge, C, N
  <2>7. Edge(w, k - 1) < Edge(w, k)
    BY <2>3, <2>4, <2>5, <1>2
  <2> QED
    BY <2>5, <2>6, <2>7
<1> QED
  BY <1>4, <1>6, <1>7, <1>8 DEF N, L, C

(* The path through the loads of the session. *)
LoadToks(w) == [i \in 1..(2 * Loads(w)) |-> IF i % 2 = 1 THEN Half ELSE Rest(Load(w, i \div 2))]

(* The first k loads, sealed, lead to the station behind them. *)
LEMMA LoadsPath ==
    ASSUME NEW w \in Writer, NEW u \in Station, NEW t, Path(SymRel, u, w.plain, t), ~u.half,
           NEW k \in 0..Loads(w)
    PROVE  /\ LoadToks(w) \in Seq(Token) /\ Len(LoadToks(w)) = 2 * Loads(w)
           /\ \E v \in Station : /\ Path(TokRel, u, SubSeq(LoadToks(w), 1, 2 * k), v) /\ ~v.half
                                 /\ Path(SymRel, v, From(w.plain, k * SessCap + 1), t)
<1> DEFINE q == w.plain
           N == Len(q)
           L == Loads(w)
           T == LoadToks(w)
           E(i) == Edge(w, i)
<1>1. q \in Seq(Symbol) /\ N \in Nat
  BY LenProperties DEF Writer
<1>2. PICK f \in [0..N -> Station] :
         f[0] = u /\ f[N] = t /\ \A n \in 1..N : <<f[n - 1], q[n], f[n]>> \in SymRel
  BY DEF Path
<1>3. /\ L \in Nat /\ E(0) = 0
      /\ \A i \in 0..L : E(i) \in 0..N /\ From(q, i * SessCap + 1) = From(q, E(i) + 1)
      /\ \A i \in 1..L : E(i - 1) < E(i) /\ Load(w, i) = SubSeq(q, E(i - 1) + 1, E(i))
  BY LoadsAre
<1>4. ASSUME NEW i \in 1..L
      PROVE  /\ Load(w, i) \in Seq(Symbol) /\ Load(w, i) # <<>>
             /\ Path(SymRel, f[E(i - 1)], Load(w, i), f[E(i)])
  <2> DEFINE x == E(i - 1)
             y == E(i)
  <2>1. i \in 0..L /\ i - 1 \in 0..L
    BY <1>3
  <2>2. x \in Nat /\ y \in Nat /\ x < y /\ y <= N /\ Load(w, i) = SubSeq(q, x + 1, y)
    BY <2>1, <1>3
  <2> HIDE DEF x, y
  <2>3. SubSeq(q, x + 1, y) \in Seq(Symbol) /\ Len(SubSeq(q, x + 1, y)) = y - x
    <3>1. x <= y
      BY <2>2
    <3> QED
      BY <3>1, <2>2, <1>1, CutJoin
  <2>4. Path(SymRel, f[x], SubSeq(q, x + 1, y), f[y])
    <3>1. x <= y
      BY <2>2
    <3> QED
      BY <3>1, <2>2, <1>1, <1>2, PathPart
  <2>5. SubSeq(q, x + 1, y) # <<>>
    BY <2>2, <2>3, EmptySeq
  <2> QED
    BY <2>2, <2>3, <2>4, <2>5 DEF x, y
<1> HIDE DEF L, E
<1>5. ASSUME NEW i \in 1..(2 * L)
      PROVE  (IF i % 2 = 1 THEN Half ELSE Rest(Load(w, i \div 2))) \in Token
  <2>1. CASE i % 2 = 1
    BY <2>1, Kinds
  <2>2. CASE i % 2 # 1
    <3>1. i \div 2 \in 1..L
      BY <2>2, <1>3
    <3> QED
      BY <3>1, <2>2, <1>4, Kinds
  <2> QED
    BY <2>1, <2>2
<1>6. T \in Seq(Token) /\ Len(T) = 2 * L /\ \A i \in 1..(2 * L) :
         T[i] = IF i % 2 = 1 THEN Half ELSE Rest(Load(w, i \div 2))
  <2> DEFINE M == 2 * L
             c(i) == IF i % 2 = 1 THEN Half ELSE Rest(Load(w, i \div 2))
  <2>1. T = [i \in 1..M |-> c(i)]
    BY DEF LoadToks, L
  <2>2. M \in Nat /\ \A i \in 1..M : c(i) \in Token
    BY <1>3, <1>5
  <2> HIDE DEF M, c, T
  <2>3. T \in Seq(Token) /\ Len(T) = M
    BY <2>1, <2>2, IsASeq, LenProperties
  <2>4. \A i \in 1..M : T[i] = c(i)
    BY <2>1
  <2> QED
    BY <2>3, <2>4 DEF M, c
<1> DEFINE g == [i \in 0..(2 * L) |-> IF i % 2 = 0 THEN f[E(i \div 2)] ELSE HalfOf(f[E(i \div 2)])]
<1>7. ASSUME NEW i \in 1..L
      PROVE  /\ f[E(i - 1)] \in Station /\ HalfOf(f[E(i - 1)]) \in Station /\ f[E(i)] \in Station
             /\ ~f[E(i - 1)].half /\ ~f[E(i)].half
             /\ <<f[E(i - 1)], Half, HalfOf(f[E(i - 1)])>> \in TokRel
             /\ <<HalfOf(f[E(i - 1)]), Rest(Load(w, i)), f[E(i)]>> \in TokRel
  <2>1. i - 1 \in 0..L
    BY <1>3
  <2>2. f[E(i - 1)] \in Station
    BY <2>1, <1>2, <1>3
  <2> QED
    BY <2>2, <1>4, HalfThenRest
<1> HIDE DEF T, N, q
<1>8. g \in [0..(2 * L) -> Station]
  <2> SUFFICES ASSUME NEW i \in 0..(2 * L) PROVE g[i] \in Station
    OBVIOUS
  <2>1. CASE i % 2 = 0
    <3>1. i \div 2 \in 0..L
      BY <2>1, <1>3
    <3> QED
      BY <3>1, <2>1, <1>2, <1>3
  <2>2. CASE i % 2 # 0
    <3>1. i \div 2 + 1 \in 1..L /\ (i \div 2 + 1) - 1 = i \div 2
      BY <2>2, <1>3
    <3> QED
      BY <3>1, <2>2, <1>7
  <2> QED
    BY <2>1, <2>2
<1>9. ASSUME NEW i \in 1..(2 * L) PROVE <<g[i - 1], T[i], g[i]>> \in TokRel
  <2>0. i \in 0..(2 * L) /\ i - 1 \in 0..(2 * L) /\ i \in Nat
    BY <1>3
  <2>3. L \in Nat /\ i >= 1 /\ i <= 2 * L
    BY <1>3
  <2>1. CASE i % 2 = 1
    <3>1. (i - 1) % 2 = 0 /\ i % 2 # 0 /\ (i - 1) \div 2 = i \div 2 /\ i \div 2 + 1 \in 1..L
          /\ (i \div 2 + 1) - 1 = i \div 2
      BY <2>0, <2>1, <2>3
    <3>2. g[i - 1] = f[E(i \div 2)] /\ g[i] = HalfOf(f[E(i \div 2)]) /\ T[i] = Half
      BY <2>0, <2>1, <3>1, <1>6
    <3>3. <<f[E(i \div 2)], Half, HalfOf(f[E(i \div 2)])>> \in TokRel
      BY <3>1, <1>7
    <3> QED
      BY <3>2, <3>3
  <2>2. CASE i % 2 # 1
    <3>1. i % 2 = 0 /\ (i - 1) % 2 # 0 /\ (i - 1) \div 2 = i \div 2 - 1 /\ i \div 2 \in 1..L
      BY <2>0, <2>2, <2>3
    <3>2. g[i - 1] = HalfOf(f[E(i \div 2 - 1)]) /\ g[i] = f[E(i \div 2)] /\ T[i] = Rest(Load(w, i \div 2))
      BY <2>0, <2>2, <3>1, <1>6
    <3>3. <<HalfOf(f[E(i \div 2 - 1)]), Rest(Load(w, i \div 2)), f[E(i \div 2)]>> \in TokRel
      BY <3>1, <1>7
    <3> QED
      BY <3>2, <3>3
  <2> QED
    BY <2>1, <2>2
<1>10. g[0] = u /\ g[2 * k] = f[E(k)]
  <2>1. k \in 0..L
    BY DEF L
  <2>2. /\ 0 \in 0..(2 * L) /\ 2 * k \in 0..(2 * L) /\ 0 % 2 = 0 /\ (2 * k) % 2 = 0 /\ 0 \div 2 = 0
        /\ (2 * k) \div 2 = k
    BY <2>1, <1>3
  <2> QED
    BY <2>2, <1>2, <1>3
<1> HIDE DEF g
<1>11. Path(TokRel, u, SubSeq(T, 1, 2 * k), f[E(k)])
  <2> DEFINE z == 0
             j == 2 * k
  <2>1. z \in Nat /\ j \in Nat /\ z <= j /\ j <= Len(T) /\ z + 1 = 1 /\ k \in 0..L
    BY <1>3, <1>6 DEF L
  <2>2. g \in [0..Len(T) -> Station] /\ \A n \in 1..Len(T) : <<g[n - 1], T[n], g[n]>> \in TokRel
    BY <1>6, <1>8, <1>9
  <2>3. g[z] = u /\ g[j] = f[E(k)]
    BY <1>10
  <2> HIDE DEF z, j
  <2>4. Path(TokRel, g[z], SubSeq(T, z + 1, j), g[j])
    BY <2>1, <2>2, <1>6, PathPart
  <2> QED
    BY <2>1, <2>3, <2>4 DEF j
<1>12. f[E(k)] \in Station /\ ~f[E(k)].half
  <2>1. k \in 0..L
    BY DEF L
  <2>2. CASE k = 0
    BY <2>2, <1>2, <1>3
  <2>3. CASE k # 0
    <3>1. k \in 1..L
      BY <2>1, <2>3, <1>3
    <3> QED
      BY <3>1, <1>7
  <2> QED
    BY <2>2, <2>3
<1>13. Path(SymRel, f[E(k)], From(q, k * SessCap + 1), t)
  <2> DEFINE x == E(k)
  <2>1. x \in Nat /\ x <= N /\ From(q, k * SessCap + 1) = From(q, x + 1)
    <3>1. k \in 0..L
      BY DEF L
    <3> QED
      BY <3>1, <1>1, <1>3
  <2> HIDE DEF x
  <2>2. N <= N /\ N <= Len(q) /\ N = Len(q)
    BY <1>1 DEF N
  <2>3. Path(SymRel, f[x], SubSeq(q, x + 1, N), f[N])
    BY <2>1, <2>2, <1>1, <1>2, PathPart
  <2>4. Path(SymRel, f[x], From(q, x + 1), t)
    BY <2>2, <2>3, <1>2 DEF From
  <2> QED
    BY <2>1, <2>4 DEF x
<1> QED
  BY <1>6, <1>11, <1>12, <1>13 DEF T, L, q

(* What TCP takes goes from the front of what waits to the end of what is sent. *)
LEMMA DrainWay ==
    ASSUME NEW w \in Writer, NEW b \in Seq(Token), NEW s, NEW t, Way(b, w, s, t),
           NEW n \in 0..Len(Outgoing(w))
    PROVE  /\ AfterDrain(w, n) \in Writer /\ Carried(w, AfterDrain(w, n))
           /\ SubSeq(Outgoing(w), 1, n) \in Seq(Token)
           /\ Way(b \o SubSeq(Outgoing(w), 1, n), AfterDrain(w, n), s, t)
<1> DEFINE S == w.sess
           T == LoadToks(w)
           O == Outgoing(w)
           L == Loads(w)
           A == Len(S)
           k == IF n < A THEN 0 ELSE Least(L, (n - A) \div 2 + 1)
           m == A + 2 * k
           sent == SubSeq(O, 1, n)
           left == SubSeq(O, n + 1, m)
           rest == From(w.plain, k * SessCap + 1)
           x == AfterDrain(w, n)
<1>0. S \in Seq(Token) /\ w.plain \in Seq(Symbol) /\ A \in Nat /\ L \in Nat
  BY LoadsAre, LenProperties DEF Writer
<1>1. PICK u \in Station : Path(TokRel, s, b \o S, u) /\ ~u.half /\ Path(SymRel, u, w.plain, t)
  BY DEF Way
<1>2. T \in Seq(Token) /\ Len(T) = 2 * L
  <2>1. 0 \in 0..L
    BY <1>0
  <2> QED
    BY <2>1, <1>1, LoadsPath
<1>3. O = S \o T
  BY DEF Outgoing, LoadToks
<1>4. O \in Seq(Token) /\ Len(O) = A + 2 * L
  <2> HIDE DEF S, T, O, L
  <2>1. S \o T \in Seq(Token) /\ Len(S \o T) = Len(S) + Len(T)
    BY <1>0, <1>2, ConcatProperties
  <2> QED
    BY <2>1, <1>2, <1>3
<1>5. x = [w EXCEPT !.sess = left, !.plain = rest]
  BY DEF AfterDrain
<1>6. n \in Nat /\ n <= A + 2 * L
  <2>1. n \in 0..Len(O)
    OBVIOUS
  <2> HIDE DEF O
  <2> QED
    BY <2>1, <1>4, <1>0
<1>7. k \in 0..L /\ n <= m /\ m <= A + 2 * L /\ m \in Nat
  <2> HIDE DEF A, L
  <2>1. CASE n < A
    BY <2>1, <1>0, <1>6
  <2>2. CASE ~(n < A)
    <3> DEFINE h == (n - A) \div 2 + 1
    <3>1. h \in Nat /\ n <= A + 2 * h
      BY <2>2, <1>0, <1>6
    <3>2. k = Least(L, h)
      BY <2>2
    <3> HIDE DEF h
    <3>3. k \in Nat /\ k <= L /\ (k = L \/ k = h)
      BY <3>1, <3>2, <1>0, LeastIs
    <3> HIDE DEF k
    <3> QED
      BY <3>1, <3>3, <1>0, <1>6
  <2> QED
    BY <2>1, <2>2
<1> HIDE DEF k
<1>8. PICK v \in Station : /\ Path(TokRel, u, SubSeq(T, 1, 2 * k), v) /\ ~v.half
                           /\ Path(SymRel, v, rest, t)
  BY <1>1, <1>7, LoadsPath
<1> HIDE DEF T, L, O
<1>9. /\ sent \in Seq(Token) /\ left \in Seq(Token) /\ sent \o left = SubSeq(O, 1, m)
  <2> HIDE DEF m
  <2>1. m <= Len(O)
    BY <1>4, <1>7
  <2> QED
    BY <2>1, <1>4, <1>6, <1>7, CutJoin
<1> DEFINE c == SubSeq(T, 1, 2 * k)
<1>10. c \in Seq(Token) /\ SubSeq(O, 1, m) = S \o c
  <2> DEFINE j == 2 * k
  <2>1. j \in 0..Len(T) /\ m = A + j
    BY <1>0, <1>2, <1>7
  <2> HIDE DEF j, m
  <2>2. SubSeq(T, 1, j) \in Seq(Token)
    BY <2>1, <1>2, CutAll
  <2>3. SubSeq(S \o T, 1, Len(S) + j) = S \o SubSeq(T, 1, j)
    BY <2>1, <1>0, <1>2, ConcatCut
  <2> QED
    BY <2>1, <2>2, <2>3, <1>3 DEF j
<1> HIDE DEF c, S, sent, left, rest, m
<1>11. Path(TokRel, s, (b \o S) \o c, v)
  <2>1. b \o S \in Seq(Token)
    BY <1>0, ConcatProperties
  <2> QED
    BY <2>1, <1>1, <1>8, <1>10, PathJoin DEF c
<1>12. (b \o S) \o c = (b \o sent) \o left
  <2>1. (b \o S) \o c = b \o (S \o c)
    BY <1>0, <1>10, ConcatAssociative
  <2>2. (b \o sent) \o left = b \o (sent \o left)
    <3>1. sent \in Seq(Token) /\ left \in Seq(Token)
      BY <1>9
    <3> QED
      BY <3>1, ConcatAssociative
  <2> QED
    BY <2>1, <2>2, <1>9, <1>10
<1>13. rest \in Seq(Symbol)
  <2>1. /\ Edge(w, k) \in 0..Len(w.plain)
        /\ From(w.plain, k * SessCap + 1) = From(w.plain, Edge(w, k) + 1)
    BY <1>7, LoadsAre DEF L
  <2>2. From(w.plain, Edge(w, k) + 1) \in Seq(Symbol)
    BY <2>1, <1>0, CutAll
  <2> QED
    BY <2>1, <2>2 DEF rest
<1> HIDE DEF x
<1>14. x \in Writer /\ Carried(w, x) /\ x.sess = left /\ x.plain = rest
  BY <1>5, <1>9, <1>13 DEF Writer, Carried
<1>15. Way(b \o sent, x, s, t)
  BY <1>8, <1>11, <1>12, <1>14 DEF Way
<1> QED
  BY <1>9, <1>14, <1>15 DEF x, sent, O

(* The padded packet of some pieces. *)
LEMMA PacketPath ==
    ASSUME NEW t \in Station, ~t.half, t.ph \in {"initial", "command"}, NEW cmd \in Commands,
           NEW lo \in Nat, NEW hi \in Nat, lo = t.pos + 1, lo <= hi, NEW first \in BOOLEAN,
           first <=> t.ph = "initial"
    PROVE  LET d == <<Header(cmd, hi - lo + 1, first)>> \o PieceRun(lo, hi) \o <<Padding>>
           IN /\ d \in Seq(Symbol)
              /\ \E v \in Station : /\ Path(SymRel, t, d, v) /\ ~v.half /\ v.pos = hi
                                    /\ v.ph = IF cmd = "continue" THEN "command" ELSE cmd
<1> DEFINE N == hi - lo + 1
           h == <<Header(cmd, N, first)>>
           r == PieceRun(lo, hi)
           p == <<Padding>>
           St(ph, n) == [ph |-> ph, cmd |-> cmd, left |-> N - n, pos |-> t.pos + n, half |-> FALSE]
           a == St("content", 0)
           c == St("padding", N)
           after == IF cmd = "continue" THEN "command" ELSE cmd
           v == St(after, N)
<1>1. N \in Nat /\ N # 0 /\ t.pos \in Nat /\ t.pos + N = hi /\ N - N = 0 /\ N - 0 = N /\ t.pos + 0 = t.pos
  BY StationIs
<1> HIDE DEF N
<1>2. ASSUME NEW ph \in Stage, NEW n \in 0..N
      PROVE  /\ St(ph, n) \in Station /\ St(ph, n).ph = ph /\ St(ph, n).cmd = cmd
             /\ St(ph, n).left = N - n /\ St(ph, n).pos = t.pos + n /\ St(ph, n).half = FALSE
  <2>1. N - n \in Nat /\ t.pos + n \in Nat
    BY <1>1
  <2> QED
    BY <2>1 DEF Station
<1>3. "content" \in Stage /\ "padding" \in Stage /\ after \in Stage
  BY DEF Stage, Commands
<1>4. 0 \in 0..N /\ N \in 0..N
  BY <1>1
<1> HIDE DEF St
<1>5. Path(SymRel, t, h, a)
  <2>1. Header(cmd, N, first) \in Symbol
    BY <1>1, Kinds
  <2>2. /\ a \in Station /\ a.ph = "content" /\ a.cmd = cmd /\ a.left = N /\ a.pos = t.pos
        /\ a.half = FALSE
    BY ZenonT(60), <1>1, <1>2, <1>3, <1>4
  <2> HIDE DEF a
  <2>3. first = (t.ph = "initial")
    OBVIOUS
  <2>4. SymTo(t, Header(cmd, N, first), a)
    BY <2>2, <2>3, <1>1 DEF SymTo
  <2>5. <<t, Header(cmd, N, first), a>> \in SymRel
    BY <2>1, <2>2, <2>4, SymRelIs
  <2> QED
    BY <2>2, <2>5, PathOne
<1>6. r \in Seq(Symbol) /\ Len(r) = N /\ \A n \in 1..N : r[n] = Piece(lo + n - 1)
  <2>1. lo # 0 /\ lo <= hi + 1
    BY <1>1
  <2> QED
    BY <2>1, RunIs DEF N
<1> HIDE DEF r
<1>7. Path(SymRel, a, r, c)
  <2> DEFINE f == [n \in 0..N |-> IF n = N THEN c ELSE St("content", n)]
  <2>1. f \in [0..N -> Station]
    BY <1>2, <1>3, <1>4
  <2>2. f[0] = a /\ f[N] = c
    BY <1>1, <1>4
  <2>3. ASSUME NEW n \in 1..N PROVE <<f[n - 1], r[n], f[n]>> \in SymRel
    <3>1. n - 1 \in 0..N /\ n \in 0..N /\ n - 1 # N
      BY <1>1
    <3> DEFINE y == St("content", n - 1)
               z == f[n]
    <3>2. f[n - 1] = y
      BY <3>1
    <3>3. /\ y \in Station /\ y.ph = "content" /\ y.cmd = cmd /\ y.left = N - (n - 1)
          /\ y.pos = t.pos + (n - 1) /\ y.half = FALSE
      BY <1>2, <1>3, <3>1
    <3>4. /\ z \in Station /\ z.ph = (IF n = N THEN "padding" ELSE "content") /\ z.cmd = cmd
          /\ z.left = N - n /\ z.pos = t.pos + n /\ z.half = FALSE
      <4>1. CASE n = N
        BY <4>1, <1>2, <1>3, <1>4
      <4>2. CASE n # N
        BY <4>2, <3>1, <1>2, <1>3
      <4> QED
        BY <4>1, <4>2
    <3> HIDE DEF y, z
    <3>5. /\ y.left # 0 /\ (y.left = 1 <=> n = N) /\ z.left = y.left - 1 /\ z.pos = y.pos + 1
          /\ y.pos + 1 = lo + n - 1 /\ y.pos + 1 \in Nat
      BY <3>3, <3>4, <1>1
    <3>6. r[n] = Piece(y.pos + 1) /\ r[n] \in Symbol
      BY <3>5, <1>6, Kinds
    <3>7. SymTo(y, r[n], z)
      BY <3>3, <3>4, <3>5, <3>6 DEF SymTo
    <3>8. <<y, r[n], z>> \in SymRel
      BY <3>3, <3>4, <3>6, <3>7, SymRelIs
    <3> QED
      BY <3>2, <3>8 DEF z
  <2> HIDE DEF f
  <2> QED
    BY <1>6, <2>1, <2>2, <2>3 DEF Path
<1>8. /\ v \in Station /\ v.ph = (IF cmd = "continue" THEN "command" ELSE cmd)
      /\ v.pos = hi /\ v.half = FALSE /\ v.cmd = cmd /\ v.left = 0
  <2> HIDE DEF after
  <2>1. /\ v \in Station /\ v.ph = after /\ v.pos = t.pos + N /\ v.half = FALSE /\ v.cmd = cmd
        /\ v.left = N - N
    BY <1>2, <1>3, <1>4
  <2> QED
    BY <2>1, <1>1 DEF after
<1>9. Path(SymRel, c, p, v)
  <2>1. /\ c \in Station /\ c.ph = "padding" /\ c.cmd = cmd /\ c.left = 0 /\ c.pos = hi
        /\ c.half = FALSE
    BY <1>1, <1>2, <1>3, <1>4
  <2>2. v.cmd = cmd /\ v.left = 0
    BY <1>8
  <2> HIDE DEF c, v
  <2>3. SymTo(c, Padding, v)
    BY <2>1, <2>2, <1>8 DEF SymTo
  <2>4. <<c, Padding, v>> \in SymRel
    BY <2>1, <2>3, <1>8, Kinds, SymRelIs
  <2> QED
    BY <2>1, <2>4, <1>8, PathOne
<1>10. h \in Seq(Symbol) /\ p \in Seq(Symbol)
  <2>1. Header(cmd, N, first) \in Symbol /\ Padding \in Symbol
    BY <1>1, Kinds
  <2> QED
    BY <2>1
<1> HIDE DEF h, p, a, c, v
<1>11. h \o r \in Seq(Symbol) /\ (h \o r) \o p \in Seq(Symbol)
  <2>1. h \o r \in Seq(Symbol)
    BY <1>6, <1>10, ConcatProperties
  <2> QED
    BY <2>1, <1>10, ConcatProperties
<1>12. Path(SymRel, t, h \o r, c)
  BY <1>5, <1>6, <1>7, <1>10, PathJoin
<1>13. Path(SymRel, t, (h \o r) \o p, v)
  BY <1>9, <1>10, <1>11, <1>12, PathJoin
<1> QED
  BY <1>8, <1>11, <1>13 DEF h, r, p, N

(* The station a writer is at, and what holds of a writer of N pieces. *)
WriterStage(w) ==
    IF w.response THEN "response"
    ELSE IF w.mode # "padding" THEN w.mode
    ELSE IF w.next # "none" THEN w.next
    ELSE IF w.first THEN "initial" ELSE "command"
WriterPos(w) ==
    IF w.pc = "filter" THEN w.lo - 1
    ELSE IF w.pc = "tls" THEN w.acked + w.done
    ELSE IF w.lo <= w.hi THEN w.lo - 1 ELSE w.acked

WriterFacts(w, N) ==
    /\ w \in Writer
    /\ w.lo # 0 /\ w.lo <= w.hi + 1 /\ w.acked <= N
    /\ w.mode # "padding" => w.plain = <<>> /\ w.next = "none" /\ w.hi < w.lo /\ ~w.response
    /\ w.mode = "direct" => w.sess = <<>>
    /\ w.next # "none" => w.mode = "padding" /\ w.hi < w.lo /\ ~w.response /\ w.pc = "idle"
    /\ w.pc = "filter" => /\ w.mode = "padding" /\ w.next = "none" /\ ~w.response
                          /\ w.hi = w.acked + w.fed /\ w.hi <= N
                          /\ w.lo - 1 + w.had = w.acked + w.done
    /\ w.pc = "tls" => w.mode = "tls" /\ w.done <= w.fed /\ w.acked + w.fed <= N
    /\ w.pc = "direct" => w.mode = "direct" /\ w.acked + w.fed <= N
    /\ w.pc = "idle" => (w.lo <= w.hi => w.hi = w.acked)
    /\ w.response => w.first /\ w.acked = 0 /\ w.pc = "idle"
    /\ w.flushed => w.sess = <<>> /\ w.plain = <<>> /\ w.pc = "idle"
    /\ w.shut => w.flushed /\ w.acked = N

Writes(b, w, s) == \E t : t.ph = WriterStage(w) /\ t.pos = WriterPos(w) /\ Way(b, w, s, t)

(* What a step of the writer comes to: TCP takes some tokens. *)
Wrote(b, s, N, w, old, new) ==
    /\ WriterFacts(w, N)
    /\ \E sent \in Seq(Token) : new = old \o sent /\ Writes(b \o sent, w, s)

(* The fields of a writer. *)
LEMMA WriterIs ==
    ASSUME NEW w \in Writer
    PROVE  /\ w.mode \in {"padding", "tls", "direct"} /\ w.next \in {"none", "tls", "direct"}
           /\ w.pc \in {"idle", "filter", "tls", "direct"} /\ w.first \in BOOLEAN
           /\ w.response \in BOOLEAN /\ w.found \in BOOLEAN /\ w.lo \in Nat /\ w.hi \in Nat
           /\ w.fed \in Nat /\ w.had \in Nat /\ w.done \in Nat /\ w.acked \in Nat
           /\ w.zero \in BOOLEAN /\ w.sess \in Seq(Token) /\ w.plain \in Seq(Symbol)
           /\ w.flushed \in BOOLEAN /\ w.shut \in BOOLEAN
BY DEF Writer

(* Both ends of a way are stations, the second outside a record. *)
LEMMA WayEnds ==
    ASSUME NEW w \in Writer, NEW b \in Seq(Token), NEW s, NEW t, Way(b, w, s, t)
    PROVE  s \in Station /\ t \in Station /\ ~t.half
<1>1. PICK u \in Station : Path(TokRel, s, b \o w.sess, u) /\ ~u.half /\ Path(SymRel, u, w.plain, t)
  BY DEF Way
<1>2. w.sess \in Seq(Token) /\ w.plain \in Seq(Symbol)
  BY WriterIs
<1>3. b \o w.sess \in Seq(Token)
  BY <1>2, ConcatProperties
<1>4. s \in Station
  BY <1>1, <1>3, WayPieces
<1>5. t \in Station /\ ~t.half
  BY <1>1, <1>2, SymPieces
<1> QED
  BY <1>4, <1>5

(* A way depends on the session and on what waits behind it only. *)
LEMMA WaySame ==
    ASSUME NEW b, NEW w, NEW x, NEW s, NEW t, x.sess = w.sess, x.plain = w.plain
    PROVE  Way(b, x, s, t) <=> Way(b, w, s, t)
BY DEF Way

(* A step of the writer that drains. *)
LEMMA DrainWrites ==
    ASSUME NEW w \in Writer, NEW b \in Seq(Token), NEW s, NEW t, Way(b, w, s, t),
           NEW n \in 0..Len(Outgoing(w)), NEW N, NEW y,
           y.sess = AfterDrain(w, n).sess, y.plain = AfterDrain(w, n).plain,
           WriterFacts(y, N), t.ph = WriterStage(y), t.pos = WriterPos(y),
           NEW old, NEW new, new = old \o SubSeq(Outgoing(w), 1, n)
    PROVE  Wrote(b, s, N, y, old, new)
<1> DEFINE sent == SubSeq(Outgoing(w), 1, n)
           x == AfterDrain(w, n)
<1>1. sent \in Seq(Token) /\ Way(b \o sent, x, s, t)
  BY DrainWay
<1> HIDE DEF sent, x
<1>2. Way(b \o sent, y, s, t)
  BY <1>1, WaySame DEF x
<1>3. Writes(b \o sent, y, s)
  BY <1>2 DEF Writes
<1> QED
  BY <1>1, <1>3 DEF Wrote, sent

(* A step of the writer that touches neither the session nor TCP. *)
LEMMA StillWrites ==
    ASSUME NEW w, NEW b \in Seq(Token), NEW s, NEW t, Way(b, w, s, t), NEW N, NEW y,
           y.sess = w.sess, y.plain = w.plain,
           WriterFacts(y, N), t.ph = WriterStage(y), t.pos = WriterPos(y), NEW old \in Seq(Token)
    PROVE  Wrote(b, s, N, y, old, old)
<1>1. Way(b, y, s, t)
  BY WaySame
<1>2. <<>> \in Seq(Token) /\ b \o <<>> = b /\ old \o <<>> = old
  BY EmptySeq, ConcatEmptySeq
<1>3. Writes(b \o <<>>, y, s)
  BY <1>1, <1>2 DEF Writes
<1> QED
  BY <1>2, <1>3 DEF Wrote

(* poll_write begins in padding mode. *)
LEMMA AnsweredWay ==
    ASSUME NEW w \in Writer, NEW b \in Seq(Token), NEW s, NEW t, Way(b, w, s, t),
           t.ph = WriterStage(w), w.response => w.first /\ w.mode = "padding" /\ w.next = "none"
    PROVE  /\ Answered(w) \in Writer /\ Carried([w EXCEPT !.response = FALSE], Answered(w))
           /\ \E v : /\ Way(b, Answered(w), s, v) /\ v.pos = t.pos
                     /\ v.ph = WriterStage(Answered(w))
<1> DEFINE z == [w EXCEPT !.response = FALSE]
           y == Answered(w)
<1>0. z \in Writer /\ z.response = FALSE /\ z.mode = w.mode /\ z.next = w.next /\ z.first = w.first
  BY DEF Writer
<1>1. CASE ~w.response
  <2>1. y = w
    BY <1>1 DEF Answered
  <2>2. Carried(z, w)
    BY <1>1 DEF Writer, Carried
  <2> QED
    BY <2>1, <2>2
<1>2. CASE w.response
  <2> DEFINE x == ToSession(w, <<Response>>)
             v == [ph |-> "initial", cmd |-> t.cmd, left |-> t.left, pos |-> t.pos, half |-> FALSE]
  <2>1. t \in Station /\ ~t.half
    BY WayEnds
  <2>2. /\ v \in Station /\ v.ph = "initial" /\ v.cmd = t.cmd /\ v.left = t.left /\ v.pos = t.pos
        /\ v.half = FALSE
    BY <2>1, StationIs DEF Station, Stage
  <2> HIDE DEF v
  <2>3. t.ph = "response" /\ Response = <<t.ph>>
    BY <1>2 DEF WriterStage, Response
  <2>4. SymTo(t, Response, v)
    BY <2>2, <2>3 DEF SymTo
  <2>5. <<t, Response, v>> \in SymRel
    BY <2>1, <2>2, <2>4, Kinds, SymRelIs
  <2>6. Path(SymRel, t, <<Response>>, v) /\ <<Response>> \in Seq(Symbol)
    BY <2>1, <2>2, <2>5, PathOne, Kinds
  <2>7. x \in Writer /\ Carried(w, x) /\ Way(b, x, s, v)
    BY <2>6, SessionWay
  <2>8. y = [x EXCEPT !.response = FALSE]
    BY <1>2 DEF Answered
  <2> HIDE DEF x, y
  <2>9. y \in Writer /\ y.sess = x.sess /\ y.plain = x.plain
    BY <2>7, <2>8 DEF Writer
  <2>10. Carried(z, y)
    BY <2>7, <2>8 DEF Writer, Carried
  <2>11. Way(b, y, s, v)
    BY <2>7, <2>9, WaySame
  <2>12. WriterStage(y) = "initial"
    BY <1>0, <1>2, <2>10 DEF WriterStage, Carried
  <2> QED
    BY <2>2, <2>9, <2>10, <2>11, <2>12 DEF y
<1> QED
  BY <1>1, <1>2

(* What a call of poll_write adds to the deframer stays within the stream. *)
LEMMA FedBounds ==
    ASSUME NEW l \in Nat, NEW h \in Nat, NEW acked \in Nat, NEW n \in Nat, NEW N \in Nat,
           l # 0, l <= h + 1, acked + n <= N, l <= h => h = acked,
           NEW lo, lo = IF l > h THEN acked + 1 ELSE l
    PROVE  /\ h - l + 1 \in Nat /\ lo \in Nat /\ acked + n \in Nat /\ lo # 0 /\ lo <= acked + n + 1
           /\ lo - 1 + (h - l + 1) = acked + 0 /\ acked + n <= N
<1>1. CASE l > h
  BY <1>1
<1>2. CASE ~(l > h)
  BY <1>2
<1> QED
  BY <1>1, <1>2

(* poll_write, up to the first turn of its loop. *)
LEMMA PollWriteWrites ==
    ASSUME NEW b \in Seq(Token), NEW s, Writes(b, wr, s), NEW N \in Nat, N = Len(Data),
           WriterFacts(wr, N), tcp \in Seq(Token), NEW n \in Nat, PollWrite(n)
    PROVE  Wrote(b, s, N, wr', tcp, tcp')
<1> DEFINE w == [wr EXCEPT !.fed = n, !.done = 0, !.flushed = FALSE]
<1>0. wr \in Writer
  BY DEF WriterFacts
<1>1. wr.pc = "idle" /\ ~wr.shut /\ wr.acked + n <= N
  BY DEF PollWrite
<1>2. PICK t : t.ph = WriterStage(wr) /\ t.pos = WriterPos(wr) /\ Way(b, wr, s, t)
  BY DEF Writes
<1>3. /\ w \in Writer /\ w.mode = wr.mode /\ w.next = wr.next /\ w.pc = "idle" /\ w.first = wr.first
      /\ w.response = wr.response /\ w.lo = wr.lo /\ w.hi = wr.hi /\ w.fed = n /\ w.done = 0
      /\ w.acked = wr.acked /\ w.sess = wr.sess /\ w.plain = wr.plain /\ w.flushed = FALSE
      /\ w.shut = wr.shut /\ w.zero = wr.zero /\ w.found = wr.found /\ w.had = wr.had
  BY <1>0, <1>1 DEF Writer
<1>4. IF w.mode = "padding" THEN BeginPadding(w) ELSE wr' = [w EXCEPT !.pc = w.mode] /\ tcp' = tcp
  BY DEF PollWrite
<1> HIDE DEF w
<1>5. Way(b, w, s, t)
  BY <1>2, <1>3, WaySame
<1>6. t.ph = WriterStage(w) /\ t.pos = WriterPos(w)
  BY <1>1, <1>2, <1>3 DEF WriterStage, WriterPos
<1>7. CASE w.mode # "padding"
  <2> DEFINE y == [w EXCEPT !.pc = w.mode]
  <2>1. wr' = y /\ tcp' = tcp
    BY <1>4, <1>7
  <2>2. /\ y \in Writer /\ y.mode = w.mode /\ y.next = w.next /\ y.pc = w.mode /\ y.first = w.first
        /\ y.response = w.response /\ y.lo = w.lo /\ y.hi = w.hi /\ y.fed = w.fed /\ y.done = w.done
        /\ y.acked = w.acked /\ y.sess = w.sess /\ y.plain = w.plain /\ y.flushed = w.flushed
        /\ y.shut = w.shut
    BY <1>3, <1>7 DEF Writer
  <2> HIDE DEF y
  <2>3. w.lo \in Nat /\ w.hi \in Nat /\ w.acked \in Nat /\ w.mode \in {"tls", "direct"}
    BY <1>3, <1>7, WriterIs
  <2>4. WriterFacts(y, N)
    BY <1>1, <1>3, <1>7, <2>2, <2>3 DEF WriterFacts
  <2>5. t.ph = WriterStage(y)
    BY <1>6, <2>2 DEF WriterStage
  <2>6. t.pos = WriterPos(y)
    <3>1. w.hi < w.lo
      BY <1>3, <1>7 DEF WriterFacts
    <3>2. t.pos = w.acked
      BY <3>1, <1>3, <1>6, <2>3 DEF WriterPos
    <3> QED
      BY <3>1, <3>2, <1>3, <2>2, <2>3 DEF WriterPos
  <2> QED
    BY <2>1, <2>2, <2>4, <2>5, <2>6, <1>5, StillWrites
<1>8. CASE w.mode = "padding"
  <2> DEFINE a == Answered(w)
             z == [w EXCEPT !.response = FALSE]
  <2>1. w.response => w.first /\ w.mode = "padding" /\ w.next = "none"
    BY <1>3, <1>8 DEF WriterFacts
  <2>2. a \in Writer /\ Carried(z, a)
    BY <1>3, <1>5, <1>6, <2>1, AnsweredWay
  <2>0. w \in Writer
    BY <1>3
  <2>3. PICK v : Way(b, a, s, v) /\ v.pos = t.pos /\ v.ph = WriterStage(a)
    BY <2>0, <1>5, <1>6, <2>1, AnsweredWay
  <2>4. /\ a.mode = "padding" /\ a.next = w.next /\ a.pc = "idle" /\ a.first = w.first
        /\ a.response = FALSE /\ a.lo = w.lo /\ a.hi = w.hi /\ a.fed = w.fed /\ a.done = 0
        /\ a.acked = w.acked /\ a.flushed = FALSE /\ a.shut = w.shut
    <3>1. /\ z.mode = "padding" /\ z.next = w.next /\ z.pc = "idle" /\ z.first = w.first
          /\ z.response = FALSE /\ z.lo = w.lo /\ z.hi = w.hi /\ z.fed = w.fed /\ z.done = 0
          /\ z.acked = w.acked /\ z.flushed = FALSE /\ z.shut = w.shut
      BY <1>3, <1>8 DEF Writer
    <3> HIDE DEF z, a
    <3> QED
      BY <3>1, <2>2 DEF Carried
  <2>6. PICK m \in 0..Len(Outgoing(a)) :
           /\ tcp' = tcp \o SubSeq(Outgoing(a), 1, m)
           /\ wr' = LET x == AfterDrain(a, m)
                    IN IF ~IsDrained(x) THEN [x EXCEPT !.pc = "idle"]
                       ELSE IF x.next # "none" THEN Switched(x) ELSE Fed(x)
    BY <1>4, <1>8 DEF BeginPadding, DrainThen
  <2> DEFINE x == AfterDrain(a, m)
             y == wr'
  <2>7. x \in Writer /\ Carried(a, x)
    BY <2>2, <2>3, DrainWay
  <2>8. y = IF ~IsDrained(x) THEN [x EXCEPT !.pc = "idle"]
            ELSE IF x.next # "none" THEN Switched(x) ELSE Fed(x)
    BY <2>6
  <2> HIDE DEF a, z, x, y
  <2>9. /\ x.mode = "padding" /\ x.next = wr.next /\ x.pc = "idle" /\ x.first = wr.first
        /\ x.response = FALSE /\ x.lo = wr.lo /\ x.hi = wr.hi /\ x.fed = n /\ x.done = 0
        /\ x.acked = wr.acked /\ x.flushed = FALSE /\ x.shut = FALSE
    <3>1. x.shut = wr.shut /\ x.shut \in BOOLEAN
      BY <2>4, <2>7, <1>3, WriterIs DEF Carried
    <3> QED
      BY <3>1, <2>4, <2>7, <1>1, <1>3 DEF Carried
  <2>10. v.ph = WriterStage(x) /\ v.pos = WriterPos(x)
    <3>1. WriterStage(a) = WriterStage(x)
      BY <2>7 DEF Carried, WriterStage
    <3>2. WriterPos(wr) = WriterPos(x)
      BY <2>9, <1>1 DEF WriterPos
    <3> QED
      BY <3>1, <3>2, <2>3, <1>2
  <2>11. /\ x.lo \in Nat /\ x.hi \in Nat /\ x.acked \in Nat /\ x.lo # 0 /\ x.lo <= x.hi + 1
         /\ x.acked + n <= N /\ (x.lo <= x.hi => x.hi = x.acked)
         /\ (x.next # "none" => x.hi < x.lo) /\ x.next \in {"none", "tls", "direct"}
    BY <2>7, <2>9, <1>1, WriterIs DEF WriterFacts
  <2>12. /\ WriterFacts(y, N) /\ y.sess = x.sess /\ y.plain = x.plain
         /\ v.ph = WriterStage(y) /\ v.pos = WriterPos(y)
    <3>1. CASE ~IsDrained(x)
      <4>1. y = [x EXCEPT !.pc = "idle"]
        BY <2>8, <3>1
      <4>2. y = x
        BY <4>1, <2>7, <2>9 DEF Writer
      <4>3. WriterFacts(x, N)
        BY <2>7, <2>9, <2>11 DEF WriterFacts
      <4> QED
        BY <4>2, <4>3, <2>10
    <3>2. CASE IsDrained(x) /\ x.next # "none"
      <4>1. y = [x EXCEPT !.mode = x.next, !.next = "none", !.pc = x.next]
        BY <2>8, <3>2 DEF Switched
      <4>2. /\ y \in Writer /\ y.mode = x.next /\ y.next = "none" /\ y.pc = x.next
            /\ y.response = FALSE /\ y.lo = x.lo /\ y.hi = x.hi /\ y.fed = n /\ y.done = 0
            /\ y.acked = x.acked /\ y.flushed = FALSE /\ y.shut = FALSE
            /\ y.sess = x.sess /\ y.plain = x.plain
        BY <4>1, <2>7, <2>9, <2>11, <3>2 DEF Writer
      <4>3. x.sess = <<>> /\ x.plain = <<>>
        BY <3>2 DEF IsDrained
      <4>4. WriterFacts(y, N)
        BY <4>2, <4>3, <2>11, <3>2 DEF WriterFacts
      <4>5. v.ph = WriterStage(y)
        BY <4>2, <2>9, <2>10, <2>11, <3>2 DEF WriterStage
      <4>6. v.pos = WriterPos(y)
        <5>1. v.pos = x.acked
          BY <2>9, <2>10, <2>11, <3>2 DEF WriterPos
        <5> QED
          BY <5>1, <4>2, <2>11, <3>2 DEF WriterPos
      <4> QED
        BY <4>2, <4>4, <4>5, <4>6
    <3>3. CASE IsDrained(x) /\ x.next = "none"
      <4> DEFINE had == x.hi - x.lo + 1
                 lo == IF x.lo > x.hi THEN x.acked + 1 ELSE x.lo
                 hi == x.acked + x.fed
      <4>1. y = [x EXCEPT !.pc = "filter", !.had = had, !.done = 0, !.lo = lo, !.hi = hi]
        BY <2>8, <3>3 DEF Fed
      <4>2. had \in Nat /\ lo \in Nat /\ hi \in Nat /\ lo # 0 /\ lo <= hi + 1
            /\ lo - 1 + had = x.acked + 0 /\ hi <= N
        <5> DEFINE l == x.lo
                   h == x.hi
                   k == x.acked
        <5>1. /\ l \in Nat /\ h \in Nat /\ k \in Nat /\ l # 0 /\ l <= h + 1 /\ k + n <= N
              /\ (l <= h => h = k)
          BY <2>11
        <5>2. had = h - l + 1 /\ lo = (IF l > h THEN k + 1 ELSE l) /\ hi = k + n
          BY <2>9
        <5> HIDE DEF l, h, k, lo, had, hi
        <5>3. /\ h - l + 1 \in Nat /\ lo \in Nat /\ k + n \in Nat /\ lo # 0 /\ lo <= k + n + 1
              /\ lo - 1 + (h - l + 1) = k + 0 /\ k + n <= N
          BY <5>1, <5>2, FedBounds
        <5> QED
          BY <5>2, <5>3 DEF k
      <4>3. lo - 1 = IF x.lo <= x.hi THEN x.lo - 1 ELSE x.acked
        BY <2>11
      <4> HIDE DEF had, lo, hi
      <4>4. /\ y \in Writer /\ y.mode = "padding" /\ y.next = "none" /\ y.pc = "filter"
            /\ y.first = x.first
            /\ y.response = FALSE /\ y.lo = lo /\ y.hi = hi /\ y.fed = n /\ y.done = 0
            /\ y.had = had
            /\ y.acked = x.acked /\ y.flushed = FALSE /\ y.shut = FALSE
            /\ y.sess = x.sess /\ y.plain = x.plain
        BY <4>1, <4>2, <2>7, <2>9, <3>3 DEF Writer
      <4>5. WriterFacts(y, N)
        <5>1. hi = x.acked + n /\ x.acked <= N
          BY <2>9, <2>11 DEF hi
        <5> QED
          BY <5>1, <4>2, <4>4, <2>9, <2>11 DEF WriterFacts
      <4>6. v.ph = WriterStage(y)
        BY <4>4, <2>9, <2>10, <3>3 DEF WriterStage
      <4>7. v.pos = WriterPos(y)
        BY <4>3, <4>4, <2>9, <2>10 DEF WriterPos
      <4> QED
        BY <4>4, <4>5, <4>6, <4>7
    <3> QED
      BY <3>1, <3>2, <3>3
  <2>13. Wrote(b, s, N, y, tcp, tcp')
    BY <2>2, <2>3, <2>6, <2>12, DrainWrites DEF x
  <2> QED
    BY <2>13 DEF y
<1> QED
  BY <1>7, <1>8

After(cmd) == IF cmd = "continue" THEN "command" ELSE cmd
Then(cmd) == IF cmd = "continue" THEN "none" ELSE cmd

Later(w) == [w EXCEPT !.first = FALSE]
Moved(p, done, lo, found, next) ==
    [p EXCEPT !.done = done, !.lo = lo, !.found = found, !.next = next]

(* A padded packet leads from the writer's station behind the packet. *)
LEMMA PaddedWay ==
    ASSUME NEW w \in Writer, NEW b \in Seq(Token), NEW s, NEW t, Way(b, w, s, t),
           t.ph = WriterStage(w), t.pos = w.lo - 1, w.lo # 0,
           ~w.response, w.mode = "padding", w.next = "none",
           NEW cmd \in Commands, NEW hi \in Nat, w.lo <= hi, ~Overlong(hi - w.lo + 1)
    PROVE  /\ Padded(w, cmd, w.lo, hi) \in Writer
           /\ Carried(Later(w), Padded(w, cmd, w.lo, hi))
           /\ \E v : Way(b, Padded(w, cmd, w.lo, hi), s, v) /\ v.pos = hi /\ v.ph = After(cmd)
<1> DEFINE lo == w.lo
           N == hi - lo + 1
           d == <<Header(cmd, hi - lo + 1, w.first)>> \o PieceRun(lo, hi) \o <<Padding>>
           x == ToSession(w, d)
           y == Padded(w, cmd, lo, hi)
           z == Later(w)
<1>1. t \in Station /\ ~t.half
  BY WayEnds
<1>2. t.ph = (IF w.first THEN "initial" ELSE "command") /\ w.first \in BOOLEAN /\ lo \in Nat
  BY WriterIs DEF WriterStage
<1>3. t.ph \in {"initial", "command"} /\ (w.first <=> t.ph = "initial")
  BY <1>2
<1>4. lo = t.pos + 1 /\ lo <= hi
  BY <1>2
<1> HIDE DEF lo
<1>5. d \in Seq(Symbol) /\ \E v \in Station : /\ Path(SymRel, t, d, v) /\ ~v.half /\ v.pos = hi
                                              /\ v.ph = After(cmd)
  <2> DEFINE f == w.first
             e == <<Header(cmd, hi - lo + 1, f)>> \o PieceRun(lo, hi) \o <<Padding>>
  <2>1. f \in BOOLEAN /\ (f <=> t.ph = "initial") /\ lo \in Nat
    BY <1>2, <1>3
  <2>2. d = e
    OBVIOUS
  <2> HIDE DEF f
  <2>3. e \in Seq(Symbol) /\ \E v \in Station : /\ Path(SymRel, t, e, v) /\ ~v.half /\ v.pos = hi
                                                /\ v.ph = IF cmd = "continue" THEN "command" ELSE cmd
    BY <1>1, <1>3, <1>4, <2>1, PacketPath, SMTT(40)
  <2> QED
    BY <2>2, <2>3 DEF After
<1>6. PICK v \in Station : Path(SymRel, t, d, v) /\ v.pos = hi /\ v.ph = After(cmd)
  BY <1>5
<1>7. y = [x EXCEPT !.first = FALSE]
  <2>1. N \in Nat /\ N < LenMod /\ LenMod \in Nat
    BY <1>2, <1>4, VisionConstants DEF Overlong, lo
  <2>2. y = [ToSession(w, <<Header(cmd, N % LenMod, w.first)>> \o PieceRun(lo, hi) \o <<Padding>>)
               EXCEPT !.first = FALSE]
    BY DEF Padded
  <2>3. N % LenMod = N
    <3> HIDE DEF N
    <3> QED
      BY <2>1
  <2> QED
    BY <2>2, <2>3
<1> HIDE DEF d, y
<1>8. x \in Writer /\ Carried(w, x) /\ Way(b, x, s, v)
  BY <1>5, <1>6, SessionWay
<1> HIDE DEF x
<1>9. y \in Writer /\ y.sess = x.sess /\ y.plain = x.plain
  BY <1>7, <1>8 DEF Writer
<1>10. Carried(z, y)
  BY <1>7, <1>8 DEF Writer, Carried, Later
<1>11. Way(b, y, s, v)
  BY <1>8, <1>9, WaySame
<1> QED
  BY <1>6, <1>9, <1>10, <1>11 DEF y, lo

(* What a packet leaves of the writer. *)
LEMMA PaddedIs ==
    ASSUME NEW o \in Writer, o.mode = "padding", o.pc = "filter", ~o.response, ~o.flushed, ~o.shut,
           NEW p \in Writer, Carried(Later(o), p)
    PROVE  /\ p.mode = "padding" /\ p.pc = "filter" /\ p.first = FALSE /\ p.response = FALSE
           /\ p.hi = o.hi /\ p.fed = o.fed /\ p.had = o.had /\ p.acked = o.acked
           /\ p.flushed = FALSE /\ p.shut = FALSE
<1> DEFINE z == Later(o)
<1>1. /\ z.mode = o.mode /\ z.pc = o.pc /\ z.first = FALSE /\ z.response = o.response /\ z.hi = o.hi
      /\ z.fed = o.fed /\ z.had = o.had /\ z.acked = o.acked /\ z.flushed = o.flushed
      /\ z.shut = o.shut
  BY DEF Writer, Later
<1> HIDE DEF z
<1>2. o.response \in BOOLEAN /\ o.flushed \in BOOLEAN /\ o.shut \in BOOLEAN
  BY WriterIs
<1>3. Carried(z, p)
  BY DEF z
<1> QED
  BY <1>1, <1>2, <1>3 DEF Carried

(* The write moves its counters on behind a packet. *)
MovedTo(p, w, done, lo, next) ==
    /\ w \in Writer /\ w.mode = p.mode /\ w.pc = p.pc /\ w.first = p.first
    /\ w.response = p.response /\ w.hi = p.hi /\ w.fed = p.fed /\ w.had = p.had
    /\ w.acked = p.acked /\ w.flushed = p.flushed /\ w.shut = p.shut
    /\ w.sess = p.sess /\ w.plain = p.plain
    /\ w.done = done /\ w.lo = lo /\ w.next = next

(* The fields of a writer that has taken up a packet. *)
LEMMA MovedOn ==
    ASSUME NEW p \in Writer, NEW done \in Nat, NEW lo \in Nat, NEW found \in BOOLEAN,
           NEW next \in {"none", "tls", "direct"}, NEW w, w = Moved(p, done, lo, found, next)
    PROVE  MovedTo(p, w, done, lo, next)
BY DEF Writer, Moved, MovedTo

(* A write that goes on behind a packet. *)
LEMMA GoesOn ==
    ASSUME NEW x \in Writer, NEW N \in Nat, NEW hi \in Nat,
           x.mode = "padding", x.pc = "filter", x.first = FALSE, x.response = FALSE,
           x.flushed = FALSE, x.shut = FALSE, x.next = "none", x.lo = hi + 1,
           hi + x.had = x.acked + x.done, x.hi = x.acked + x.fed, hi <= x.hi, x.hi <= N
    PROVE  WriterFacts(x, N) /\ WriterStage(x) = "command" /\ WriterPos(x) = hi
<1>1. x.acked \in Nat /\ x.had \in Nat /\ x.fed \in Nat /\ x.hi \in Nat /\ x.done \in Nat
  BY WriterIs
<1>2. /\ x.lo # 0 /\ x.lo <= x.hi + 1 /\ x.acked <= N /\ x.lo - 1 + x.had = x.acked + x.done
  BY <1>1
<1>3. WriterFacts(x, N)
  BY <1>1, <1>2 DEF WriterFacts
<1>4. WriterStage(x) = "command"
  BY DEF WriterStage
<1>5. WriterPos(x) = hi
  BY DEF WriterPos
<1> QED
  BY <1>3, <1>4, <1>5

(* A write that returns behind a packet. *)
ReturnedAt(x, y, hi, N) ==
    /\ WriterFacts(y, N) /\ y.sess = x.sess /\ y.plain = x.plain
    /\ WriterStage(y) = (IF x.next # "none" THEN x.next ELSE "command") /\ WriterPos(y) = hi

(* poll_write returns behind a packet. *)
LEMMA Returns ==
    ASSUME NEW x \in Writer, NEW N \in Nat, NEW hi \in Nat, hi <= N, NEW k \in Int,
           x.mode = "padding", x.first = FALSE, x.response = FALSE,
           x.flushed = FALSE, x.shut = FALSE, x.acked + k = hi,
           NEW y, y = Returned(Cleared(x), k)
    PROVE  ReturnedAt(x, y, hi, N)
<1> DEFINE c == Cleared(x)
<1>1. PICK one, nil, f : one = 1 /\ nil = 0 /\ f = FALSE
  OBVIOUS
<1>2. one \in Nat /\ nil \in Nat /\ f \in BOOLEAN
  BY <1>1
<1>3. c = [x EXCEPT !.lo = one, !.hi = nil, !.found = f]
  BY <1>1 DEF Cleared
<1> HIDE DEF c
<1>4. /\ c \in Writer /\ c.lo = one /\ c.hi = nil /\ c.mode = x.mode /\ c.next = x.next
      /\ c.first = x.first /\ c.response = x.response /\ c.acked = x.acked
      /\ c.flushed = x.flushed /\ c.shut = x.shut /\ c.sess = x.sess /\ c.plain = x.plain
  BY <1>2, <1>3 DEF Writer
<1>5. PICK q \in BOOLEAN : q = (k = 0)
  OBVIOUS
<1>6. y = [c EXCEPT !.acked = hi, !.pc = "idle", !.zero = q]
  BY <1>4, <1>5 DEF Returned, c
<1>7. /\ y \in Writer /\ y.mode = "padding" /\ y.next = x.next /\ y.first = FALSE
      /\ y.response = FALSE /\ y.lo = one /\ y.hi = nil /\ y.acked = hi /\ y.pc = "idle"
      /\ y.flushed = FALSE /\ y.shut = FALSE /\ y.sess = x.sess /\ y.plain = x.plain
  <2>1. hi \in Nat
    OBVIOUS
  <2>2. y \in Writer
    BY <1>4, <1>6 DEF Writer
  <2>3. /\ y.mode = c.mode /\ y.next = c.next /\ y.first = c.first
        /\ y.response = c.response /\ y.lo = c.lo /\ y.hi = c.hi /\ y.acked = hi /\ y.pc = "idle"
        /\ y.flushed = c.flushed /\ y.shut = c.shut /\ y.sess = c.sess /\ y.plain = c.plain
    BY <1>4, <1>6 DEF Writer
  <2> QED
    BY <2>2, <2>3, <1>4
<1>8. y.lo = 1 /\ y.hi = 0
  BY <1>1, <1>7
<1>9. WriterFacts(y, N)
  BY <1>7, <1>8 DEF WriterFacts
<1>10. WriterStage(y) = (IF x.next # "none" THEN x.next ELSE "command")
  BY <1>7 DEF WriterStage
<1>11. WriterPos(y) = hi
  BY <1>7, <1>8 DEF WriterPos
<1> QED
  BY <1>7, <1>9, <1>10, <1>11 DEF ReturnedAt

(* The writer behind the packet of the pieces up to hi. *)
LEMMA PacketIs ==
    ASSUME NEW b \in Seq(Token), NEW s, NEW o, Writes(b, o, s), NEW N \in Nat, WriterFacts(o, N),
           o.pc = "filter", NEW cmd \in Commands, NEW hi \in Nat, NEW lo, lo = o.lo, lo <= hi,
           ~Overlong(hi - lo + 1),
           NEW p, p = Padded(o, cmd, lo, hi)
    PROVE  /\ p \in Writer /\ Carried(Later(o), p) /\ p.done = o.done /\ p.lo = o.lo
           /\ \E v : Way(b, p, s, v) /\ v.pos = hi /\ v.ph = After(cmd)
<1>0. o \in Writer
  BY DEF WriterFacts
<1>1. PICK t : t.ph = WriterStage(o) /\ t.pos = WriterPos(o) /\ Way(b, o, s, t)
  BY DEF Writes
<1>2. o.mode = "padding" /\ ~o.response /\ lo # 0 /\ o.next = "none"
  BY DEF WriterFacts
<1>3. t.pos = lo - 1
  BY <1>1 DEF WriterPos
<1>4. p \in Writer /\ Carried(Later(o), p) /\ \E v : Way(b, p, s, v) /\ v.pos = hi /\ v.ph = After(cmd)
  BY <1>0, <1>1, <1>2, <1>3, PaddedWay
<1>5. Later(o).done = o.done /\ Later(o).lo = o.lo
  BY <1>0 DEF Later, Writer
<1>6. p.done = o.done /\ p.lo = o.lo
  BY <1>4, <1>5 DEF Carried
<1> QED
  BY <1>4, <1>6

SentIs(o, x, cmd, done, nlo) ==
    /\ x \in Writer /\ x.mode = "padding" /\ x.pc = "filter" /\ x.first = FALSE
    /\ x.response = FALSE
    /\ x.hi = o.hi /\ x.fed = o.fed /\ x.had = o.had /\ x.acked = o.acked /\ x.flushed = FALSE
    /\ x.shut = FALSE /\ x.next = Then(cmd) /\ x.lo = nlo /\ x.done = done

(* ... and when TCP has taken some of it. *)
LEMMA PacketSent ==
    ASSUME NEW b \in Seq(Token), NEW s, NEW o, Writes(b, o, s), NEW N \in Nat, WriterFacts(o, N),
           o.pc = "filter", NEW cmd \in Commands, NEW hi \in Nat, NEW lo, lo = o.lo, lo <= hi,
           ~Overlong(hi - lo + 1),
           NEW done \in Nat, NEW nlo \in Nat,
           NEW p, p = Padded(o, cmd, lo, hi), NEW w, MovedTo(p, w, done, nlo, Then(cmd)),
           NEW m \in 0..Len(Outgoing(w)), NEW x, x = AfterDrain(w, m)
    PROVE  /\ w \in Writer /\ SentIs(o, x, cmd, done, nlo)
           /\ \E v : Way(b, w, s, v) /\ v.pos = hi /\ v.ph = After(cmd)
<1>0. o \in Writer
  BY DEF WriterFacts
<1>2. ~o.flushed /\ ~o.shut /\ o.mode = "padding" /\ ~o.response
  BY DEF WriterFacts
<1>4. p \in Writer /\ Carried(Later(o), p) /\ \E v : Way(b, p, s, v) /\ v.pos = hi /\ v.ph = After(cmd)
  BY PacketIs
<1>5. PICK v : Way(b, p, s, v) /\ v.pos = hi /\ v.ph = After(cmd)
  BY <1>4
<1>7. /\ p.mode = "padding" /\ p.pc = "filter" /\ p.first = FALSE /\ p.response = FALSE
      /\ p.hi = o.hi
      /\ p.fed = o.fed /\ p.had = o.had /\ p.acked = o.acked /\ p.flushed = FALSE /\ p.shut = FALSE
  BY <1>0, <1>2, <1>4, PaddedIs
<1>9. /\ w \in Writer /\ w.mode = "padding" /\ w.pc = "filter" /\ w.first = FALSE
      /\ w.response = FALSE
      /\ w.hi = o.hi /\ w.fed = o.fed /\ w.had = o.had /\ w.acked = o.acked /\ w.flushed = FALSE
      /\ w.shut = FALSE /\ w.sess = p.sess /\ w.plain = p.plain
      /\ w.done = done /\ w.lo = nlo /\ w.next = Then(cmd)
  BY <1>7 DEF MovedTo
<1>10. Way(b, w, s, v)
  BY <1>5, <1>9, WaySame
<1>11. x \in Writer /\ Carried(w, x)
  BY <1>9, <1>10, DrainWay
<1>12. SentIs(o, x, cmd, done, nlo)
  BY <1>9, <1>11 DEF Carried, SentIs
<1> QED
  BY <1>5, <1>9, <1>10, <1>12

(* Behind a packet up to hi the write goes on, or returns. *)
TurnEnds(o, x, y, cmd, hi, done, nlo) ==
    \/ y = x /\ cmd = "continue" /\ nlo = hi + 1 /\ hi + o.had = o.acked + done
    \/ \E k \in Int : y = Returned(Cleared(x), k) /\ o.acked + k = hi

(* A write that has put the pieces up to hi into a packet, and goes on or returns. *)
LEMMA PacketWrites ==
    ASSUME NEW b \in Seq(Token), NEW s, NEW o, Writes(b, o, s), NEW N \in Nat, WriterFacts(o, N),
           o.pc = "filter", NEW cmd \in Commands, NEW hi \in Nat, NEW lo, lo = o.lo, lo <= hi,
           hi <= o.hi, ~Overlong(hi - lo + 1),
           NEW done \in Nat, NEW nlo \in Nat,
           NEW p, p = Padded(o, cmd, lo, hi), NEW w, MovedTo(p, w, done, nlo, Then(cmd)),
           NEW m \in 0..Len(Outgoing(w)), NEW old, NEW new, new = old \o SubSeq(Outgoing(w), 1, m),
           NEW x, x = AfterDrain(w, m), NEW y, TurnEnds(o, x, y, cmd, hi, done, nlo)
    PROVE  Wrote(b, s, N, y, old, new)
<1>0. o \in Writer
  BY DEF WriterFacts
<1>2. o.hi = o.acked + o.fed /\ o.hi <= N
  BY DEF WriterFacts
<1>13. o.acked \in Nat /\ o.had \in Nat /\ o.fed \in Nat /\ o.hi \in Nat /\ lo \in Nat
  BY <1>0, WriterIs
<1>17. hi <= N
  BY <1>13, <1>2
<1>9. /\ w \in Writer /\ SentIs(o, x, cmd, done, nlo)
      /\ \E v : Way(b, w, s, v) /\ v.pos = hi /\ v.ph = After(cmd)
  BY PacketSent
<1>10. PICK v : Way(b, w, s, v) /\ v.pos = hi /\ v.ph = After(cmd)
  BY <1>9
<1>12. /\ x \in Writer /\ x.mode = "padding" /\ x.pc = "filter" /\ x.first = FALSE
       /\ x.response = FALSE
       /\ x.hi = o.hi /\ x.fed = o.fed /\ x.had = o.had /\ x.acked = o.acked /\ x.flushed = FALSE
       /\ x.shut = FALSE /\ x.next = Then(cmd) /\ x.lo = nlo /\ x.done = done
  BY <1>9 DEF SentIs
<1>14. /\ WriterFacts(y, N) /\ y.sess = x.sess /\ y.plain = x.plain
       /\ v.ph = WriterStage(y) /\ v.pos = WriterPos(y)
  <2>1. CASE y = x /\ cmd = "continue" /\ nlo = hi + 1 /\ hi + o.had = o.acked + done
    <3>1. x.next = "none" /\ v.ph = "command"
      BY <2>1, <1>10, <1>12 DEF Then, After
    <3>2. WriterFacts(x, N) /\ WriterStage(x) = "command" /\ WriterPos(x) = hi
      <4>1. x \in Writer /\ hi + x.had = x.acked + x.done /\ x.hi = x.acked + x.fed /\ hi <= x.hi
            /\ x.hi <= N /\ x.lo = hi + 1
        BY <2>1, <1>2, <1>12
      <4>2. /\ x.mode = "padding" /\ x.pc = "filter" /\ x.first = FALSE /\ x.response = FALSE
            /\ x.flushed = FALSE /\ x.shut = FALSE /\ x.next = "none"
        BY <3>1, <1>12
      <4> QED
        BY <4>1, <4>2, GoesOn
    <3> QED
      BY <2>1, <3>1, <3>2, <1>10
  <2>2. CASE \E k \in Int : y = Returned(Cleared(x), k) /\ o.acked + k = hi
    <3>3. PICK k \in Int : y = Returned(Cleared(x), k) /\ o.acked + k = hi
      BY <2>2
    <3>1. ReturnedAt(x, y, hi, N)
      <4>1. x \in Writer /\ x.acked + k = hi
        BY <3>3, <1>12
      <4>2. /\ x.mode = "padding" /\ x.first = FALSE /\ x.response = FALSE
            /\ x.flushed = FALSE /\ x.shut = FALSE
        BY <1>12
      <4> QED
        BY <3>3, <4>1, <4>2, <1>17, Returns, Zenon
    <3>2. After(cmd) = (IF x.next # "none" THEN x.next ELSE "command")
      BY <1>12 DEF After, Then, Commands
    <3> QED
      BY <3>1, <3>2, <1>10 DEF ReturnedAt
  <2> QED
    BY <2>1, <2>2 DEF TurnEnds
<1>15. y.sess = AfterDrain(w, m).sess /\ y.plain = AfterDrain(w, m).plain
  BY <1>14
<1> QED
  BY <1>9, <1>10, <1>14, <1>15, DrainWrites

(* The least member of a set of numbers. *)
LEMMA LeastMember == ASSUME NEW S \in SUBSET Nat, S # {} PROVE Min(S) \in S
<1>1. PICK j \in S : \A i \in S : ~(<<i, j>> \in OpToRel(<, Nat))
  BY WFMin, NatLessThanWellFounded
<1>2. ASSUME NEW i \in S PROVE j <= i
  <2>1. i \in Nat /\ j \in Nat
    OBVIOUS
  <2>2. ~(i < j)
    BY <2>1, <1>1 DEF OpToRel
  <2> QED
    BY <2>1, <2>2
<1> QED
  BY <1>2 DEF Min

(* What the deframer hands out is at the head of what it holds. *)
LEMMA NextRecordIs ==
    ASSUME NEW found \in BOOLEAN, NEW lo \in Nat, NEW hi \in Nat, lo # 0,
           NEW res, res = NextRecord(found, lo, hi)
    PROVE  /\ res.found \in BOOLEAN
           /\ res.out = "record" => lo < hi
           /\ res.out = "error" => lo <= hi
           /\ res.out = "prefix" => res.n \in Nat /\ res.n # 0 /\ lo + res.n - 1 <= hi
<1> DEFINE hellos == {i \in lo..(hi - 1) : BeginsHello(i)}
           first == Min(hellos)
           deframing == found \/ (hellos # {} /\ first = lo)
           kept == IF BeginsHello(hi) \/ Data[hi][1] = "like" THEN 1 ELSE 0
           err == ~Begins(lo) /\ (Data[lo][1] = "raw" \/ lo < hi)
<1>1. res = CASE lo > hi -> [out |-> "need", n |-> 0, found |-> found]
         [] lo <= hi /\ deframing ->
              [out |-> IF err THEN "error" ELSE IF lo < hi THEN "record" ELSE "need",
               n |-> 2, found |-> TRUE]
         [] lo <= hi /\ ~deframing /\ hellos # {} ->
              [out |-> "prefix", n |-> first - lo, found |-> TRUE]
         [] OTHER ->
              [out |-> IF kept = hi - lo + 1 THEN "need" ELSE "prefix",
               n |-> hi - lo + 1 - kept, found |-> FALSE]
  BY DEF NextRecord
<1>2. hellos # {} => first \in lo..(hi - 1)
  <2>1. hellos \in SUBSET Nat /\ hellos \subseteq lo..(hi - 1)
    OBVIOUS
  <2> HIDE DEF hellos
  <2> QED
    BY <2>1, LeastMember
<1>3. kept \in {0, 1}
  OBVIOUS
<1>4. CASE lo > hi
  <2>1. res = [out |-> "need", n |-> 0, found |-> found]
    BY <1>1, <1>4
  <2> QED
    BY <2>1
<1>5. CASE lo <= hi /\ deframing
  <2>1. ~(lo > hi)
    BY <1>5
  <2> HIDE DEF deframing, hellos, first, kept, err
  <2>2. res = [out |-> IF err THEN "error" ELSE IF lo < hi THEN "record" ELSE "need",
               n |-> 2, found |-> TRUE]
    BY <1>1, <1>5, <2>1
  <2> QED
    BY <2>2, <1>5
<1>6. CASE lo <= hi /\ ~deframing /\ hellos # {}
  <2>1. ~(lo > hi)
    BY <1>6
  <2>2. first # lo
    BY <1>6
  <2> HIDE DEF deframing, hellos, first, kept, err
  <2>3. res = [out |-> "prefix", n |-> first - lo, found |-> TRUE]
    BY <1>1, <1>6, <2>1
  <2>4. first \in lo..(hi - 1)
    BY <1>2, <1>6
  <2> QED
    BY <2>2, <2>3, <2>4
<1>7. CASE lo <= hi /\ ~deframing /\ hellos = {}
  <2>1. ~(lo > hi)
    BY <1>7
  <2> HIDE DEF deframing, hellos, first, kept, err
  <2>2. res = [out |-> IF kept = hi - lo + 1 THEN "need" ELSE "prefix",
               n |-> hi - lo + 1 - kept, found |-> FALSE]
    BY <1>1, <1>7, <2>1
  <2> QED
    BY <2>2, <1>3, <1>7
<1> QED
  BY <1>4, <1>5, <1>6, <1>7

(* The counters of a write that takes up n pieces from lo on. *)
LEMMA TakesUp ==
    ASSUME NEW o, NEW N \in Nat, WriterFacts(o, N), o.pc = "filter", NEW n \in Nat, n # 0
    PROVE  /\ o.lo \in Nat /\ o.hi \in Nat /\ o.lo + n - 1 \in Nat /\ o.lo <= o.lo + n - 1
           /\ o.done + n \in Nat /\ o.lo + n \in Nat /\ o.lo + n = (o.lo + n - 1) + 1
           /\ (o.lo + n - 1) + o.had = o.acked + (o.done + n)
           /\ (o.done + n) - o.had \in Int /\ o.acked + ((o.done + n) - o.had) = o.lo + n - 1
<1>1. o.lo \in Nat /\ o.hi \in Nat /\ o.done \in Nat /\ o.had \in Nat /\ o.acked \in Nat
  BY WriterIs DEF WriterFacts
<1>2. o.lo # 0 /\ o.lo - 1 + o.had = o.acked + o.done
  BY DEF WriterFacts
<1> DEFINE l == o.lo
           d == o.done
           h == o.had
           a == o.acked
<1>3. l \in Nat /\ d \in Nat /\ h \in Nat /\ a \in Nat /\ l # 0 /\ l - 1 + h = a + d
  BY <1>1, <1>2
<1> HIDE DEF l, d, h, a
<1>4. /\ l + n - 1 \in Nat /\ l <= l + n - 1 /\ d + n \in Nat /\ l + n \in Nat
      /\ l + n = (l + n - 1) + 1
      /\ (l + n - 1) + h = a + (d + n) /\ (d + n) - h \in Int /\ a + ((d + n) - h) = l + n - 1
  BY <1>3
<1> QED
  BY <1>1, <1>4 DEF l, d, h, a

(* One turn of poll_write with n pieces from lo on in a packet: it returns or goes on. *)
LEMMA TurnWrites ==
    ASSUME NEW b \in Seq(Token), NEW s, NEW o, Writes(b, o, s), NEW N \in Nat, WriterFacts(o, N),
           o.pc = "filter", NEW cmd \in Commands, NEW n \in Nat, n # 0, o.lo + n - 1 <= o.hi,
           ~Overlong(n),
           NEW p, p = Padded(o, cmd, o.lo, o.lo + n - 1), NEW w,
           MovedTo(p, w, p.done + n, p.lo + n, Then(cmd)),
           NEW m \in 0..Len(Outgoing(w)), NEW old, NEW new, new = old \o SubSeq(Outgoing(w), 1, m),
           NEW x, x = AfterDrain(w, m), NEW y,
           (y = x /\ cmd = "continue") \/ y = Returned(Cleared(x), x.done - x.had)
    PROVE  Wrote(b, s, N, y, old, new)
<1> DEFINE lo == o.lo
           hi == lo + n - 1
           done == o.done + n
           nlo == lo + n
           k == done - o.had
<1>1. /\ lo \in Nat /\ o.hi \in Nat /\ hi \in Nat /\ lo <= hi /\ done \in Nat /\ nlo \in Nat
      /\ nlo = hi + 1
      /\ hi + o.had = o.acked + done /\ k \in Int /\ o.acked + k = hi
  BY TakesUp
<1>2. lo = o.lo /\ hi <= o.hi /\ p = Padded(o, cmd, lo, hi)
  OBVIOUS
<1>9. ~Overlong(hi - lo + 1)
  <2>1. hi - lo + 1 = n
    BY <1>1
  <2> QED
    BY <2>1
<1> HIDE DEF lo, hi
<1>3. p.done = o.done /\ p.lo = o.lo
  <2>1. hi \in Nat /\ lo <= hi
    BY <1>1
  <2> QED
    BY <2>1, <1>2, <1>9, PacketIs
<1>4. MovedTo(p, w, done, nlo, Then(cmd))
  BY <1>3 DEF lo
<1>5. SentIs(o, x, cmd, done, nlo)
  <2>1. hi \in Nat /\ lo <= hi /\ done \in Nat /\ nlo \in Nat
    BY <1>1
  <2> HIDE DEF done, nlo
  <2> QED
    BY <2>1, <1>2, <1>4, <1>9, PacketSent
<1>6. x.done - x.had = k
  BY <1>5 DEF SentIs
<1> HIDE DEF done, nlo, k
<1>7. TurnEnds(o, x, y, cmd, hi, done, nlo)
  BY <1>1, <1>6 DEF TurnEnds
<1>8. hi \in Nat /\ lo <= hi /\ done \in Nat /\ nlo \in Nat /\ k \in Int
  BY <1>1
<1> QED
  BY <1>8, <1>2, <1>4, <1>7, <1>9, PacketWrites

(* A turn of the padding loop with a TLS record. *)
LEMMA RecordWrites ==
    ASSUME NEW b \in Seq(Token), NEW s, Writes(b, wr, s), NEW N \in Nat, WriterFacts(wr, N),
           wr.pc = "filter", NEW res, res = NextRecord(wr.found, wr.lo, wr.hi), WriteRecord(res)
    PROVE  Wrote(b, s, N, wr', tcp, tcp')
<1> DEFINE f == FilterRecord(filt, Data[wr.lo][1])
           app == f.tls /\ Data[wr.lo][1] = "app"
           last == app \/ (f.count = 0 /\ ~f.tls12)
           cmd == IF ~last THEN "continue" ELSE IF f.xtls THEN "direct" ELSE "tls"
           p == Padded(wr, cmd, wr.lo, wr.lo + 1)
           w == [p EXCEPT !.done = @ + 2, !.lo = @ + 2, !.found = TRUE,
                          !.next = IF last THEN cmd ELSE "none"]
<1>1. res.out = "record" /\ DrainThen(w, LAMBDA x : IF last \/ ~IsDrained(x)
                                  THEN Returned(Cleared(x), x.done - x.had) ELSE x)
  BY DEF WriteRecord
<1>2. wr.lo \in Nat /\ wr.hi \in Nat /\ wr.found \in BOOLEAN /\ wr.lo # 0
  BY WriterIs DEF WriterFacts
<1>3. wr.lo < wr.hi
  BY <1>1, <1>2, NextRecordIs
<1>4. cmd \in Commands /\ (last \/ cmd = "continue") /\ (IF last THEN cmd ELSE "none") = Then(cmd)
  <2> HIDE DEF last, f
  <2> QED
    BY DEF Commands, Then
<1> HIDE DEF f, app, last, cmd
<1>5. w = Moved(p, p.done + 2, p.lo + 2, TRUE, Then(cmd))
  BY <1>4 DEF Moved
<1>10. MovedTo(p, w, p.done + 2, p.lo + 2, Then(cmd))
  <2> DEFINE hi == wr.lo + 1
  <2>1. hi \in Nat /\ wr.lo <= hi /\ hi - wr.lo + 1 = 2
    BY <1>2
  <2>9. ~Overlong(hi - wr.lo + 1)
    BY <2>1, VisionConstants DEF Overlong
  <2>2. p = Padded(wr, cmd, wr.lo, hi)
    OBVIOUS
  <2> HIDE DEF hi, p, w
  <2>3. p \in Writer
    BY <1>4, <2>1, <2>2, <2>9, PacketIs
  <2>4. p.done \in Nat /\ p.lo \in Nat
    BY <2>3, WriterIs
  <2> DEFINE e == p.done + 2
             l == p.lo + 2
             g == Then(cmd)
  <2>5. e \in Nat /\ l \in Nat /\ TRUE \in BOOLEAN
    BY <2>4
  <2>6. g \in {"none", "tls", "direct"}
    BY <1>4 DEF Then, Commands
  <2>7. w = Moved(p, e, l, TRUE, g)
    BY <1>5
  <2> HIDE DEF e, l, g
  <2>8. MovedTo(p, w, e, l, g)
    BY <2>3, <2>5, <2>6, <2>7, MovedOn
  <2> QED
    BY <2>8 DEF e, l, g
<1>6. p = Padded(wr, cmd, wr.lo, wr.lo + 2 - 1) /\ wr.lo + 2 - 1 <= wr.hi
  <2>1. wr.lo + 2 - 1 = wr.lo + 1
    BY <1>2
  <2> QED
    BY <2>1, <1>2, <1>3
<1> HIDE DEF p, w
<1>7. PICK m \in 0..Len(Outgoing(w)) :
         /\ tcp' = tcp \o SubSeq(Outgoing(w), 1, m)
         /\ wr' = LET x == AfterDrain(w, m)
                  IN IF last \/ ~IsDrained(x) THEN Returned(Cleared(x), x.done - x.had) ELSE x
  BY <1>1 DEF DrainThen
<1> DEFINE x == AfterDrain(w, m)
<1>8. (wr' = x /\ cmd = "continue") \/ wr' = Returned(Cleared(x), x.done - x.had)
  BY <1>4, <1>7
<1> HIDE DEF x
<1>9. 2 \in Nat /\ 2 # 0 /\ TRUE \in BOOLEAN /\ ~Overlong(2)
  BY VisionConstants DEF Overlong
<1> QED
  BY <1>4, <1>10, <1>6, <1>7, <1>8, <1>9, TurnWrites DEF x

(* A turn of the padding loop with bytes that are no TLS. *)
LEMMA PrefixWrites ==
    ASSUME NEW b \in Seq(Token), NEW s, Writes(b, wr, s), NEW N \in Nat, WriterFacts(wr, N),
           wr.pc = "filter", NEW res, res = NextRecord(wr.found, wr.lo, wr.hi), WritePrefix(res),
           ~strayed'
    PROVE  Wrote(b, s, N, wr', tcp, tcp')
<1> DEFINE f == Decremented(filt)
           cmd == IF f.count > 0 THEN "continue" ELSE "tls"
           p == Padded(wr, cmd, wr.lo, wr.lo + res.n - 1)
           w == [p EXCEPT !.done = @ + res.n, !.lo = @ + res.n, !.found = res.found,
                          !.next = IF cmd = "tls" THEN cmd ELSE "none"]
<1>1. res.out = "prefix" /\ DrainThen(w, LAMBDA x : IF cmd = "tls"
                                  THEN Returned(Cleared(x), x.done - x.had) ELSE x)
  BY DEF WritePrefix
<1>2. wr.lo \in Nat /\ wr.hi \in Nat /\ wr.found \in BOOLEAN /\ wr.lo # 0
  BY WriterIs DEF WriterFacts
<1>3. res.n \in Nat /\ res.n # 0 /\ wr.lo + res.n - 1 <= wr.hi /\ res.found \in BOOLEAN
  BY <1>1, <1>2, NextRecordIs
<1>9. ~Overlong(res.n)
  BY DEF WritePrefix
<1>4. cmd \in Commands /\ (cmd = "tls" \/ cmd = "continue") /\ (IF cmd = "tls" THEN cmd ELSE "none") = Then(cmd)
  <2> HIDE DEF f
  <2> QED
    BY DEF Commands, Then
<1> HIDE DEF f, cmd
<1>5. w = Moved(p, p.done + res.n, p.lo + res.n, res.found, Then(cmd))
  BY <1>4 DEF Moved
<1>10. MovedTo(p, w, p.done + res.n, p.lo + res.n, Then(cmd))
  <2> DEFINE hi == wr.lo + res.n - 1
             f1 == res.found
  <2>1. hi \in Nat /\ wr.lo <= hi /\ hi - wr.lo + 1 = res.n
    BY <1>2, <1>3
  <2>9. ~Overlong(hi - wr.lo + 1)
    BY <2>1, <1>9
  <2>2. p = Padded(wr, cmd, wr.lo, hi)
    OBVIOUS
  <2> HIDE DEF hi, p, w
  <2>3. p \in Writer
    BY <1>4, <2>1, <2>2, <2>9, PacketIs
  <2>4. p.done \in Nat /\ p.lo \in Nat
    BY <2>3, WriterIs
  <2> DEFINE e == p.done + res.n
             l == p.lo + res.n
             g == Then(cmd)
  <2>5. e \in Nat /\ l \in Nat /\ f1 \in BOOLEAN
    BY <2>4, <1>3
  <2>6. g \in {"none", "tls", "direct"}
    BY <1>4 DEF Then, Commands
  <2>7. w = Moved(p, e, l, f1, g)
    BY <1>5
  <2> HIDE DEF e, l, g, f1
  <2>8. MovedTo(p, w, e, l, g)
    BY <2>3, <2>5, <2>6, <2>7, MovedOn
  <2> QED
    BY <2>8 DEF e, l, g
<1>6. p = Padded(wr, cmd, wr.lo, wr.lo + res.n - 1)
  OBVIOUS
<1> HIDE DEF p, w
<1>7. PICK m \in 0..Len(Outgoing(w)) :
         /\ tcp' = tcp \o SubSeq(Outgoing(w), 1, m)
         /\ wr' = LET x == AfterDrain(w, m)
                  IN IF cmd = "tls" THEN Returned(Cleared(x), x.done - x.had) ELSE x
  BY <1>1 DEF DrainThen
<1> DEFINE x == AfterDrain(w, m)
<1>8. (wr' = x /\ cmd = "continue") \/ wr' = Returned(Cleared(x), x.done - x.had)
  BY <1>4, <1>7
<1> HIDE DEF x
<1> QED
  BY <1>3, <1>4, <1>10, <1>6, <1>7, <1>8, <1>9, TurnWrites DEF x

(* A turn of the padding loop with an invalid record. *)
LEMMA InvalidWrites ==
    ASSUME NEW b \in Seq(Token), NEW s, Writes(b, wr, s), NEW N \in Nat, WriterFacts(wr, N),
           wr.pc = "filter", NEW res, res = NextRecord(wr.found, wr.lo, wr.hi), WriteInvalid(res),
           ~strayed'
    PROVE  Wrote(b, s, N, wr', tcp, tcp')
<1> DEFINE hi == wr.hi
           lo == wr.lo
           p == Padded(wr, "tls", lo, hi)
           w == [p EXCEPT !.next = "tls"]
<1>1. res.out = "error" /\ DrainThen(w, LAMBDA x : Returned(Cleared(x), x.fed))
  BY DEF WriteInvalid
<1>14. ~Overlong(hi - lo + 1)
  BY DEF WriteInvalid
<1>2. lo \in Nat /\ hi \in Nat /\ wr.found \in BOOLEAN /\ lo # 0 /\ wr.fed \in Nat /\ wr.acked \in Nat
  BY WriterIs DEF WriterFacts
<1>3. lo <= hi /\ hi = wr.acked + wr.fed
  BY <1>1, <1>2, NextRecordIs DEF WriterFacts
<1>4. "tls" \in Commands /\ Then("tls") = "tls"
  BY DEF Commands, Then
<1>5. lo = wr.lo /\ hi <= wr.hi /\ p = Padded(wr, "tls", lo, hi)
  BY <1>2
<1> HIDE DEF lo, hi, p
<1>6. p \in Writer
  BY <1>2, <1>3, <1>4, <1>5, <1>14, PacketIs
<1> DEFINE done == p.done
           nlo == p.lo
<1>7. done \in Nat /\ nlo \in Nat
  BY <1>6, WriterIs
<1>8. MovedTo(p, w, done, nlo, Then("tls"))
  BY <1>4, <1>6 DEF MovedTo, Writer
<1> HIDE DEF done, nlo, w
<1>9. PICK m \in 0..Len(Outgoing(w)) :
         /\ tcp' = tcp \o SubSeq(Outgoing(w), 1, m)
         /\ wr' = Returned(Cleared(AfterDrain(w, m)), AfterDrain(w, m).fed)
  BY <1>1 DEF DrainThen
<1> DEFINE x == AfterDrain(w, m)
<1>10. SentIs(wr, x, "tls", done, nlo)
  BY <1>2, <1>3, <1>4, <1>5, <1>7, <1>8, <1>14, PacketSent
<1> HIDE DEF x
<1>11. x.fed = wr.fed
  BY <1>10 DEF SentIs
<1>12. TurnEnds(wr, x, wr', "tls", hi, done, nlo)
  BY <1>2, <1>3, <1>9, <1>11 DEF TurnEnds, x
<1>13. x = AfterDrain(w, m) /\ tcp' = tcp \o SubSeq(Outgoing(w), 1, m)
  BY <1>9 DEF x
<1> QED
  BY <1>2, <1>3, <1>4, <1>5, <1>7, <1>8, <1>12, <1>13, <1>14, PacketWrites

(* A turn of the padding loop with too little for a record. *)
LEMMA NeedsDataWrites ==
    ASSUME NEW b \in Seq(Token), NEW s, Writes(b, wr, s), NEW N \in Nat, WriterFacts(wr, N),
           tcp \in Seq(Token),
           wr.pc = "filter", NEW res, res = NextRecord(wr.found, wr.lo, wr.hi), WriteNeedsData(res)
    PROVE  Wrote(b, s, N, wr', tcp, tcp')
<1>0. wr \in Writer
  BY DEF WriterFacts
<1> DEFINE acked == wr.acked + wr.fed
           zero == (wr.fed = 0)
           found == res.found
           y == [wr EXCEPT !.acked = acked, !.pc = "idle", !.zero = zero, !.found = found]
<1>1. wr' = y /\ tcp' = tcp
  <2>1. wr' = [Returned(wr, wr.fed) EXCEPT !.found = res.found] /\ tcp' = tcp
    BY DEF WriteNeedsData
  <2> QED
    BY <1>0, <2>1 DEF Returned, Writer
<1>2. /\ wr.lo \in Nat /\ wr.hi \in Nat /\ wr.found \in BOOLEAN /\ wr.lo # 0 /\ wr.fed \in Nat
      /\ wr.acked \in Nat
  BY WriterIs DEF WriterFacts
<1>3. found \in BOOLEAN
  BY <1>2, NextRecordIs
<1>4. acked = wr.hi /\ acked \in Nat /\ acked <= N
  BY <1>2 DEF WriterFacts
<1>5. zero \in BOOLEAN
  OBVIOUS
<1>6. PICK t : t.ph = WriterStage(wr) /\ t.pos = WriterPos(wr) /\ Way(b, wr, s, t)
  BY DEF Writes
<1> HIDE DEF acked, zero, found
<1>7. /\ y \in Writer /\ y.mode = wr.mode /\ y.next = wr.next /\ y.pc = "idle" /\ y.first = wr.first
      /\ y.response = wr.response /\ y.lo = wr.lo /\ y.hi = wr.hi /\ y.acked = wr.hi
      /\ y.sess = wr.sess /\ y.plain = wr.plain /\ y.flushed = wr.flushed /\ y.shut = wr.shut
  <2>1. y \in Writer
    BY <1>0, <1>3, <1>4, <1>5 DEF Writer
  <2>2. /\ y.mode = wr.mode /\ y.next = wr.next /\ y.pc = "idle" /\ y.first = wr.first
        /\ y.response = wr.response /\ y.lo = wr.lo /\ y.hi = wr.hi /\ y.acked = acked
        /\ y.sess = wr.sess /\ y.plain = wr.plain /\ y.flushed = wr.flushed /\ y.shut = wr.shut
    BY <1>0 DEF Writer
  <2> QED
    BY <2>1, <2>2, <1>4
<1> HIDE DEF y
<1>8. /\ wr.mode = "padding" /\ wr.next = "none" /\ ~wr.response /\ ~wr.flushed /\ ~wr.shut
      /\ wr.lo <= wr.hi + 1 /\ wr.hi <= N
  BY DEF WriterFacts
<1>9. WriterFacts(y, N)
  BY <1>2, <1>7, <1>8 DEF WriterFacts
<1>10. t.ph = WriterStage(y)
  BY <1>6, <1>7 DEF WriterStage
<1>11. t.pos = WriterPos(y)
  <2>1. t.pos = wr.lo - 1
    BY <1>6 DEF WriterPos
  <2>2. ~(wr.lo <= wr.hi) => wr.lo - 1 = wr.hi
    BY <1>2, <1>8
  <2> QED
    BY <2>1, <2>2, <1>7 DEF WriterPos
<1> QED
  BY <1>1, <1>6, <1>7, <1>9, <1>10, <1>11, StillWrites

(* Every turn of the padding loop. *)
LEMMA WritePaddingWrites ==
    ASSUME NEW b \in Seq(Token), NEW s, Writes(b, wr, s), NEW N \in Nat, WriterFacts(wr, N),
           tcp \in Seq(Token), WritePadding, ~strayed'
    PROVE  Wrote(b, s, N, wr', tcp, tcp')
<1> DEFINE res == NextRecord(wr.found, wr.lo, wr.hi)
<1>1. /\ wr.pc = "filter"
      /\ WriteRecord(res) \/ WritePrefix(res) \/ WriteInvalid(res) \/ WriteNeedsData(res)
  BY DEF WritePadding
<1> HIDE DEF res
<1>2. res = NextRecord(wr.found, wr.lo, wr.hi)
  BY DEF res
<1>3. CASE WriteRecord(res)
  BY <1>1, <1>2, <1>3, RecordWrites
<1>4. CASE WritePrefix(res)
  BY <1>1, <1>2, <1>4, PrefixWrites
<1>5. CASE WriteInvalid(res)
  BY <1>1, <1>2, <1>5, InvalidWrites
<1>6. CASE WriteNeedsData(res)
  BY <1>1, <1>2, <1>6, NeedsDataWrites
<1> QED
  BY <1>1, <1>3, <1>4, <1>5, <1>6

(* Pieces behind the change to TLS or to bare bytes. *)
LEMMA TlsPath ==
    ASSUME NEW t \in Station, ~t.half, t.ph = "tls", NEW k \in Nat
    PROVE  \E v \in Station : /\ Path(SymRel, t, PieceRun(t.pos + 1, t.pos + k), v)
                              /\ ~v.half /\ v.ph = "tls" /\ v.pos = t.pos + k
<1> DEFINE St(n) == [ph |-> "tls", cmd |-> t.cmd, left |-> t.left, pos |-> t.pos + n, half |-> FALSE]
           d == PieceRun(t.pos + 1, t.pos + k)
           f == [n \in 0..k |-> St(n)]
<1>1. /\ t.ph \in Stage /\ t.cmd \in Commands /\ t.left \in Nat /\ t.pos \in Nat
      /\ t.half \in BOOLEAN
  BY StationIs
<1>2. \A n \in Nat : /\ St(n) \in Station /\ St(n).ph = "tls" /\ St(n).cmd = t.cmd /\ St(n).left = t.left
                     /\ St(n).pos = t.pos + n /\ St(n).half = FALSE
  BY <1>1 DEF Station, Stage
<1>3. St(0) = t
  <2>1. t.half = FALSE /\ t.pos + 0 = t.pos
    BY <1>1
  <2>2. St(0) = [ph |-> t.ph, cmd |-> t.cmd, left |-> t.left, pos |-> t.pos, half |-> t.half]
    BY <2>1
  <2> QED
    BY <2>2 DEF Station
<1> HIDE DEF St
<1>4. d \in Seq(Symbol) /\ Len(d) = k /\ \A n \in 1..k : d[n] = Piece(t.pos + n)
  <2> DEFINE lo == t.pos + 1
             hi == t.pos + k
  <2>1. lo \in Nat /\ hi \in Nat /\ lo <= hi + 1 /\ lo # 0 /\ hi - lo + 1 = k
    BY <1>1
  <2>3. \A n \in 1..k : lo + n - 1 = t.pos + n
    BY <1>1
  <2> HIDE DEF lo, hi
  <2>2. /\ PieceRun(lo, hi) \in Seq(Symbol) /\ Len(PieceRun(lo, hi)) = hi - lo + 1
        /\ \A n \in 1..(hi - lo + 1) : PieceRun(lo, hi)[n] = Piece(lo + n - 1)
    BY <2>1, RunIs
  <2> QED
    BY <2>1, <2>2, <2>3 DEF lo, hi
<1> HIDE DEF d
<1>5. ASSUME NEW n \in 1..k PROVE <<f[n - 1], d[n], f[n]>> \in SymRel
  <2>1. n - 1 \in 0..k /\ n \in 0..k /\ n - 1 \in Nat /\ n \in Nat /\ t.pos + n = (t.pos + (n - 1)) + 1
        /\ t.pos + n \in Nat
    BY <1>1
  <2>2. f[n - 1] = St(n - 1) /\ f[n] = St(n)
    BY <2>1
  <2>3. Piece(t.pos + n) \in Symbol
    BY <2>1, Kinds
  <2>4. SymTo(St(n - 1), Piece(t.pos + n), St(n))
    BY <2>1, <1>2 DEF SymTo
  <2> QED
    BY <2>1, <2>2, <2>3, <2>4, <1>2, <1>4, SymRelIs
<1>6. f \in [0..k -> Station] /\ f[0] = t /\ f[k] = St(k)
  BY <1>2, <1>3
<1> HIDE DEF f
<1>7. Path(SymRel, t, d, St(k))
  BY <1>4, <1>5, <1>6 DEF Path
<1> QED
  BY <1>2, <1>7 DEF d

(* Bare pieces behind DIRECT. *)
LEMMA DirectPath ==
    ASSUME NEW t \in Station, ~t.half, t.ph = "direct", NEW k \in Nat
    PROVE  \E v \in Station : /\ Path(TokRel, t, PieceRun(t.pos + 1, t.pos + k), v)
                              /\ ~v.half /\ v.ph = "direct" /\ v.pos = t.pos + k
<1> DEFINE St(n) == [ph |-> "direct", cmd |-> t.cmd, left |-> t.left, pos |-> t.pos + n, half |-> FALSE]
           d == PieceRun(t.pos + 1, t.pos + k)
           f == [n \in 0..k |-> St(n)]
<1>1. /\ t.ph \in Stage /\ t.cmd \in Commands /\ t.left \in Nat /\ t.pos \in Nat
      /\ t.half \in BOOLEAN
  BY StationIs
<1>2. \A n \in Nat : /\ St(n) \in Station /\ St(n).ph = "direct" /\ St(n).cmd = t.cmd
                     /\ St(n).left = t.left /\ St(n).pos = t.pos + n /\ St(n).half = FALSE
  BY <1>1 DEF Station, Stage
<1>3. St(0) = t
  <2>1. t.half = FALSE /\ t.pos + 0 = t.pos
    BY <1>1
  <2>2. St(0) = [ph |-> t.ph, cmd |-> t.cmd, left |-> t.left, pos |-> t.pos, half |-> t.half]
    BY <2>1
  <2> QED
    BY <2>2 DEF Station
<1> HIDE DEF St
<1>4. d \in Seq(Token) /\ Len(d) = k /\ \A n \in 1..k : d[n] = Piece(t.pos + n)
  <2> DEFINE lo == t.pos + 1
             hi == t.pos + k
  <2>1. lo \in Nat /\ hi \in Nat /\ lo <= hi + 1 /\ lo # 0 /\ hi - lo + 1 = k
    BY <1>1
  <2>3. \A n \in 1..k : lo + n - 1 = t.pos + n
    BY <1>1
  <2> HIDE DEF lo, hi
  <2>2. /\ PieceRun(lo, hi) \in Seq(Token) /\ Len(PieceRun(lo, hi)) = hi - lo + 1
        /\ \A n \in 1..(hi - lo + 1) : PieceRun(lo, hi)[n] = Piece(lo + n - 1)
    BY <2>1, RunIs
  <2> QED
    BY <2>1, <2>2, <2>3 DEF lo, hi
<1> HIDE DEF d
<1>5. ASSUME NEW n \in 1..k PROVE <<f[n - 1], d[n], f[n]>> \in TokRel
  <2>1. n - 1 \in 0..k /\ n \in 0..k /\ n - 1 \in Nat /\ n \in Nat /\ t.pos + n = (t.pos + (n - 1)) + 1
        /\ t.pos + n \in Nat
    BY <1>1
  <2>2. f[n - 1] = St(n - 1) /\ f[n] = St(n)
    BY <2>1
  <2>3. Piece(t.pos + n) \in Token
    BY <2>1, Kinds
  <2>4. TokTo(St(n - 1), Piece(t.pos + n), St(n))
    BY <2>1, <1>2 DEF TokTo
  <2> QED
    BY <2>1, <2>2, <2>3, <2>4, <1>2, <1>4, TokRelIs
<1>6. f \in [0..k -> Station] /\ f[0] = t /\ f[k] = St(k)
  BY <1>2, <1>3
<1> HIDE DEF f
<1>7. Path(TokRel, t, d, St(k))
  BY <1>4, <1>5, <1>6 DEF Path
<1> QED
  BY <1>2, <1>7 DEF d

(* An empty cut. *)
LEMMA CutNone == ASSUME NEW S, NEW q \in Seq(S) PROVE SubSeq(q, 1, 0) = <<>>
<1>1. 0 \in 0..Len(q)
  BY LenProperties
<1>2. SubSeq(q, 1, 0) \in Seq(S) /\ Len(SubSeq(q, 1, 0)) = 0
  BY <1>1, CutAll
<1> QED
  BY <1>2, EmptySeq

(* Where nothing waits behind the session, a drain leaves nothing there. *)
LEMMA DrainNone ==
    ASSUME NEW w \in Writer, w.plain = <<>>, NEW n \in 0..Len(Outgoing(w))
    PROVE  /\ AfterDrain(w, n).plain = <<>>
           /\ w.sess = <<>> => AfterDrain(w, n).sess = <<>>
<1>1. w.sess \in Seq(Token) /\ w.plain \in Seq(Symbol) /\ Len(w.plain) = 0
  BY WriterIs, EmptySeq
<1>2. Loads(w) = 0
  <2>1. /\ Loads(w) \in Nat /\ Edge(w, 0) = 0
        /\ \A k \in 0..Loads(w) : Edge(w, k) \in 0..Len(w.plain)
        /\ \A k \in 1..Loads(w) : Edge(w, k - 1) < Edge(w, k)
    BY LoadsAre
  <2>2. ASSUME Loads(w) # 0 PROVE FALSE
    <3>1. 1 \in 0..Loads(w) /\ 1 \in 1..Loads(w)
      BY <2>1, <2>2
    <3>2. Edge(w, 1) \in 0..0 /\ Edge(w, 1 - 1) < Edge(w, 1)
      BY <3>1, <2>1, <1>1
    <3>3. Edge(w, 1 - 1) = 0
      BY <2>1
    <3> QED
      BY <3>2, <3>3
  <2> QED
    BY <2>2
<1> DEFINE loads == IF n < Len(w.sess) THEN 0 ELSE Least(Loads(w), (n - Len(w.sess)) \div 2 + 1)
           p == SubSeq(Outgoing(w), n + 1, Len(w.sess) + 2 * loads)
           q == From(w.plain, loads * SessCap + 1)
<1>3. Len(w.sess) \in Nat
  BY <1>1, LenProperties
<1>4. Outgoing(w) = w.sess
  <2>1. [i \in 1..(2 * Loads(w)) |-> IF i % 2 = 1 THEN Half ELSE Rest(Load(w, i \div 2))] = <<>>
    <3>1. 1..(2 * Loads(w)) = {}
      BY <1>2
    <3> QED
      BY <3>1
  <2> QED
    BY <2>1, <1>1, ConcatEmptySeq DEF Outgoing
<1>5. n \in 0..Len(w.sess)
  BY <1>4
<1>6. loads = 0
  <2>1. CASE n < Len(w.sess)
    BY <2>1
  <2>2. CASE ~(n < Len(w.sess))
    <3>1. n - Len(w.sess) = 0
      BY <2>2, <1>3, <1>5
    <3>2. (n - Len(w.sess)) \div 2 + 1 = 1
      <4> DEFINE z == n - Len(w.sess)
      <4>1. z = 0
        BY <3>1
      <4> HIDE DEF z
      <4>2. z \div 2 + 1 = 1
        BY <4>1
      <4> QED
        BY <4>2 DEF z
    <3>3. Least(Loads(w), (n - Len(w.sess)) \div 2 + 1) = Least(0, 1)
      BY <3>2, <1>2
    <3>4. Least(0, 1) = 0
      BY DEF Least
    <3> QED
      BY <2>2, <3>3, <3>4
  <2> QED
    BY <2>1, <2>2
<1>7. AfterDrain(w, n) = [w EXCEPT !.sess = p, !.plain = q]
  BY DEF AfterDrain
<1>8. q = <<>>
  <2>0. SessCap \in Nat
    BY VisionConstants
  <2> HIDE DEF loads
  <2>1. loads * SessCap + 1 = 1
    BY <2>0, <1>6
  <2>2. q = SubSeq(w.plain, 1, 0)
    BY <2>1, <1>1 DEF From
  <2> QED
    BY <2>2, <1>1, CutNone
<1>9. w.sess = <<>> => p = <<>>
  <2> HAVE w.sess = <<>>
  <2>1. Len(w.sess) = 0
    BY EmptySeq
  <2>2. n = 0 /\ p = SubSeq(w.sess, 1, 0)
    BY <2>1, <1>4, <1>5, <1>6
  <2> QED
    BY <2>2, <1>1, CutNone
<1> HIDE DEF p, q
<1> QED
  BY <1>7, <1>8, <1>9 DEF Writer

(* A turn of poll_write_tls. *)
LEMMA WriteTlsWrites ==
    ASSUME NEW b \in Seq(Token), NEW s, Writes(b, wr, s), NEW N \in Nat, WriterFacts(wr, N),
           tcp \in Seq(Token), WriteTls
    PROVE  Wrote(b, s, N, wr', tcp, tcp')
<1>0. wr \in Writer /\ wr.pc = "tls"
  BY DEF WriterFacts, WriteTls
<1>1. PICK t : t.ph = WriterStage(wr) /\ t.pos = WriterPos(wr) /\ Way(b, wr, s, t)
  BY DEF Writes
<1>2. /\ wr.mode = "tls" /\ wr.plain = <<>> /\ wr.next = "none" /\ wr.hi < wr.lo /\ ~wr.response
      /\ ~wr.flushed /\ ~wr.shut /\ wr.lo # 0 /\ wr.lo <= wr.hi + 1
  BY <1>0 DEF WriterFacts
<1>3. /\ wr.done \in Nat /\ wr.fed \in Nat /\ wr.acked \in Nat /\ wr.sess \in Seq(Token)
      /\ wr.done <= wr.fed /\ wr.acked + wr.fed <= N
  BY <1>0, WriterIs DEF WriterFacts
<1> DEFINE k == Least(Room(wr), wr.fed - wr.done)
           at == wr.acked + wr.done
           d == PieceRun(at + 1, at + k)
           done == wr.done + k
           w == [wr EXCEPT !.sess = @ \o Sealed(d), !.done = @ + k]
<1>4. DrainThen(w, LAMBDA x : IF x.sess = <<>> /\ x.done < x.fed THEN x
                              ELSE [x EXCEPT !.acked = @ + x.done, !.pc = "idle"])
  BY DEF WriteTls
<1>5. k \in Nat /\ k <= wr.fed - wr.done
  <2>1. Room(wr) \in Nat /\ wr.fed - wr.done \in Nat
    BY <1>0, <1>3, RoomIs
  <2> QED
    BY <2>1, LeastIs
<1> HIDE DEF k
<1>6. at \in Nat /\ done \in Nat /\ done <= wr.fed
  BY <1>3, <1>5
<1>7. t \in Station /\ ~t.half /\ t.ph = "tls" /\ t.pos = at
  <2>1. t \in Station /\ ~t.half
    BY <1>0, <1>1, WayEnds
  <2>2. t.ph = "tls"
    BY <1>1, <1>2 DEF WriterStage
  <2>3. t.pos = at
    BY <1>0, <1>1 DEF WriterPos
  <2> QED
    BY <2>1, <2>2, <2>3
<1>8. PICK v \in Station : Path(SymRel, t, d, v) /\ ~v.half /\ v.ph = "tls" /\ v.pos = at + k
  BY <1>5, <1>7, TlsPath
<1>9. d \in Seq(Symbol)
  <2> DEFINE l == at + 1
             h == at + k
  <2>1. l \in Nat /\ h \in Nat /\ l <= h + 1 /\ l # 0
    BY <1>5, <1>6
  <2> HIDE DEF l, h, at
  <2>2. PieceRun(l, h) \in Seq(Symbol)
    BY <2>1, RunIs
  <2> QED
    BY <2>2 DEF l, h
<1> HIDE DEF at, d
<1>10. Sealed(d) \in Seq(Token) /\ Path(TokRel, t, Sealed(d), v)
  BY <1>7, <1>8, <1>9, SealedPath
<1> DEFINE e == Sealed(d)
           g == wr.sess \o e
<1>11. w = [wr EXCEPT !.sess = g, !.done = done]
  OBVIOUS
<1>12. Path(TokRel, s, b \o wr.sess, t)
  <2>1. PICK u \in Station : Path(TokRel, s, b \o wr.sess, u) /\ Path(SymRel, u, wr.plain, t)
    BY <1>1 DEF Way
  <2>2. u = t
    BY <2>1, <1>2, PathNone
  <2> QED
    BY <2>1, <2>2
<1>13. e \in Seq(Token) /\ g \in Seq(Token) /\ b \o wr.sess \in Seq(Token)
  BY <1>3, <1>10, ConcatProperties
<1>14. Path(TokRel, s, b \o g, v)
  <2>1. Path(TokRel, s, (b \o wr.sess) \o e, v)
    BY <1>10, <1>12, <1>13, PathJoin
  <2> DEFINE a == wr.sess
  <2>2. a \in Seq(Token) /\ e \in Seq(Token)
    BY <1>3, <1>13
  <2> HIDE DEF a, e
  <2>3. (b \o a) \o e = b \o (a \o e)
    BY SMTT(30), <2>2, ConcatAssociative
  <2> QED
    BY <2>1, <2>3 DEF a
<1> HIDE DEF done, g, e, w
<1>15. /\ w \in Writer /\ w.sess = g /\ w.done = done /\ w.plain = wr.plain /\ w.mode = wr.mode
       /\ w.next = wr.next /\ w.pc = wr.pc /\ w.first = wr.first /\ w.response = wr.response
       /\ w.lo = wr.lo /\ w.hi = wr.hi /\ w.fed = wr.fed /\ w.acked = wr.acked
       /\ w.flushed = wr.flushed /\ w.shut = wr.shut
  BY <1>0, <1>6, <1>11, <1>13 DEF Writer
<1>16. Path(SymRel, v, w.plain, v)
  BY <1>2, <1>15, <1>8, PathNone
<1>17. Way(b, w, s, v)
  BY <1>8, <1>14, <1>15, <1>16 DEF Way
<1>18. PICK m \in 0..Len(Outgoing(w)) :
         /\ tcp' = tcp \o SubSeq(Outgoing(w), 1, m)
         /\ wr' = LET x == AfterDrain(w, m)
                  IN IF x.sess = <<>> /\ x.done < x.fed THEN x
                     ELSE [x EXCEPT !.acked = @ + x.done, !.pc = "idle"]
  BY <1>4 DEF DrainThen
<1> DEFINE x == AfterDrain(w, m)
           y == wr'
<1>19. x \in Writer /\ Carried(w, x)
  BY <1>15, <1>17, DrainWay
<1>20. x.plain = <<>>
  BY <1>2, <1>15, DrainNone
<1>21. x = AfterDrain(w, m) /\ (y = x \/ y = [x EXCEPT !.acked = @ + x.done, !.pc = "idle"])
  BY <1>18
<1> HIDE DEF x, y
<1>22. /\ x.mode = "tls" /\ x.next = "none" /\ x.pc = "tls" /\ x.response = FALSE
       /\ x.lo = wr.lo /\ x.hi = wr.hi /\ x.fed = wr.fed /\ x.acked = wr.acked /\ x.done = done
       /\ x.flushed = FALSE /\ x.shut = FALSE
  <2>1. wr.response \in BOOLEAN /\ wr.flushed \in BOOLEAN /\ wr.shut \in BOOLEAN
    BY <1>0, WriterIs
  <2> QED
    BY <2>1, <1>0, <1>2, <1>15, <1>19 DEF Carried
<1>27. wr.acked <= N
  BY <1>3
<1>23. x.acked + done \in Nat /\ x.acked + done <= N /\ x.acked + done = at + k
  <2> DEFINE i == wr.acked
             j == wr.done
             l == wr.fed
  <2>1. i \in Nat /\ j \in Nat /\ l \in Nat /\ j <= l /\ i + l <= N /\ k \in Nat /\ k <= l - j
    BY <1>3, <1>5
  <2> HIDE DEF i, j, l
  <2>2. i + (j + k) \in Nat /\ i + (j + k) <= N /\ i + (j + k) = (i + j) + k
    BY <2>1
  <2> QED
    BY <2>2, <1>22 DEF at, done, i, j, l
<1>24. /\ WriterFacts(y, N) /\ y.sess = x.sess /\ y.plain = x.plain
       /\ v.ph = WriterStage(y) /\ v.pos = WriterPos(y)
  <2>1. CASE y = x
    <3>1. WriterFacts(x, N)
      BY <1>2, <1>3, <1>6, <1>19, <1>20, <1>22, <1>27 DEF WriterFacts
    <3>2. v.ph = WriterStage(x)
      BY <1>8, <1>22 DEF WriterStage
    <3>3. v.pos = WriterPos(x)
      BY <1>8, <1>22, <1>23 DEF WriterPos
    <3> QED
      BY <2>1, <3>1, <3>2, <3>3
  <2>2. CASE y = [x EXCEPT !.acked = @ + x.done, !.pc = "idle"]
    <3> DEFINE q == x.acked + done
    <3>1. y = [x EXCEPT !.acked = q, !.pc = "idle"] /\ q \in Nat /\ q <= N
      BY <2>2, <1>22, <1>23
    <3> HIDE DEF q
    <3>2. /\ y \in Writer /\ y.mode = "tls" /\ y.next = "none" /\ y.pc = "idle"
          /\ y.response = FALSE
          /\ y.lo = wr.lo /\ y.hi = wr.hi /\ y.acked = q /\ y.sess = x.sess /\ y.plain = x.plain
          /\ y.flushed = FALSE /\ y.shut = FALSE
      BY <3>1, <1>19, <1>22 DEF Writer
    <3>6. wr.lo \in Nat /\ wr.hi \in Nat
      BY <1>0, WriterIs
    <3>3. WriterFacts(y, N)
      BY <1>2, <1>20, <3>1, <3>2, <3>6 DEF WriterFacts
    <3>4. v.ph = WriterStage(y)
      BY <1>8, <3>2 DEF WriterStage
    <3>5. v.pos = WriterPos(y)
      BY <1>2, <1>8, <1>23, <3>2, <3>6 DEF WriterPos, q
    <3> QED
      BY <3>2, <3>3, <3>4, <3>5
  <2> QED
    BY <1>21, <2>1, <2>2
<1>25. y.sess = AfterDrain(w, m).sess /\ y.plain = AfterDrain(w, m).plain
  BY <1>21, <1>24
<1>26. Wrote(b, s, N, y, tcp, tcp')
  BY <1>15, <1>17, <1>18, <1>24, <1>25, DrainWrites
<1> QED
  BY <1>26 DEF y

(* poll_write in direct mode. *)
LEMMA WriteDirectWrites ==
    ASSUME NEW b \in Seq(Token), NEW s, Writes(b, wr, s), NEW N \in Nat, WriterFacts(wr, N),
           tcp \in Seq(Token), WriteDirect
    PROVE  Wrote(b, s, N, wr', tcp, tcp')
<1>0. wr \in Writer /\ wr.pc = "direct"
  BY DEF WriterFacts, WriteDirect
<1>1. PICK t : t.ph = WriterStage(wr) /\ t.pos = WriterPos(wr) /\ Way(b, wr, s, t)
  BY DEF Writes
<1>2. /\ wr.mode = "direct" /\ wr.plain = <<>> /\ wr.sess = <<>> /\ wr.next = "none"
      /\ wr.hi < wr.lo
      /\ ~wr.response /\ ~wr.flushed /\ ~wr.shut /\ wr.lo # 0 /\ wr.lo <= wr.hi + 1
  BY <1>0 DEF WriterFacts
<1>3. /\ wr.fed \in Nat /\ wr.acked \in Nat /\ wr.acked + wr.fed <= N /\ wr.lo \in Nat
      /\ wr.hi \in Nat
      /\ wr.response \in BOOLEAN /\ wr.flushed \in BOOLEAN /\ wr.shut \in BOOLEAN
  BY <1>0, WriterIs DEF WriterFacts
<1>4. PICK n \in 0..wr.fed :
         /\ tcp' = tcp \o PieceRun(wr.acked + 1, wr.acked + n)
         /\ wr' = [wr EXCEPT !.acked = @ + n, !.pc = "idle"]
  BY DEF WriteDirect
<1> DEFINE a == wr.acked
           d == PieceRun(a + 1, a + n)
           q == a + n
           y == wr'
<1>5. a \in Nat /\ n \in Nat /\ q \in Nat /\ q <= N
  BY <1>3
<1>6. t \in Station /\ ~t.half /\ t.ph = "direct" /\ t.pos = a
  <2>1. t \in Station /\ ~t.half
    BY <1>0, <1>1, WayEnds
  <2>2. t.ph = "direct"
    BY <1>1, <1>2 DEF WriterStage
  <2>3. t.pos = a
    BY <1>0, <1>1, <1>2, <1>3 DEF WriterPos
  <2> QED
    BY <2>1, <2>2, <2>3
<1>7. PICK v \in Station : Path(TokRel, t, d, v) /\ ~v.half /\ v.ph = "direct" /\ v.pos = q
  BY ZenonT(60), <1>5, <1>6, DirectPath
<1>8. d \in Seq(Token)
  <2> DEFINE l == a + 1
             h == a + n
  <2>1. l \in Nat /\ h \in Nat /\ l <= h + 1 /\ l # 0
    BY <1>5
  <2> HIDE DEF l, h, a
  <2>2. PieceRun(l, h) \in Seq(Token)
    BY <2>1, RunIs
  <2> QED
    BY <2>2 DEF l, h
<1>9. y = [wr EXCEPT !.acked = q, !.pc = "idle"] /\ tcp' = tcp \o d
  BY <1>4
<1>10. Path(TokRel, s, b \o d, v)
  <2>1. PICK u \in Station : Path(TokRel, s, b \o wr.sess, u) /\ Path(SymRel, u, wr.plain, t)
    BY <1>1 DEF Way
  <2>2. u = t
    BY <2>1, <1>2, PathNone
  <2>3. b \o wr.sess = b
    BY <1>2, ConcatEmptySeq
  <2>4. Path(TokRel, s, b, t)
    BY <2>1, <2>2, <2>3
  <2> HIDE DEF d
  <2> QED
    BY <2>4, <1>7, <1>8, PathJoin
<1> HIDE DEF q, d, y
<1>11. /\ y \in Writer /\ y.mode = wr.mode /\ y.next = wr.next /\ y.pc = "idle"
       /\ y.response = wr.response
       /\ y.lo = wr.lo /\ y.hi = wr.hi /\ y.acked = q /\ y.sess = wr.sess /\ y.plain = wr.plain
       /\ y.flushed = wr.flushed /\ y.shut = wr.shut
  BY <1>0, <1>5, <1>9 DEF Writer
<1>12. WriterFacts(y, N)
  BY <1>2, <1>3, <1>5, <1>11 DEF WriterFacts
<1>13. v.ph = WriterStage(y)
  BY <1>2, <1>7, <1>11 DEF WriterStage
<1>14. v.pos = WriterPos(y)
  BY <1>2, <1>3, <1>7, <1>11 DEF WriterPos
<1>15. Way(b \o d, y, s, v)
  <2>1. b \o d \in Seq(Token)
    BY <1>8, ConcatProperties
  <2>2. (b \o d) \o y.sess = b \o d
    BY <2>1, <1>2, <1>11, ConcatEmptySeq
  <2>3. Path(SymRel, v, y.plain, v)
    BY <1>2, <1>7, <1>11, PathNone
  <2> QED
    BY <2>2, <2>3, <1>7, <1>10 DEF Way
<1>16. Writes(b \o d, y, s)
  BY <1>13, <1>14, <1>15 DEF Writes
<1>17. Wrote(b, s, N, y, tcp, tcp')
  BY <1>8, <1>9, <1>12, <1>16 DEF Wrote
<1> QED
  BY <1>17 DEF y

(* poll_flush. *)
LEMMA FlushWrites ==
    ASSUME NEW b \in Seq(Token), NEW s, Writes(b, wr, s), NEW N \in Nat, WriterFacts(wr, N),
           tcp \in Seq(Token), Flush
    PROVE  Wrote(b, s, N, wr', tcp, tcp')
<1>0. wr \in Writer /\ wr.pc = "idle" /\ ~wr.shut /\ ~wr.flushed
  BY DEF WriterFacts, Flush
<1>1. PICK t : t.ph = WriterStage(wr) /\ t.pos = WriterPos(wr) /\ Way(b, wr, s, t)
  BY DEF Writes
<1>2. PICK m \in 0..Len(Outgoing(wr)) :
         /\ tcp' = tcp \o SubSeq(Outgoing(wr), 1, m)
         /\ wr' = [AfterDrain(wr, m) EXCEPT !.flushed = IsDrained(AfterDrain(wr, m))]
  BY DEF Flush, DrainThen
<1> DEFINE x == AfterDrain(wr, m)
           f == IsDrained(x)
           y == wr'
<1>3. x \in Writer /\ Carried(wr, x)
  BY <1>0, <1>1, DrainWay
<1>4. wr.mode # "padding" => x.plain = <<>>
  BY <1>0, DrainNone DEF WriterFacts
<1>5. wr.mode = "direct" => x.sess = <<>>
  <2>1. wr.mode = "direct" => wr.sess = <<>> /\ wr.plain = <<>>
    BY DEF WriterFacts
  <2> QED
    BY <2>1, <1>0, DrainNone
<1>6. y = [x EXCEPT !.flushed = f] /\ x = AfterDrain(wr, m) /\ f \in BOOLEAN
  BY <1>2 DEF IsDrained
<1>7. f => x.sess = <<>> /\ x.plain = <<>>
  BY DEF IsDrained
<1> HIDE DEF x, f, y
<1>8. /\ y \in Writer /\ y.mode = x.mode /\ y.next = x.next /\ y.pc = x.pc /\ y.first = x.first
      /\ y.response = x.response /\ y.lo = x.lo /\ y.hi = x.hi /\ y.acked = x.acked /\ y.fed = x.fed
      /\ y.had = x.had /\ y.done = x.done /\ y.sess = x.sess /\ y.plain = x.plain /\ y.shut = x.shut
      /\ y.flushed = f
  BY <1>3, <1>6 DEF Writer
<1>9. /\ y.mode = wr.mode /\ y.next = wr.next /\ y.pc = wr.pc /\ y.first = wr.first
      /\ y.response = wr.response /\ y.lo = wr.lo /\ y.hi = wr.hi /\ y.acked = wr.acked
      /\ y.fed = wr.fed /\ y.had = wr.had /\ y.done = wr.done /\ y.shut = wr.shut
  BY <1>3, <1>8 DEF Carried
<1>10. WriterFacts(y, N)
  <2>1. y.mode # "padding" => y.plain = <<>>
    BY <1>4, <1>8, <1>9
  <2>2. y.mode = "direct" => y.sess = <<>>
    BY <1>5, <1>8, <1>9
  <2>3. y.flushed => y.sess = <<>> /\ y.plain = <<>>
    BY <1>7, <1>8
  <2>4. ~y.shut
    BY <1>0, <1>9
  <2>5. y \in Writer /\ y.pc = "idle"
    BY <1>0, <1>8, <1>9
  <2> QED
    BY <2>1, <2>2, <2>3, <2>4, <2>5, <1>9 DEF WriterFacts
<1>11. t.ph = WriterStage(y)
  BY <1>1, <1>9 DEF WriterStage
<1>12. t.pos = WriterPos(y)
  BY <1>1, <1>9 DEF WriterPos
<1>13. y.sess = AfterDrain(wr, m).sess /\ y.plain = AfterDrain(wr, m).plain
  BY <1>6, <1>8
<1>14. Wrote(b, s, N, y, tcp, tcp')
  BY <1>0, <1>1, <1>2, <1>10, <1>11, <1>12, <1>13, DrainWrites
<1> QED
  BY <1>14 DEF y

(* poll_shutdown. *)
LEMMA ShutdownWrites ==
    ASSUME NEW b \in Seq(Token), NEW s, Writes(b, wr, s), NEW N \in Nat, N = Len(Data),
           WriterFacts(wr, N),
           tcp \in Seq(Token), Shutdown
    PROVE  Wrote(b, s, N, wr', tcp, tcp')
<1>0. wr \in Writer /\ wr.pc = "idle" /\ wr.flushed /\ wr.acked = N
  BY DEF WriterFacts, Shutdown
<1>1. PICK t : t.ph = WriterStage(wr) /\ t.pos = WriterPos(wr) /\ Way(b, wr, s, t)
  BY DEF Writes
<1> DEFINE y == wr'
<1>2. y = [wr EXCEPT !.shut = TRUE] /\ tcp' = tcp
  BY DEF Shutdown
<1> HIDE DEF y
<1>3. /\ y \in Writer /\ y.mode = wr.mode /\ y.next = wr.next /\ y.pc = wr.pc /\ y.first = wr.first
      /\ y.response = wr.response /\ y.lo = wr.lo /\ y.hi = wr.hi /\ y.acked = wr.acked
      /\ y.fed = wr.fed /\ y.had = wr.had /\ y.done = wr.done /\ y.flushed = wr.flushed
      /\ y.sess = wr.sess /\ y.plain = wr.plain
  BY <1>0, <1>2 DEF Writer
<1>4. WriterFacts(y, N)
  <2>1. y.flushed /\ y.acked = N /\ y.pc = "idle"
    BY <1>0, <1>3
  <2> QED
    BY <2>1, <1>3 DEF WriterFacts
<1>5. t.ph = WriterStage(y)
  BY <1>1, <1>3 DEF WriterStage
<1>6. t.pos = WriterPos(y)
  BY <1>1, <1>3 DEF WriterPos
<1>7. Wrote(b, s, N, y, tcp, tcp)
  BY <1>1, <1>3, <1>4, <1>5, <1>6, StillWrites
<1> QED
  BY <1>2, <1>7 DEF y

-----------------------------------------------------------------------------
(* Behind END the tokens are records of the outer TLS, and pieces in them. *)
LEMMA TlsStays ==
    ASSUME NEW toks \in Seq(Token), NEW s, NEW t, Path(TokRel, s, toks, t), s.ph = "tls"
    PROVE  t.ph = "tls"
<1> DEFINE N == Len(toks)
<1>1. PICK f \in [0..N -> Station] :
         f[0] = s /\ f[N] = t /\ \A n \in 1..N : <<f[n - 1], toks[n], f[n]>> \in TokRel
  BY DEF Path
<1>2. N \in Nat
  BY LenProperties
<1> HIDE DEF N
<1> DEFINE P == {n \in Nat : n <= N => f[n].ph = "tls"}
<1>3. 0 \in P
  BY <1>1
<1>4. ASSUME NEW a, NEW x, NEW b, <<a, x, b>> \in TokRel, a.ph = "tls" PROVE b.ph = "tls"
  <2>1. IsHalf(a, x, b) \/ IsRest(a, x, b) \/ IsPiece(a, x, b)
    BY <1>4, TokStep
  <2>2. CASE IsHalf(a, x, b)
    BY <1>4, <2>2 DEF IsHalf
  <2>3. CASE IsRest(a, x, b)
    <3>1. x[2] \in Seq(Symbol) /\ Path(SymRel, Open(a), x[2], b) /\ Open(a).ph = "tls"
      BY <1>4, <2>3, OpenIs DEF IsRest
    <3> QED
      BY <3>1, TlsRun
  <2>4. CASE IsPiece(a, x, b)
    BY <1>4, <2>4 DEF IsPiece
  <2> QED
    BY <2>1, <2>2, <2>3, <2>4
<1>5. ASSUME NEW n \in P PROVE n + 1 \in P
  <2>1. n + 1 \in Nat
    OBVIOUS
  <2>2. ASSUME n + 1 <= N PROVE f[n + 1].ph = "tls"
    <3>1. n + 1 \in 1..N /\ (n + 1) - 1 = n /\ n <= N
      BY <2>2, <1>2
    <3>2. f[n].ph = "tls" /\ <<f[n], toks[n + 1], f[n + 1]>> \in TokRel
      BY <3>1, <1>1
    <3> QED
      BY <3>2, <1>4
  <2> QED
    BY <2>1, <2>2
<1>6. P = Nat
  <2>1. P \in SUBSET Nat
    OBVIOUS
  <2> HIDE DEF P
  <2> QED
    BY <2>1, <1>3, <1>5, SetInduction
<1> QED
  BY <1>1, <1>2, <1>6

(* What the session has read with the half of a record it holds. *)
AllOf(half, toks) == IF half THEN <<Half>> \o toks ELSE toks

(* Behind END, what the session decrypts are the pieces between the two stations, and
   it keeps half a record exactly if the path ends in one. *)
LEMMA TlsTokens ==
    ASSUME NEW toks \in Seq(Token), NEW s, NEW t, Path(TokRel, s, toks, t), s.ph = "tls",
           NEW all, all = AllOf(s.half, toks)
    PROVE  /\ t.ph = "tls" /\ s \in Station /\ t \in Station /\ s.pos <= t.pos
           /\ Opened(toks) = PieceRun(s.pos + 1, t.pos)
           /\ From(all, Whole(all) + 1) = (IF t.half THEN <<Half>> ELSE <<>>)
           /\ (Whole(all) < Len(all)) <=> t.half
<1>1. t.ph = "tls" /\ s \in Station /\ t \in Station /\ s.pos <= t.pos
  BY TlsStays, WayPieces
<1>2. s.half \in BOOLEAN /\ Open(s) \in Station /\ <<Half>> \in Seq(Token)
  BY <1>1, StationIs, Kinds
<1> DEFINE o == Open(s)
<1>3. o.ph = "tls" /\ o.cmd = s.cmd /\ o.left = s.left /\ o.pos = s.pos /\ o.half = FALSE
  BY OpenIs
<1>4. all \in Seq(Token) /\ Path(TokRel, o, all, t)
  <2>1. CASE s.half
    <3>1. IsHalf(o, Half, s)
      BY <2>1, <1>3, Tags DEF IsHalf
    <3>2. <<o, Half, s>> \in TokRel
      BY <3>1, <1>1, <1>2, Kinds, TokStepIs
    <3>3. Path(TokRel, o, <<Half>>, s)
      BY <3>2, <1>1, <1>2, PathOne
    <3>4. Path(TokRel, o, <<Half>> \o toks, t)
      BY <3>3, <1>2, PathJoin
    <3>5. <<Half>> \o toks \in Seq(Token)
      BY <1>2, ConcatProperties
    <3> QED
      BY <3>4, <3>5, <2>1 DEF AllOf
  <2>2. CASE ~s.half
    BY <2>2, <1>1, OpenSame DEF AllOf
  <2> QED
    BY <2>1, <2>2
<1> HIDE DEF o
<1>5. Alternates(all) /\ (t.half <=> Len(all) % 2 = 1) /\ \A i \in 1..Len(all) : all[i][1] # "piece"
  BY <1>1, <1>3, <1>4, PathAlternates
<1>6. From(all, Whole(all) + 1) = (IF t.half THEN <<Half>> ELSE <<>>)
  BY <1>4, <1>5, WholeRest
<1>7. (Whole(all) < Len(all)) <=> t.half
  <2> DEFINE W == Whole(all)
             N == Len(all)
  <2>1. W = 2 * (N \div 2) /\ N \in Nat
    BY <1>4, <1>5, WholeIs, LenProperties
  <2> HIDE DEF W, N
  <2>2. (W < N) <=> N % 2 = 1
    BY <2>1
  <2> QED
    BY <2>2, <1>5 DEF W, N
<1>8. \A n \in 1..Len(toks) : toks[n][1] # "piece"
  <2>1. CASE s.half
    <3> SUFFICES ASSUME NEW n \in 1..Len(toks) PROVE toks[n][1] # "piece"
      OBVIOUS
    <3>1. /\ Len(toks) \in Nat /\ Len(<<Half>>) = 1 /\ Len(all) = 1 + Len(toks)
          /\ all[n + 1] = toks[n] /\ n + 1 \in 1..Len(all)
      <4>1. Len(<<Half>>) = 1 /\ Len(toks) \in Nat
        BY LenProperties
      <4>2. /\ Len(all) = Len(<<Half>>) + Len(toks)
            /\ \A i \in 1..(Len(<<Half>>) + Len(toks)) :
                 all[i] = IF i <= Len(<<Half>>) THEN <<Half>>[i] ELSE toks[i - Len(<<Half>>)]
        BY <2>1, <1>2, ConcatProperties DEF AllOf
      <4>3. n + 1 \in 1..(1 + Len(toks)) /\ ~(n + 1 <= 1) /\ (n + 1) - 1 = n
        BY <4>1
      <4> QED
        BY <4>1, <4>2, <4>3
    <3> QED
      BY <3>1, <1>5
  <2>2. CASE ~s.half
    BY <2>2, <1>5 DEF AllOf
  <2> QED
    BY <2>1, <2>2
<1>9. Opened(toks) \in Seq(Symbol) /\ Path(SymRel, Open(s), Opened(toks), Open(t))
  BY <1>8, OpenedFollows
<1>10. Opened(toks) = PieceRun(Open(s).pos + 1, Open(t).pos)
  BY <1>3, <1>9, TlsRun DEF o
<1>11. Open(s).pos = s.pos /\ Open(t).pos = t.pos
  BY OpenIs
<1> QED
  BY <1>1, <1>6, <1>7, <1>10, <1>11

(* The reader. *)
Reader ==
    [mode : {"padding", "tls", "direct"},
     pc : {"setup", "response", "read", "records", "eof", "failed"}, unpad : Unpadder,
     outer : Seq(Token), half : BOOLEAN, pend : Seq(Symbol), out : Seq(Symbol),
     cause : {"none", "cut", "twice", "overread"}]

(* The fields of a reader. *)
LEMMA ReaderIs ==
    ASSUME NEW r \in Reader
    PROVE  /\ r.mode \in {"padding", "tls", "direct"} /\ r.unpad \in Unpadder
           /\ r.pc \in {"setup", "response", "read", "records", "eof", "failed"}
           /\ r.outer \in Seq(Token) /\ r.half \in BOOLEAN /\ r.pend \in Seq(Symbol)
           /\ r.out \in Seq(Symbol) /\ r.cause \in {"none", "cut", "twice", "overread"}
BY DEF Reader

Padded4 == {"initial", "command", "content", "padding"}

ReaderStage(r) ==
    IF r.pc = "setup" THEN "request"
    ELSE IF r.pc = "response" THEN "response"
    ELSE IF r.mode # "padding" THEN r.mode ELSE r.unpad.st

(* What was handed out, with what is pending, is the stream up to i. *)
Ran(out, pend, i) == out \o pend = PieceRun(1, i)

(* The reader has read up to the station s. *)
At(r, s) ==
    /\ s \in Station /\ s.ph = ReaderStage(r) /\ (s.half <=> r.half)
    /\ Ran(r.out, r.pend, s.pos)
    /\ r.mode = "padding" => s.cmd = r.unpad.cmd /\ s.left = r.unpad.left

ReaderFacts(r) ==
    /\ r \in Reader
    /\ r.pc # "failed" =>
         /\ r.mode # "padding" => r.outer = <<>> /\ r.unpad.st = "done"
         /\ r.mode = "padding" => r.unpad.st \in Padded4
         /\ r.pc \in {"setup", "response"} =>
              /\ r.mode = "padding" /\ r.unpad.st = "initial" /\ ~r.half
              /\ r.pend = <<>> /\ r.out = <<>>
         /\ r.pc = "setup" => r.outer = <<>>
         /\ r.pc # "records" => r.outer \in {<<>>, <<Half>>}
         /\ r.pc = "records" => r.mode = "padding"
         /\ r.half /\ r.mode = "padding" => r.pc = "records" \/ r.outer = <<>>

(* Failing leaves a reader of the type. *)
LEMMA FailedFacts ==
    ASSUME NEW r \in Reader, NEW why \in {"cut", "twice", "overread"}
    PROVE  ReaderFacts(ReadFails(r, why)) /\ ReadFails(r, why).pc = "failed"
BY DEF Reader, ReadFails, ReaderFacts

(* Three sequences of symbols. *)
LEMMA JoinedTwice == \A a, p, q \in Seq(Symbol) : (a \o p) \o q = a \o (p \o q)
BY ConcatAssociative

(* Pieces handed out behind the others. *)
LEMMA RunGrows ==
    ASSUME NEW a \in Seq(Symbol), NEW p \in Seq(Symbol), NEW q \in Seq(Symbol), NEW i \in Nat,
           NEW j \in Nat, i <= j,
           Ran(a, p, i), q = PieceRun(i + 1, j), NEW pq, pq = p \o q
    PROVE  Ran(a, pq, j) /\ pq \in Seq(Symbol)
<1>1. (a \o p) \o q = a \o (p \o q)
  BY JoinedTwice, Zenon
<1>2. 1 \in Nat /\ 1 # 0 /\ 1 <= i + 1
  OBVIOUS
<1>3. PieceRun(1, i) \o PieceRun(i + 1, j) = PieceRun(1, j)
  BY <1>2, RunConcat
<1>4. p \o q \in Seq(Symbol)
  BY ConcatProperties
<1> QED
  BY <1>1, <1>3, <1>4 DEF Ran

(* A reader that was given padded bytes has read them, and goes on behind them. *)
Handled(r, x, b, u) ==
    /\ x \in Reader /\ x.pc = r.pc /\ x.cause = r.cause
    /\ x.mode # "padding" => x.outer = <<>> /\ x.unpad.st = "done"
    /\ x.mode = "padding" => x.unpad.st \in Padded4 /\ x.outer = r.outer /\ x.half = r.half
    /\ \E v \in Station : At(x, v) /\ Path(TokRel, v, x.outer \o b, u)

Unpadded(r, w, p) == [r EXCEPT !.unpad = w, !.pend = p]

UnpaddedTo(r, x, w, p, v) ==
    /\ x \in Reader /\ x.mode = r.mode /\ x.pc = r.pc /\ x.unpad = w /\ x.outer = r.outer
    /\ x.half = r.half /\ x.pend = p /\ x.out = r.out /\ x.cause = r.cause
    /\ w \in Unpadder /\ UnpadAt(w, v) /\ Ran(x.out, x.pend, v.pos)

(* The content is at the end of what is pending. *)
LEMMA UnpadsOn ==
    ASSUME NEW r \in Reader, r.unpad.st \in Padded4, NEW d \in Seq(Symbol), NEW s,
           s.ph = r.unpad.st,
           s.cmd = r.unpad.cmd, s.left = r.unpad.left, Ran(r.out, r.pend, s.pos),
           NEW v, Path(SymRel, s, d, v), NEW w, w = Unpad(r.unpad, d),
           NEW p, p = r.pend \o w.content, NEW x, x = Unpadded(r, w, p)
    PROVE  UnpaddedTo(r, x, w, p, v)
<1>1. r.unpad \in Unpadder /\ r.pend \in Seq(Symbol) /\ r.out \in Seq(Symbol)
  BY ReaderIs
<1>2. s \in Station /\ v \in Station /\ s.pos <= v.pos /\ s.pos \in Nat /\ v.pos \in Nat
  BY SymPieces, StationIs
<1>3. UnpadAt(r.unpad, s) /\ r.unpad.st # "done"
  BY DEF UnpadAt, Padded4
<1>4. w \in Unpadder /\ UnpadAt(w, v) /\ w.content = PieceRun(s.pos + 1, v.pos)
  BY <1>1, <1>3, UnpadFollows
<1>5. w.content \in Seq(Symbol)
  BY <1>4 DEF Unpadder
<1>6. Ran(r.out, p, v.pos) /\ p \in Seq(Symbol)
  <2> DEFINE aa == r.out
             pp == r.pend
             qq == w.content
             ii == s.pos
             jj == v.pos
  <2>1. /\ aa \in Seq(Symbol) /\ pp \in Seq(Symbol) /\ qq \in Seq(Symbol) /\ ii \in Nat
        /\ jj \in Nat
        /\ ii <= jj /\ Ran(aa, pp, ii) /\ qq = PieceRun(ii + 1, jj)
    BY <1>1, <1>2, <1>4, <1>5
  <2> HIDE DEF aa, pp, qq, ii, jj
  <2>2. Ran(aa, pp \o qq, jj) /\ pp \o qq \in Seq(Symbol)
    BY <2>1, RunGrows
  <2> QED
    BY <2>2 DEF aa, pp, qq, ii, jj
<1>7. /\ x \in Reader /\ x.mode = r.mode /\ x.pc = r.pc /\ x.unpad = w /\ x.outer = r.outer
      /\ x.half = r.half /\ x.pend = p /\ x.out = r.out /\ x.cause = r.cause
  <2>1. x \in Reader
    BY <1>4, <1>6 DEF Reader, Unpadded
  <2>2. /\ x.mode = r.mode /\ x.pc = r.pc /\ x.unpad = w /\ x.outer = r.outer
        /\ x.half = r.half /\ x.pend = p /\ x.out = r.out /\ x.cause = r.cause
    BY DEF Reader, Unpadded
  <2> QED
    BY <2>1, <2>2
<1> QED
  BY <1>4, <1>6, <1>7 DEF UnpaddedTo

(* DIRECT: what the outer deframer holds is the inner stream. *)
LEMMA GoesDirect ==
    ASSUME NEW x \in Reader, NEW e \in Station, e.ph = "direct", ~e.half, ~x.half,
           x.pc \in {"read", "records"}, x.unpad.st = "done",
           Ran(x.out, x.pend, e.pos), NEW b \in Seq(Token), NEW u,
           Path(TokRel, e, x.outer \o b, u), NEW y,
           y = [x EXCEPT !.pend = @ \o x.outer, !.outer = <<>>, !.mode = "direct"]
    PROVE  Handled(x, y, b, u)
<1>1. x.outer \in Seq(Token) /\ x.pend \in Seq(Symbol) /\ x.out \in Seq(Symbol)
  BY ReaderIs
<1>2. PICK f \in Station : Path(TokRel, e, x.outer, f) /\ Path(TokRel, f, b, u)
  BY <1>1, PathSplit
<1>3. f.ph = "direct" /\ f.half = e.half /\ x.outer = PieceRun(e.pos + 1, f.pos) /\ e.pos <= f.pos
  BY <1>1, <1>2, DirectRun, WayPieces
<1>4. e.pos \in Nat /\ f.pos \in Nat
  BY StationIs
<1> DEFINE o == x.outer
           q == x.pend \o o
<1>5. o \in Seq(Symbol)
  <2> DEFINE l == e.pos + 1
             h == f.pos
  <2>1. l \in Nat /\ h \in Nat /\ l <= h + 1 /\ l # 0
    BY <1>3, <1>4
  <2> HIDE DEF l, h
  <2>2. PieceRun(l, h) \in Seq(Symbol)
    BY <2>1, RunIs
  <2> QED
    BY <2>2, <1>3 DEF l, h
<1>6. o = PieceRun(e.pos + 1, f.pos)
  BY <1>3
<1> HIDE DEF o
<1>7. Ran(x.out, q, f.pos) /\ q \in Seq(Symbol)
  <2> DEFINE aa == x.out
             pp == x.pend
             qq == o
             ii == e.pos
             jj == f.pos
  <2>1. /\ aa \in Seq(Symbol) /\ pp \in Seq(Symbol) /\ qq \in Seq(Symbol) /\ ii \in Nat
        /\ jj \in Nat
        /\ ii <= jj /\ Ran(aa, pp, ii) /\ qq = PieceRun(ii + 1, jj)
    BY <1>1, <1>3, <1>4, <1>5, <1>6
  <2> HIDE DEF aa, pp, qq, ii, jj
  <2>2. Ran(aa, pp \o qq, jj) /\ pp \o qq \in Seq(Symbol)
    BY <2>1, RunGrows
  <2> QED
    BY <2>2 DEF aa, pp, qq, ii, jj
<1>8. y = [x EXCEPT !.pend = q, !.outer = <<>>, !.mode = "direct"]
  BY DEF o
<1> HIDE DEF q
<1>9. /\ y \in Reader /\ y.mode = "direct" /\ y.pc = x.pc /\ y.unpad = x.unpad /\ y.outer = <<>>
      /\ y.half = x.half /\ y.pend = q /\ y.out = x.out /\ y.cause = x.cause
  <2>1. y \in Reader
    <3>1. PICK nil \in Seq(Token) : nil = <<>>
      BY EmptySeq
    <3>2. y = [x EXCEPT !.pend = q, !.outer = nil, !.mode = "direct"] /\ q \in Seq(Symbol)
      BY <3>1, <1>7, <1>8
    <3> QED
      BY <3>2 DEF Reader
  <2>2. /\ y.mode = "direct" /\ y.pc = x.pc /\ y.unpad = x.unpad /\ y.outer = <<>>
        /\ y.half = x.half /\ y.pend = q /\ y.out = x.out /\ y.cause = x.cause
    BY <1>8 DEF Reader
  <2> QED
    BY <2>1, <2>2
<1>10. At(y, f)
  BY <1>3, <1>7, <1>9 DEF At, ReaderStage
<1>11. y.outer \o b = b
  BY <1>9, ConcatEmptySeq
<1> QED
  BY <1>2, <1>9, <1>10, <1>11 DEF Handled

(* END: the session decrypts the records in the outer deframer. *)
LEMMA GoesTls ==
    ASSUME NEW x \in Reader, NEW e \in Station, e.ph = "tls", e.half <=> x.half,
           x.pc \in {"read", "records"}, x.unpad.st = "done", x.half => x.outer = <<>>,
           Ran(x.out, x.pend, e.pos), NEW b \in Seq(Token), NEW u,
           Path(TokRel, e, x.outer \o b, u), NEW more, more = From(x.outer, Whole(x.outer) + 1),
           NEW y, y = [x EXCEPT !.pend = @ \o Opened(x.outer), !.outer = <<>>, !.mode = "tls",
                                !.half = @ \/ more # <<>>]
    PROVE  OuterNext(more) = "need" /\ Handled(x, y, b, u)
<1>1. x.outer \in Seq(Token) /\ x.pend \in Seq(Symbol) /\ x.out \in Seq(Symbol) /\ x.half \in BOOLEAN
  BY ReaderIs
<1>2. PICK f \in Station : Path(TokRel, e, x.outer, f) /\ Path(TokRel, f, b, u)
  BY <1>1, PathSplit
<1>3. f.ph = "tls" /\ Opened(x.outer) = PieceRun(e.pos + 1, f.pos) /\ e.pos <= f.pos
  BY <1>1, <1>2, TlsTokens
<1>4. e.pos \in Nat /\ f.pos \in Nat /\ f.half \in BOOLEAN
  BY StationIs
<1>5. more \in {<<>>, <<Half>>} /\ (f.half <=> (x.half \/ more # <<>>))
  <2>1. CASE x.half
    <3>1. x.outer = <<>> /\ f = e /\ Len(x.outer) = 0
      BY <2>1, <1>2, PathNone, EmptySeq
    <3>2. Alternates(x.outer)
      BY <3>1 DEF Alternates
    <3>3. more = <<>>
      <4>1. more = (IF Len(x.outer) % 2 = 1 THEN <<Half>> ELSE <<>>)
        BY <3>2, <1>1, WholeRest
      <4>2. Len(x.outer) % 2 # 1
        BY <3>1
      <4> QED
        BY <4>1, <4>2
    <3> QED
      BY <3>1, <3>3, <2>1
  <2>2. CASE ~x.half
    <3>1. AllOf(e.half, x.outer) = x.outer
      BY <2>2 DEF AllOf
    <3>2. more = (IF f.half THEN <<Half>> ELSE <<>>)
      BY <3>1, <1>1, <1>2, TlsTokens
    <3>3. <<Half>> # <<>>
      OBVIOUS
    <3> QED
      BY <3>2, <3>3, <2>2
  <2> QED
    BY <2>1, <2>2
<1>6. OuterNext(more) = "need"
  BY <1>5 DEF OuterNext
<1> DEFINE o == Opened(x.outer)
           q == x.pend \o o
           h == x.half \/ more # <<>>
<1>7. o \in Seq(Symbol) /\ o = PieceRun(e.pos + 1, f.pos)
  BY <1>1, <1>3, OpenedSeq
<1> HIDE DEF o
<1>8. Ran(x.out, q, f.pos) /\ q \in Seq(Symbol)
  <2> DEFINE aa == x.out
             pp == x.pend
             qq == o
             ii == e.pos
             jj == f.pos
  <2>1. /\ aa \in Seq(Symbol) /\ pp \in Seq(Symbol) /\ qq \in Seq(Symbol) /\ ii \in Nat
        /\ jj \in Nat
        /\ ii <= jj /\ Ran(aa, pp, ii) /\ qq = PieceRun(ii + 1, jj)
    BY <1>1, <1>3, <1>4, <1>7
  <2> HIDE DEF aa, pp, qq, ii, jj
  <2>2. Ran(aa, pp \o qq, jj) /\ pp \o qq \in Seq(Symbol)
    BY <2>1, RunGrows
  <2> QED
    BY <2>2 DEF aa, pp, qq, ii, jj
<1>9. y = [x EXCEPT !.pend = q, !.outer = <<>>, !.mode = "tls", !.half = h] /\ h \in BOOLEAN
  BY DEF o
<1>14. f.half <=> h
  BY <1>5
<1> HIDE DEF q, h
<1>10. /\ y \in Reader /\ y.mode = "tls" /\ y.pc = x.pc /\ y.unpad = x.unpad /\ y.outer = <<>>
       /\ y.half = h /\ y.pend = q /\ y.out = x.out /\ y.cause = x.cause
  <2>1. y \in Reader
    <3>1. PICK nil \in Seq(Token) : nil = <<>>
      BY EmptySeq
    <3>2. y = [x EXCEPT !.pend = q, !.outer = nil, !.mode = "tls", !.half = h] /\ q \in Seq(Symbol)
      BY <3>1, <1>8, <1>9
    <3> QED
      BY <3>2, <1>9 DEF Reader
  <2>2. /\ y.mode = "tls" /\ y.pc = x.pc /\ y.unpad = x.unpad /\ y.outer = <<>>
        /\ y.half = h /\ y.pend = q /\ y.out = x.out /\ y.cause = x.cause
    BY <1>9 DEF Reader
  <2> QED
    BY <2>1, <2>2
<1>11. At(y, f)
  BY <1>3, <1>8, <1>10, <1>14 DEF At, ReaderStage
<1>12. y.outer \o b = b
  BY <1>10, ConcatEmptySeq
<1>13. Handled(x, y, b, u)
  BY <1>2, <1>10, <1>11, <1>12 DEF Handled
<1> QED
  BY <1>6, <1>13

(* handle_padded_bytes: the reader goes on as the writer did. *)
LEMMA HandlesPadded ==
    ASSUME NEW r \in Reader, r.mode = "padding", r.pc \in {"read", "records"},
           r.unpad.st \in Padded4,
           NEW d \in Seq(Symbol), NEW s, s.ph = r.unpad.st,
           s.cmd = r.unpad.cmd, s.left = r.unpad.left, Ran(r.out, r.pend, s.pos),
           NEW v, Path(SymRel, s, d, v), NEW e \in Station, Open(e) = v, e.half <=> r.half,
           e.ph = "direct" => ~e.half, r.half => r.outer = <<>>,
           NEW b \in Seq(Token), NEW u, Path(TokRel, e, r.outer \o b, u)
    PROVE  Handled(r, HandlePadded(r, d), b, u)
<1> DEFINE w == Unpad(r.unpad, d)
           p == r.pend \o w.content
           x == Unpadded(r, w, p)
           more == From(r.outer, Whole(r.outer) + 1)
           t == HandlePadded(r, d)
           yd == [x EXCEPT !.pend = @ \o r.outer, !.outer = <<>>, !.mode = "direct"]
           yt == [x EXCEPT !.pend = @ \o Opened(r.outer), !.outer = <<>>, !.mode = "tls",
                           !.half = @ \/ more # <<>>]
<1>1. /\ x \in Reader /\ x.mode = r.mode /\ x.pc = r.pc /\ x.unpad = w /\ x.outer = r.outer
      /\ x.half = r.half /\ x.pend = p /\ x.out = r.out /\ x.cause = r.cause
      /\ w \in Unpadder /\ UnpadAt(w, v) /\ Ran(x.out, x.pend, v.pos)
  <2> HIDE DEF w, p, x
  <2>1. w = Unpad(r.unpad, d) /\ p = r.pend \o w.content /\ x = Unpadded(r, w, p)
    BY DEF w, p, x
  <2>2. UnpaddedTo(r, x, w, p, v)
    BY <2>1, UnpadsOn
  <2> QED
    BY <2>2 DEF UnpaddedTo
<1>2. e.ph = v.ph /\ e.cmd = v.cmd /\ e.left = v.left /\ e.pos = v.pos
  BY OpenIs
<1>3. t = CASE w.st = "bad" -> ReadFails(r, IF r.unpad.st = "done" THEN "twice" ELSE "desync")
            [] w.st = "done" /\ w.cmd = "direct" -> yd
            [] w.st = "done" /\ w.cmd = "tls" ->
                 IF OuterNext(more) # "need" THEN ReadFails(r, "desync") ELSE yt
            [] OTHER -> x
  BY DEF HandlePadded, Unpadded
<1>4. w.st # "bad"
  BY <1>1 DEF Unpadder, Stage
<1> HIDE DEF w, p, x, more, t, yd, yt
<1>5. CASE v.ph = "direct"
  <2>1. w.st = "done" /\ w.cmd = "direct"
    BY <1>1, <1>5 DEF UnpadAt
  <2>2. t = yd
    BY <1>3, <2>1
  <2>3. yd = [x EXCEPT !.pend = @ \o x.outer, !.outer = <<>>, !.mode = "direct"]
    BY <1>1 DEF yd
  <2>4. e.ph = "direct" /\ ~e.half /\ ~x.half /\ x.unpad.st = "done" /\ Ran(x.out, x.pend, e.pos)
    BY <1>1, <1>2, <1>5, <2>1
  <2>5. Path(TokRel, e, x.outer \o b, u) /\ x \in Reader /\ x.pc \in {"read", "records"}
    BY <1>1
  <2>6. Handled(x, t, b, u)
    BY <2>2, <2>3, <2>4, <2>5, GoesDirect
  <2> QED
    BY <2>6, <1>1 DEF Handled, t
<1>6. CASE v.ph = "tls"
  <2>1. w.st = "done" /\ w.cmd = "tls"
    BY <1>1, <1>6 DEF UnpadAt
  <2>3. yt = [x EXCEPT !.pend = @ \o Opened(x.outer), !.outer = <<>>, !.mode = "tls",
                       !.half = @ \/ more # <<>>] /\ more = From(x.outer, Whole(x.outer) + 1)
    BY <1>1 DEF yt, more
  <2>4. /\ e.ph = "tls" /\ (e.half <=> x.half) /\ x.unpad.st = "done" /\ Ran(x.out, x.pend, e.pos)
        /\ (x.half => x.outer = <<>>)
    BY <1>1, <1>2, <1>6, <2>1
  <2>5. Path(TokRel, e, x.outer \o b, u) /\ x \in Reader /\ x.pc \in {"read", "records"}
    BY <1>1
  <2>6. OuterNext(more) = "need" /\ Handled(x, yt, b, u)
    BY <2>3, <2>4, <2>5, GoesTls
  <2>7. t = yt
    BY <1>3, <2>1, <2>6
  <2> QED
    BY <2>6, <2>7, <1>1 DEF Handled, t
<1>7. CASE v.ph \in Padded4
  <2>1. w.st = v.ph /\ w.st # "done" /\ w.cmd = v.cmd /\ w.left = v.left
    BY <1>1, <1>7 DEF UnpadAt, Padded4
  <2>2. t = x
    BY <1>3, <1>4, <2>1
  <2>3. At(x, e)
    BY <1>1, <1>2, <2>1 DEF At, ReaderStage
  <2>4. Path(TokRel, e, x.outer \o b, u)
    BY <1>1
  <2> QED
    BY <1>1, <1>7, <2>1, <2>2, <2>3, <2>4 DEF Handled, t
<1> QED
  BY <1>1, <1>5, <1>6, <1>7 DEF UnpadAt, Padded4

(* What a step of the reader comes to: with q on the way to it, up to u. *)
Reads(r, q, u) ==
    /\ ReaderFacts(r)
    /\ r.pc # "failed" => \E s \in Station : At(r, s) /\ Path(TokRel, s, r.outer \o q, u)

(* A reader that has failed reads nothing any more. *)
LEMMA FailedReads ==
    ASSUME NEW r \in Reader, NEW why \in {"cut", "twice", "overread"}, NEW q, NEW u
    PROVE  Reads(ReadFails(r, why), q, u)
BY FailedFacts DEF Reads

(* Three sequences. *)
LEMMA Joined == \A S : \A a, p, q \in Seq(S) : (a \o p) \o q = a \o (p \o q)
BY ConcatAssociative

(* poll_read hands out what is pending. *)
LEMMA DeliverReads ==
    ASSUME NEW q \in Seq(Token), NEW u, Reads(rdr, q, u), Deliver
    PROVE  Reads(rdr', q, u)
<1>1. rdr.pc = "read" /\ rdr \in Reader
  BY DEF Deliver, Reads, ReaderFacts
<1>2. PICK n \in 1..Len(rdr.pend) :
         rdr' = [rdr EXCEPT !.out = @ \o SubSeq(rdr.pend, 1, n), !.pend = From(@, n + 1)]
  BY DEF Deliver
<1>3. PICK s \in Station : At(rdr, s) /\ Path(TokRel, s, rdr.outer \o q, u)
  BY <1>1 DEF Reads
<1>4. rdr.pend \in Seq(Symbol) /\ rdr.out \in Seq(Symbol)
  BY <1>1, ReaderIs
<1> DEFINE a == rdr.out
           p == rdr.pend
           c == SubSeq(p, 1, n)
           e == From(p, n + 1)
           o == a \o c
           y == rdr'
<1>5. a \in Seq(Symbol) /\ p \in Seq(Symbol) /\ n \in 0..Len(p)
  BY <1>4, LenProperties
<1>6. y = [rdr EXCEPT !.out = o, !.pend = e]
  BY <1>2
<1> HIDE DEF a, p
<1>7. c \in Seq(Symbol) /\ e \in Seq(Symbol) /\ c \o e = p
  BY <1>5, CutAll
<1> HIDE DEF c, e
<1>8. o \in Seq(Symbol) /\ o \o e = a \o p
  <2>1. a \o c \in Seq(Symbol)
    BY <1>5, <1>7, ConcatProperties
  <2>2. a \in Seq(Symbol) /\ c \in Seq(Symbol) /\ e \in Seq(Symbol)
    BY <1>5, <1>7
  <2>3. (a \o c) \o e = a \o (c \o e)
    BY <2>2, JoinedTwice, Zenon
  <2>4. c \o e = p
    BY <1>7
  <2> QED
    BY <2>1, <2>3, <2>4, Zenon
<1> HIDE DEF o, y
<1>9. /\ y \in Reader /\ y.mode = rdr.mode /\ y.pc = rdr.pc /\ y.unpad = rdr.unpad
      /\ y.outer = rdr.outer
      /\ y.half = rdr.half /\ y.out = o /\ y.pend = e
  <2>1. y \in Reader
    BY <1>1, <1>6, <1>7, <1>8 DEF Reader
  <2>2. /\ y.mode = rdr.mode /\ y.pc = rdr.pc /\ y.unpad = rdr.unpad /\ y.outer = rdr.outer
        /\ y.half = rdr.half /\ y.out = o /\ y.pend = e
    BY <1>1, <1>6 DEF Reader
  <2> QED
    BY <2>1, <2>2
<1>10. Ran(y.out, y.pend, s.pos)
  <2>1. Ran(a, p, s.pos)
    BY <1>3 DEF At, a, p
  <2> QED
    BY <2>1, <1>8, <1>9 DEF Ran
<1>11. At(y, s)
  BY <1>3, <1>9, <1>10 DEF At, ReaderStage
<1>12. ReaderFacts(rdr)
  BY DEF Reads
<1>13. ReaderFacts(y)
  BY <1>1, <1>9, <1>12 DEF ReaderFacts
<1>14. Reads(y, q, u)
  BY <1>3, <1>9, <1>11, <1>13 DEF Reads
<1> QED
  BY <1>14 DEF y

(* A read of TCP, in each mode. *)
LEMMA PaddingReads ==
    ASSUME NEW r, NEW toks \in Seq(Token), NEW q \in Seq(Token), NEW u, Reads(r, toks \o q, u),
           r.pc = "read", r.mode = "padding"
    PROVE  Reads(ReadPadding(r, toks), q, u)
<1>1. r \in Reader /\ ReaderFacts(r)
  BY DEF Reads, ReaderFacts
<1>2. PICK s \in Station : At(r, s) /\ Path(TokRel, s, r.outer \o (toks \o q), u)
  BY DEF Reads
<1> DEFINE a == r.outer
           o == a \o toks
           y == ReadPadding(r, toks)
<1>3. a \in Seq(Token)
  BY <1>1, ReaderIs
<1>4. y = [r EXCEPT !.outer = o, !.pc = "records"]
  BY DEF ReadPadding
<1> HIDE DEF a
<1>5. o \in Seq(Token) /\ o \o q = a \o (toks \o q)
  BY <1>3, Joined, ConcatProperties
<1> HIDE DEF o, y
<1>6. /\ y \in Reader /\ y.mode = r.mode /\ y.pc = "records" /\ y.unpad = r.unpad /\ y.outer = o
      /\ y.half = r.half /\ y.out = r.out /\ y.pend = r.pend
  <2>1. y \in Reader
    BY <1>1, <1>4, <1>5 DEF Reader
  <2>2. /\ y.mode = r.mode /\ y.pc = "records" /\ y.unpad = r.unpad /\ y.outer = o
        /\ y.half = r.half /\ y.out = r.out /\ y.pend = r.pend
    BY <1>1, <1>4 DEF Reader
  <2> QED
    BY <2>1, <2>2
<1>7. At(y, s)
  BY <1>2, <1>6 DEF At, ReaderStage
<1>8. ReaderFacts(y)
  BY <1>1, <1>6 DEF ReaderFacts
<1>9. Path(TokRel, s, y.outer \o q, u)
  BY <1>2, <1>5, <1>6 DEF a
<1>10. Reads(y, q, u)
  BY <1>7, <1>8, <1>9 DEF Reads
<1> QED
  BY <1>10 DEF y

(* ... in TLS mode, *)
LEMMA TlsReads ==
    ASSUME NEW r, NEW toks \in Seq(Token), NEW q \in Seq(Token), NEW u, Reads(r, toks \o q, u),
           r.pc = "read", r.mode = "tls"
    PROVE  Reads(ReadTls(r, toks), q, u)
<1>1. r \in Reader /\ ReaderFacts(r) /\ r.outer = <<>>
  BY DEF Reads, ReaderFacts
<1>2. PICK s \in Station : At(r, s) /\ Path(TokRel, s, r.outer \o (toks \o q), u)
  BY DEF Reads
<1>3. r.outer \o (toks \o q) = toks \o q
  <2>1. toks \o q \in Seq(Token)
    BY ConcatProperties
  <2> QED
    BY <1>1, <2>1, ConcatEmptySeq
<1>4. PICK f \in Station : Path(TokRel, s, toks, f) /\ Path(TokRel, f, q, u)
  BY <1>2, <1>3, PathSplit
<1>5. s.ph = "tls" /\ (s.half <=> r.half) /\ Ran(r.out, r.pend, s.pos)
  BY <1>2 DEF At, ReaderStage
<1> DEFINE all == IF r.half THEN <<Half>> \o toks ELSE toks
           k == Whole(all)
           h == (k < Len(all))
           o == Opened(toks)
           p == r.pend \o o
           y == ReadTls(r, toks)
<1>6. all = AllOf(s.half, toks)
  BY <1>5 DEF AllOf
<1> HIDE DEF all
<1>7. /\ f.ph = "tls" /\ s.pos <= f.pos /\ o = PieceRun(s.pos + 1, f.pos)
      /\ From(all, k + 1) = (IF f.half THEN <<Half>> ELSE <<>>) /\ (h <=> f.half)
  BY <1>4, <1>5, <1>6, TlsTokens
<1>8. From(all, k + 1) \in {<<>>, <<Half>>}
  BY <1>7
<1>9. y = [r EXCEPT !.pend = p, !.half = h]
  BY <1>8 DEF ReadTls, all
<1>10. h \in BOOLEAN
  OBVIOUS
<1>11. o \in Seq(Symbol) /\ r.pend \in Seq(Symbol) /\ r.out \in Seq(Symbol) /\ s.pos \in Nat /\ f.pos \in Nat
  BY <1>1, OpenedSeq, ReaderIs, StationIs
<1> HIDE DEF h, y, k, o
<1>12. Ran(r.out, p, f.pos) /\ p \in Seq(Symbol)
  <2> DEFINE a == r.out
             c == r.pend
             i == s.pos
             j == f.pos
  <2>1. /\ a \in Seq(Symbol) /\ c \in Seq(Symbol) /\ o \in Seq(Symbol) /\ i \in Nat
        /\ j \in Nat /\ i <= j
        /\ Ran(a, c, i) /\ o = PieceRun(i + 1, j) /\ p = c \o o
    BY <1>5, <1>7, <1>11
  <2> HIDE DEF a, c, i, j, p
  <2>2. Ran(a, p, j) /\ p \in Seq(Symbol)
    BY <2>1, RunGrows
  <2> QED
    BY <2>2 DEF a, j
<1> HIDE DEF p
<1>13. /\ y \in Reader /\ y.mode = r.mode /\ y.pc = r.pc /\ y.unpad = r.unpad /\ y.outer = r.outer
      /\ y.half = h /\ y.out = r.out /\ y.pend = p
  <2>1. y \in Reader
    BY <1>1, <1>9, <1>10, <1>12 DEF Reader
  <2>2. /\ y.mode = r.mode /\ y.pc = r.pc /\ y.unpad = r.unpad /\ y.outer = r.outer
        /\ y.half = h /\ y.out = r.out /\ y.pend = p
    BY <1>1, <1>9 DEF Reader
  <2> QED
    BY <2>1, <2>2
<1>14. At(y, f)
  BY <1>7, <1>12, <1>13 DEF At, ReaderStage
<1>15. ReaderFacts(y)
  BY <1>1, <1>13 DEF ReaderFacts
<1>16. y.outer \o q = q
  BY <1>1, <1>13, ConcatEmptySeq
<1>17. Reads(y, q, u)
  BY <1>4, <1>14, <1>15, <1>16 DEF Reads
<1> QED
  BY <1>17 DEF y

(* ... and in direct mode. *)
LEMMA DirectReads ==
    ASSUME NEW r, NEW toks \in Seq(Token), NEW q \in Seq(Token), NEW u, Reads(r, toks \o q, u),
           r.pc = "read", r.mode = "direct", r.pend = <<>>, NEW y, y = [r EXCEPT !.out = @ \o toks]
    PROVE  Reads(y, q, u)
<1>1. r \in Reader /\ ReaderFacts(r) /\ r.outer = <<>>
  BY DEF Reads, ReaderFacts
<1>2. PICK s \in Station : At(r, s) /\ Path(TokRel, s, r.outer \o (toks \o q), u)
  BY DEF Reads
<1>3. r.outer \o (toks \o q) = toks \o q
  <2>1. toks \o q \in Seq(Token)
    BY ConcatProperties
  <2> QED
    BY <1>1, <2>1, ConcatEmptySeq
<1>4. PICK f \in Station : Path(TokRel, s, toks, f) /\ Path(TokRel, f, q, u)
  BY <1>2, <1>3, PathSplit
<1>5. s.ph = "direct" /\ (s.half <=> r.half) /\ Ran(r.out, r.pend, s.pos)
  BY <1>2 DEF At, ReaderStage
<1>6. /\ f.ph = "direct" /\ f.half = s.half /\ toks = PieceRun(s.pos + 1, f.pos) /\ s.pos <= f.pos
  BY <1>4, <1>5, DirectRun, WayPieces
<1>7. s.pos \in Nat /\ f.pos \in Nat /\ r.out \in Seq(Symbol)
  BY <1>1, ReaderIs, StationIs
<1>8. toks \in Seq(Symbol)
  <2> DEFINE l == s.pos + 1
             h == f.pos
  <2>1. l \in Nat /\ h \in Nat /\ l <= h + 1 /\ l # 0
    BY <1>6, <1>7
  <2> HIDE DEF l, h
  <2>2. PieceRun(l, h) \in Seq(Symbol)
    BY <2>1, RunIs
  <2> QED
    BY <2>2, <1>6 DEF l, h
<1> DEFINE o == r.out \o toks
<1>9. o \in Seq(Symbol)
  BY <1>7, <1>8, ConcatProperties
<1>10. Ran(o, <<>>, f.pos)
  <2>1. r.out \o <<>> = r.out /\ o \o <<>> = o
    BY <1>7, <1>9, ConcatEmptySeq
  <2>2. r.out = PieceRun(1, s.pos)
    BY <2>1, <1>5 DEF Ran
  <2>3. 1 \in Nat /\ 1 # 0 /\ 1 <= s.pos + 1
    BY <1>7
  <2>4. PieceRun(1, s.pos) \o PieceRun(s.pos + 1, f.pos) = PieceRun(1, f.pos)
    BY <2>3, <1>6, <1>7, RunConcat
  <2> QED
    BY <2>1, <2>2, <2>4, <1>6 DEF Ran
<1> HIDE DEF o
<1>11. /\ y \in Reader /\ y.mode = r.mode /\ y.pc = r.pc /\ y.unpad = r.unpad /\ y.outer = r.outer
       /\ y.half = r.half /\ y.out = o /\ y.pend = r.pend
  <2>0. y = [r EXCEPT !.out = o]
    BY DEF o
  <2>1. y \in Reader
    BY <1>1, <1>9, <2>0 DEF Reader
  <2>2. /\ y.mode = r.mode /\ y.pc = r.pc /\ y.unpad = r.unpad /\ y.outer = r.outer
        /\ y.half = r.half /\ y.out = o /\ y.pend = r.pend
    BY <1>1, <2>0 DEF Reader
  <2> QED
    BY <2>1, <2>2
<1>12. At(y, f)
  BY <1>5, <1>6, <1>10, <1>11 DEF At, ReaderStage
<1>13. ReaderFacts(y)
  BY <1>1, <1>11 DEF ReaderFacts
<1>14. y.outer \o q = q
  BY <1>1, <1>11, ConcatEmptySeq
<1> QED
  BY <1>4, <1>12, <1>13, <1>14 DEF Reads

(* The first step of a path of tokens. *)
LEMMA FirstToken ==
    ASSUME NEW a \in Seq(Token), a # <<>>, NEW q \in Seq(Token), NEW s, NEW u, Path(TokRel, s, a \o q, u)
    PROVE  /\ Tail(a) \in Seq(Token)
           /\ \E m \in Station : <<s, a[1], m>> \in TokRel /\ Path(TokRel, m, Tail(a) \o q, u)
<1>1. PICK f \in Station : Path(TokRel, s, a, f) /\ Path(TokRel, f, q, u)
  BY PathSplit
<1>2. Len(a) # 0 /\ Tail(a) \in Seq(Token)
  BY EmptySeq, HeadTailProperties
<1>3. PICK m \in Station : <<s, a[1], m>> \in TokRel /\ Path(TokRel, m, Tail(a), f)
  BY <1>1, <1>2, PathFirst
<1>4. Path(TokRel, m, Tail(a) \o q, u)
  BY <1>1, <1>2, <1>3, PathJoin
<1> QED
  BY <1>2, <1>3, <1>4

(* A sequence without its first two members. *)
LEMMA TailTwice ==
    ASSUME NEW S, NEW a \in Seq(S), Len(a) >= 2
    PROVE  Tail(a) # <<>> /\ Tail(a)[1] = a[2] /\ Tail(Tail(a)) = From(a, 3) /\ From(a, 3) \in Seq(S)
<1> DEFINE N == Len(a)
           b == Tail(a)
           c == Tail(b)
           d == From(a, 3)
<1>0. a # <<>> /\ N \in Nat /\ N >= 2
  BY EmptySeq, LenProperties
<1>1. b \in Seq(S) /\ Len(b) = N - 1 /\ \A i \in 1..(N - 1) : b[i] = a[i + 1]
  BY <1>0, HeadTailProperties
<1> HIDE DEF b, N
<1>2. b # <<>> /\ b[1] = a[2]
  <2>1. Len(b) # 0 /\ 1 \in 1..(N - 1)
    BY <1>0, <1>1
  <2>2. b[1] = a[1 + 1]
    BY <1>1, <2>1
  <2> QED
    BY <1>1, <2>1, <2>2, EmptySeq
<1>3. c \in Seq(S) /\ Len(c) = Len(b) - 1 /\ \A i \in 1..(Len(b) - 1) : c[i] = b[i + 1]
  BY <1>1, <1>2, HeadTailProperties
<1>4. d \in Seq(S) /\ Len(d) = N - 2 /\ \A i \in 1..(N - 2) : d[i] = a[2 + i]
  <2>1. 2 \in 0..Len(a)
    BY <1>0 DEF N
  <2>2. d = From(a, 2 + 1)
    OBVIOUS
  <2> HIDE DEF d
  <2> QED
    BY <2>1, <2>2, CutAll DEF N
<1> HIDE DEF c, d
<1>5. ASSUME NEW i \in 1..(N - 2) PROVE c[i] = d[i]
  <2>1. i \in 1..(Len(b) - 1) /\ i + 1 \in 1..(N - 1) /\ (i + 1) + 1 = 2 + i
    BY <1>0, <1>1
  <2>2. c[i] = b[i + 1] /\ b[i + 1] = a[(i + 1) + 1]
    BY <2>1, <1>1, <1>3
  <2> QED
    BY <2>1, <2>2, <1>4
<1>6. Len(c) = N - 2
  BY <1>0, <1>1, <1>3
<1>7. c = d
  BY <1>3, <1>4, <1>5, <1>6, SeqEqual
<1> QED
  BY <1>2, <1>4, <1>7 DEF b, c, d

(* A single half of a record. *)
LEMMA OneHalf ==
    ASSUME NEW a \in Seq(Token), a[1] = Half, Len(a) = 1
    PROVE  a = <<Half>>
<1>1. <<Half>> \in Seq(Token) /\ Len(<<Half>>) = 1 /\ <<Half>>[1] = Half
  BY Kinds
<1>2. \A i \in 1..1 : i = 1
  OBVIOUS
<1> QED
  BY <1>1, <1>2, SeqEqual

(* In TLS, the deframer waits in front of a record or in it. *)
LEMMA NeedIs ==
    ASSUME NEW a \in Seq(Token), NEW q \in Seq(Token), NEW s, NEW u, Path(TokRel, s, a \o q, u),
           s.ph # "direct", OuterNext(a) = "need"
    PROVE  a \in {<<>>, <<Half>>} /\ (s.half => a = <<>>)
<1> SUFFICES ASSUME a # <<>> PROVE a = <<Half>> /\ ~s.half
  OBVIOUS
<1>1. PICK m \in Station : <<s, a[1], m>> \in TokRel
  BY FirstToken
<1>2. IsHalf(s, a[1], m) \/ IsRest(s, a[1], m)
  BY <1>1, TokStep DEF IsPiece
<1>3. CASE IsHalf(s, a[1], m)
  BY <1>3 DEF IsHalf, OuterNext
<1>4. CASE IsRest(s, a[1], m)
  <2>1. a[1][1] = "rest"
    BY <1>4 DEF IsRest
  <2>2. a # <<Half>> /\ a[1] # Half /\ a[1][1] # "piece"
    <3>1. <<Half>>[1] = Half /\ Half[1] = "half"
      BY Tags
    <3> QED
      BY <2>1, <3>1
  <2> QED
    BY <2>2 DEF OuterNext
<1> QED
  BY <1>2, <1>3, <1>4

(* Otherwise there is a record, unless the deframer starts inside one. *)
LEMMA RecordIs ==
    ASSUME NEW a \in Seq(Token), NEW q \in Seq(Token), NEW s, NEW u, Path(TokRel, s, a \o q, u),
           s.ph # "direct", OuterNext(a) # "need"
    PROVE  /\ OuterNext(a) = "record" => ~s.half
           /\ ~s.half => /\ OuterNext(a) = "record" /\ a[2][2] \in Seq(Symbol) /\ a[2][2] # <<>>
                         /\ From(a, 3) \in Seq(Token)
                         /\ \E m \in Station : /\ ~m.half /\ Path(SymRel, s, a[2][2], m)
                                               /\ Path(TokRel, m, From(a, 3) \o q, u)
<1>1. a # <<>> /\ a # <<Half>>
  BY DEF OuterNext
<1>2. Tail(a) \in Seq(Token)
  BY <1>1, FirstToken
<1>3. PICK m \in Station : <<s, a[1], m>> \in TokRel /\ Path(TokRel, m, Tail(a) \o q, u)
  BY <1>1, FirstToken
<1>4. s \in Station /\ (IsHalf(s, a[1], m) \/ IsRest(s, a[1], m))
  BY <1>3, TokStep DEF IsPiece
<1>5. OuterNext(a) = "record" => ~s.half
  <2> HAVE OuterNext(a) = "record"
  <2>1. a[1] = Half
    BY <1>1 DEF OuterNext
  <2>2. a[1][1] # "rest"
    BY <2>1, Tags
  <2> QED
    BY <1>4, <2>2 DEF IsHalf, IsRest
<1>6. ASSUME ~s.half
      PROVE  /\ OuterNext(a) = "record" /\ a[2][2] \in Seq(Symbol) /\ a[2][2] # <<>>
             /\ From(a, 3) \in Seq(Token)
             /\ \E n \in Station : /\ ~n.half /\ Path(SymRel, s, a[2][2], n)
                                   /\ Path(TokRel, n, From(a, 3) \o q, u)
  <2>1. IsHalf(s, a[1], m)
    BY <1>4, <1>6 DEF IsRest
  <2>2. a[1] = Half /\ m.half /\ m.ph = s.ph /\ m.cmd = s.cmd /\ m.left = s.left /\ m.pos = s.pos
    BY <2>1 DEF IsHalf
  <2>3. Len(a) >= 2
    <3>1. Len(a) \in Nat /\ Len(a) # 0
      BY <1>1, EmptySeq, LenProperties
    <3>2. Len(a) # 1
      BY <1>1, <2>2, OneHalf
    <3>3. \A n \in Nat : n # 0 /\ n # 1 => n >= 2
      OBVIOUS
    <3> QED
      BY <3>1, <3>2, <3>3, Zenon
  <2>4. Tail(a) # <<>> /\ Tail(a)[1] = a[2] /\ Tail(Tail(a)) = From(a, 3) /\ From(a, 3) \in Seq(Token)
    BY <2>3, TailTwice
  <2>5. PICK n \in Station : <<m, Tail(a)[1], n>> \in TokRel /\ Path(TokRel, n, Tail(Tail(a)) \o q, u)
    BY <1>2, <1>3, <2>4, FirstToken
  <2>6. IsRest(m, a[2], n)
    <3>1. IsHalf(m, a[2], n) \/ IsRest(m, a[2], n) \/ IsPiece(m, a[2], n)
      BY <2>4, <2>5, TokStep
    <3> QED
      BY <3>1, <2>2 DEF IsHalf, IsPiece
  <2>7. /\ a[2][1] = "rest" /\ a[2][2] \in Seq(Symbol) /\ a[2][2] # <<>> /\ ~n.half
        /\ Path(SymRel, Open(m), a[2][2], n)
    BY <2>6 DEF IsRest
  <2>8. Open(m) = s
    <3>1. /\ Open(m).ph = s.ph /\ Open(m).cmd = s.cmd /\ Open(m).left = s.left
          /\ Open(m).pos = s.pos
          /\ Open(m).half = FALSE
      BY <2>2, OpenIs
    <3>2. s.half = FALSE /\ Open(m) \in Station
      BY <1>4, <1>6, StationIs
    <3> QED
      BY <3>1, <3>2, <1>4, StationIs
  <2>9. OuterNext(a) = "record"
    BY <1>1, <2>2, <2>7 DEF OuterNext
  <2> QED
    BY <2>4, <2>5, <2>7, <2>8, <2>9
<1> QED
  BY <1>5, <1>6

(* x and y differ in what they do next only. *)
SameReader(x, y) ==
    /\ y.mode = x.mode /\ y.unpad = x.unpad /\ y.outer = x.outer /\ y.half = x.half
    /\ y.pend = x.pend /\ y.out = x.out

(* A reader that has handled padded bytes goes on. *)
LEMMA Settles ==
    ASSUME NEW r, NEW x, NEW b, NEW u, Handled(r, x, b, u), r.pc \in {"read", "records"},
           NEW y \in Reader, SameReader(x, y), y.pc \in {"read", "records"},
           y.pc = "records" => y.mode = "padding",
           y.pc = "read" /\ y.mode = "padding" =>
             y.outer \in {<<>>, <<Half>>} /\ (y.half => y.outer = <<>>)
    PROVE  Reads(y, b, u)
<1>1. PICK v \in Station : At(x, v) /\ Path(TokRel, v, x.outer \o b, u)
  BY DEF Handled
<1>2. At(y, v)
  <2>1. ReaderStage(y) = ReaderStage(x)
    BY DEF SameReader, ReaderStage, Handled
  <2> QED
    BY <2>1, <1>1 DEF At, SameReader
<1>3. Path(TokRel, v, y.outer \o b, u)
  BY <1>1 DEF SameReader
<1>4. ReaderFacts(y)
  <2>1. y.mode # "padding" => y.outer = <<>> /\ y.unpad.st = "done"
    BY DEF Handled, SameReader
  <2>2. y.mode = "padding" => y.unpad.st \in Padded4
    BY DEF Handled, SameReader
  <2> QED
    BY <2>1, <2>2 DEF ReaderFacts
<1> QED
  BY <1>2, <1>3, <1>4 DEF Reads

(* poll_read_padding_tls takes a record. *)
LEMMA TakeRecordReads ==
    ASSUME NEW q \in Seq(Token), NEW u, Reads(rdr, q, u), TakeRecord
    PROVE  Reads(rdr', q, u)
<1>1. rdr.pc = "records" /\ rdr \in Reader /\ rdr.mode = "padding" /\ rdr.unpad.st \in Padded4 /\ ReaderFacts(rdr)
  BY DEF TakeRecord, Reads, ReaderFacts
<1>2. PICK s \in Station : At(rdr, s) /\ Path(TokRel, s, rdr.outer \o q, u)
  BY <1>1 DEF Reads
<1>3. s.ph = rdr.unpad.st /\ s.ph # "direct" /\ (s.half <=> rdr.half)
  BY <1>1, <1>2 DEF At, ReaderStage, Padded4
<1>4. s.cmd = rdr.unpad.cmd /\ s.left = rdr.unpad.left /\ Ran(rdr.out, rdr.pend, s.pos)
  BY <1>1, <1>2 DEF At
<1>5. rdr.outer \in Seq(Token)
  BY <1>1, ReaderIs
<1>6. CASE OuterNext(rdr.outer) = "need"
  <2> DEFINE y == rdr'
  <2>1. y = [rdr EXCEPT !.pc = "read"]
    BY <1>6 DEF TakeRecord
  <2>2. rdr.outer \in {<<>>, <<Half>>} /\ (s.half => rdr.outer = <<>>)
    BY <1>2, <1>3, <1>5, <1>6, NeedIs
  <2> HIDE DEF y
  <2>3. y \in Reader /\ SameReader(rdr, y) /\ y.pc = "read"
    BY <1>1, <2>1 DEF Reader, SameReader
  <2>4. At(y, s)
    BY <1>1, <1>2, <2>3 DEF At, SameReader, ReaderStage
  <2>5. ReaderFacts(y)
    BY <1>1, <1>3, <2>2, <2>3 DEF ReaderFacts, SameReader
  <2>6. Reads(y, q, u)
    BY <1>2, <2>3, <2>4, <2>5 DEF Reads, SameReader
  <2> QED
    BY <2>6 DEF y
<1>7. CASE OuterNext(rdr.outer) = "record"
  <2> DEFINE o == From(rdr.outer, 3)
             r == [rdr EXCEPT !.outer = o]
             d == rdr.outer[2][2]
             x == HandlePadded(r, d)
             y == rdr'
  <2>1. ~s.half /\ d \in Seq(Symbol) /\ o \in Seq(Token)
    BY <1>2, <1>3, <1>5, <1>7, RecordIs
  <2>2. PICK m \in Station : ~m.half /\ Path(SymRel, s, d, m) /\ Path(TokRel, m, o \o q, u)
    BY <1>2, <1>3, <1>5, <1>7, RecordIs
  <2>3. y = IF x.pc # "failed" /\ x.mode # "padding" THEN [x EXCEPT !.pc = "read"] ELSE x
    BY <1>7 DEF TakeRecord
  <2>4. r \in Reader /\ r.outer = o /\ r.pc = "records" /\ r.half = rdr.half
    <3> HIDE DEF o
    <3>1. r \in Reader
      BY <1>1, <2>1 DEF Reader
    <3>2. r.outer = o /\ r.pc = "records" /\ r.half = rdr.half
      BY <1>1 DEF Reader
    <3> QED
      BY <3>1, <3>2
  <2>5. r.mode = "padding" /\ r.unpad = rdr.unpad /\ r.out = rdr.out /\ r.pend = rdr.pend
    BY <1>1 DEF Reader
  <2> HIDE DEF r, d, o, y, x
  <2>6. Open(m) = m
    BY <2>2, OpenSame
  <2>7. ~r.half /\ Path(TokRel, m, r.outer \o q, u)
    BY <1>3, <2>1, <2>2, <2>4
  <2>8. Handled(r, HandlePadded(r, d), q, u)
    <3>1. /\ r \in Reader /\ r.mode = "padding" /\ r.pc \in {"read", "records"}
          /\ r.unpad.st \in Padded4
          /\ s.ph = r.unpad.st /\ s.cmd = r.unpad.cmd /\ s.left = r.unpad.left
          /\ Ran(r.out, r.pend, s.pos)
      BY <1>1, <1>3, <1>4, <2>4, <2>5
    <3>2. /\ m \in Station /\ (m.half <=> r.half) /\ (m.ph = "direct" => ~m.half) /\ (r.half => r.outer = <<>>)
      BY <2>2, <2>7
    <3> QED
      BY <3>1, <3>2, <2>1, <2>2, <2>6, <2>7, HandlesPadded
  <2>9. Handled(r, x, q, u)
    BY <2>8 DEF x
  <2>10. x \in Reader /\ x.pc = "records"
    BY <2>4, <2>9 DEF Handled
  <2>11. y \in Reader /\ SameReader(x, y) /\ y.pc = (IF x.mode = "padding" THEN "records" ELSE "read")
    <3>1. CASE x.mode = "padding"
      BY <2>3, <2>10, <3>1 DEF SameReader
    <3>2. CASE x.mode # "padding"
      <4>1. y = [x EXCEPT !.pc = "read"]
        BY <2>3, <2>10, <3>2
      <4> QED
        BY <2>10, <3>2, <4>1 DEF SameReader, Reader
    <3> QED
      BY <3>1, <3>2
  <2>12. (y.pc = "records" => y.mode = "padding") /\ ~(y.pc = "read" /\ y.mode = "padding")
    BY <2>11 DEF SameReader
  <2>13. Reads(y, q, u)
    BY <2>4, <2>9, <2>11, <2>12, Settles
  <2> QED
    BY <2>13 DEF y
<1>8. CASE OuterNext(rdr.outer) \notin {"need", "record"}
  <2>1. rdr.half
    BY <1>2, <1>3, <1>5, <1>8, RecordIs
  <2>2. rdr' = ReadFails(rdr, IF rdr.half THEN "cut" ELSE "desync")
    BY <1>8 DEF TakeRecord
  <2>3. rdr' = ReadFails(rdr, "cut")
    BY <2>1, <2>2
  <2> QED
    BY <2>3, <1>1, FailedReads
<1> QED
  BY <1>6, <1>7, <1>8

(* Three sequences of tokens. *)
LEMMA TokensJoined == \A a, b, c \in Seq(Token) : (a \o b) \o c = a \o (b \o c)
BY ConcatAssociative

(* poll_read reads TCP. *)
LEMMA ReadTcpReads ==
    ASSUME tcp \in Seq(Token), NEW p \in Seq(Token), NEW u, Reads(rdr, tcp \o p, u), ReadTcp
    PROVE  tcp' \in Seq(Token) /\ Reads(rdr', tcp' \o p, u)
<1>1. rdr.pc = "read" /\ rdr.pend = <<>> /\ rdr \in Reader
  BY DEF ReadTcp, Reads, ReaderFacts
<1>2. PICK n \in 1..Len(tcp) :
          /\ LET toks == SubSeq(tcp, 1, n)
             IN rdr' = CASE rdr.mode = "padding" -> ReadPadding(rdr, toks)
                         [] rdr.mode = "tls" -> ReadTls(rdr, toks)
                         [] rdr.mode = "direct" -> [rdr EXCEPT !.out = @ \o toks]
          /\ tcp' = From(tcp, n + 1)
  BY DEF ReadTcp
<1> DEFINE toks == SubSeq(tcp, 1, n)
           e == From(tcp, n + 1)
           q == e \o p
<1>3. toks \in Seq(Token) /\ e \in Seq(Token) /\ toks \o e = tcp
  <2>1. n \in 0..Len(tcp)
    BY LenProperties
  <2> QED
    BY <2>1, CutAll
<1>4. /\ rdr.mode = "padding" => rdr' = ReadPadding(rdr, toks)
      /\ rdr.mode = "tls" => rdr' = ReadTls(rdr, toks)
      /\ rdr.mode = "direct" => rdr' = [rdr EXCEPT !.out = @ \o toks]
      /\ tcp' = e
  BY <1>2
<1> HIDE DEF toks, e
<1>5. q \in Seq(Token) /\ tcp \o p = toks \o q
  <2>0. toks \in Seq(Token) /\ e \in Seq(Token) /\ p \in Seq(Token)
    BY <1>3
  <2>1. (toks \o e) \o p = toks \o (e \o p)
    BY <2>0, TokensJoined, Zenon
  <2> QED
    BY <2>1, <1>3, ConcatProperties
<1>6. Reads(rdr, toks \o q, u)
  BY <1>5
<1> HIDE DEF q
<1>7. Reads(rdr', q, u)
  <2>1. CASE rdr.mode = "padding"
    BY <1>1, <1>3, <1>4, <1>5, <1>6, <2>1, PaddingReads
  <2>2. CASE rdr.mode = "tls"
    BY <1>1, <1>3, <1>4, <1>5, <1>6, <2>2, TlsReads
  <2>3. CASE rdr.mode = "direct"
    BY <1>1, <1>3, <1>4, <1>5, <1>6, <2>3, DirectReads
  <2> QED
    BY <1>1, <2>1, <2>2, <2>3, ReaderIs
<1> QED
  BY <1>3, <1>4, <1>7 DEF q

(* Behind DIRECT there are no halves of records. *)
LEMMA DirectWhole ==
    ASSUME NEW toks \in Seq(Token), NEW s, NEW t, Path(TokRel, s, toks, t), ~s.half, t.ph = "direct"
    PROVE  ~t.half
<1> DEFINE N == Len(toks)
<1>1. PICK f \in [0..N -> Station] :
         f[0] = s /\ f[N] = t /\ \A n \in 1..N : <<f[n - 1], toks[n], f[n]>> \in TokRel
  BY DEF Path
<1>2. N \in Nat
  BY LenProperties
<1> HIDE DEF N
<1>3. CASE N = 0
  BY <1>1, <1>3
<1>4. CASE N # 0
  <2>1. N \in 1..N
    BY <1>2, <1>4
  <2>2. <<f[N - 1], toks[N], t>> \in TokRel
    BY <2>1, <1>1
  <2>3. IsHalf(f[N - 1], toks[N], t) \/ IsRest(f[N - 1], toks[N], t) \/ IsPiece(f[N - 1], toks[N], t)
    BY <2>2, TokStep
  <2> QED
    BY <2>3 DEF IsHalf, IsRest, IsPiece
<1> QED
  BY <1>3, <1>4

(* The first symbol is the request or the response. *)
LEMMA FirstSymbol ==
    ASSUME NEW d \in Seq(Symbol), Len(d) # 0, NEW s, NEW t, Path(SymRel, s, d, t),
           s.ph \in {"request", "response"}
    PROVE  /\ Tail(d) \in Seq(Symbol)
           /\ \E m \in Station : /\ m.ph = "initial" /\ m.cmd = s.cmd /\ m.left = s.left
                                 /\ m.pos = s.pos /\ ~m.half /\ Path(SymRel, m, Tail(d), t)
<1>1. d # <<>>
  BY EmptySeq
<1>2. Tail(d) \in Seq(Symbol)
  BY <1>1, HeadTailProperties
<1>3. PICK m \in Station : <<s, d[1], m>> \in SymRel /\ Path(SymRel, m, Tail(d), t)
  BY PathFirst
<1>4. ~m.half /\ SymTo(s, d[1], m)
  BY <1>3, SymRelIs
<1>5. m.ph = "initial" /\ m.cmd = s.cmd /\ m.left = s.left /\ m.pos = s.pos
  BY <1>4 DEF SymTo
<1> QED
  BY <1>2, <1>3, <1>4, <1>5

(* The records of the outer TLS at the head of some tokens, and the rest. *)
Parted(toks, k, a, o) == k = Whole(toks) /\ a = SubSeq(toks, 1, k) /\ o = From(toks, k + 1)

(* What complete records hold leads from one station to the next, outside of records. *)
LEMMA WholeReads ==
    ASSUME NEW toks \in Seq(Token), NEW q \in Seq(Token), NEW s \in Station, NEW u,
           Path(TokRel, s, toks \o q, u), ~s.half, NEW k, NEW a, NEW o, Parted(toks, k, a, o)
    PROVE  /\ o \in Seq(Token) /\ Opened(a) \in Seq(Symbol)
           /\ \E m \in Station : ~m.half /\ Path(SymRel, s, Opened(a), m) /\ Path(TokRel, m, o \o q, u)
<1>1. /\ k \in 0..Len(toks) /\ k % 2 = 0
      /\ \A i \in 1..k : IF i % 2 = 1 THEN toks[i] = Half ELSE toks[i][1] = "rest"
  BY WholeIs DEF Parted
<1>2. /\ a \in Seq(Token) /\ o \in Seq(Token) /\ Len(a) = k /\ a \o o = toks
      /\ \A i \in 1..k : a[i] = toks[i]
  BY <1>1, CutAll DEF Parted
<1>3. (a \o o) \o q = a \o (o \o q) /\ o \o q \in Seq(Token)
  <2>1. a \in Seq(Token) /\ o \in Seq(Token) /\ q \in Seq(Token)
    BY <1>2
  <2>2. (a \o o) \o q = a \o (o \o q)
    BY <2>1, TokensJoined
  <2>3. o \o q \in Seq(Token)
    BY <2>1, ConcatProperties
  <2> QED
    BY <2>2, <2>3
<1>4. Path(TokRel, s, a \o (o \o q), u)
  BY <1>2, <1>3
<1>5. PICK m \in Station : Path(TokRel, s, a, m) /\ Path(TokRel, m, o \o q, u)
  BY <1>2, <1>3, <1>4, PathSplit
<1>6. \A i \in 1..Len(a) : a[i][1] # "piece"
  <2> SUFFICES ASSUME NEW i \in 1..k PROVE a[i][1] # "piece"
    BY <1>2
  <2>1. a[i] = Half \/ a[i][1] = "rest"
    BY <1>1, <1>2
  <2> QED
    BY <2>1, Tags
<1>7. Opened(a) \in Seq(Symbol) /\ Path(SymRel, Open(s), Opened(a), Open(m))
  BY <1>2, <1>5, <1>6, OpenedFollows
<1>8. ~m.half
  <2>1. CASE m.ph = "direct"
    BY <2>1, <1>2, <1>5, DirectWhole
  <2>2. CASE m.ph # "direct"
    <3>1. m.half <=> Len(a) % 2 = 1
      BY <2>2, <1>2, <1>5, PathAlternates
    <3> QED
      BY <3>1, <1>1, <1>2
  <2> QED
    BY <2>1, <2>2
<1>9. Open(s) = s /\ Open(m) = m
  BY <1>8, OpenSame
<1> QED
  BY <1>2, <1>5, <1>7, <1>8, <1>9

(* What the client does with the records that came: d is in them, o behind them. *)
Responded(r, d) ==
    IF OuterNext(r.outer) # "need" THEN ReadFails(r, "overread")
    ELSE IF d = <<>> THEN r
    ELSE IF Len(d) = 1 THEN [r EXCEPT !.pc = "read"]
    ELSE HandlePadded([r EXCEPT !.pc = "read"], Tail(d))

(* The reader of a response, which has read nothing behind it. *)
Waits(r) ==
    /\ r \in Reader /\ r.pc = "response" /\ r.mode = "padding" /\ r.unpad.st = "initial" /\ ~r.half
    /\ r.pend = <<>> /\ r.out = <<>>

(* The client goes on behind the response, wherever the server's writer is. *)
LEMMA RespondedReads ==
    ASSUME NEW r, Waits(r), NEW d \in Seq(Symbol), NEW s, At(r, s), NEW m \in Station, ~m.half,
           Path(SymRel, s, d, m), NEW q \in Seq(Token), NEW u, Path(TokRel, m, r.outer \o q, u)
    PROVE  Reads(Responded(r, d), q, u)
<1>1. r \in Reader /\ r.outer \in Seq(Token)
  BY ReaderIs DEF Waits
<1>2. /\ s \in Station /\ s.ph = "response" /\ ~s.half /\ s.cmd = r.unpad.cmd
      /\ s.left = r.unpad.left
      /\ Ran(r.out, r.pend, s.pos)
  BY DEF At, Waits, ReaderStage
<1>3. CASE OuterNext(r.outer) # "need"
  BY <1>1, <1>3, FailedReads DEF Responded
<1>4. ASSUME OuterNext(r.outer) = "need", m.ph # "direct"
      PROVE  r.outer \in {<<>>, <<Half>>}
  BY <1>1, <1>4, NeedIs
<1>5. CASE OuterNext(r.outer) = "need" /\ d = <<>>
  <2>1. m = s
    BY <1>5, SymPieces
  <2>2. r.outer \in {<<>>, <<Half>>}
    BY <2>1, <1>2, <1>4, <1>5
  <2>3. ReaderFacts(r)
    BY <2>2 DEF ReaderFacts, Waits, Padded4
  <2>4. Reads(r, q, u)
    BY <2>1, <2>3 DEF Reads
  <2> QED
    BY <2>4, <1>5 DEF Responded
<1> DEFINE y == [r EXCEPT !.pc = "read"]
<1>6. y \in Reader /\ SameReader(r, y) /\ y.pc = "read"
  BY <1>1 DEF Reader, SameReader
<1>7. ASSUME OuterNext(r.outer) = "need", d # <<>>
      PROVE  Reads(Responded(r, d), q, u)
  <2>1. Len(d) # 0
    BY <1>7, EmptySeq
  <2>2. Tail(d) \in Seq(Symbol)
    BY <2>1, <1>2, FirstSymbol
  <2>3. PICK n \in Station : /\ n.ph = "initial" /\ n.cmd = s.cmd /\ n.left = s.left
                             /\ n.pos = s.pos /\ ~n.half /\ Path(SymRel, n, Tail(d), m)
    BY <2>1, <1>2, FirstSymbol
  <2> HIDE DEF y
  <2>4. CASE Len(d) = 1
    <3>1. Tail(d) = <<>>
      <4>1. Len(Tail(d)) = 0
        BY <2>4, <1>7, HeadTailProperties
      <4> QED
        BY <4>1, <2>2, EmptySeq
    <3>2. n = m
      BY <3>1, <2>2, <2>3, SymPieces
    <3>3. r.outer \in {<<>>, <<Half>>}
      BY <3>2, <2>3, <1>4, <1>7
    <3>4. At(y, n)
      BY <1>2, <1>6, <2>3 DEF At, ReaderStage, SameReader, Waits
    <3>5. ReaderFacts(y)
      BY <3>3, <1>6 DEF ReaderFacts, Waits, Padded4, SameReader
    <3>6. Reads(y, q, u)
      BY <3>2, <3>4, <3>5, <1>6 DEF Reads, SameReader
    <3> QED
      BY <3>6, <2>4, <1>7 DEF Responded, y
  <2>5. CASE Len(d) # 1
    <3> DEFINE x == HandlePadded(y, Tail(d))
    <3>1. Open(m) = m
      BY OpenSame
    <3>2. /\ y.mode = "padding" /\ y.pc \in {"read", "records"} /\ y.unpad.st \in Padded4 /\ ~y.half
          /\ n.ph = y.unpad.st /\ n.cmd = y.unpad.cmd /\ n.left = y.unpad.left
          /\ Ran(y.out, y.pend, n.pos) /\ y.outer = r.outer
      BY <1>2, <1>6, <2>3 DEF SameReader, Waits, Padded4
    <3>3. /\ (m.half <=> y.half) /\ (m.ph = "direct" => ~m.half) /\ (y.half => y.outer = <<>>)
          /\ Path(TokRel, m, y.outer \o q, u)
      BY <3>2
    <3>4. Handled(y, HandlePadded(y, Tail(d)), q, u)
      BY <1>6, <2>2, <2>3, <3>1, <3>2, <3>3, HandlesPadded
    <3>5. Handled(y, x, q, u)
      BY <3>4
    <3> HIDE DEF x
    <3>6. x \in Reader /\ x.pc = "read" /\ SameReader(x, x)
      BY <3>5, <1>6 DEF Handled, SameReader
    <3>7. ASSUME x.mode = "padding"
          PROVE  x.outer \in {<<>>, <<Half>>} /\ (x.half => x.outer = <<>>)
      <4>1. x.outer = r.outer /\ x.half = y.half /\ x.unpad.st \in Padded4
        BY <3>2, <3>5, <3>7 DEF Handled
      <4>2. PICK v \in Station : At(x, v) /\ Path(TokRel, v, x.outer \o q, u)
        BY <3>5 DEF Handled
      <4>3. v.ph # "direct"
        BY <3>6, <3>7, <4>1, <4>2 DEF At, ReaderStage, Padded4
      <4>4. x.outer \in Seq(Token) /\ OuterNext(x.outer) = "need"
        BY <1>1, <1>7, <4>1
      <4>5. x.outer \in {<<>>, <<Half>>}
        BY <4>2, <4>3, <4>4, NeedIs
      <4> QED
        BY <4>1, <4>5, <3>2
    <3>8. Reads(x, q, u)
      BY <1>6, <3>5, <3>6, <3>7, Settles
    <3> QED
      BY <3>8, <2>5, <1>7 DEF Responded, x, y
  <2> QED
    BY <2>4, <2>5
<1> QED
  BY <1>3, <1>5, <1>7

(* poll_read_vless_response. *)
LEMMA ReadResponseReads ==
    ASSUME tcp \in Seq(Token), NEW p \in Seq(Token), NEW u, Reads(rdr, tcp \o p, u), ReadResponse
    PROVE  tcp' \in Seq(Token) /\ Reads(rdr', tcp' \o p, u)
<1>1. rdr.pc = "response" /\ Waits(rdr)
  BY DEF ReadResponse, Reads, ReaderFacts, Waits
<1>2. PICK n \in 1..Len(tcp) :
          /\ LET toks == rdr.outer \o SubSeq(tcp, 1, n)
                 k == Whole(toks)
                 d == Opened(SubSeq(toks, 1, k))
                 r == [rdr EXCEPT !.outer = From(toks, k + 1)]
             IN rdr' = IF OuterNext(r.outer) # "need" THEN ReadFails(r, "overread")
                       ELSE IF d = <<>> THEN r
                       ELSE IF Len(d) = 1 THEN [r EXCEPT !.pc = "read"]
                       ELSE HandlePadded([r EXCEPT !.pc = "read"], Tail(d))
          /\ tcp' = From(tcp, n + 1)
  BY DEF ReadResponse
<1> DEFINE c == SubSeq(tcp, 1, n)
           e == From(tcp, n + 1)
           toks == rdr.outer \o c
           q == e \o p
           k == Whole(toks)
           a == SubSeq(toks, 1, k)
           o == From(toks, k + 1)
           d == Opened(a)
           r == [rdr EXCEPT !.outer = o]
<1>3. rdr' = Responded(r, d) /\ tcp' = e
  BY <1>2 DEF Responded
<1>4. rdr \in Reader /\ rdr.outer \in Seq(Token)
  BY <1>1, ReaderIs DEF Waits
<1>5. c \in Seq(Token) /\ e \in Seq(Token) /\ c \o e = tcp
  <2>1. n \in 0..Len(tcp)
    BY LenProperties
  <2> QED
    BY <2>1, CutAll
<1>6. Parted(toks, k, a, o)
  BY DEF Parted
<1> HIDE DEF c, e, k, a, o, d, r
<1>7. toks \in Seq(Token) /\ q \in Seq(Token) /\ toks \o q = rdr.outer \o (tcp \o p)
  <2> DEFINE b == rdr.outer
  <2>0. b \in Seq(Token) /\ c \in Seq(Token) /\ e \in Seq(Token) /\ p \in Seq(Token)
    BY <1>4, <1>5
  <2> HIDE DEF b
  <2>1. b \o c \in Seq(Token) /\ e \o p \in Seq(Token)
    BY <2>0, ConcatProperties
  <2>2. (b \o c) \o (e \o p) = b \o (c \o (e \o p))
    <3> DEFINE f == e \o p
    <3>1. f \in Seq(Token)
      BY <2>1
    <3> HIDE DEF f
    <3>2. b \in Seq(Token) /\ c \in Seq(Token)
      BY <2>0
    <3>3. (b \o c) \o f = b \o (c \o f)
      BY ZenonT(60), <3>1, <3>2, TokensJoined
    <3> QED
      BY <3>3 DEF f
  <2>3. (c \o e) \o p = c \o (e \o p)
    BY <2>0, TokensJoined, Zenon
  <2>4. (b \o c) \o (e \o p) = b \o (tcp \o p)
    BY <2>2, <2>3, <1>5
  <2> QED
    BY <2>1, <2>4 DEF b
<1> HIDE DEF toks, q
<1>8. PICK s \in Station : At(rdr, s) /\ Path(TokRel, s, rdr.outer \o (tcp \o p), u)
  BY <1>1 DEF Reads
<1>9. ~s.half /\ Path(TokRel, s, toks \o q, u)
  BY <1>1, <1>7, <1>8 DEF At, Waits
<1>10. o \in Seq(Token) /\ d \in Seq(Symbol)
  BY <1>6, <1>7, <1>9, WholeReads DEF d
<1>11. PICK m \in Station : ~m.half /\ Path(SymRel, s, d, m) /\ Path(TokRel, m, o \o q, u)
  BY <1>6, <1>7, <1>9, WholeReads DEF d
<1>12. Waits(r) /\ At(r, s) /\ r.outer = o
  <2>1. r \in Reader
    BY <1>4, <1>10 DEF r, Reader
  <2>2. /\ r.outer = o /\ r.pc = rdr.pc /\ r.mode = rdr.mode /\ r.unpad = rdr.unpad
        /\ r.half = rdr.half
        /\ r.pend = rdr.pend /\ r.out = rdr.out
    BY <1>4 DEF r, Reader
  <2> QED
    BY <2>1, <2>2, <1>1, <1>8 DEF Waits, At, ReaderStage
<1>13. Reads(Responded(r, d), q, u)
  BY <1>7, <1>10, <1>11, <1>12, RespondedReads
<1> QED
  BY <1>3, <1>5, <1>13 DEF q

(* The request comes once. *)
LEMMA RequestPast ==
    ASSUME NEW d \in Seq(Symbol), d # <<>>, NEW s, NEW t, Path(SymRel, s, d, t)
    PROVE  t.ph # "request"
<1> DEFINE N == Len(d)
<1>1. PICK f \in [0..N -> Station] :
         f[0] = s /\ f[N] = t /\ \A n \in 1..N : <<f[n - 1], d[n], f[n]>> \in SymRel
  BY DEF Path
<1>2. N \in Nat /\ N # 0
  BY LenProperties, EmptySeq
<1> HIDE DEF N
<1>3. N \in 1..N
  BY <1>2
<1>4. <<f[N - 1], d[N], t>> \in SymRel
  BY <1>1, <1>3
<1>5. f[N - 1] \in Station /\ SymTo(f[N - 1], d[N], t)
  BY <1>4, SymRelIs
<1>6. f[N - 1].cmd \in Commands
  BY <1>5, StationIs
<1> QED
  BY <1>5, <1>6 DEF SymTo, Commands

(* ... and no token behind it leads back to it. *)
LEMMA RequestGone ==
    ASSUME NEW toks \in Seq(Token), NEW s, NEW t, Path(TokRel, s, toks, t), s.ph # "request"
    PROVE  t.ph # "request"
<1> DEFINE N == Len(toks)
<1>1. PICK f \in [0..N -> Station] :
         f[0] = s /\ f[N] = t /\ \A n \in 1..N : <<f[n - 1], toks[n], f[n]>> \in TokRel
  BY DEF Path
<1>2. N \in Nat
  BY LenProperties
<1> HIDE DEF N
<1> DEFINE P == {n \in Nat : n <= N => f[n].ph # "request"}
<1>3. 0 \in P
  BY <1>1
<1>4. ASSUME NEW a, NEW x, NEW b, <<a, x, b>> \in TokRel, a.ph # "request" PROVE b.ph # "request"
  <2>1. IsHalf(a, x, b) \/ IsRest(a, x, b) \/ IsPiece(a, x, b)
    BY <1>4, TokStep
  <2>2. CASE IsHalf(a, x, b)
    BY <1>4, <2>2 DEF IsHalf
  <2>3. CASE IsRest(a, x, b)
    <3>1. x[2] \in Seq(Symbol) /\ x[2] # <<>> /\ Path(SymRel, Open(a), x[2], b)
      BY <2>3 DEF IsRest
    <3> QED
      BY <3>1, RequestPast
  <2>4. CASE IsPiece(a, x, b)
    BY <1>4, <2>4 DEF IsPiece
  <2> QED
    BY <2>1, <2>2, <2>3, <2>4
<1>5. ASSUME NEW n \in P PROVE n + 1 \in P
  <2>1. n + 1 \in Nat
    OBVIOUS
  <2>2. ASSUME n + 1 <= N PROVE f[n + 1].ph # "request"
    <3>1. n + 1 \in 1..N /\ (n + 1) - 1 = n /\ n <= N
      BY <2>2, <1>2
    <3>2. f[n].ph # "request" /\ <<f[n], toks[n + 1], f[n + 1]>> \in TokRel
      BY <3>1, <1>1
    <3> QED
      BY <3>2, <1>4
  <2> QED
    BY <2>1, <2>2
<1>6. P = Nat
  <2>1. P \in SUBSET Nat
    OBVIOUS
  <2> HIDE DEF P
  <2> QED
    BY <2>1, <1>3, <1>5, SetInduction
<1> QED
  BY <1>1, <1>2, <1>6

(* What the server has decrypted begins with the request, and leaves half a
   record behind exactly if it ends with one. *)
LEMMA RequestOpened ==
    ASSUME NEW a \in Seq(Token), Len(a) >= 2, NEW s \in Station, s.ph = "request", ~s.half,
           NEW m \in Station,
           Path(TokRel, s, a, m), m.ph # "direct"
    PROVE  /\ Opened(a) \in Seq(Symbol) /\ Len(Opened(a)) # 0 /\ Path(SymRel, s, Opened(a), Open(m))
           /\ m.half <=> a[Len(a)] = Half
<1> DEFINE D == Opened(a)
           N == Len(a)
<1>1. /\ Alternates(a) /\ (m.half <=> N % 2 = 1) /\ \A i \in 1..N : a[i][1] # "piece"
  BY PathAlternates
<1>2. N \in Nat /\ N >= 2 /\ Open(s) = s
  BY LenProperties, OpenSame
<1>3. D \in Seq(Symbol) /\ Path(SymRel, s, D, Open(m))
  BY <1>1, <1>2, OpenedFollows
<1>4. m.half <=> a[N] = Half
  <2> HIDE DEF N
  <2>1. N \in 1..N
    BY <1>2
  <2>2. IF N % 2 = 1 THEN a[N] = Half ELSE a[N][1] = "rest"
    BY <2>1, <1>1 DEF Alternates, N
  <2>3. Half[1] # "rest"
    BY Tags
  <2> QED
    BY <2>2, <2>3, <1>1
<1>5. PICK nil \in Seq(Token) : nil = <<>>
  BY EmptySeq
<1>6. Path(TokRel, s, a \o nil, m)
  <2>1. a \o nil = a
    BY <1>5, ConcatEmptySeq
  <2> QED
    BY <2>1
<1>7. OuterNext(a) # "need"
  <2>1. a[1] = Half /\ a[2][1] = "rest"
    <3>1. 1 \in 1..N /\ 2 \in 1..N /\ 1 % 2 = 1 /\ 2 % 2 # 1
      BY <1>2
    <3> QED
      BY <3>1, <1>1 DEF Alternates
  <2>2. a # <<>> /\ a # <<Half>>
    <3>1. a = <<Half>> => Len(a) = 1
      OBVIOUS
    <3>2. a = <<>> => Len(a) = 0
      BY EmptySeq
    <3>0. \A k \in Nat : k >= 2 => k # 0 /\ k # 1
      OBVIOUS
    <3>3. Len(a) # 0 /\ Len(a) # 1
      BY <1>2, <3>0, Zenon
    <3> QED
      BY <3>1, <3>2, <3>3, Zenon
  <2> QED
    BY <2>1, <2>2 DEF OuterNext
<1>8. a[2][2] \in Seq(Symbol) /\ a[2][2] # <<>> /\ From(a, 3) \in Seq(Token)
  BY <1>5, <1>6, <1>7, RecordIs
<1>9. PICK x \in Station : Path(SymRel, s, a[2][2], x) /\ Path(TokRel, x, From(a, 3) \o nil, m)
  BY <1>5, <1>6, <1>7, RecordIs
<1>10. From(a, 3) \o nil = From(a, 3)
  BY <1>5, <1>8, ConcatEmptySeq
<1>11. x.ph # "request"
  BY <1>8, <1>9, RequestPast
<1>12. m.ph # "request"
  BY <1>8, <1>9, <1>10, <1>11, RequestGone
<1>13. Open(m).ph # "request"
  BY <1>12, OpenIs
<1>14. D # <<>>
  BY <1>3, <1>13, SymPieces
<1>15. Len(D) # 0
  BY <1>3, <1>14, EmptySeq
<1> QED
  BY <1>3, <1>4, <1>15

(* The reader has been given the first part of what came with the request. *)
PartRead(x, e) ==
    /\ x \in Reader /\ x.pc = "read" /\ x.outer = <<>> /\ At(x, e)
    /\ x.mode # "padding" => x.unpad.st = "done"
    /\ x.mode = "padding" => x.unpad.st \in Padded4

(* The first part of what came with the request is read as it was written. *)
LEMMA FirstPart ==
    ASSUME NEW r, NEW z, PartRead(r, z), r.mode = "padding", NEW s \in Station, s = Open(z),
           NEW d \in Seq(Symbol), NEW e \in Station, e.half <=> z.half, e.ph # "direct",
           Path(SymRel, s, d, Open(e))
    PROVE  PartRead(HandlePadded(r, d), e)
<1> DEFINE x == HandlePadded(r, d)
           v == Open(e)
<1>1. /\ r \in Reader /\ r.mode = "padding" /\ r.pc \in {"read", "records"}
      /\ r.unpad.st \in Padded4
      /\ r.outer = <<>> /\ r.pc = "read"
  BY DEF PartRead
<1>2. /\ s.ph = r.unpad.st /\ s.cmd = r.unpad.cmd /\ s.left = r.unpad.left
      /\ Ran(r.out, r.pend, s.pos)
      /\ (z.half <=> r.half)
  BY <1>1, OpenIs DEF PartRead, At, ReaderStage
<1>3. PICK nil \in Seq(Token) : nil = <<>>
  BY EmptySeq
<1>4. r.outer \o nil = <<>>
  <2>1. nil \o nil = nil
    BY <1>3, ConcatEmptySeq
  <2> QED
    BY <2>1, <1>1, <1>3
<1>5. Path(TokRel, e, r.outer \o nil, e)
  BY <1>4, PathNone
<1>6. Handled(r, HandlePadded(r, d), nil, e)
  <2> HIDE DEF v, x
  <2>1. Open(e) = v /\ Path(SymRel, s, d, v)
    BY DEF v
  <2>2. (e.half <=> r.half) /\ (e.ph = "direct" => ~e.half) /\ (r.half => r.outer = <<>>)
    BY <1>1, <1>2
  <2> QED
    BY <1>1, <1>2, <1>5, <2>1, <2>2, HandlesPadded
<1>7. Handled(r, x, nil, e)
  BY <1>6
<1> HIDE DEF x
<1>8. x \in Reader /\ x.pc = "read" /\ x.outer = <<>>
  BY <1>1, <1>7 DEF Handled
<1>9. PICK w \in Station : At(x, w) /\ Path(TokRel, w, x.outer \o nil, e)
  BY <1>7 DEF Handled
<1>10. x.outer \o nil = <<>>
  BY <1>1, <1>4, <1>8
<1>11. w = e
  BY <1>9, <1>10, PathNone
<1>12. PartRead(x, e)
  BY <1>7, <1>8, <1>9, <1>11 DEF PartRead, Handled
<1> QED
  BY <1>12 DEF x

(* A second part behind END or DIRECT is an error. *)
LEMMA TwiceFails ==
    ASSUME NEW x \in Reader, x.unpad.st = "done", NEW d
    PROVE  HandlePadded(x, d) = ReadFails(x, "twice")
<1>1. x.unpad \in Unpadder
  BY ReaderIs
<1>2. Unpad(x.unpad, d) = [x.unpad EXCEPT !.st = "bad"]
  BY DEF Unpad
<1>3. Unpad(x.unpad, d).st = "bad"
  BY <1>1, <1>2 DEF Unpadder
<1> QED
  BY <1>3 DEF HandlePadded

(* The second part is read on, or is refused behind an END. *)
LEMMA SecondPart ==
    ASSUME NEW x, NEW e, PartRead(x, e), NEW d \in Seq(Symbol), NEW m \in Station, m.ph # "direct",
           m.half <=> e.half, NEW s \in Station, s = Open(e), Path(SymRel, s, d, Open(m)),
           NEW q \in Seq(Token), NEW u, Path(TokRel, m, q, u)
    PROVE  Reads(HandlePadded(x, d), q, u)
<1>1. CASE x.mode # "padding"
  BY <1>1, TwiceFails, FailedReads DEF PartRead
<1>2. CASE x.mode = "padding"
  <2> DEFINE y == HandlePadded(x, d)
             v == Open(m)
  <2>1. /\ x \in Reader /\ x.mode = "padding" /\ x.pc \in {"read", "records"}
        /\ x.unpad.st \in Padded4
        /\ x.outer = <<>> /\ x.pc = "read"
    BY <1>2 DEF PartRead
  <2>2. /\ s.ph = x.unpad.st /\ s.cmd = x.unpad.cmd /\ s.left = x.unpad.left
        /\ Ran(x.out, x.pend, s.pos)
        /\ (e.half <=> x.half)
    BY <2>1, OpenIs DEF PartRead, At, ReaderStage
  <2>3. x.outer \o q = q
    BY <2>1, ConcatEmptySeq
  <2>4. Path(TokRel, m, x.outer \o q, u)
    BY <2>3
  <2>5. Handled(x, HandlePadded(x, d), q, u)
    <3> HIDE DEF v, y
    <3>1. Open(m) = v /\ Path(SymRel, s, d, v)
      BY DEF v
    <3>2. (m.half <=> x.half) /\ (m.ph = "direct" => ~m.half) /\ (x.half => x.outer = <<>>)
      BY <2>1, <2>2
    <3> QED
      BY <2>1, <2>2, <2>4, <3>1, <3>2, HandlesPadded
  <2>6. Handled(x, y, q, u)
    BY <2>5
  <2> HIDE DEF y
  <2>7. y \in Reader /\ y.pc = "read" /\ y.outer = <<>> /\ SameReader(y, y)
    BY <2>1, <2>6 DEF Handled, SameReader
  <2>8. Reads(y, q, u)
    BY <2>1, <2>6, <2>7, Settles
  <2> QED
    BY <2>8 DEF y
<1> QED
  BY <1>1, <1>2

(* The station with half a record behind it, or none. *)
WithHalf(s, h) == [ph |-> s.ph, cmd |-> s.cmd, left |-> s.left, pos |-> s.pos, half |-> h]

(* The fields of such a station. *)
LEMMA WithHalfIs ==
    ASSUME NEW s \in Station, ~s.half, NEW h, h \in BOOLEAN
    PROVE  /\ WithHalf(s, h) \in Station /\ Open(WithHalf(s, h)) = s /\ WithHalf(s, h).half = h
           /\ WithHalf(s, h).ph = s.ph /\ WithHalf(s, h).cmd = s.cmd /\ WithHalf(s, h).left = s.left
           /\ WithHalf(s, h).pos = s.pos
<1> DEFINE e == WithHalf(s, h)
<1>1. e.ph = s.ph /\ e.cmd = s.cmd /\ e.left = s.left /\ e.pos = s.pos /\ e.half = h
  BY DEF WithHalf
<1>2. e \in Station
  BY StationIs DEF WithHalf, Station
<1> HIDE DEF e
<1>3. Open(e) = Open(s)
  BY <1>1 DEF Open
<1>4. Open(e) = s
  BY <1>3, OpenSame
<1> QED
  BY <1>1, <1>2, <1>4 DEF e

(* What the server does with what came with the request, cut in two at j. *)
Requested(r, d, j) ==
    LET x == IF j = 0 THEN r ELSE HandlePadded(r, SubSeq(d, 1, j))
    IN IF x.pc = "failed" THEN x ELSE HandlePadded(x, From(d, j + 1))

(* Both parts of what came with the request. *)
LEMMA RequestedReads ==
    ASSUME NEW d \in Seq(Symbol), NEW j \in 0..Len(d), NEW m \in Station, m.ph # "direct",
           NEW s \in Station, ~s.half,
           Path(SymRel, s, d, Open(m)), NEW r, PartRead(r, WithHalf(s, m.half)), r.mode = "padding",
           NEW q \in Seq(Token), NEW u, Path(TokRel, m, q, u)
    PROVE  Reads(Requested(r, d, j), q, u)
<1> DEFINE a == SubSeq(d, 1, j)
           b == From(d, j + 1)
           v == Open(m)
           h == m.half
           z == WithHalf(s, h)
           x == IF j = 0 THEN r ELSE HandlePadded(r, a)
<1>1. a \in Seq(Symbol) /\ b \in Seq(Symbol) /\ a \o b = d /\ Len(a) = j
  BY CutAll
<1>2. h \in BOOLEAN /\ v \in Station
  BY StationIs
<1>3. v.ph # "direct"
  BY OpenIs
<1>4. z \in Station /\ Open(z) = s /\ z.half = h
  BY <1>2, WithHalfIs
<1>5. Path(SymRel, s, d, v) /\ PartRead(r, z)
  OBVIOUS
<1>6. Requested(r, d, j) = IF x.pc = "failed" THEN x ELSE HandlePadded(x, b)
  BY DEF Requested
<1> HIDE DEF a, b, v, h, z, x
<1>7. PICK y \in Station : Path(SymRel, s, a, y) /\ Path(SymRel, y, b, v)
  <2>1. Path(SymRel, s, a \o b, v)
    BY <1>1, <1>5
  <2> QED
    BY <2>1, <1>1, PathSplit
<1>8. y.ph # "direct"
  BY <1>1, <1>3, <1>7, SymPieces
<1>9. ~y.half
  BY <1>1, <1>7, SymPieces
<1> DEFINE e == WithHalf(y, h)
<1>10. e \in Station /\ Open(e) = y /\ e.half = h /\ e.ph = y.ph
  BY <1>2, <1>9, WithHalfIs
<1>11. PartRead(x, e)
  <2>1. CASE j = 0
    <3>1. a = <<>>
      BY <1>1, <2>1, EmptySeq
    <3>2. s = y
      BY <3>1, <1>1, <1>7, SymPieces
    <3> QED
      BY <2>1, <3>2, <1>5 DEF x, z
  <2>2. CASE j # 0
    <3> HIDE DEF e
    <3>1. (e.half <=> z.half) /\ e.ph # "direct" /\ Path(SymRel, s, a, Open(e)) /\ s = Open(z)
      BY <1>4, <1>7, <1>8, <1>10
    <3>2. PartRead(HandlePadded(r, a), e)
      BY <3>1, <1>1, <1>5, <1>10, FirstPart
    <3> QED
      BY <3>2, <2>2 DEF x
  <2> QED
    BY <2>1, <2>2
<1>12. Requested(r, d, j) = HandlePadded(x, b)
  BY <1>6, <1>11 DEF PartRead
<1> HIDE DEF e
<1>13. (m.half <=> e.half) /\ y = Open(e) /\ Path(SymRel, y, b, Open(m))
  BY <1>7, <1>10 DEF h, v
<1>14. Reads(HandlePadded(x, b), q, u)
  BY <1>1, <1>11, <1>13, SecondPart
<1> QED
  BY <1>12, <1>14

(* The server has read the request. *)
LEMMA ReadRequestReads ==
    ASSUME tcp \in Seq(Token), NEW p \in Seq(Token), NEW u, u.ph # "direct", Reads(rdr, tcp \o p, u),
           ReadRequest, ~strayed'
    PROVE  tcp' \in Seq(Token) /\ Reads(rdr', tcp' \o p, u)
<1>1. /\ rdr.pc = "setup" /\ rdr \in Reader /\ rdr.mode = "padding"
      /\ rdr.unpad.st = "initial" /\ ~rdr.half
      /\ rdr.pend = <<>> /\ rdr.out = <<>> /\ rdr.outer = <<>>
  BY DEF ReadRequest, Reads, ReaderFacts
<1>2. PICK n \in 2..Len(tcp) :
          /\ LET d == Tail(Opened(SubSeq(tcp, 1, n)))
                 r == [rdr EXCEPT !.pc = "read", !.half = (tcp[n] = Half)]
             IN HandOver(r, d)
          /\ tcp' = From(tcp, n + 1)
  BY DEF ReadRequest
<1> DEFINE a == SubSeq(tcp, 1, n)
           c == From(tcp, n + 1)
           q == c \o p
           D == Opened(a)
           d == Tail(D)
           h == (tcp[n] = Half)
           r == [rdr EXCEPT !.pc = "read", !.half = h]
<1>3. PICK j \in 0..Len(d) : rdr' = Requested(r, d, j)
  BY <1>2 DEF Requested, HandOver
<1>4. tcp' = c
  BY <1>2
<1>5. a \in Seq(Token) /\ c \in Seq(Token) /\ a \o c = tcp /\ Len(a) = n /\ a[n] = tcp[n]
  <2>1. n \in 0..Len(tcp) /\ n \in 1..n
    BY LenProperties
  <2> QED
    BY <2>1, CutAll
<1> HIDE DEF a, c, h, r, D
<1>6. q \in Seq(Token) /\ tcp \o p = a \o q
  <2>0. a \in Seq(Token) /\ c \in Seq(Token) /\ p \in Seq(Token)
    BY <1>5
  <2>1. (a \o c) \o p = a \o (c \o p)
    BY <2>0, TokensJoined, Zenon
  <2> QED
    BY <2>0, <2>1, <1>5, ConcatProperties
<1> HIDE DEF q
<1>7. PICK s \in Station : At(rdr, s) /\ Path(TokRel, s, rdr.outer \o (tcp \o p), u)
  BY <1>1 DEF Reads
<1>8. /\ s.ph = "request" /\ ~s.half /\ s.cmd = rdr.unpad.cmd /\ s.left = rdr.unpad.left
      /\ Ran(rdr.out, rdr.pend, s.pos)
  BY <1>1, <1>7 DEF At, ReaderStage
<1>9. rdr.outer \o (tcp \o p) = a \o q
  <2>1. a \o q \in Seq(Token)
    BY <1>5, <1>6, ConcatProperties
  <2>2. <<>> \o (a \o q) = a \o q
    BY <2>1, ConcatEmptySeq
  <2> QED
    BY <2>2, <1>1, <1>6
<1>10. PICK m \in Station : Path(TokRel, s, a, m) /\ Path(TokRel, m, q, u)
  BY <1>5, <1>6, <1>7, <1>9, PathSplit
<1>11. m.ph # "direct"
  BY <1>6, <1>10, DirectRun
<1>12. D \in Seq(Symbol) /\ Len(D) # 0 /\ Path(SymRel, s, D, Open(m)) /\ (m.half <=> h)
  <2>1. Len(a) >= 2
    BY <1>5
  <2> QED
    BY <2>1, <1>5, <1>8, <1>10, <1>11, RequestOpened DEF D, h
<1>13. d \in Seq(Symbol)
  BY <1>8, <1>12, FirstSymbol
<1>14. PICK i \in Station : /\ i.ph = "initial" /\ i.cmd = s.cmd /\ i.left = s.left
                            /\ i.pos = s.pos /\ ~i.half /\ Path(SymRel, i, d, Open(m))
  BY <1>8, <1>12, FirstSymbol
<1> HIDE DEF d
<1> DEFINE z == WithHalf(i, m.half)
<1>15. m.half \in BOOLEAN
  BY StationIs
<1>16. /\ z \in Station /\ z.half = m.half /\ z.ph = i.ph /\ z.cmd = i.cmd /\ z.left = i.left
       /\ z.pos = i.pos
  BY <1>14, <1>15, WithHalfIs
<1> HIDE DEF z
<1>17. /\ r \in Reader /\ r.pc = "read" /\ r.half = h /\ r.mode = rdr.mode /\ r.unpad = rdr.unpad
       /\ r.outer = rdr.outer /\ r.pend = rdr.pend /\ r.out = rdr.out
  <2>1. h \in BOOLEAN
    BY DEF h
  <2>2. r \in Reader
    BY <1>1, <2>1 DEF r, Reader
  <2>3. /\ r.pc = "read" /\ r.half = h /\ r.mode = rdr.mode /\ r.unpad = rdr.unpad
        /\ r.outer = rdr.outer /\ r.pend = rdr.pend /\ r.out = rdr.out
    BY <1>1 DEF r, Reader
  <2> QED
    BY <2>2, <2>3
<1>18. At(r, z)
  <2>1. ReaderStage(r) = "initial"
    BY <1>1, <1>17 DEF ReaderStage
  <2>2. Ran(r.out, r.pend, z.pos)
    BY <1>8, <1>14, <1>16, <1>17
  <2> QED
    BY <2>1, <2>2, <1>8, <1>12, <1>14, <1>16, <1>17 DEF At
<1>19. PartRead(r, z)
  BY <1>1, <1>17, <1>18 DEF PartRead, Padded4
<1>20. PartRead(r, WithHalf(i, m.half)) /\ r.mode = "padding"
  BY <1>1, <1>17, <1>19 DEF z
<1>21. Reads(Requested(r, d, j), q, u)
  BY <1>3, <1>6, <1>10, <1>11, <1>13, <1>14, <1>20, RequestedReads
<1> QED
  BY <1>3, <1>4, <1>5, <1>21 DEF q, d, D

(* Before the server has read the request, nothing has made the client's filter
   go DIRECT. *)
Quiet(w) == "mode" \in DOMAIN w /\ "next" \in DOMAIN w /\ w.mode # "direct" /\ w.next # "direct"

(* Updates of the writer that leave it quiet. *)
LEMMA QuietSets ==
    ASSUME NEW w, Quiet(w)
    PROVE  /\ \A a, b : Quiet([w EXCEPT !.sess = a, !.plain = b])
           /\ \A a : Quiet([w EXCEPT !.plain = a]) /\ Quiet([w EXCEPT !.first = a])
           /\ \A a : Quiet([w EXCEPT !.response = a]) /\ Quiet([w EXCEPT !.pc = a])
           /\ \A a : Quiet([w EXCEPT !.shut = a]) /\ Quiet([w EXCEPT !.flushed = a])
           /\ \A a : Quiet([w EXCEPT !.found = a])
           /\ \A a, b, c : Quiet([w EXCEPT !.acked = a, !.pc = b, !.zero = c])
           /\ \A a, b, c : Quiet([w EXCEPT !.lo = a, !.hi = b, !.found = c])
           /\ \A a, b, c : Quiet([w EXCEPT !.fed = a, !.done = b, !.flushed = c])
           /\ \A a, b : Quiet([w EXCEPT !.sess = a, !.done = b])
           /\ \A a, b : Quiet([w EXCEPT !.acked = a, !.pc = b])
           /\ \A a, b, c, d, e : Quiet([w EXCEPT !.pc = a, !.had = b, !.done = c, !.lo = d, !.hi = e])
           /\ \A a, b, c, d : d # "direct" => Quiet([w EXCEPT !.done = a, !.lo = b, !.found = c, !.next = d])
           /\ \A a : a # "direct" => Quiet([w EXCEPT !.next = a])
           /\ \A a : Quiet([w EXCEPT !.mode = w.next, !.next = "none", !.pc = a])
BY DEF Quiet

(* The operators of the writer leave it quiet. *)
LEMMA QuietWays ==
    ASSUME NEW w, Quiet(w)
    PROVE  /\ \A d : Quiet(ToSession(w, d))
           /\ \A n : Quiet(AfterDrain(w, n))
           /\ Quiet(Answered(w))
           /\ \A cmd, lo, hi : Quiet(Padded(w, cmd, lo, hi))
           /\ \A n : Quiet(Returned(w, n)) /\ Quiet(Returned(Cleared(w), n))
           /\ Quiet(Switched(w)) /\ Quiet(Fed(w))
<1>1. ASSUME NEW x, Quiet(x) PROVE \A d : Quiet(ToSession(x, d))
  BY <1>1, QuietSets DEF ToSession
<1>2. \A n : Quiet(AfterDrain(w, n))
  BY QuietSets DEF AfterDrain
<1>3. Quiet(Answered(w))
  <2>1. ASSUME NEW x, Quiet(x) PROVE Quiet([x EXCEPT !.response = FALSE])
    BY <2>1, QuietSets
  <2> QED
    BY <1>1, <2>1 DEF Answered
<1>4. \A cmd, lo, hi : Quiet(Padded(w, cmd, lo, hi))
  <2>1. ASSUME NEW x, Quiet(x) PROVE Quiet([x EXCEPT !.first = FALSE])
    BY <2>1, QuietSets
  <2> QED
    BY <1>1, <2>1 DEF Padded
<1>5. ASSUME NEW x, Quiet(x) PROVE \A n : Quiet(Returned(x, n))
  BY <1>5, QuietSets DEF Returned
<1>6. Quiet(Cleared(w))
  BY QuietSets DEF Cleared
<1>7. Quiet(Switched(w))
  BY QuietSets DEF Switched
<1>8. Quiet(Fed(w))
  BY QuietSets DEF Fed
<1> QED
  BY <1>1, <1>2, <1>3, <1>4, <1>5, <1>6, <1>7, <1>8

(* The filter. *)
Filter == [count : Nat, tls : BOOLEAN, tls12 : BOOLEAN, xtls : BOOLEAN]

(* What the filter's operations return. *)
LEMMA FilterIs ==
    ASSUME NEW f \in Filter
    PROVE  /\ \A kind : FilterRecord(f, kind) \in Filter
           /\ \A kind : kind # "sh13" /\ ~f.xtls => ~FilterRecord(f, kind).xtls
           /\ Decremented(f) \in Filter /\ Decremented(f).xtls = f.xtls
           /\ [f EXCEPT !.count = 0] \in Filter /\ [f EXCEPT !.count = 0].xtls = f.xtls
<1>1. f.count \in Nat /\ f.tls \in BOOLEAN /\ f.tls12 \in BOOLEAN /\ f.xtls \in BOOLEAN
  BY DEF Filter
<1>2. ASSUME NEW kind PROVE FilterRecord(f, kind) \in Filter
  <2> DEFINE hello == kind \in HelloKinds \ {"ch"} /\ ~f.tls12
             is13 == hello /\ kind # "sh12"
             c == IF is13 THEN 0 ELSE f.count - 1
             t == f.tls \/ kind = "ch" \/ hello
             u == f.tls12 \/ hello
             x == f.xtls \/ (hello /\ kind = "sh13")
  <2>1. CASE f.count = 0
    BY <2>1 DEF FilterRecord
  <2>2. CASE f.count # 0
    <3>1. c \in Nat
      BY <1>1, <2>2
    <3>2. t \in BOOLEAN /\ u \in BOOLEAN /\ x \in BOOLEAN
      OBVIOUS
    <3>3. FilterRecord(f, kind) = [count |-> c, tls |-> t, tls12 |-> u, xtls |-> x]
      BY <2>2 DEF FilterRecord
    <3> HIDE DEF c, t, u, x
    <3> QED
      BY <3>1, <3>2, <3>3 DEF Filter
  <2> QED
    BY <2>1, <2>2
<1>3. ASSUME NEW kind, kind # "sh13", ~f.xtls PROVE ~FilterRecord(f, kind).xtls
  BY <1>3 DEF FilterRecord
<1>4. Decremented(f) \in Filter /\ Decremented(f).xtls = f.xtls
  BY DEF Decremented, Filter
<1>5. [f EXCEPT !.count = 0] \in Filter /\ [f EXCEPT !.count = 0].xtls = f.xtls
  BY DEF Filter
<1> QED
  BY <1>2, <1>3, <1>4, <1>5

(* The filter is always one, whatever the writer does. *)
WriterStep ==
    \/ \E n \in 1..Len(Data) : PollWrite(n)
    \/ WritePadding \/ WriteTls \/ WriteDirect \/ Flush \/ Shutdown

(* The filter keeps its type. *)
LEMMA FilterStays ==
    ASSUME filt \in Filter, WriterStep \/ FilterOther
    PROVE  filt' \in Filter
<1>1. CASE WritePadding
  BY <1>1, FilterIs DEF WritePadding, WriteRecord, WritePrefix, WriteInvalid, WriteNeedsData
<1>2. CASE FilterOther
  BY <1>2, FilterIs DEF FilterOther
<1> QED
  BY <1>1, <1>2 DEF WriterStep, PollWrite, WriteTls, WriteDirect, Flush, Shutdown

(* poll_write leaves a client quiet. *)
LEMMA QuietPoll ==
    ASSUME Quiet(wr), NEW n, PollWrite(n)
    PROVE  Quiet(wr')
<1> DEFINE w == [wr EXCEPT !.fed = n, !.done = 0, !.flushed = FALSE]
<1>1. Quiet(w)
  BY QuietSets
<1>2. w.mode = "padding" => BeginPadding(w)
  BY DEF PollWrite
<1>3. w.mode # "padding" => wr' = [w EXCEPT !.pc = w.mode]
  BY DEF PollWrite
<1> HIDE DEF w
<1>6. \A a : Quiet([w EXCEPT !.pc = a])
  BY <1>1, QuietSets
<1>4. CASE w.mode # "padding"
  BY <1>3, <1>4, <1>6
<1>5. CASE w.mode = "padding"
  <2> DEFINE a == Answered(w)
  <2>1. Quiet(a)
    BY <1>1, QuietWays
  <2> HIDE DEF a
  <2>2. PICK m \in 0..Len(Outgoing(a)) :
           wr' = LET x == AfterDrain(a, m)
                 IN IF ~IsDrained(x) THEN [x EXCEPT !.pc = "idle"]
                    ELSE IF x.next # "none" THEN Switched(x) ELSE Fed(x)
    BY <1>2, <1>5 DEF BeginPadding, DrainThen, a
  <2> DEFINE x == AfterDrain(a, m)
  <2>3. Quiet(x)
    BY <2>1, QuietWays
  <2>4. wr' \in {[x EXCEPT !.pc = "idle"], Switched(x), Fed(x)}
    BY <2>2
  <2> HIDE DEF x
  <2>5. Quiet([x EXCEPT !.pc = "idle"])
    BY <2>3, QuietSets
  <2>6. Quiet(Switched(x)) /\ Quiet(Fed(x))
    BY <2>3, QuietWays
  <2> QED
    BY <2>4, <2>5, <2>6
<1> QED
  BY <1>4, <1>5

(* A client's own records never make it go DIRECT. *)
LEMMA QuietRecord ==
    ASSUME Quiet(wr), filt \in Filter, ~filt.xtls, Data[wr.lo][1] # "sh13", NEW res,
           WriteRecord(res)
    PROVE  Quiet(wr') /\ ~filt'.xtls
<1> DEFINE f == FilterRecord(filt, Data[wr.lo][1])
           app == f.tls /\ Data[wr.lo][1] = "app"
           last == app \/ (f.count = 0 /\ ~f.tls12)
           cmd == IF ~last THEN "continue" ELSE IF f.xtls THEN "direct" ELSE "tls"
           p == Padded(wr, cmd, wr.lo, wr.lo + 1)
           w == [p EXCEPT !.done = @ + 2, !.lo = @ + 2, !.found = TRUE,
                          !.next = IF last THEN cmd ELSE "none"]
<1>1. filt' = f /\ DrainThen(w, LAMBDA x : IF last \/ ~IsDrained(x)
                                  THEN Returned(Cleared(x), x.done - x.had) ELSE x)
  BY DEF WriteRecord
<1>2. ~f.xtls
  BY FilterIs
<1> HIDE DEF f, app
<1>3. (IF last THEN cmd ELSE "none") # "direct"
  BY <1>2
<1>4. Quiet(p)
  BY QuietWays
<1> HIDE DEF p, last, cmd
<1>5. Quiet(w)
  BY <1>3, <1>4, QuietSets
<1> HIDE DEF w
<1>6. PICK m \in 0..Len(Outgoing(w)) :
         wr' = LET x == AfterDrain(w, m)
               IN IF last \/ ~IsDrained(x) THEN Returned(Cleared(x), x.done - x.had) ELSE x
  BY <1>1 DEF DrainThen
<1> DEFINE x == AfterDrain(w, m)
<1>7. Quiet(x)
  BY <1>5, QuietWays
<1>8. wr' = Returned(Cleared(x), x.done - x.had) \/ wr' = x
  BY <1>6
<1> HIDE DEF x
<1> QED
  BY SMTT(30), <1>1, <1>2, <1>7, <1>8, QuietWays

(* Bytes that are no TLS leave a client quiet. *)
LEMMA QuietPrefix ==
    ASSUME Quiet(wr), filt \in Filter, ~filt.xtls, NEW res, WritePrefix(res)
    PROVE  Quiet(wr') /\ ~filt'.xtls
<1> DEFINE f == Decremented(filt)
           cmd == IF f.count > 0 THEN "continue" ELSE "tls"
           p == Padded(wr, cmd, wr.lo, wr.lo + res.n - 1)
           w == [p EXCEPT !.done = @ + res.n, !.lo = @ + res.n, !.found = res.found,
                          !.next = IF cmd = "tls" THEN cmd ELSE "none"]
<1>1. filt' = f /\ DrainThen(w, LAMBDA x : IF cmd = "tls"
                                  THEN Returned(Cleared(x), x.done - x.had) ELSE x)
  BY DEF WritePrefix
<1>2. ~f.xtls
  BY FilterIs
<1> HIDE DEF f
<1>3. (IF cmd = "tls" THEN cmd ELSE "none") # "direct"
  OBVIOUS
<1>4. Quiet(p)
  BY QuietWays
<1> HIDE DEF p, cmd
<1>5. Quiet(w)
  BY <1>3, <1>4, QuietSets
<1> HIDE DEF w
<1>6. PICK m \in 0..Len(Outgoing(w)) :
         wr' = LET x == AfterDrain(w, m)
               IN IF cmd = "tls" THEN Returned(Cleared(x), x.done - x.had) ELSE x
  BY <1>1 DEF DrainThen
<1> DEFINE x == AfterDrain(w, m)
<1>7. Quiet(x)
  BY <1>5, QuietWays
<1>8. wr' = Returned(Cleared(x), x.done - x.had) \/ wr' = x
  BY <1>6
<1> HIDE DEF x
<1> QED
  BY <1>1, <1>2, <1>7, <1>8, QuietWays

(* An invalid record leaves a client quiet. *)
LEMMA QuietInvalid ==
    ASSUME Quiet(wr), filt \in Filter, ~filt.xtls, NEW res, WriteInvalid(res)
    PROVE  Quiet(wr') /\ ~filt'.xtls
<1> DEFINE p == Padded(wr, "tls", wr.lo, wr.hi)
           w == [p EXCEPT !.next = "tls"]
<1>1. filt' = [filt EXCEPT !.count = 0] /\ DrainThen(w, LAMBDA x : Returned(Cleared(x), x.fed))
  BY DEF WriteInvalid
<1>2. ~filt'.xtls
  BY <1>1, FilterIs
<1>3. Quiet(p)
  BY QuietWays
<1> HIDE DEF p
<1>4. Quiet(w)
  BY <1>3, QuietSets
<1> HIDE DEF w
<1>5. PICK m \in 0..Len(Outgoing(w)) :
         wr' = LET x == AfterDrain(w, m) IN Returned(Cleared(x), x.fed)
  BY <1>1 DEF DrainThen
<1> DEFINE x == AfterDrain(w, m)
<1>6. Quiet(x) /\ wr' = Returned(Cleared(x), x.fed)
  BY <1>4, <1>5, QuietWays
<1> HIDE DEF x
<1> QED
  BY <1>2, <1>6, QuietWays

(* poll_write_tls leaves a client quiet. *)
LEMMA QuietTls ==
    ASSUME Quiet(wr), WriteTls
    PROVE  Quiet(wr')
<1> DEFINE k == Least(Room(wr), wr.fed - wr.done)
           at == wr.acked + wr.done
           w == [wr EXCEPT !.sess = @ \o Sealed(PieceRun(at + 1, at + k)), !.done = @ + k]
<1>1. DrainThen(w, LAMBDA x : IF x.sess = <<>> /\ x.done < x.fed THEN x
                              ELSE [x EXCEPT !.acked = @ + x.done, !.pc = "idle"])
  BY DEF WriteTls
<1>2. Quiet(w)
  BY QuietSets
<1> HIDE DEF w
<1>3. PICK m \in 0..Len(Outgoing(w)) :
         wr' = LET x == AfterDrain(w, m)
               IN IF x.sess = <<>> /\ x.done < x.fed THEN x
                  ELSE [x EXCEPT !.acked = @ + x.done, !.pc = "idle"]
  BY <1>1 DEF DrainThen
<1> DEFINE x == AfterDrain(w, m)
<1>4. Quiet(x)
  BY <1>2, QuietWays
<1>5. wr' = x \/ wr' = [x EXCEPT !.acked = @ + x.done, !.pc = "idle"]
  BY <1>3
<1> HIDE DEF x
<1>6. \A a, b : Quiet([x EXCEPT !.acked = a, !.pc = b])
  BY <1>4, QuietSets
<1>7. Quiet([x EXCEPT !.acked = @ + x.done, !.pc = "idle"])
  <2> DEFINE c == x.acked + x.done
  <2> HIDE DEF c
  <2>1. Quiet([x EXCEPT !.acked = c, !.pc = "idle"])
    BY <1>6
  <2> QED
    BY <2>1 DEF c
<1> QED
  BY <1>4, <1>5, <1>7

(* poll_flush leaves a client quiet. *)
LEMMA QuietFlush ==
    ASSUME Quiet(wr), Flush
    PROVE  Quiet(wr')
<1>1. PICK m \in 0..Len(Outgoing(wr)) :
         wr' = LET x == AfterDrain(wr, m) IN [x EXCEPT !.flushed = IsDrained(x)]
  BY DEF Flush, DrainThen
<1> DEFINE x == AfterDrain(wr, m)
<1>2. Quiet(x) /\ wr' = [x EXCEPT !.flushed = IsDrained(x)]
  BY <1>1, QuietWays
<1> HIDE DEF x
<1> QED
  BY <1>2, QuietSets

(* Every step of a client's writer, while the server waits for the request. *)
LEMMA QuietStays ==
    ASSUME Quiet(wr), filt \in Filter, ~filt.xtls, vision \in Streams, Role = "client",
           WriterFacts(wr, Len(Data)), WriterStep
    PROVE  Quiet(wr') /\ ~filt'.xtls
<1>1. CASE WritePadding
  <2> DEFINE res == NextRecord(wr.found, wr.lo, wr.hi)
  <2>1. wr.pc = "filter" /\ (WriteRecord(res) \/ WritePrefix(res) \/ WriteInvalid(res) \/ WriteNeedsData(res))
    BY <1>1 DEF WritePadding
  <2>2. res = NextRecord(wr.found, wr.lo, wr.hi)
    OBVIOUS
  <2> HIDE DEF res
  <2>3. CASE WriteRecord(res)
    <3>1. wr.lo \in Nat /\ wr.hi \in Nat /\ wr.found \in BOOLEAN /\ wr.lo # 0 /\ wr.hi <= Len(Data)
      BY <2>1, WriterIs DEF WriterFacts
    <3>2. res.out = "record"
      BY <2>3 DEF WriteRecord
    <3>3. wr.lo < wr.hi
      BY <2>2, <3>1, <3>2, NextRecordIs
    <3>4. Len(Data) \in Nat
      BY VisionConstants DEF Data
    <3>5. wr.lo \in 1..Len(Data)
      BY <3>1, <3>3, <3>4
    <3>6. Data[wr.lo][1] # "sh13"
      BY <3>5, VisionConstants DEF Data, Role
    <3> QED
      BY <2>3, <3>6, QuietRecord
  <2>4. CASE WritePrefix(res)
    BY <2>4, QuietPrefix
  <2>5. CASE WriteInvalid(res)
    BY <2>5, QuietInvalid
  <2>6. CASE WriteNeedsData(res)
    <3> DEFINE x == Returned(wr, wr.fed)
    <3>1. Quiet(x) /\ wr' = [x EXCEPT !.found = res.found] /\ filt' = filt
      BY <2>6, QuietWays DEF WriteNeedsData
    <3> HIDE DEF x
    <3> QED
      BY <3>1, QuietSets
  <2> QED
    BY <2>1, <2>3, <2>4, <2>5, <2>6
<1>2. CASE WriteDirect
  <2>1. \A a, b : Quiet([wr EXCEPT !.acked = a, !.pc = b])
    BY QuietSets
  <2>2. PICK n \in 0..wr.fed : wr' = [wr EXCEPT !.acked = @ + n, !.pc = "idle"]
    BY <1>2 DEF WriteDirect
  <2> DEFINE c == wr.acked + n
  <2>3. wr' = [wr EXCEPT !.acked = c, !.pc = "idle"]
    BY <2>2
  <2> HIDE DEF c
  <2>4. Quiet(wr')
    BY <2>1, <2>3
  <2> QED
    BY <1>2, <2>4 DEF WriteDirect
<1>3. CASE Shutdown
  BY <1>3, QuietSets DEF Shutdown
<1>4. CASE \E n \in 1..Len(Data) : PollWrite(n)
  BY <1>4, QuietPoll DEF PollWrite
<1>5. CASE WriteTls
  BY <1>5, QuietTls DEF WriteTls
<1>6. CASE Flush
  BY <1>6, QuietFlush DEF Flush
<1> QED
  BY <1>1, <1>2, <1>3, <1>4, <1>5, <1>6 DEF WriterStep

(* Writer and reader agree on what is between them: it leads from the station at
   which the reader is to the one at which the writer is. *)
Flow ==
    \E b \in Seq(Token) : \E s :
        /\ Writes(b, wr, s)
        /\ rdr.pc # "failed" => b = rdr.outer \o tcp /\ At(rdr, s)

(* The inductive invariant of Vision. *)
VisionInv ==
    /\ vision \in Streams /\ filt \in Filter /\ tcp \in Seq(Token)
    /\ WriterFacts(wr, Len(Data)) /\ ReaderFacts(rdr)
    /\ rdr.pc = "setup" => Role = "client" /\ ~filt.xtls /\ Quiet(wr)
    /\ rdr.pc = "response" => Role = "server"
    /\ rdr.pc = "eof" => wr.shut /\ tcp = <<>> /\ rdr.pend = <<>>
    /\ Flow

(* The streams of the model. *)
LEMMA StreamIs ==
    \A v \in Streams : /\ v.role \in {"client", "server"} /\ Len(v.data) \in Nat
                       /\ v.role = "server" => Len(v.data) # 0
BY VisionConstants

StartsAt(ph) == [ph |-> ph, cmd |-> "continue", left |-> 0, pos |-> 0, half |-> FALSE]

(* The initial state has its types. *)
LEMMA InitTypes ==
    ASSUME VisionInit
    PROVE  /\ vision \in Streams /\ filt \in Filter /\ wr \in Writer /\ rdr \in Reader
           /\ Len(Data) \in Nat
<1>1. vision \in Streams /\ Len(Data) \in Nat
  BY VisionConstants DEF VisionInit, Data
<1>2. filt \in Filter
  <2>1. FilterCount \in Nat
    BY VisionConstants
  <2>2. TRUE \in BOOLEAN /\ FALSE \in BOOLEAN
    OBVIOUS
  <2> QED
    BY <2>1, <2>2 DEF VisionInit, NewFilter, Filter
<1>3. PICK nil \in Seq(Token) : nil = <<>>
  BY EmptySeq
<1>4. PICK non \in Seq(Symbol) : non = <<>>
  BY EmptySeq
<1>5. wr \in Writer
  <2> DEFINE g == (Role = "server")
  <2>1. g \in BOOLEAN
    OBVIOUS
  <2>2. wr = [mode |-> "padding", next |-> "none", pc |-> "idle", first |-> TRUE,
             response |-> g, found |-> FALSE, lo |-> 1, hi |-> 0,
             fed |-> 0, had |-> 0, done |-> 0, acked |-> 0, zero |-> FALSE,
             sess |-> nil, plain |-> non, flushed |-> FALSE, shut |-> FALSE]
    BY <1>3, <1>4 DEF VisionInit
  <2> HIDE DEF g
  <2> QED
    BY <2>1, <2>2 DEF Writer
<1>6. rdr \in Reader
  <2> DEFINE g == IF Role = "client" THEN "setup" ELSE "response"
             v == [st |-> "initial", cmd |-> "continue", left |-> 0, content |-> non]
  <2>1. g \in {"setup", "response"}
    OBVIOUS
  <2>2. v \in Unpadder
    BY DEF Unpadder, Commands, Stage
  <2>3. rdr = [mode |-> "padding", pc |-> g, unpad |-> v,
               outer |-> nil, half |-> FALSE, pend |-> non, out |-> non, cause |-> "none"]
    BY <1>3, <1>4 DEF VisionInit
  <2> HIDE DEF g, v
  <2> QED
    BY <2>1, <2>2, <2>3 DEF Reader
<1> QED
  BY <1>1, <1>2, <1>5, <1>6

(* The request is under way in the initial state of a client. *)
LEMMA InitWay ==
    ASSUME NEW t \in Station, t = StartsAt("initial"), NEW s \in Station, s = StartsAt("request")
    PROVE  Sealed(<<Request>>) \in Seq(Token) /\ Path(TokRel, s, Sealed(<<Request>>), t)
<1>1. /\ s.ph = "request" /\ s.cmd = t.cmd /\ s.left = t.left /\ s.pos = t.pos /\ ~s.half /\ ~t.half
      /\ t.ph = "initial"
  BY DEF StartsAt
<1>2. SymTo(s, Request, t)
  BY <1>1 DEF SymTo, Request
<1>3. Request \in Symbol
  BY DEF Symbol
<1>4. <<s, Request, t>> \in SymRel
  BY <1>1, <1>2, <1>3, SymRelIs
<1>5. Path(SymRel, s, <<Request>>, t)
  BY <1>4, PathOne
<1>6. <<Request>> \in Seq(Symbol)
  BY <1>3
<1> QED
  BY <1>5, <1>6, SealedPath

(* Initially writer and reader agree. *)
LEMMA InitFlow ==
    ASSUME VisionInit
    PROVE  tcp \in Seq(Token) /\ Flow
<1>1. wr \in Writer /\ rdr \in Reader
  BY InitTypes
<1>2. PICK nil \in Seq(Token) : nil = <<>>
  BY EmptySeq
<1>3. PICK non \in Seq(Symbol) : non = <<>>
  BY EmptySeq
<1>4. wr.sess = nil /\ wr.plain = non /\ rdr.outer = nil /\ rdr.pend = <<>> /\ rdr.out = <<>>
  BY <1>2, <1>3 DEF VisionInit
<1>5. WriterPos(wr) = 0 /\ WriterStage(wr) = IF Role = "server" THEN "response" ELSE "initial"
  <2>1. wr.response <=> Role = "server"
    BY DEF VisionInit
  <2>2. /\ wr.mode = "padding" /\ wr.next = "none" /\ wr.first = TRUE /\ wr.pc = "idle"
        /\ wr.lo = 1 /\ wr.hi = 0 /\ wr.acked = 0
    BY DEF VisionInit
  <2>3. WriterPos(wr) = 0
    BY <2>2 DEF WriterPos
  <2>4. WriterStage(wr) = IF Role = "server" THEN "response" ELSE "initial"
    BY <2>1, <2>2 DEF WriterStage
  <2> QED
    BY <2>3, <2>4
<1> DEFINE t == StartsAt(WriterStage(wr))
           s == StartsAt(IF Role = "client" THEN "request" ELSE "response")
<1>6. t \in Station /\ s \in Station
  <2>1. WriterStage(wr) \in Stage /\ (IF Role = "client" THEN "request" ELSE "response") \in Stage
    BY <1>5 DEF Stage
  <2>2. \A ph \in Stage : StartsAt(ph) \in Station
    BY DEF StartsAt, Station, Commands
  <2> QED
    BY <2>1, <2>2
<1>7. t.ph = WriterStage(wr) /\ t.pos = WriterPos(wr) /\ ~t.half
  BY <1>5 DEF StartsAt
<1>8. tcp \in Seq(Token) /\ Path(TokRel, s, tcp, t)
  <2>1. CASE Role = "client"
    <3>1. t = StartsAt("initial") /\ s = StartsAt("request")
      BY <2>1, <1>5
    <3>2. tcp = Sealed(<<Request>>)
      BY <2>1 DEF VisionInit
    <3> HIDE DEF t, s
    <3> QED
      BY <3>1, <3>2, <1>6, InitWay
  <2>2. CASE Role # "client"
    <3>1. Role = "server"
      <4>1. vision \in Streams
        BY DEF VisionInit
      <4>2. vision.role \in {"client", "server"}
        BY <4>1, StreamIs
      <4> QED
        BY <4>2, <2>2 DEF Role
    <3>2. t = s
      BY <3>1, <1>5
    <3>3. tcp = <<>>
      BY <2>2 DEF VisionInit
    <3> HIDE DEF t, s
    <3> QED
      BY <3>2, <3>3, <1>6, PathNone, EmptySeq
  <2> QED
    BY <2>1, <2>2
<1>9. At(rdr, s)
  <2>1. s.ph = ReaderStage(rdr) /\ s.half = FALSE /\ rdr.half = FALSE
    BY DEF VisionInit, StartsAt, ReaderStage
  <2>2. s.cmd = rdr.unpad.cmd /\ s.left = rdr.unpad.left /\ s.pos = 0
    BY DEF VisionInit, StartsAt
  <2>3. Ran(rdr.out, rdr.pend, 0)
    <3>1. PieceRun(1, 0) = <<>>
      BY RunNone
    <3>2. non \o non = non
      BY <1>3, ConcatEmptySeq
    <3> QED
      BY <3>1, <3>2, <1>3, <1>4 DEF Ran
  <2> HIDE DEF s
  <2> QED
    BY <2>1, <2>2, <2>3, <1>6 DEF At
<1> HIDE DEF s, t
<1>10. Way(tcp, wr, s, t)
  <2>1. tcp \o wr.sess = tcp
    BY <1>2, <1>4, <1>8, ConcatEmptySeq
  <2>2. Path(SymRel, t, wr.plain, t)
    BY <1>3, <1>4, <1>6, PathNone
  <2> QED
    BY <2>1, <2>2, <1>6, <1>7, <1>8 DEF Way
<1>11. Writes(tcp, wr, s)
  BY <1>7, <1>10 DEF Writes
<1>12. rdr.outer \o tcp = tcp
  BY <1>2, <1>4, <1>8, ConcatEmptySeq
<1> QED
  BY <1>8, <1>9, <1>11, <1>12 DEF Flow

(* The invariant holds initially. *)
LEMMA InitInv ==
    ASSUME VisionInit
    PROVE  VisionInv
<1>1. /\ vision \in Streams /\ filt \in Filter /\ wr \in Writer /\ rdr \in Reader
      /\ Len(Data) \in Nat
  BY InitTypes
<1>2. tcp \in Seq(Token) /\ Flow
  BY InitFlow
<1>3. WriterFacts(wr, Len(Data))
  <2>1. /\ wr.lo = 1 /\ wr.hi = 0 /\ wr.acked = 0 /\ wr.mode = "padding" /\ wr.next = "none"
        /\ wr.pc = "idle" /\ wr.first /\ ~wr.flushed /\ ~wr.shut
    BY DEF VisionInit
  <2> QED
    BY <2>1, <1>1 DEF WriterFacts
<1>4. ReaderFacts(rdr)
  <2>1. /\ rdr.mode = "padding" /\ rdr.pc \in {"setup", "response"} /\ rdr.unpad.st = "initial"
        /\ rdr.outer = <<>> /\ ~rdr.half /\ rdr.pend = <<>> /\ rdr.out = <<>>
    BY DEF VisionInit
  <2> QED
    BY <2>1, <1>1 DEF ReaderFacts, Padded4
<1>5. rdr.pc = "setup" => Role = "client" /\ ~filt.xtls /\ Quiet(wr)
  BY DEF VisionInit, NewFilter, Quiet
<1>6. rdr.pc # "eof"
  BY DEF VisionInit
<1>7. rdr.pc = "response" => Role = "server"
  <2>1. vision.role \in {"client", "server"}
    BY SMTT(30), <1>1, StreamIs
  <2> QED
    BY <2>1 DEF VisionInit, Role
<1> QED
  BY <1>1, <1>2, <1>3, <1>4, <1>5, <1>6, <1>7 DEF VisionInv

(* A step of the writer changes nothing else, and none is left behind a shutdown. *)
LEMMA WriterStepIs ==
    ASSUME WriterStep, WriterFacts(wr, Len(Data))
    PROVE  vision' = vision /\ rdr' = rdr /\ ~wr.shut
<1>1. wr.shut => wr.pc = "idle"
  BY DEF WriterFacts
<1> QED
  BY <1>1 DEF WriterStep, PollWrite, WritePadding, WriteTls, WriteDirect, Flush, Shutdown

(* Every step of the writer leads on from where it was. *)
LEMMA WriterStepWrote ==
    ASSUME WriterStep, NEW b \in Seq(Token), NEW s, Writes(b, wr, s), NEW N \in Nat, N = Len(Data),
           WriterFacts(wr, N), tcp \in Seq(Token), ~strayed'
    PROVE  Wrote(b, s, N, wr', tcp, tcp')
<1>1. CASE \E n \in 1..Len(Data) : PollWrite(n)
  <2>1. PICK n \in 1..Len(Data) : PollWrite(n)
    BY <1>1
  <2>2. n \in Nat
    OBVIOUS
  <2> QED
    BY <2>1, <2>2, PollWriteWrites
<1>2. CASE WritePadding
  BY <1>2, WritePaddingWrites
<1>3. CASE WriteTls
  BY <1>3, WriteTlsWrites
<1>4. CASE WriteDirect
  BY <1>4, WriteDirectWrites
<1>5. CASE Flush
  BY <1>5, FlushWrites
<1>6. CASE Shutdown
  BY <1>6, ShutdownWrites
<1> QED
  BY <1>1, <1>2, <1>3, <1>4, <1>5, <1>6 DEF WriterStep

(* Every step of the writer keeps the invariant. *)
LEMMA WriterKeeps ==
    ASSUME VisionInv, WriterStep, ~strayed'
    PROVE  VisionInv'
<1> DEFINE N == Len(Data)
<1>0. PICK b \in Seq(Token) :
         \E s : Writes(b, wr, s) /\ (rdr.pc # "failed" => b = rdr.outer \o tcp /\ At(rdr, s))
  BY DEF VisionInv, Flow
<1>1. /\ vision \in Streams /\ filt \in Filter /\ tcp \in Seq(Token) /\ WriterFacts(wr, N)
      /\ ReaderFacts(rdr)
  BY DEF VisionInv
<1>2. N \in Nat /\ N = Len(Data)
  BY <1>1, StreamIs DEF Data
<1>3. vision' = vision /\ rdr' = rdr /\ ~wr.shut
  BY <1>1, WriterStepIs
<1>4. Len(Data)' = N /\ Role' = Role
  BY <1>3 DEF Data, Role
<1>5. filt' \in Filter
  BY <1>1, FilterStays
<1>6. PICK s : Writes(b, wr, s) /\ (rdr.pc # "failed" => b = rdr.outer \o tcp /\ At(rdr, s))
  BY <1>0
<1> HIDE DEF N
<1>7. Wrote(b, s, N, wr', tcp, tcp')
  BY <1>1, <1>2, <1>6, WriterStepWrote
<1>8. PICK sent \in Seq(Token) : tcp' = tcp \o sent /\ Writes(b \o sent, wr', s)
  BY <1>7 DEF Wrote
<1>9. tcp' \in Seq(Token) /\ b \o sent \in Seq(Token)
  BY <1>1, <1>8, ConcatProperties
<1>10. rdr.pc # "failed" => b \o sent = rdr.outer \o tcp'
  <2> SUFFICES ASSUME rdr.pc # "failed" PROVE b \o sent = rdr.outer \o tcp'
    OBVIOUS
  <2> DEFINE o == rdr.outer
  <2>1. o \in Seq(Token)
    BY <1>1, ReaderIs DEF ReaderFacts
  <2> HIDE DEF o
  <2>2. (o \o tcp) \o sent = o \o (tcp \o sent)
    BY <2>1, <1>1, TokensJoined, Zenon
  <2>3. b = o \o tcp
    BY <1>6 DEF o
  <2> QED
    BY <2>2, <2>3, <1>8 DEF o
<1>11. Flow'
  <2>1. \E c \in Seq(Token) : \E z :
           Writes(c, wr', z) /\ (rdr'.pc # "failed" => c = rdr'.outer \o tcp' /\ At(rdr', z))
    BY <1>3, <1>6, <1>8, <1>9, <1>10
  <2> QED
    BY <2>1 DEF Flow, Writes, WriterStage, WriterPos, Way, At, ReaderStage
<1>12. WriterFacts(wr', N)
  BY <1>7 DEF Wrote
<1>13. (rdr.pc = "setup") => ~filt'.xtls /\ Quiet(wr')
  BY <1>1, <1>2, QuietStays DEF VisionInv
<1>14. rdr.pc # "eof"
  BY <1>3 DEF VisionInv
<1>15. WriterFacts(wr, Len(Data))'
  BY <1>4, <1>12 DEF WriterFacts, Writer
<1>16. (rdr.pc = "setup" => Role = "client" /\ ~filt.xtls /\ Quiet(wr))'
  <2>1. rdr.pc = "setup" => Role = "client"
    BY DEF VisionInv
  <2> QED
    BY <2>1, <1>3, <1>4, <1>13 DEF Quiet
<1>17. ReaderFacts(rdr)'
  BY <1>1, <1>3 DEF ReaderFacts, Reader
<1>18. (rdr.pc = "response" => Role = "server")'
  BY <1>3, <1>4 DEF VisionInv
<1> QED
  BY <1>1, <1>3, <1>5, <1>9, <1>11, <1>14, <1>15, <1>16, <1>17, <1>18 DEF VisionInv

(* The other direction of the writer's stream feeds its filter. *)
LEMMA FilterKeeps ==
    ASSUME VisionInv, FilterOther
    PROVE  VisionInv'
<1>1. vision' = vision /\ rdr' = rdr /\ wr' = wr /\ tcp' = tcp
  BY DEF FilterOther
<1>2. filt' \in Filter
  BY FilterStays DEF VisionInv
<1>3. rdr.pc # "setup"
  BY DEF VisionInv, FilterOther
<1>4. Flow'
  <2>1. \E c \in Seq(Token) : \E z :
           Writes(c, wr', z) /\ (rdr'.pc # "failed" => c = rdr'.outer \o tcp' /\ At(rdr', z))
    BY <1>1 DEF VisionInv, Flow
  <2> QED
    BY <2>1 DEF Flow, Writes, WriterStage, WriterPos, Way, At, ReaderStage
<1>5. WriterFacts(wr, Len(Data))' /\ ReaderFacts(rdr)'
  BY <1>1 DEF VisionInv, WriterFacts, ReaderFacts, Data
<1>6. (rdr.pc = "response" => Role = "server")'
  BY <1>1 DEF VisionInv, Role
<1> QED
  BY <1>1, <1>2, <1>3, <1>4, <1>5, <1>6 DEF VisionInv

(* What is buffered behind the session ends where the writer is. *)
Ends(w, u) ==
    /\ u \in Station /\ ~u.half
    /\ \E t : Path(SymRel, u, w.plain, t) /\ t.ph = WriterStage(w) /\ t.pos = WriterPos(w)

(* What the reader will read, in a state of the invariant. *)
LEMMA FlowReads ==
    ASSUME VisionInv, rdr.pc # "failed"
    PROVE  \E u : Ends(wr, u) /\ Reads(rdr, tcp \o wr.sess, u)
<1>1. ReaderFacts(rdr) /\ rdr.outer \in Seq(Token) /\ tcp \in Seq(Token) /\ wr.sess \in Seq(Token)
  BY ReaderIs, WriterIs DEF VisionInv, ReaderFacts, WriterFacts
<1>2. PICK s : Writes(rdr.outer \o tcp, wr, s) /\ At(rdr, s)
  BY DEF VisionInv, Flow
<1>3. PICK t : t.ph = WriterStage(wr) /\ t.pos = WriterPos(wr) /\ Way(rdr.outer \o tcp, wr, s, t)
  BY <1>2 DEF Writes
<1>4. PICK u \in Station : /\ Path(TokRel, s, (rdr.outer \o tcp) \o wr.sess, u) /\ ~u.half
                           /\ Path(SymRel, u, wr.plain, t)
  BY <1>3 DEF Way
<1>5. (rdr.outer \o tcp) \o wr.sess = rdr.outer \o (tcp \o wr.sess)
  <2> DEFINE a == rdr.outer
             c == wr.sess
  <2>1. a \in Seq(Token) /\ tcp \in Seq(Token) /\ c \in Seq(Token)
    BY <1>1
  <2> HIDE DEF a, c
  <2>2. (a \o tcp) \o c = a \o (tcp \o c)
    BY <2>1, TokensJoined, Zenon
  <2> QED
    BY <2>2 DEF a, c
<1>6. Ends(wr, u)
  BY <1>3, <1>4 DEF Ends
<1>7. Reads(rdr, tcp \o wr.sess, u)
  <2>1. s \in Station
    BY <1>2 DEF At
  <2> QED
    BY <2>1, <1>1, <1>2, <1>4, <1>5 DEF Reads
<1> QED
  BY <1>6, <1>7

(* A step of the reader that reads as it should keeps the invariant. *)
LEMMA ReadsKeep ==
    ASSUME VisionInv, NEW u, Ends(wr, u), vision' = vision, wr' = wr, filt' = filt,
           tcp' \in Seq(Token),
           Reads(rdr', tcp' \o wr.sess, u), rdr'.pc # "setup",
           rdr'.pc = "response" => Role = "server",
           rdr'.pc = "eof" => wr.shut /\ tcp' = <<>> /\ rdr'.pend = <<>>
    PROVE  VisionInv'
<1>1. \E c \in Seq(Token) : \E z :
         Writes(c, wr, z) /\ (rdr'.pc # "failed" => c = rdr'.outer \o tcp' /\ At(rdr', z))
  <2>1. CASE rdr'.pc = "failed"
    BY <2>1 DEF VisionInv, Flow
  <2>2. CASE rdr'.pc # "failed"
    <3> DEFINE r == rdr'
               q == tcp'
               a == r.outer
               e == wr.sess
    <3>1. PICK s \in Station : At(r, s) /\ Path(TokRel, s, a \o (q \o e), u)
      BY <2>2 DEF Reads
    <3>2. a \in Seq(Token) /\ q \in Seq(Token) /\ e \in Seq(Token)
      <4>1. r \in Reader /\ wr \in Writer
        BY DEF Reads, ReaderFacts, VisionInv, WriterFacts
      <4> HIDE DEF r
      <4> QED
        BY <4>1, ReaderIs, WriterIs
    <3> HIDE DEF a, q, e, r
    <3>3. (a \o q) \o e = a \o (q \o e) /\ a \o q \in Seq(Token)
      <4>1. (a \o q) \o e = a \o (q \o e)
        BY <3>2, TokensJoined, Zenon
      <4>2. a \o q \in Seq(Token)
        BY <3>2, ConcatProperties
      <4> QED
        BY <4>1, <4>2
    <3>4. PICK t : Path(SymRel, u, wr.plain, t) /\ t.ph = WriterStage(wr) /\ t.pos = WriterPos(wr)
      BY DEF Ends
    <3>5. u \in Station /\ ~u.half
      BY DEF Ends
    <3>6. Path(TokRel, s, (a \o q) \o e, u)
      BY <3>1, <3>3
    <3>7. Way(a \o q, wr, s, t)
      BY <3>4, <3>5, <3>6 DEF Way, e
    <3>8. Writes(a \o q, wr, s)
      BY <3>4, <3>7 DEF Writes
    <3> QED
      BY <3>1, <3>3, <3>8 DEF a, q, r
  <2> QED
    BY <2>1, <2>2
<1>2. Flow'
  <2>1. \E c \in Seq(Token) : \E z :
           Writes(c, wr', z) /\ (rdr'.pc # "failed" => c = rdr'.outer \o tcp' /\ At(rdr', z))
    BY <1>1
  <2> QED
    BY <2>1 DEF Flow, Writes, WriterStage, WriterPos, Way, At, ReaderStage
<1>3. ReaderFacts(rdr')
  BY DEF Reads
<1>4. ReaderFacts(rdr)'
  BY <1>3 DEF ReaderFacts, Reader
<1>5. WriterFacts(wr, Len(Data))'
  BY DEF VisionInv, WriterFacts, Data
<1>6. vision' \in Streams /\ filt' \in Filter
  BY DEF VisionInv
<1>7. (rdr.pc = "response" => Role = "server")'
  BY DEF Role
<1> QED
  BY <1>2, <1>4, <1>5, <1>6, <1>7 DEF VisionInv

(* What the reader does next, after a step other than the last: it waits for the
   response only if it did before. *)
Busy(r) ==
    /\ "pc" \in DOMAIN r
    /\ r.pc \in {"read", "records", "failed"} \/ (r.pc = "response" /\ rdr.pc = "response")

(* Updates of the reader that leave it busy. *)
LEMMA BusySets ==
    ASSUME NEW r, Busy(r)
    PROVE  /\ \A a, b : Busy([r EXCEPT !.unpad = a, !.pend = b])
           /\ \A a : Busy([r EXCEPT !.outer = a]) /\ Busy([r EXCEPT !.out = a])
           /\ \A a, b, c : Busy([r EXCEPT !.pend = a, !.outer = b, !.mode = c])
           /\ \A a, b, c, d : Busy([r EXCEPT !.pend = a, !.outer = b, !.mode = c, !.half = d])
           /\ \A a, b : Busy([r EXCEPT !.out = a, !.pend = b])
           /\ \A a, b : Busy([r EXCEPT !.pend = a, !.half = b])
           /\ \A a : Busy([r EXCEPT !.outer = a, !.pc = "records"])
           /\ Busy([r EXCEPT !.pc = "read"])
           /\ \A why : Busy(ReadFails(r, why))
BY DEF Busy, ReadFails

(* handle_padded_bytes leaves the reader busy. *)
LEMMA BusyHandles ==
    ASSUME NEW r, Busy(r), NEW d
    PROVE  Busy(HandlePadded(r, d))
<1> DEFINE u == Unpad(r.unpad, d)
           p == r.pend \o u.content
           more == From(r.outer, Whole(r.outer) + 1)
           x == [r EXCEPT !.unpad = u, !.pend = p]
           a == x.pend \o r.outer
           b == x.pend \o Opened(r.outer)
           h == x.half \/ more # <<>>
           yd == [x EXCEPT !.pend = a, !.outer = <<>>, !.mode = "direct"]
           yt == [x EXCEPT !.pend = b, !.outer = <<>>, !.mode = "tls", !.half = h]
<1>1. Busy(x)
  <2> HIDE DEF u, p
  <2> QED
    BY BusySets
<1>2. HandlePadded(r, d) =
        CASE u.st = "bad" -> ReadFails(r, IF r.unpad.st = "done" THEN "twice" ELSE "desync")
          [] u.st = "done" /\ u.cmd = "direct" -> yd
          [] u.st = "done" /\ u.cmd = "tls" ->
               IF OuterNext(more) # "need" THEN ReadFails(r, "desync") ELSE yt
          [] OTHER -> x
  BY DEF HandlePadded
<1> HIDE DEF x, u, more, a, b, h
<1>3. Busy(yd)
  BY <1>1, BusySets
<1>4. Busy(yt)
  BY <1>1, BusySets
<1>5. \A why : Busy(ReadFails(r, why))
  BY BusySets
<1> HIDE DEF yd, yt
<1> QED
  BY <1>1, <1>2, <1>3, <1>4, <1>5

(* Every step of the reader but the last leaves it busy. *)
LEMMA BusySteps ==
    ASSUME rdr \in Reader, ReadRequest \/ ReadResponse \/ Deliver \/ ReadTcp \/ TakeRecord,
           ~strayed'
    PROVE  Busy(rdr')
<1>1. "pc" \in DOMAIN rdr
  BY DEF Reader
<1>2. CASE ReadRequest
  <2>0. PICK n \in 2..Len(tcp) : \E j, d :
           LET r == [rdr EXCEPT !.pc = "read", !.half = (tcp[n] = Half)]
               x == IF j = 0 THEN r ELSE HandlePadded(r, SubSeq(d, 1, j))
           IN rdr' = IF x.pc = "failed" THEN x ELSE HandlePadded(x, From(d, j + 1))
    BY ZenonT(60), <1>2 DEF ReadRequest, HandOver
  <2>1. PICK j, d :
           LET r == [rdr EXCEPT !.pc = "read", !.half = (tcp[n] = Half)]
               x == IF j = 0 THEN r ELSE HandlePadded(r, SubSeq(d, 1, j))
           IN rdr' = IF x.pc = "failed" THEN x ELSE HandlePadded(x, From(d, j + 1))
    BY <2>0
  <2> DEFINE h == (tcp[n] = Half)
             r == [rdr EXCEPT !.pc = "read", !.half = h]
             x == IF j = 0 THEN r ELSE HandlePadded(r, SubSeq(d, 1, j))
  <2>2. rdr' = IF x.pc = "failed" THEN x ELSE HandlePadded(x, From(d, j + 1))
    BY <2>1
  <2>3. Busy(r)
    <3> HIDE DEF h
    <3> QED
      BY <1>1 DEF Busy
  <2> HIDE DEF r
  <2>4. Busy(x)
    BY <2>3, BusyHandles
  <2> HIDE DEF x
  <2> QED
    BY <2>2, <2>4, BusyHandles
<1>3. CASE ReadResponse
  <2>1. PICK o, d : rdr' = Responded([rdr EXCEPT !.outer = o], d)
    BY <1>3 DEF ReadResponse, Responded
  <2> DEFINE r == [rdr EXCEPT !.outer = o]
  <2>2. Busy(r)
    BY <1>1, <1>3 DEF Busy, ReadResponse
  <2>3. rdr' = Responded(r, d)
    BY <2>1
  <2> HIDE DEF r
  <2>4. Busy([r EXCEPT !.pc = "read"]) /\ Busy(ReadFails(r, "overread"))
    BY <2>2, BusySets
  <2>5. Busy(HandlePadded([r EXCEPT !.pc = "read"], Tail(d)))
    BY <2>4, BusyHandles
  <2>6. rdr' \in {ReadFails(r, "overread"), r, [r EXCEPT !.pc = "read"],
                  HandlePadded([r EXCEPT !.pc = "read"], Tail(d))}
    BY <2>3 DEF Responded
  <2> QED
    BY <2>2, <2>4, <2>5, <2>6
<1>4. CASE Deliver
  <2>1. Busy(rdr)
    BY <1>1, <1>4 DEF Busy, Deliver
  <2>2. PICK a, b : rdr' = [rdr EXCEPT !.out = a, !.pend = b]
    BY <1>4 DEF Deliver
  <2> QED
    BY <2>1, <2>2, BusySets
<1>5. CASE ReadTcp
  <2>1. Busy(rdr)
    BY <1>1, <1>5 DEF Busy, ReadTcp
  <2>2. rdr.mode \in {"padding", "tls", "direct"}
    BY ReaderIs
  <2>3. PICK toks : rdr' \in {ReadPadding(rdr, toks), ReadTls(rdr, toks), [rdr EXCEPT !.out = @ \o toks]}
    BY <1>5, <2>2 DEF ReadTcp
  <2>4. Busy(ReadPadding(rdr, toks))
    BY <2>1, BusySets DEF ReadPadding
  <2>5. Busy(ReadTls(rdr, toks))
    <3> DEFINE all == IF rdr.half THEN <<Half>> \o toks ELSE toks
               p == rdr.pend \o Opened(toks)
               h == (Whole(all) < Len(all))
    <3>1. \/ ReadTls(rdr, toks) = [rdr EXCEPT !.pend = p, !.half = h]
          \/ ReadTls(rdr, toks) = ReadFails(rdr, "desync")
      BY DEF ReadTls
    <3> HIDE DEF p, h
    <3>2. Busy([rdr EXCEPT !.pend = p, !.half = h])
      BY <2>1, BusySets
    <3>3. Busy(ReadFails(rdr, "desync"))
      BY <2>1, BusySets
    <3> QED
      BY <3>1, <3>2, <3>3
  <2>6. Busy([rdr EXCEPT !.out = @ \o toks])
    <3> DEFINE o == rdr.out \o toks
    <3> HIDE DEF o
    <3>1. Busy([rdr EXCEPT !.out = o])
      BY <2>1, BusySets
    <3> QED
      BY <3>1 DEF o
  <2> QED
    BY <2>3, <2>4, <2>5, <2>6
<1>6. CASE TakeRecord
  <2>1. Busy(rdr)
    BY <1>1, <1>6 DEF Busy, TakeRecord
  <2> DEFINE o == From(rdr.outer, 3)
             r == [rdr EXCEPT !.outer = o]
             x == HandlePadded(r, rdr.outer[2][2])
  <2>2. \/ rdr' = [rdr EXCEPT !.pc = "read"] \/ rdr' = x \/ rdr' = [x EXCEPT !.pc = "read"]
        \/ \E why : rdr' = ReadFails(rdr, why)
    <3> HIDE DEF x
    <3>1. rdr' = CASE OuterNext(rdr.outer) = "need" -> [rdr EXCEPT !.pc = "read"]
                   [] OuterNext(rdr.outer) = "record" ->
                        IF x.pc # "failed" /\ x.mode # "padding"
                        THEN [x EXCEPT !.pc = "read"] ELSE x
                   [] OTHER -> ReadFails(rdr, IF rdr.half THEN "cut" ELSE "desync")
      BY <1>6 DEF TakeRecord, x
    <3> QED
      BY <3>1
  <2>3. Busy(r)
    <3> HIDE DEF o
    <3> QED
      BY <2>1, BusySets
  <2> HIDE DEF r
  <2>4. Busy(x)
    BY <2>3, BusyHandles
  <2> HIDE DEF x
  <2>5. Busy([x EXCEPT !.pc = "read"])
    BY <2>4, BusySets
  <2>6. Busy([rdr EXCEPT !.pc = "read"]) /\ \A why : Busy(ReadFails(rdr, why))
    BY <2>1, BusySets
  <2> QED
    BY <2>2, <2>4, <2>5, <2>6
<1> QED
  BY <1>2, <1>3, <1>4, <1>5, <1>6

(* The end of a path through at most half a record, that is not inside one. *)
LEMMA HalfEnds ==
    ASSUME NEW a, a \in {<<>>, <<Half>>}, NEW s, NEW u, Path(TokRel, s, a, u), ~u.half
    PROVE  s = u
<1>1. CASE a = <<>>
  BY <1>1, PathNone
<1>2. CASE a = <<Half>>
  <2>1. a \in Seq(Token) /\ Len(a) # 0 /\ a[1] = Half /\ Tail(a) = <<>>
    BY <1>2, Kinds
  <2>2. PICK m \in Station : <<s, a[1], m>> \in TokRel /\ Path(TokRel, m, Tail(a), u)
    BY <2>1, PathFirst
  <2>3. m = u
    <3>1. Path(TokRel, m, <<>>, u)
      BY <2>1, <2>2
    <3> QED
      BY <3>1, PathNone
  <2>4. IsHalf(s, a[1], m) \/ IsRest(s, a[1], m) \/ IsPiece(s, a[1], m)
    BY <2>2, TokStep
  <2>5. a[1][1] = "half"
    BY <2>1, Tags
  <2> QED
    BY <2>3, <2>4, <2>5 DEF IsHalf, IsRest, IsPiece
<1> QED
  BY <1>1, <1>2

(* Behind a shutdown nothing is under way. *)
LEMMA AllRead ==
    ASSUME VisionInv, wr.shut, tcp = <<>>, rdr.pc \in {"response", "read", "eof"}
    PROVE  /\ wr.pc = "idle" /\ ~wr.response
           /\ \E s : At(rdr, s) /\ s.ph = WriterStage(wr) /\ s.pos = WriterPos(wr)
<1>1. /\ WriterFacts(wr, Len(Data)) /\ ReaderFacts(rdr) /\ vision \in Streams
  BY DEF VisionInv
<1>2. wr.sess = <<>> /\ wr.plain = <<>> /\ wr.pc = "idle" /\ wr.acked = Len(Data)
  BY <1>1 DEF WriterFacts
<1>4. rdr.outer \in {<<>>, <<Half>>} /\ rdr.outer \in Seq(Token)
  BY <1>1, ReaderIs DEF ReaderFacts
<1>5. PICK s : Writes(rdr.outer \o tcp, wr, s) /\ At(rdr, s)
  BY DEF VisionInv, Flow
<1>6. PICK t : t.ph = WriterStage(wr) /\ t.pos = WriterPos(wr) /\ Way(rdr.outer \o tcp, wr, s, t)
  BY <1>5 DEF Writes
<1>7. PICK u \in Station : /\ Path(TokRel, s, (rdr.outer \o tcp) \o wr.sess, u) /\ ~u.half
                           /\ Path(SymRel, u, wr.plain, t)
  BY <1>6 DEF Way
<1>8. (rdr.outer \o tcp) \o wr.sess = rdr.outer
  BY <1>2, <1>4, ConcatEmptySeq
<1>9. s = u
  BY <1>4, <1>7, <1>8, HalfEnds
<1>10. u = t
  BY <1>2, <1>7, PathNone
<1>11. At(rdr, s) /\ s.ph = WriterStage(wr) /\ s.pos = WriterPos(wr)
  BY <1>5, <1>6, <1>9, <1>10
<1>12. ~wr.response
  <2> SUFFICES ASSUME wr.response PROVE FALSE
    OBVIOUS
  <2>1. ReaderStage(rdr) = "response"
    BY <1>11 DEF At, WriterStage
  <2>2. rdr.mode # "response" /\ (rdr.mode = "padding" => rdr.unpad.st # "response")
    BY <1>1, ReaderIs DEF ReaderFacts, Padded4
  <2>3. rdr.pc = "response"
    BY <2>1, <2>2 DEF ReaderStage
  <2>4. Len(Data) # 0
    BY <2>3, <1>1, StreamIs DEF VisionInv, Role, Data
  <2> QED
    BY <2>4, <1>1, <1>2 DEF WriterFacts
<1> QED
  BY <1>2, <1>11, <1>12

(* The end of the stream keeps the invariant: the response has come before it. *)
LEMMA EofKeeps ==
    ASSUME VisionInv, ReadEof
    PROVE  VisionInv'
<1>1. rdr.pc \in {"response", "read"} /\ rdr.pend = <<>> /\ tcp = <<>> /\ wr.shut
  BY DEF ReadEof
<1>2. rdr.pc # "response"
  <2> SUFFICES ASSUME rdr.pc = "response" PROVE FALSE
    OBVIOUS
  <2>1. PICK s : At(rdr, s) /\ s.ph = WriterStage(wr) /\ ~wr.response
    BY <1>1, AllRead
  <2>2. s.ph = "response"
    BY <2>1 DEF At, ReaderStage
  <2>3. wr.mode # "response" /\ wr.next # "response"
    BY WriterIs DEF VisionInv, WriterFacts
  <2> QED
    BY <2>1, <2>2, <2>3 DEF WriterStage
<1>3. rdr.pc = "read" /\ rdr \in Reader /\ ReaderFacts(rdr)
  BY <1>1, <1>2 DEF VisionInv, ReaderFacts
<1> DEFINE y == rdr'
<1>4. y = [rdr EXCEPT !.pc = "eof"] /\ vision' = vision /\ wr' = wr /\ filt' = filt /\ tcp' = tcp
  BY <1>3 DEF ReadEof
<1>5. PICK u : Ends(wr, u) /\ Reads(rdr, tcp \o wr.sess, u)
  BY <1>3, FlowReads
<1> HIDE DEF y
<1>6. y \in Reader /\ SameReader(rdr, y) /\ y.pc = "eof"
  BY <1>3, <1>4 DEF Reader, SameReader
<1>7. ReaderFacts(y)
  BY <1>3, <1>6 DEF ReaderFacts, SameReader
<1>8. PICK s \in Station : At(rdr, s) /\ Path(TokRel, s, rdr.outer \o (tcp \o wr.sess), u)
  BY <1>3, <1>5 DEF Reads
<1>9. At(y, s)
  BY <1>3, <1>6, <1>8 DEF At, ReaderStage, SameReader
<1>10. Reads(y, tcp \o wr.sess, u)
  BY <1>6, <1>7, <1>8, <1>9 DEF Reads, SameReader
<1>11. tcp' \in Seq(Token) /\ Reads(rdr', tcp' \o wr.sess, u)
  BY <1>4, <1>10 DEF y, VisionInv
<1>12. rdr'.pc = "eof" /\ tcp' = <<>> /\ rdr'.pend = <<>>
  BY <1>1, <1>4, <1>6 DEF y, SameReader
<1> QED
  BY <1>1, <1>4, <1>5, <1>11, <1>12, ReadsKeep

(* While the server waits for the request nothing behind DIRECT is under way. *)
LEMMA SetupEnds ==
    ASSUME VisionInv, rdr.pc = "setup", NEW u, Ends(wr, u)
    PROVE  u.ph # "direct"
<1>1. Quiet(wr) /\ wr \in Writer
  BY DEF VisionInv, WriterFacts
<1>2. PICK t : Path(SymRel, u, wr.plain, t) /\ t.ph = WriterStage(wr)
  BY DEF Ends
<1>3. t.ph # "direct"
  BY <1>1, <1>2 DEF Quiet, WriterStage
<1>4. wr.plain \in Seq(Symbol)
  BY <1>1, WriterIs
<1>5. (wr.plain # <<>> => u.ph # "direct") /\ (wr.plain = <<>> => u = t)
  BY <1>2, <1>4, SymPieces
<1> QED
  BY <1>3, <1>5

ReaderStep == ReadRequest \/ ReadResponse \/ Deliver \/ ReadTcp \/ TakeRecord

(* Every step of the reader leads on to where the writer is. *)
LEMMA ReaderStepReads ==
    ASSUME VisionInv, ReaderStep, NEW u, Ends(wr, u), Reads(rdr, tcp \o wr.sess, u),
           ~strayed'
    PROVE  tcp' \in Seq(Token) /\ Reads(rdr', tcp' \o wr.sess, u)
<1> DEFINE p == wr.sess
<1>1. tcp \in Seq(Token) /\ p \in Seq(Token)
  BY WriterIs DEF VisionInv, WriterFacts
<1>2. tcp \o p \in Seq(Token)
  BY <1>1, ConcatProperties
<1>3. Reads(rdr, tcp \o p, u)
  OBVIOUS
<1> HIDE DEF p
<1>4. CASE ReadRequest
  <2>1. u.ph # "direct"
    BY <1>4, SetupEnds DEF ReadRequest
  <2> QED
    BY <2>1, <1>1, <1>3, <1>4, ReadRequestReads DEF p
<1>5. CASE ReadResponse
  BY <1>1, <1>3, <1>5, ReadResponseReads DEF p
<1>6. CASE Deliver
  <2>1. tcp' = tcp
    BY <1>6 DEF Deliver
  <2> DEFINE q == tcp \o p
  <2>2. q \in Seq(Token) /\ Reads(rdr, q, u)
    BY <1>2, <1>3
  <2> HIDE DEF q
  <2>3. Reads(rdr', q, u)
    BY <2>2, <1>6, DeliverReads
  <2> QED
    BY <2>1, <2>3, <1>1 DEF q, p
<1>7. CASE ReadTcp
  BY <1>1, <1>3, <1>7, ReadTcpReads DEF p
<1>8. CASE TakeRecord
  <2>1. tcp' = tcp
    BY <1>8 DEF TakeRecord
  <2> DEFINE q == tcp \o p
  <2>2. q \in Seq(Token) /\ Reads(rdr, q, u)
    BY <1>2, <1>3
  <2> HIDE DEF q
  <2>3. Reads(rdr', q, u)
    BY <2>2, <1>8, TakeRecordReads
  <2> QED
    BY <2>1, <2>3, <1>1 DEF q, p
<1> QED
  BY <1>4, <1>5, <1>6, <1>7, <1>8 DEF ReaderStep

(* Every step of the reader keeps the invariant. *)
LEMMA ReaderKeeps ==
    ASSUME VisionInv, ReaderStep, ~strayed'
    PROVE  VisionInv'
<1>1. rdr.pc # "failed" /\ vision' = vision /\ wr' = wr /\ filt' = filt
  BY DEF ReaderStep, ReadRequest, ReadResponse, Deliver, ReadTcp, TakeRecord
<1>2. PICK u : Ends(wr, u) /\ Reads(rdr, tcp \o wr.sess, u)
  BY <1>1, FlowReads
<1>3. tcp' \in Seq(Token) /\ Reads(rdr', tcp' \o wr.sess, u)
  BY <1>2, ReaderStepReads
<1>4. Busy(rdr')
  BY BusySteps DEF ReaderStep, VisionInv, ReaderFacts
<1>5. rdr'.pc # "setup" /\ rdr'.pc # "eof" /\ (rdr'.pc = "response" => Role = "server")
  BY <1>4 DEF Busy, VisionInv
<1> QED
  BY <1>1, <1>2, <1>3, <1>5, ReadsKeep

(* Nothing takes back that a packet was too long, or the first part too short. *)
LEMMA StrayedStays ==
    ASSUME strayed, [VisionNext]_visionVars
    PROVE  strayed'
<1>1. CASE WritePadding
  BY <1>1 DEF WritePadding, WriteRecord, WritePrefix, WriteInvalid, WriteNeedsData
<1>2. CASE ReadRequest
  BY <1>2 DEF ReadRequest
<1>3. CASE ~WritePadding /\ ~ReadRequest
  BY <1>3 DEF VisionNext, visionVars, PollWrite, WriteTls, WriteDirect, Flush, Shutdown,
              FilterOther, ReadResponse, Deliver, ReadTcp, TakeRecord, ReadEof
<1> QED
  BY <1>1, <1>2, <1>3

(* Every step of Vision keeps the invariant while nothing has strayed. *)
LEMMA VisionKeeps ==
    ASSUME VisionInv, [VisionNext]_visionVars, ~strayed'
    PROVE  VisionInv'
<1>1. CASE UNCHANGED visionVars
  <2>1. vision' = vision /\ wr' = wr /\ filt' = filt /\ tcp' = tcp /\ rdr' = rdr
    BY <1>1 DEF visionVars
  <2>2. Flow'
    <3>1. \E c \in Seq(Token) : \E z :
             Writes(c, wr', z) /\ (rdr'.pc # "failed" => c = rdr'.outer \o tcp' /\ At(rdr', z))
      BY <2>1 DEF VisionInv, Flow
    <3> QED
      BY <3>1 DEF Flow, Writes, WriterStage, WriterPos, Way, At, ReaderStage
  <2>3. WriterFacts(wr, Len(Data))' /\ ReaderFacts(rdr)'
    BY <2>1 DEF VisionInv, WriterFacts, ReaderFacts, Data
  <2>4. (/\ rdr.pc = "setup" => Role = "client" /\ ~filt.xtls /\ Quiet(wr)
         /\ rdr.pc = "response" => Role = "server")'
    BY <2>1 DEF VisionInv, Quiet, Role
  <2> QED
    BY <2>1, <2>2, <2>3, <2>4 DEF VisionInv
<1>2. CASE WriterStep
  BY <1>2, WriterKeeps
<1>3. CASE FilterOther
  BY <1>3, FilterKeeps
<1>4. CASE ReaderStep
  BY <1>4, ReaderKeeps
<1>5. CASE ReadEof
  BY <1>5, EofKeeps
<1> QED
  BY <1>1, <1>2, <1>3, <1>4, <1>5 DEF VisionNext, WriterStep, ReaderStep

(* Runs of pieces one behind the other. *)
LEMMA RunsJoin ==
    ASSUME NEW i \in Nat, NEW j \in Nat, i <= j
    PROVE  PieceRun(1, i) \o PieceRun(i + 1, j) = PieceRun(1, j)
<1>1. 1 \in Nat /\ 1 # 0 /\ 1 <= i + 1
  OBVIOUS
<1> QED
  BY <1>1, RunConcat

(* What the writer's deframer holds back ends what it has accepted. *)
LEMMA HeldBack ==
    ASSUME NEW N, WriterFacts(wr, N), wr.pc = "idle"
    PROVE  PieceRun(1, WriterPos(wr)) \o PieceRun(wr.lo, wr.hi) = PieceRun(1, wr.acked)
<1>1. wr.lo \in Nat /\ wr.hi \in Nat /\ wr.acked \in Nat /\ wr.lo # 0
  BY WriterIs DEF WriterFacts
<1>2. CASE wr.lo <= wr.hi
  <2> DEFINE i == wr.lo - 1
             j == wr.hi
  <2>1. WriterPos(wr) = i /\ j = wr.acked /\ wr.lo = i + 1
    BY <1>1, <1>2 DEF WriterPos, WriterFacts
  <2>2. i \in Nat /\ j \in Nat /\ i <= j
    BY <1>1, <1>2
  <2> HIDE DEF i, j
  <2>3. PieceRun(1, i) \o PieceRun(i + 1, j) = PieceRun(1, j)
    BY <2>2, RunsJoin
  <2> QED
    BY <2>1, <2>3 DEF j
<1>3. CASE ~(wr.lo <= wr.hi)
  <2>1. WriterPos(wr) = wr.acked
    BY <1>3 DEF WriterPos
  <2> DEFINE l == wr.lo
             h == wr.hi
             i == wr.acked
  <2>2. l \in Int /\ h \in Int /\ h < l /\ i \in Nat
    BY <1>1, <1>3
  <2>3. 1 \in Nat /\ 1 # 0 /\ 1 <= i + 1
    BY <2>2
  <2> HIDE DEF l, h, i
  <2>4. PieceRun(l, h) = <<>>
    BY <2>2, RunNone
  <2>5. PieceRun(1, i) \in Seq(Symbol)
    BY <2>2, <2>3, RunIs
  <2>6. PieceRun(1, i) \o <<>> = PieceRun(1, i)
    BY <2>5, ConcatEmptySeq
  <2> QED
    BY <2>1, <2>4, <2>6 DEF l, h, i
<1> QED
  BY <1>2, <1>3

(* In a state of the invariant no piece is misplaced. *)
LEMMA InvMisplaced ==
    ASSUME VisionInv
    PROVE  NothingMisplaced
<1> SUFFICES ASSUME wr.pc = "idle", rdr.pc # "failed"
             PROVE  rdr.out \o rdr.pend \o OnTheWay(rdr.outer) \o OnTheWay(tcp) \o OnTheWay(wr.sess)
                      \o PiecesOf(wr.plain) \o PieceRun(wr.lo, wr.hi) = PieceRun(1, wr.acked)
  BY DEF NothingMisplaced
<1> DEFINE a == rdr.outer
           c == wr.sess
           p == wr.plain
<1>1. a \in Seq(Token) /\ tcp \in Seq(Token) /\ c \in Seq(Token) /\ p \in Seq(Symbol)
  BY ReaderIs, WriterIs DEF VisionInv, ReaderFacts, WriterFacts
<1>2. PICK s : Writes(a \o tcp, wr, s) /\ At(rdr, s)
  BY DEF VisionInv, Flow
<1>3. PICK t : t.ph = WriterStage(wr) /\ t.pos = WriterPos(wr) /\ Way(a \o tcp, wr, s, t)
  BY <1>2 DEF Writes
<1>4. PICK u \in Station : Path(TokRel, s, (a \o tcp) \o c, u) /\ Path(SymRel, u, p, t)
  BY <1>3 DEF Way
<1> HIDE DEF a, c, p
<1>5. a \o tcp \in Seq(Token)
  BY <1>1, ConcatProperties
<1>6. PICK j \in Station : Path(TokRel, s, a \o tcp, j) /\ Path(TokRel, j, c, u)
  BY <1>1, <1>4, <1>5, PathSplit
<1>7. PICK i \in Station : Path(TokRel, s, a, i) /\ Path(TokRel, i, tcp, j)
  BY <1>1, <1>6, PathSplit
<1>8. s.pos <= i.pos /\ OnTheWay(a) = PieceRun(s.pos + 1, i.pos) /\ s \in Station
  BY <1>1, <1>7, WayPieces
<1>9. i.pos <= j.pos /\ OnTheWay(tcp) = PieceRun(i.pos + 1, j.pos)
  BY <1>1, <1>7, WayPieces
<1>10. j.pos <= u.pos /\ OnTheWay(c) = PieceRun(j.pos + 1, u.pos)
  BY <1>1, <1>6, WayPieces
<1>11. u.pos <= t.pos /\ PiecesOf(p) = PieceRun(u.pos + 1, t.pos) /\ t \in Station
  BY <1>1, <1>4, SymPieces
<1>12. s.pos \in Nat /\ i.pos \in Nat /\ j.pos \in Nat /\ u.pos \in Nat /\ t.pos \in Nat
  BY <1>8, <1>11, StationIs
<1>13. rdr.out \o rdr.pend = PieceRun(1, s.pos)
  BY <1>2 DEF At, Ran
<1>14. PieceRun(1, s.pos) \o OnTheWay(a) = PieceRun(1, i.pos)
  BY <1>8, <1>12, RunsJoin
<1>15. PieceRun(1, i.pos) \o OnTheWay(tcp) = PieceRun(1, j.pos)
  BY <1>9, <1>12, RunsJoin
<1>16. PieceRun(1, j.pos) \o OnTheWay(c) = PieceRun(1, u.pos)
  BY <1>10, <1>12, RunsJoin
<1>17. PieceRun(1, u.pos) \o PiecesOf(p) = PieceRun(1, t.pos)
  BY <1>11, <1>12, RunsJoin
<1>18. PieceRun(1, t.pos) \o PieceRun(wr.lo, wr.hi) = PieceRun(1, wr.acked)
  BY <1>3, HeldBack DEF VisionInv
<1> QED
  BY <1>13, <1>14, <1>15, <1>16, <1>17, <1>18 DEF a, c, p

(* In a state of the invariant no piece is missing at the end. *)
LEMMA InvMissing ==
    ASSUME VisionInv
    PROVE  NothingMissing
<1> SUFFICES ASSUME rdr.pc = "eof"
             PROVE  rdr.out \o PieceRun(wr.lo, wr.hi) = PieceRun(1, wr.acked)
  BY DEF NothingMissing
<1>1. wr.shut /\ tcp = <<>> /\ rdr.pend = <<>>
  BY DEF VisionInv
<1>2. wr.pc = "idle"
  BY <1>1, AllRead
<1>3. PICK s : At(rdr, s) /\ s.pos = WriterPos(wr)
  BY <1>1, AllRead
<1>4. rdr.out = PieceRun(1, s.pos)
  <2>1. rdr.out \in Seq(Symbol)
    BY ReaderIs DEF VisionInv, ReaderFacts
  <2>2. rdr.out \o <<>> = rdr.out
    BY <2>1, ConcatEmptySeq
  <2>3. rdr.out \o <<>> = PieceRun(1, s.pos)
    BY <1>1, <1>3 DEF At, Ran
  <2> QED
    BY <2>2, <2>3
<1>5. PieceRun(1, WriterPos(wr)) \o PieceRun(wr.lo, wr.hi) = PieceRun(1, wr.acked)
  BY <1>2, HeldBack DEF VisionInv
<1> QED
  BY <1>3, <1>4, <1>5

(* A Vision stream delivers the inner bytes once, in order and to the end, across
   its changes of mode, and its reader changes where its writer did, until a
   packet is too long for its length or the unpadder's first part too short for
   the UUID: for every inner stream of VisionConstants (a server sends something,
   a client no ServerHello), every session buffer, every filter count, every width
   of the length, and however TCP cuts what it carries. *)
THEOREM VisionAlwaysSafe == VisionSpec => []VisionSafe
<1> DEFINE IInv == strayed \/ VisionInv
<1>1. VisionInit => IInv
  BY InitInv
<1>2. IInv /\ [VisionNext]_visionVars => IInv'
  BY StrayedStays, VisionKeeps
<1>3. IInv => VisionSafe
  <2> SUFFICES ASSUME VisionInv PROVE VisionSafe
    BY DEF VisionSafe
  <2>1. ReadersAgree
    BY ReaderIs DEF VisionInv, ReaderFacts, ReadersAgree
  <2> QED
    BY <2>1, InvMisplaced, InvMissing DEF VisionSafe
<1> QED
  BY <1>1, <1>2, <1>3, PTL DEF VisionSpec
=============================================================================
