----------------------------- MODULE WireProofs -----------------------------
(***************************************************************************)
(* What holds of the two parts that write what the bridge sends, for every *)
(* input: the grouping of log entries by the fingerprint of their labels   *)
(* (LokiWriter) and the encoding of a remote_write request (RemoteWrite).  *)
(*                                                                         *)
(* The variables are those of Conversions.  For the writer, given is the   *)
(* batch, todo the number of entries grouped, made the map of streams and  *)
(* aux1 the streams of the request.  For the encoder, given is the         *)
(* request, todo the number of series encoded, made the bytes and status   *)
(* the result.                                                             *)
(***************************************************************************)
EXTENDS ConversionProofs

-----------------------------------------------------------------------------
(* Loki writer *)

(* A name or a value with the separator that ends it *)
Ended(a, x) == a \o <<x>>

(* x does not occur in a. *)
Without(a, x) == \A i \in 1..Len(a) : a[i] # x

(* Two divisions of a sequence are the same: into two parts, and into a label's
   name, its value and the rest. *)
SameParts(a, b, r, q) == a = b /\ r = q
SameLabel(k, m, v, w, r, q) == k = m /\ v = w /\ r = q

(* What comes before the first separator, and what comes after it, can be told
   from the whole. *)
LEMMA SplitAtSeparator ==
  ASSUME NEW Char, NEW x \in Char,
         NEW a \in Seq(Char), NEW b \in Seq(Char), NEW r \in Seq(Char), NEW q \in Seq(Char),
         Without(a, x), Without(b, x),
         Ended(a, x) \o r = Ended(b, x) \o q
  PROVE  SameParts(a, b, r, q)
  <1> DEFINE s == (a \o <<x>>) \o r
             t == (b \o <<x>>) \o q
  <1>1. ASSUME NEW c \in Seq(Char), NEW d \in Seq(Char)
        PROVE  LET w == (c \o <<x>>) \o d IN
               /\ w \in Seq(Char) /\ Len(c) \in Nat /\ Len(d) \in Nat
               /\ Len(w) = Len(c) + 1 + Len(d)
               /\ w[Len(c) + 1] = x
               /\ \A i \in 1..Len(c) : w[i] = c[i]
               /\ \A i \in 1..Len(d) : w[Len(c) + 1 + i] = d[i]
    <2>1. <<x>> \in Seq(Char) /\ Len(<<x>>) = 1 /\ <<x>>[1] = x
      OBVIOUS
    <2>2. /\ c \o <<x>> \in Seq(Char) /\ Len(c \o <<x>>) = Len(c) + 1
          /\ (c \o <<x>>)[Len(c) + 1] = x
          /\ \A i \in 1..Len(c) : (c \o <<x>>)[i] = c[i]
      BY <2>1, ConcatProperties
    <2> DEFINE e == c \o <<x>>
    <2> HIDE DEF e
    <2>3. /\ e \o d \in Seq(Char) /\ Len(e \o d) = Len(e) + Len(d)
          /\ \A i \in 1..Len(e) : (e \o d)[i] = e[i]
          /\ \A i \in 1..Len(d) : (e \o d)[Len(e) + i] = d[i]
      <3>1. e \in Seq(Char)
        BY <2>2 DEF e
      <3>2. \A i \in 1..(Len(e) + Len(d)) : (e \o d)[i] = IF i <= Len(e) THEN e[i] ELSE d[i - Len(e)]
        BY <3>1, ConcatProperties
      <3>3. e \o d \in Seq(Char) /\ Len(e \o d) = Len(e) + Len(d) /\ Len(e) \in Nat /\ Len(d) \in Nat
        BY <3>1, ConcatProperties
      <3> QED BY <3>2, <3>3
    <2>4. Len(c) \in Nat /\ Len(d) \in Nat
      OBVIOUS
    <2> QED BY <2>2, <2>3, <2>4 DEF e
  <1>a. /\ Len(a) \in Nat /\ Len(r) \in Nat
        /\ Len(s) = Len(a) + 1 + Len(r)
        /\ s[Len(a) + 1] = x
        /\ \A i \in 1..Len(a) : s[i] = a[i]
        /\ \A i \in 1..Len(r) : s[Len(a) + 1 + i] = r[i]
    BY <1>1
  <1>b. /\ Len(b) \in Nat /\ Len(q) \in Nat
        /\ Len(t) = Len(b) + 1 + Len(q)
        /\ t[Len(b) + 1] = x
        /\ \A i \in 1..Len(b) : t[i] = b[i]
        /\ \A i \in 1..Len(q) : t[Len(b) + 1 + i] = q[i]
    BY <1>1
  <1>c. s = t
    BY DEF Ended
  <1> HIDE DEF s, t
  <1>2. /\ Len(a) \in Nat /\ Len(r) \in Nat /\ Len(b) \in Nat /\ Len(q) \in Nat
        /\ Len(s) = Len(a) + 1 + Len(r) /\ Len(s) = Len(b) + 1 + Len(q)
        /\ s[Len(a) + 1] = x /\ s[Len(b) + 1] = x
        /\ \A i \in 1..Len(a) : s[i] = a[i]
        /\ \A i \in 1..Len(b) : s[i] = b[i]
        /\ \A i \in 1..Len(r) : s[Len(a) + 1 + i] = r[i]
        /\ \A i \in 1..Len(q) : s[Len(b) + 1 + i] = q[i]
    BY <1>a, <1>b, <1>c
  <1>3. ~(Len(a) < Len(b))
    <2> SUFFICES ASSUME Len(a) < Len(b) PROVE FALSE
      OBVIOUS
    <2>1. Len(a) + 1 \in 1..Len(b)
      BY <1>2
    <2> QED BY <1>2, <2>1 DEF Without
  <1>4. ~(Len(b) < Len(a))
    <2> SUFFICES ASSUME Len(b) < Len(a) PROVE FALSE
      OBVIOUS
    <2>1. Len(b) + 1 \in 1..Len(a)
      BY <1>2
    <2> QED BY <1>2, <2>1 DEF Without
  <1>5. Len(a) = Len(b) /\ Len(r) = Len(q)
    BY <1>2, <1>3, <1>4
  <1>6. a = b
    <2>1. \A i \in 1..Len(a) : a[i] = b[i]
      BY <1>2, <1>5
    <2> QED BY <1>5, <2>1, SeqEqual
  <1>7. r = q
    <2>1. \A i \in 1..Len(r) : r[i] = q[i]
      BY <1>2, <1>5
    <2> QED BY <1>5, <2>1, SeqEqual
  <1> QED BY <1>6, <1>7 DEF SameParts

(* A recursive definition over the numbers down from n is met by a function. *)
LEMMA JoinedExists ==
  ASSUME NEW n \in Nat, NEW l
  PROVE  \E f : f = [i \in 1..(n + 1) |-> IF i > n THEN <<>> ELSE L!Piece(l, Names[i]) \o f[i + 1]]
  <1> DEFINE Met(k) == \E f : f = [i \in (n + 1 - k)..(n + 1) |-> IF i > n THEN <<>> ELSE L!Piece(l, Names[i]) \o f[i + 1]]
             Unmet == {k \in 0..n : ~Met(k)}
  <1>1. Met(0)
    <2> DEFINE f == [i \in (n + 1 - 0)..(n + 1) |-> <<>>]
    <2> DEFINE h == [i \in (n + 1 - 0)..(n + 1) |-> IF i > n THEN <<>> ELSE L!Piece(l, Names[i]) \o f[i + 1]]
    <2>a. \A i \in (n + 1 - 0)..(n + 1) : i > n
      OBVIOUS
    <2>1. f = h
      BY <2>a
    <2> QED BY <2>1
  <1>2. ASSUME NEW k \in 1..n, Met(k - 1) PROVE Met(k)
    <2> DEFINE m == n + 1 - k
    <2>1. PICK f : f = [i \in (n + 1 - (k - 1))..(n + 1) |-> IF i > n THEN <<>> ELSE L!Piece(l, Names[i]) \o f[i + 1]]
      BY <1>2
    <2>2. n + 1 - (k - 1) = m + 1 /\ m \in 1..n
      OBVIOUS
    <2> DEFINE g == [i \in m..(n + 1) |-> IF i = m THEN L!Piece(l, Names[i]) \o f[i + 1] ELSE f[i]]
    <2>3. f = [i \in (m + 1)..(n + 1) |-> IF i > n THEN <<>> ELSE L!Piece(l, Names[i]) \o f[i + 1]]
      BY <2>1, <2>2
    <2> HIDE DEF m
    <2>4. ASSUME NEW i \in m..(n + 1)
          PROVE  g[i] = IF i > n THEN <<>> ELSE L!Piece(l, Names[i]) \o g[i + 1]
      <3>1. i \in Int /\ m \in Int
        BY <2>2
      <3>2. CASE i = m
        <4>1. m \in m..(n + 1) /\ m + 1 \in m..(n + 1) /\ m + 1 # m /\ ~(m > n)
          BY <2>2
        <4>2. g[m + 1] = f[m + 1]
          BY <4>1
        <4>3. g[m] = L!Piece(l, Names[m]) \o f[m + 1]
          BY <4>1
        <4> HIDE DEF g
        <4> QED BY <3>2, <4>1, <4>2, <4>3
      <3>3. CASE i # m
        <4>1. i \in (m + 1)..(n + 1) /\ g[i] = f[i]
          BY <3>1, <3>3
        <4>2. f[i] = IF i > n THEN <<>> ELSE L!Piece(l, Names[i]) \o f[i + 1]
          BY <2>3, <4>1
        <4>3. i <= n => g[i + 1] = f[i + 1]
          BY <3>1, <4>1
        <4> QED BY <4>1, <4>2, <4>3, <3>1
      <3> QED BY <3>2, <3>3
    <2>5. g = [i \in m..(n + 1) |-> IF i > n THEN <<>> ELSE L!Piece(l, Names[i]) \o g[i + 1]]
      <3> DEFINE h == [i \in m..(n + 1) |-> IF i > n THEN <<>> ELSE L!Piece(l, Names[i]) \o g[i + 1]]
      <3>1. \A i \in m..(n + 1) : g[i] = h[i]
        BY <2>4
      <3>2. DOMAIN g = m..(n + 1) /\ DOMAIN h = m..(n + 1)
        OBVIOUS
      <3> QED BY <3>1
    <2> QED BY <2>5 DEF m
  <1> HIDE DEF Met
  <1>3. Unmet = {}
    <2> SUFFICES ASSUME Unmet # {} PROVE FALSE
      OBVIOUS
    <2>1. Unmet \in SUBSET Nat
      OBVIOUS
    <2>2. PICK k \in Unmet : \A j \in Unmet : k <= j
      BY <2>1, LeastNumber
    <2>3. k \in 0..n /\ ~Met(k) /\ k # 0
      BY <1>1
    <2>4. k - 1 \in 0..n /\ k \in 1..n /\ Met(k - 1)
      <3>1. k - 1 \in 0..n /\ k \in 1..n
        BY <2>3
      <3>2. k - 1 \notin Unmet
        BY <2>2, <2>3
      <3> QED BY <3>1, <3>2
    <2> QED BY <1>2, <2>3, <2>4
  <1>4. Met(n)
    BY <1>3
  <1>5. n + 1 - n = 1
    OBVIOUS
  <1> QED BY <1>4, <1>5 DEF Met

(* What is joined from a name on is its piece and what is joined from the next on. *)
LEMMA JoinedUnfolds ==
  ASSUME Len(Names) \in Nat, NEW l
  PROVE  /\ L!JoinedFrom(l)[Len(Names) + 1] = <<>>
         /\ \A i \in 1..Len(Names) :
              L!JoinedFrom(l)[i] = L!Piece(l, Names[i]) \o L!JoinedFrom(l)[i + 1]
  <1> DEFINE n == Len(Names)
             Eq(f) == f = [i \in 1..(n + 1) |-> IF i > n THEN <<>> ELSE L!Piece(l, Names[i]) \o f[i + 1]]
             J == L!JoinedFrom(l)
  <1>1. J = CHOOSE f : Eq(f)
    BY DEF L!JoinedFrom
  <1>2. \E f : Eq(f)
    BY JoinedExists
  <1>3. Eq(J)
    <2> HIDE DEF Eq
    <2> QED BY <1>1, <1>2
  <1>4. J = [i \in 1..(n + 1) |-> IF i > n THEN <<>> ELSE L!Piece(l, Names[i]) \o J[i + 1]]
    BY <1>3
  <1> HIDE DEF J
  <1>5. n + 1 \in 1..(n + 1) /\ n + 1 > n
    OBVIOUS
  <1>6. J[n + 1] = <<>>
    BY <1>4, <1>5
  <1>7. ASSUME NEW i \in 1..n PROVE J[i] = L!Piece(l, Names[i]) \o J[i + 1]
    <2>1. i \in 1..(n + 1) /\ ~(i > n)
      OBVIOUS
    <2> QED BY <1>4, <2>1
  <1> QED BY <1>6, <1>7 DEF J

(* Names are sorted, so none is there twice, and none has the character in it
   that ends a name. *)
NamesFor(Char) ==
  /\ Names \in Seq(Seq(Char))
  /\ L!Equals \in Char /\ L!Comma \in Char
  /\ \A i \in 1..Len(Names) : Without(Names[i], L!Equals)
  /\ \A i, j \in 1..Len(Names) : Names[i] = Names[j] => i = j

(* A label set over these names, with no comma in a value *)
CommaFree(l, Char) ==
  \A k \in DOMAIN l : /\ \E i \in 1..Len(Names) : k = Names[i]
                      /\ l[k] \in Seq(Char)
                      /\ Without(l[k], L!Comma)

(* A label in front of r, as its name, its value and the separators *)
PairRead(k, v, r, Char) ==
  /\ L!Pair(k, v) \in Seq(Char) /\ L!Pair(k, v) \o r \in Seq(Char)
  /\ L!Pair(k, v) \o r # <<>>
  /\ Ended(v, L!Comma) \o r \in Seq(Char)
  /\ L!Pair(k, v) \o r = Ended(k, L!Equals) \o (Ended(v, L!Comma) \o r)

(* fingerprint writes a label that way. *)
LEMMA PairParts ==
  ASSUME NEW Char, L!Equals \in Char, L!Comma \in Char, NEW k \in Seq(Char), NEW v \in Seq(Char), NEW r \in Seq(Char)
  PROVE  PairRead(k, v, r, Char)
  <1> DEFINE e == <<L!Equals>>
             c == <<L!Comma>>
  <1>1. e \in Seq(Char) /\ c \in Seq(Char) /\ Len(c) = 1
    OBVIOUS
  <1>2. L!Pair(k, v) = ((k \o e) \o v) \o c
    BY DEF L!Pair
  <1> HIDE DEF e, c
  <1>a. \A s, t, u \in Seq(Char) : (s \o t) \o u = s \o (t \o u)
    BY ConcatAssociative
  <1>b. \A s, t \in Seq(Char) : s \o t \in Seq(Char) /\ Len(s \o t) = Len(s) + Len(t) /\ Len(s) \in Nat
    BY ConcatProperties
  <1>3. k \o e \in Seq(Char) /\ (k \o e) \o v \in Seq(Char) /\ ((k \o e) \o v) \o c \in Seq(Char)
    BY <1>1, ConcatProperties
  <1>4. v \o c \in Seq(Char) /\ (v \o c) \o r \in Seq(Char)
    BY <1>1, ConcatProperties
  <1> DEFINE ke == k \o e
             vc == v \o c
  <1>5. (ke \o v) \o c = ke \o vc
    <2>1. ke \in Seq(Char)
      BY <1>3
    <2> HIDE DEF ke
    <2> QED BY <1>1, <2>1, <1>a
  <1>6. (ke \o vc) \o r = ke \o (vc \o r)
    <2>1. ke \in Seq(Char) /\ vc \in Seq(Char)
      BY <1>3, <1>4
    <2> HIDE DEF ke, vc
    <2> QED BY <2>1, <1>a
  <1> DEFINE w == ((k \o e) \o v) \o c
  <1>7. Len(w) > 0
    <2>1. Len((k \o e) \o v) \in Nat /\ Len(w) = Len((k \o e) \o v) + Len(c)
      BY <1>1, <1>3, <1>b, Zenon
    <2> QED BY <1>1, <2>1
  <1>8. w \in Seq(Char)
    BY <1>3
  <1> HIDE DEF w
  <1>9. w \o r \in Seq(Char) /\ w \o r # <<>>
    <2>1. w \o r \in Seq(Char) /\ Len(w \o r) = Len(w) + Len(r) /\ Len(w) \in Nat /\ Len(r) \in Nat
      BY <1>8, ConcatProperties
    <2>2. Len(w \o r) # 0
      BY <1>7, <2>1
    <2> QED BY <2>1, <2>2
  <1> QED BY <1>2, <1>3, <1>4, <1>5, <1>6, <1>9 DEF PairRead, Ended, w, e, c

(* What is joined from a name on begins with the first label that is there. *)
LEMMA JoinedBegins ==
  ASSUME NEW Char, NamesFor(Char), NEW l, CommaFree(l, Char), NEW i \in 1..(Len(Names) + 1)
  PROVE  /\ L!JoinedFrom(l)[i] \in Seq(Char)
         /\ \/ L!JoinedFrom(l)[i] = <<>>
            \/ \E j \in i..Len(Names) :
                 /\ Names[j] \in DOMAIN l
                 /\ L!JoinedFrom(l)[j + 1] \in Seq(Char)
                 /\ L!JoinedFrom(l)[i] = L!Pair(Names[j], l[Names[j]]) \o L!JoinedFrom(l)[j + 1]
  <1> DEFINE n == Len(Names)
             J == L!JoinedFrom(l)
             Begun(m) == /\ J[m] \in Seq(Char)
                          /\ \/ J[m] = <<>>
                             \/ \E j \in m..n : /\ Names[j] \in DOMAIN l /\ J[j + 1] \in Seq(Char)
                                                /\ J[m] = L!Pair(Names[j], l[Names[j]]) \o J[j + 1]
             Bad == {d \in 0..n : ~Begun(n + 1 - d)}
  <1>1. n \in Nat /\ J[n + 1] = <<>> /\ (\A m \in 1..n : J[m] = L!Piece(l, Names[m]) \o J[m + 1])
    <2>1. n \in Nat
      BY DEF NamesFor
    <2> QED BY <2>1, JoinedUnfolds
  <1> HIDE DEF J, n
  <1>2. Begun(n + 1)
    BY <1>1
  <1>3. ASSUME NEW m \in 1..n, Begun(m + 1) PROVE Begun(m)
    <2>1. J[m] = L!Piece(l, Names[m]) \o J[m + 1] /\ J[m + 1] \in Seq(Char) /\ m \in m..n
      <3>1. m \in m..n
        BY <1>1
      <3>2. J[m] = L!Piece(l, Names[m]) \o J[m + 1]
        BY <1>1
      <3> QED BY <1>3, <3>1, <3>2
    <2>2. CASE Names[m] \in DOMAIN l
      <3>1. Names[m] \in Seq(Char) /\ l[Names[m]] \in Seq(Char)
        BY <1>1, <2>2 DEF NamesFor, CommaFree, n
      <3>2. J[m] = L!Pair(Names[m], l[Names[m]]) \o J[m + 1]
        BY <2>1, <2>2 DEF L!Piece
      <3>3. L!Pair(Names[m], l[Names[m]]) \o J[m + 1] \in Seq(Char)
        <4>1. PairRead(Names[m], l[Names[m]], J[m + 1], Char)
          BY <2>1, <3>1, PairParts DEF NamesFor
        <4> QED BY <4>1 DEF PairRead
      <3> QED BY <2>1, <2>2, <3>2, <3>3
    <2>3. CASE Names[m] \notin DOMAIN l
      <3>1. J[m] = J[m + 1]
        <4>1. J[m] = <<>> \o J[m + 1]
          BY <2>1, <2>3 DEF L!Piece
        <4> QED BY <2>1, <4>1, ConcatEmptySeq
      <3>2. \A j \in (m + 1)..n : j \in m..n
        BY <1>1
      <3> QED BY <1>3, <2>1, <3>1, <3>2
    <2> QED BY <2>2, <2>3
  <1>4. Bad = {}
    <2> SUFFICES ASSUME Bad # {} PROVE FALSE
      OBVIOUS
    <2> HIDE DEF Begun
    <2>1. Bad \in SUBSET Nat
      BY <1>1
    <2>2. PICK d \in Bad : \A e \in Bad : d <= e
      BY <2>1, LeastNumber
    <2>3. d \in 0..n /\ ~Begun(n + 1 - d) /\ n + 1 - 0 = n + 1
      BY <1>1
    <2>4. d # 0
      BY <1>2, <2>3
    <2>5. d - 1 \in 0..n /\ d - 1 \notin Bad
      <3>1. d - 1 \in 0..n /\ ~(d <= d - 1)
        BY <1>1, <2>3, <2>4
      <3> QED BY <2>2, <3>1
    <2>6. n + 1 - (d - 1) = (n + 1 - d) + 1 /\ n + 1 - d \in 1..n
      BY <1>1, <2>3, <2>4
    <2>7. Begun((n + 1 - d) + 1)
      BY <2>5, <2>6
    <2> QED BY <1>3, <2>3, <2>6, <2>7
  <1>5. Begun(i)
    <2> HIDE DEF Begun
    <2>1. n + 1 - i \in 0..n /\ n + 1 - (n + 1 - i) = i
      BY <1>1 DEF n
    <2> QED BY <1>4, <2>1
  <1> QED BY <1>5 DEF J, n

(* Two joined label lists that are the same begin with the same label. *)
LEMMA SameFirstLabel ==
  ASSUME NEW Char, L!Equals \in Char, L!Comma \in Char,
         NEW k \in Seq(Char), NEW v \in Seq(Char), NEW r \in Seq(Char),
         NEW m \in Seq(Char), NEW w \in Seq(Char), NEW q \in Seq(Char),
         Without(k, L!Equals), Without(m, L!Equals), Without(v, L!Comma), Without(w, L!Comma),
         L!Pair(k, v) \o r = L!Pair(m, w) \o q
  PROVE  SameLabel(k, m, v, w, r, q)
  <1> DEFINE vr == Ended(v, L!Comma) \o r
             wq == Ended(w, L!Comma) \o q
  <1>1. PairRead(k, v, r, Char) /\ PairRead(m, w, q, Char)
    BY PairParts
  <1>2. vr \in Seq(Char) /\ wq \in Seq(Char) /\ Ended(k, L!Equals) \o vr = Ended(m, L!Equals) \o wq
    BY <1>1 DEF PairRead
  <1>3. SameParts(k, m, vr, wq)
    <2> HIDE DEF vr, wq
    <2> QED BY <1>2, SplitAtSeparator
  <1>4. SameParts(v, w, r, q)
    <2>1. Ended(v, L!Comma) \o r = Ended(w, L!Comma) \o q
      BY <1>3 DEF SameParts
    <2> QED BY <2>1, SplitAtSeparator
  <1> QED BY <1>3, <1>4 DEF SameParts, SameLabel

(* A label that only one of two label sets has shows in what is joined. *)
LEMMA MissingLabelShows ==
  ASSUME NEW Char, NamesFor(Char), NEW l, NEW h, CommaFree(l, Char), CommaFree(h, Char),
         NEW i \in 1..Len(Names), Names[i] \in DOMAIN l, Names[i] \notin DOMAIN h
  PROVE  L!JoinedFrom(l)[i] # L!JoinedFrom(h)[i]
  <1> SUFFICES ASSUME L!JoinedFrom(l)[i] = L!JoinedFrom(h)[i] PROVE FALSE
    OBVIOUS
  <1> DEFINE n == Len(Names)
             J == L!JoinedFrom(l)
             K == L!JoinedFrom(h)
  <1>1. n \in Nat /\ i \in 1..(n + 1) /\ i + 1 \in 1..(n + 1)
    BY DEF NamesFor
  <1>2. J[i] = L!Piece(l, Names[i]) \o J[i + 1] /\ K[i] = L!Piece(h, Names[i]) \o K[i + 1]
    BY <1>1, JoinedUnfolds
  <1>3. /\ J[i + 1] \in Seq(Char) /\ K[i + 1] \in Seq(Char)
        /\ \/ K[i + 1] = <<>>
           \/ \E j \in (i + 1)..n : /\ Names[j] \in DOMAIN h /\ K[j + 1] \in Seq(Char)
                                    /\ K[i + 1] = L!Pair(Names[j], h[Names[j]]) \o K[j + 1]
    BY <1>1, JoinedBegins
  <1>4. J[i] = K[i]
    OBVIOUS
  <1> HIDE DEF J, K
  <1>5. J[i] = L!Pair(Names[i], l[Names[i]]) \o J[i + 1]
    BY <1>2 DEF L!Piece
  <1>6. K[i] = K[i + 1]
    <2>1. K[i] = <<>> \o K[i + 1]
      BY <1>2 DEF L!Piece
    <2> QED BY <1>3, <2>1, ConcatEmptySeq
  <1>7. /\ Names[i] \in Seq(Char) /\ l[Names[i]] \in Seq(Char)
        /\ Without(Names[i], L!Equals)
        /\ Without(l[Names[i]], L!Comma)
        /\ L!Equals \in Char /\ L!Comma \in Char
    <2>1. Names[i] \in Seq(Char)
      BY <1>1 DEF NamesFor
    <2> QED BY <1>1, <2>1 DEF NamesFor, CommaFree
  <1>8. J[i] # <<>>
    <2>1. PairRead(Names[i], l[Names[i]], J[i + 1], Char)
      BY <1>3, <1>7, PairParts
    <2> QED BY <1>5, <2>1 DEF PairRead
  <1>9. PICK j \in (i + 1)..n : /\ Names[j] \in DOMAIN h /\ K[j + 1] \in Seq(Char)
                                /\ K[i + 1] = L!Pair(Names[j], h[Names[j]]) \o K[j + 1]
    BY <1>3, <1>4, <1>6, <1>8
  <1>10. j \in 1..n /\ j # i
    BY <1>1
  <1>11. /\ Names[j] \in Seq(Char) /\ h[Names[j]] \in Seq(Char)
         /\ Without(Names[j], L!Equals)
         /\ Without(h[Names[j]], L!Comma)
    BY <1>9, <1>10 DEF NamesFor, CommaFree
  <1>12. L!Pair(Names[i], l[Names[i]]) \o J[i + 1] = L!Pair(Names[j], h[Names[j]]) \o K[j + 1]
    BY <1>4, <1>5, <1>6, <1>9
  <1>13. Names[i] = Names[j]
    <2> DEFINE k == Names[i]
               v == l[Names[i]]
               m == Names[j]
               w == h[Names[j]]
    <2> SUFFICES k = m
      OBVIOUS
    <2>1. k \in Seq(Char) /\ v \in Seq(Char) /\ m \in Seq(Char) /\ w \in Seq(Char)
      BY <1>7, <1>11
    <2>2. /\ Without(k, L!Equals)
          /\ Without(m, L!Equals)
          /\ Without(v, L!Comma)
          /\ Without(w, L!Comma)
      BY <1>7, <1>11
    <2>3. L!Pair(k, v) \o J[i + 1] = L!Pair(m, w) \o K[j + 1]
      BY <1>12
    <2> HIDE DEF k, v, m, w
    <2>4. SameLabel(k, m, v, w, J[i + 1], K[j + 1])
      BY <1>3, <1>7, <1>9, <2>1, <2>2, <2>3, SameFirstLabel
    <2> QED BY <2>4 DEF SameLabel
  <1> QED BY <1>10, <1>13 DEF NamesFor

(* Label sets with the same fingerprint are the same. *)
LEMMA SameFingerprint ==
  ASSUME NEW Char, NamesFor(Char), NEW l, NEW h, CommaFree(l, Char), CommaFree(h, Char),
         l = [k \in DOMAIN l |-> l[k]], h = [k \in DOMAIN h |-> h[k]],
         L!fingerprint(l) = L!fingerprint(h)
  PROVE  l = h
  <1> DEFINE n == Len(Names)
             J == L!JoinedFrom(l)
             K == L!JoinedFrom(h)
             Same(i) == /\ Names[i] \in DOMAIN l <=> Names[i] \in DOMAIN h
                        /\ Names[i] \in DOMAIN l => l[Names[i]] = h[Names[i]]
             Differ == {i \in 1..(n + 1) : J[i] # K[i]}
  <1>1. n \in Nat /\ J[1] = K[1]
    BY DEF NamesFor, L!fingerprint
  <1>2. ASSUME NEW i \in 1..n, J[i] = K[i] PROVE Same(i) /\ J[i + 1] = K[i + 1]
    <2>1. J[i] = L!Piece(l, Names[i]) \o J[i + 1] /\ K[i] = L!Piece(h, Names[i]) \o K[i + 1]
      BY <1>1, JoinedUnfolds
    <2>2. J[i + 1] \in Seq(Char) /\ K[i + 1] \in Seq(Char)
      <3>1. i + 1 \in 1..(n + 1)
        BY <1>1
      <3> QED BY <3>1, JoinedBegins
    <2>3. Names[i] \in DOMAIN l <=> Names[i] \in DOMAIN h
      BY <1>2, MissingLabelShows
    <2>4. CASE Names[i] \in DOMAIN l
      <3> DEFINE k == Names[i]
                 v == l[Names[i]]
                 w == h[Names[i]]
      <3>1. /\ k \in Seq(Char) /\ v \in Seq(Char) /\ w \in Seq(Char)
            /\ L!Equals \in Char /\ L!Comma \in Char
            /\ Without(k, L!Equals)
            /\ Without(v, L!Comma)
            /\ Without(w, L!Comma)
        BY <1>1, <2>3, <2>4 DEF NamesFor, CommaFree
      <3>2. L!Pair(k, v) \o J[i + 1] = L!Pair(k, w) \o K[i + 1]
        BY <1>2, <2>1, <2>3, <2>4 DEF L!Piece
      <3>3. v = w /\ J[i + 1] = K[i + 1]
        <4> HIDE DEF k, v, w, J, K
        <4>1. SameLabel(k, k, v, w, J[i + 1], K[i + 1])
          BY <2>2, <3>1, <3>2, SameFirstLabel
        <4> QED BY <4>1 DEF SameLabel
      <3> QED BY <2>3, <3>3
    <2>5. CASE Names[i] \notin DOMAIN l
      <3> HIDE DEF J, K
      <3>1. J[i] = <<>> \o J[i + 1] /\ K[i] = <<>> \o K[i + 1]
        BY <2>1, <2>3, <2>5 DEF L!Piece
      <3>2. J[i + 1] = K[i + 1]
        BY <1>2, <2>2, <3>1, ConcatEmptySeq
      <3> QED BY <2>3, <2>5, <3>2
    <2> QED BY <2>4, <2>5
  <1> HIDE DEF J, K, n
  <1>3. Differ = {}
    <2> SUFFICES ASSUME Differ # {} PROVE FALSE
      OBVIOUS
    <2>1. Differ \in SUBSET Nat
      BY <1>1
    <2>2. PICK i \in Differ : \A j \in Differ : i <= j
      BY <2>1, LeastNumber
    <2>3. i \in 1..(n + 1) /\ J[i] # K[i]
      OBVIOUS
    <2>4. i - 1 \in 1..n /\ i - 1 \in 1..(n + 1) /\ ~(i <= i - 1) /\ (i - 1) + 1 = i
      BY <1>1, <2>3
    <2>5. J[i - 1] = K[i - 1]
      BY <2>2, <2>4
    <2> QED BY <1>2, <2>3, <2>4, <2>5
  <1>4. \A i \in 1..n : Same(i)
    <2> TAKE i \in 1..n
    <2>1. J[i] = K[i]
      BY <1>1, <1>3
    <2> QED BY <1>2, <2>1
  <1>5. DOMAIN l = DOMAIN h /\ \A k \in DOMAIN l : l[k] = h[k]
    <2>1. \A k \in DOMAIN l : k \in DOMAIN h /\ l[k] = h[k]
      BY <1>4 DEF CommaFree, n
    <2>2. \A k \in DOMAIN h : k \in DOMAIN l
      BY <1>4 DEF CommaFree, n
    <2> QED BY <2>1, <2>2
  <1> QED BY <1>5

(* LokiWriter counts as FiniteSets does. *)
LEMMA LokiCardinality ==
  \A T : L!Cardinality(T) = Cardinality(T)
  BY DEF L!Cardinality, Cardinality

(* The entries with one label set are counted one by one. *)
LEMMA CountedLines ==
  ASSUME NEW l, NEW k \in Nat
  PROVE  /\ L!Count(l, k) \in Nat
         /\ L!Count(l, k + 1) = L!Count(l, k) + (IF given[k + 1].labels = l THEN 1 ELSE 0)
         /\ \A j \in 1..k : given[j].labels = l => L!Count(l, j) \in 1..L!Count(l, k)
         /\ (\A j \in 1..k : given[j].labels # l) => L!Count(l, k) = 0
  <1> DEFINE N(i) == {j \in 1..i : given[j].labels = l}
  <1>1. \A i \in Nat : IsFiniteSet(N(i))
    <2> TAKE i \in Nat
    <2>1. IsFiniteSet(1..i) /\ N(i) \subseteq 1..i
      BY FS_Interval
    <2> QED BY <2>1, FS_Subset
  <1>2. \A i \in Nat : L!Count(l, i) = Cardinality(N(i)) /\ L!Count(l, i) \in Nat
    <2> TAKE i \in Nat
    <2>1. L!Count(l, i) = Cardinality(N(i))
      BY LokiCardinality DEF L!Count
    <2> QED BY <1>1, <2>1, FS_CardinalityType
  <1>3. ASSUME \A j \in 1..k : given[j].labels # l PROVE L!Count(l, k) = 0
    <2>1. N(k) = {}
      BY <1>3
    <2> QED BY <1>2, <2>1, FS_EmptySet
  <1>4. L!Count(l, k + 1) = L!Count(l, k) + (IF given[k + 1].labels = l THEN 1 ELSE 0)
    <2>1. CASE given[k + 1].labels = l
      <3>1. N(k + 1) = N(k) \cup {k + 1} /\ k + 1 \notin N(k)
        BY <2>1
      <3> HIDE DEF N
      <3>2. Cardinality(N(k + 1)) = Cardinality(N(k)) + 1
        BY <1>1, <3>1, FS_AddElement
      <3> QED BY <1>2, <2>1, <3>2
    <2>2. CASE given[k + 1].labels # l
      <3>1. N(k + 1) = N(k)
        BY <2>2
      <3> HIDE DEF N
      <3> QED BY <1>2, <2>2, <3>1
    <2> QED BY <2>1, <2>2
  <1>5. ASSUME NEW j \in 1..k, given[j].labels = l PROVE L!Count(l, j) \in 1..L!Count(l, k)
    <2>1. N(j) \subseteq N(k) /\ j \in N(j) /\ j \in Nat
      BY <1>5
    <2> HIDE DEF N
    <2>2. Cardinality(N(j)) <= Cardinality(N(k))
      BY <1>1, <2>1, FS_Subset
    <2>3. Cardinality(N(j)) # 0
      BY <1>1, <2>1, FS_EmptySet
    <2> QED BY <1>2, <2>1, <2>2, <2>3
  <1> QED BY <1>2, <1>3, <1>4, <1>5

(* A label set that Push can be given: a map from names to strings *)
LabelSet(l, Char) ==
  /\ l = [k \in DOMAIN l |-> l[k]]
  /\ \A k \in DOMAIN l : (\E i \in 1..Len(Names) : k = Names[i]) /\ l[k] \in Seq(Char)

(* The fingerprint of the i-th entry's labels *)
Fp(i) == L!fingerprint(given[i].labels)

(* A stream of the map holds the lines of the first n entries with the labels
   l, all of them and in their order. *)
Holds(stream, l, n) ==
  /\ stream.labels = l
  /\ IsSeq(stream.values) /\ Len(stream.values) = L!Count(l, n)
  /\ \A j \in 1..n : given[j].labels = l => stream.values[L!Count(l, j)] = given[j].line

(* The entries grouped so far are in the streams of their labels, and there
   are no other streams. *)
Grouped ==
  /\ todo \in 0..Len(given)
  /\ \A k \in DOMAIN made : \E i \in 1..todo : k = Fp(i)
  /\ \A i \in 1..todo : Fp(i) \in DOMAIN made /\ Holds(made[Fp(i)], given[i].labels, todo)
  /\ aux1 # <<>> => /\ todo = Len(given)
                    /\ aux1 \in L!SetToSeqs({made[k] : k \in DOMAIN made})

(* The invariant *)
Grouping == given \in Batches /\ (L!NoComma => Grouped)

(* No two label sets of a batch without commas share a fingerprint. *)
LEMMA FingerprintsTell ==
  ASSUME NEW Char, NEW Entry, NamesFor(Char),
         \A b \in Batches : b \in Seq(Entry),
         \A e \in Entry : LabelSet(e.labels, Char),
         given \in Batches, L!NoComma,
         NEW i \in 1..Len(given), NEW j \in 1..Len(given), Fp(i) = Fp(j)
  PROVE  given[i].labels = given[j].labels
  <1>1. given \in Seq(Entry) /\ DOMAIN given = 1..Len(given)
    OBVIOUS
  <1>2. ASSUME NEW x \in 1..Len(given) PROVE LabelSet(given[x].labels, Char) /\ CommaFree(given[x].labels, Char)
    <2> DEFINE l == given[x].labels
    <2>1. LabelSet(l, Char)
      BY <1>1
    <2>2. \A k \in DOMAIN l : L!Comma \notin {l[k][y] : y \in DOMAIN l[k]}
      BY <1>1 DEF L!NoComma, L!Range
    <2> HIDE DEF l
    <2>3. ASSUME NEW k \in DOMAIN l PROVE Without(l[k], L!Comma)
      <3>1. l[k] \in Seq(Char) /\ DOMAIN l[k] = 1..Len(l[k])
        BY <2>1 DEF LabelSet
      <3> QED BY <2>2, <3>1 DEF Without
    <2>4. CommaFree(l, Char)
      BY <2>1, <2>3 DEF LabelSet, CommaFree
    <2> QED BY <2>1, <2>4 DEF l
  <1> DEFINE l == given[i].labels
             h == given[j].labels
  <1>3. /\ CommaFree(l, Char) /\ CommaFree(h, Char)
        /\ l = [k \in DOMAIN l |-> l[k]] /\ h = [k \in DOMAIN h |-> h[k]]
        /\ L!fingerprint(l) = L!fingerprint(h)
    BY <1>2 DEF LabelSet, Fp
  <1> HIDE DEF l, h
  <1>4. l = h
    BY <1>3, SameFingerprint
  <1> QED BY <1>4 DEF l, h

(* Push keeps that: an entry joins the stream of its labels, or begins it. *)
LEMMA GroupingStep ==
  ASSUME NEW Char, NEW Entry, NamesFor(Char),
         \A b \in Batches : b \in Seq(Entry),
         \A e \in Entry : LabelSet(e.labels, Char),
         Grouping, L!Next
  PROVE  Grouping'
  <1>1. given' = given /\ given \in Batches /\ (L!NoComma' <=> L!NoComma) /\ Len(given) \in Nat
    BY DEF L!Next, L!GroupEntry, L!Encode, Grouping, L!NoComma
  <1>2. (\A i : Fp(i)' = Fp(i)) /\ (\A l, k : L!Count(l, k)' = L!Count(l, k))
    BY <1>1 DEF Fp, L!Count
  <1> SUFFICES ASSUME L!NoComma PROVE Grouped'
    BY <1>1 DEF Grouping
  <1>3. Grouped
    BY DEF Grouping
  <1>4. CASE L!GroupEntry
    <2> DEFINE n == todo
               l == given[n + 1].labels
               f == L!fingerprint(l)
               s == IF f \in DOMAIN made THEN made[f] ELSE [labels |-> l, values |-> <<>>]
               added == [labels |-> s.labels, values |-> Append(s.values, given[n + 1].line)]
    <2>1. /\ n \in Nat /\ n < Len(given) /\ todo' = n + 1 /\ aux1' = aux1
          /\ made' = [k \in DOMAIN made \cup {f} |-> IF k = f THEN added ELSE made[k]]
      BY <1>1, <1>3, <1>4 DEF L!GroupEntry, Grouped
    <2>2. n + 1 \in 1..Len(given) /\ f = Fp(n + 1)
      BY <1>1, <2>1 DEF Fp
    <2>3. ASSUME NEW i \in 1..n PROVE i \in 1..Len(given) /\ i \in 1..(n + 1) /\ (Fp(i) = f <=> given[i].labels = l)
      <3>1. i \in 1..Len(given) /\ i \in 1..(n + 1)
        BY <1>1, <2>1
      <3>2. Fp(i) = Fp(n + 1) => given[i].labels = given[n + 1].labels
        <4> DEFINE m == n + 1
        <4>1. m \in 1..Len(given)
          BY <2>2
        <4> HIDE DEF m
        <4>2. Fp(i) = Fp(m) => given[i].labels = given[m].labels
          BY <1>1, <3>1, <4>1, FingerprintsTell
        <4> QED BY <4>2 DEF m
      <3> QED BY <2>2, <3>1, <3>2 DEF Fp
    <2>4. Holds(s, l, n)
      <3>1. CASE f \in DOMAIN made
        <4>1. PICK i \in 1..n : f = Fp(i)
          BY <1>3, <3>1 DEF Grouped
        <4>2. given[i].labels = l /\ Holds(made[Fp(i)], given[i].labels, n)
          BY <1>3, <2>3, <4>1 DEF Grouped
        <4> HIDE DEF l, f
        <4> QED BY <3>1, <4>1, <4>2
      <3>2. CASE f \notin DOMAIN made
        <4>1. \A i \in 1..n : given[i].labels # l
          BY <1>3, <2>3, <3>2 DEF Grouped
        <4> HIDE DEF l, f
        <4>2. s.labels = l /\ s.values = <<>> /\ L!Count(l, n) = 0
          BY <2>1, <3>2, <4>1, CountedLines
        <4>3. IsSeq(s.values) /\ Len(s.values) = 0
          <5>1. <<>> \in Seq({}) /\ Len(<<>>) = 0
            OBVIOUS
          <5> QED BY <4>2, <5>1 DEF IsSeq
        <4> QED BY <4>1, <4>2, <4>3 DEF Holds
      <3> QED BY <3>1, <3>2
    <2> HIDE DEF s
    <2>5. Holds(added, l, n + 1)
      <3>1. PICK E : s.values \in Seq(E)
        BY <2>4 DEF Holds, IsSeq
      <3> DEFINE v == s.values
                 w == Append(s.values, given[n + 1].line)
      <3>2. /\ added.labels = l /\ added.values = w /\ IsSeq(w)
            /\ Len(w) = Len(v) + 1 /\ Len(v) = L!Count(l, n)
            /\ w[Len(v) + 1] = given[n + 1].line
            /\ \A i \in 1..Len(v) : w[i] = v[i]
        <4>1. added.labels = l /\ added.values = w /\ Len(v) = L!Count(l, n)
          BY <2>4 DEF Holds
        <4> DEFINE x == given[n + 1].line
        <4> HIDE DEF x, v
        <4>2. /\ Append(v, x) \in Seq(E \cup {x}) /\ Len(Append(v, x)) = Len(v) + 1
              /\ Append(v, x)[Len(v) + 1] = x /\ \A i \in 1..Len(v) : Append(v, x)[i] = v[i]
          BY <3>1, AppendAny DEF v
        <4>3. w = Append(v, x)
          BY DEF v, x
        <4> HIDE DEF w
        <4> QED BY <4>1, <4>2, <4>3 DEF IsSeq, x
      <3> HIDE DEF w
      <3>3. L!Count(l, n) \in Nat /\ L!Count(l, n + 1) = L!Count(l, n) + 1
        BY <2>1, CountedLines
      <3>4. ASSUME NEW j \in 1..(n + 1), given[j].labels = l PROVE w[L!Count(l, j)] = given[j].line
        <4> HIDE DEF l
        <4>1. CASE j = n + 1
          BY <3>2, <3>3, <4>1
        <4>2. CASE j # n + 1
          <5>1. j \in 1..n
            BY <2>1, <4>2
          <5>2. L!Count(l, j) \in 1..Len(v)
            BY <2>1, <3>2, <3>4, <5>1, CountedLines
          <5>3. v[L!Count(l, j)] = given[j].line
            BY <2>4, <3>4, <5>1 DEF Holds
          <5> QED BY <3>2, <5>2, <5>3
        <4> QED BY <4>1, <4>2
      <3> HIDE DEF l, added
      <3> QED BY <3>2, <3>3, <3>4 DEF Holds
    <2> HIDE DEF added
    <2>6. \A k \in DOMAIN made' : \E i \in 1..(n + 1) : k = Fp(i)
      <3>1. \A k \in DOMAIN made : \E i \in 1..n : k = Fp(i)
        BY <1>3 DEF Grouped
      <3>2. DOMAIN made' = DOMAIN made \cup {f} /\ n + 1 \in 1..(n + 1)
        BY <2>1
      <3> QED BY <2>2, <2>3, <3>1, <3>2
    <2>7. ASSUME NEW i \in 1..(n + 1)
          PROVE  Fp(i) \in DOMAIN made' /\ Holds(made'[Fp(i)], given[i].labels, n + 1)
      <3>1. CASE given[i].labels = l
        <4>1. Fp(i) = f
          BY <3>1 DEF Fp
        <4>2. f \in DOMAIN made' /\ made'[f] = added
          BY <2>1
        <4> QED BY <2>5, <3>1, <4>1, <4>2
      <3>2. CASE given[i].labels # l
        <4>1. i \in 1..n
          BY <2>1, <3>2
        <4>2. Fp(i) # f /\ Fp(i) \in DOMAIN made /\ Holds(made[Fp(i)], given[i].labels, n)
          BY <1>3, <2>3, <3>2, <4>1 DEF Grouped
        <4>3. Fp(i) \in DOMAIN made' /\ made'[Fp(i)] = made[Fp(i)]
          BY <2>1, <4>2
        <4> DEFINE h == given[i].labels
        <4>4. h # given[n + 1].labels
          BY <3>2
        <4>5. Holds(made[Fp(i)], h, n)
          BY <4>2
        <4> HIDE DEF h
        <4>6. L!Count(h, n + 1) = L!Count(h, n)
          <5>1. /\ L!Count(h, n) \in Nat
                /\ L!Count(h, n + 1) = L!Count(h, n) + (IF given[n + 1].labels = h THEN 1 ELSE 0)
            BY <2>1, CountedLines
          <5> QED BY <4>4, <5>1
        <4>7. \A j \in 1..(n + 1) : given[j].labels = h => j \in 1..n
          BY <2>1, <4>4
        <4>8. Holds(made[Fp(i)], h, n + 1)
          BY <4>5, <4>6, <4>7 DEF Holds
        <4> QED BY <4>3, <4>8 DEF h
      <3> QED BY <3>1, <3>2
    <2>8. aux1 = <<>>
      BY <1>3, <2>1 DEF Grouped
    <2>9. ASSUME NEW i \in 1..(n + 1)
          PROVE  Fp(i)' \in DOMAIN made' /\ Holds(made[Fp(i)], given[i].labels, todo)'
      <3>1. Holds(made'[Fp(i)], given[i].labels, n + 1) /\ Fp(i) \in DOMAIN made'
        BY <2>7
      <3> HIDE DEF n, l, f
      <3> QED BY <1>1, <1>2, <2>1, <3>1 DEF Holds
    <2>10. todo' \in 0..Len(given)
      BY <1>1, <2>1
    <2> HIDE DEF n, l, f
    <2>11. \A k \in DOMAIN made' : \E i \in 1..todo' : k = Fp(i)'
      BY <1>2, <2>1, <2>6
    <2>12. \A i \in 1..todo' : Fp(i)' \in DOMAIN made' /\ Holds(made[Fp(i)], given[i].labels, todo)'
      BY <2>1, <2>9
    <2> QED BY <1>1, <2>1, <2>8, <2>10, <2>11, <2>12 DEF Grouped
  <1>5. CASE L!Encode
    <2>1. /\ todo' = todo /\ made' = made /\ todo = Len(given)
          /\ aux1' \in L!SetToSeqs({made[k] : k \in DOMAIN made})
      BY <1>5 DEF L!Encode
    <2>2. ASSUME NEW i \in 1..todo
          PROVE  Fp(i)' \in DOMAIN made' /\ Holds(made[Fp(i)], given[i].labels, todo)'
      <3>1. Fp(i) \in DOMAIN made /\ Holds(made[Fp(i)], given[i].labels, todo)
        BY <1>3 DEF Grouped
      <3> QED BY <1>1, <1>2, <2>1, <3>1 DEF Holds
    <2>3. aux1' \in L!SetToSeqs({made[k] : k \in DOMAIN made})'
      BY <2>1 DEF L!SetToSeqs
    <2> QED BY <1>1, <1>2, <1>3, <2>1, <2>2, <2>3 DEF Grouped
  <1> QED BY <1>4, <1>5 DEF L!Next

(* An order of a finite set that has none of its elements twice has them all. *)
LEMMA OrderHasAll ==
  ASSUME NEW T, IsFiniteSet(T), NEW f \in L!SetToSeqs(T)
  PROVE  /\ \A i \in DOMAIN f : f[i] \in T
         /\ \A i, j \in DOMAIN f : f[i] = f[j] => i = j
         /\ \A x \in T : \E i \in DOMAIN f : f[i] = x
  <1> DEFINE m == Cardinality(T)
  <1>1. f \in [1..m -> T] /\ \A i, j \in 1..m : i # j => f[i] # f[j]
    BY LokiCardinality DEF L!SetToSeqs
  <1>2. m \in Nat /\ IsFiniteSet(1..m) /\ Cardinality(1..m) = m
    <2>1. m \in Nat
      BY FS_CardinalityType
    <2> HIDE DEF m
    <2> QED BY <2>1, FS_Interval
  <1>3. f \in Injection(1..m, T)
    BY <1>1 DEF Injection, IsInjective
  <1>4. f \in Surjection(1..m, T)
    <2>1. Cardinality(1..m) = Cardinality(T)
      BY <1>2
    <2> HIDE DEF m
    <2> QED BY <1>3, <2>1, FS_Injection
  <1>5. \A x \in T : \E i \in 1..m : f[i] = x
    BY <1>4 DEF Surjection
  <1> HIDE DEF m
  <1> QED BY <1>1, <1>5

(* Push sends one stream for each label set of the batch, with the lines of the
   entries that have these labels, all of them and in their order, whichever
   order Go ranges over the map in: for every batch of entries whose labels are
   maps from names to strings, if no value has a comma and no name an equals
   sign in it.  Two label sets with the same fingerprint are then the same. *)
THEOREM LinesKeepTheirLabels ==
  ASSUME NEW Char, NEW Entry, NamesFor(Char),
         \A b \in Batches : b \in Seq(Entry),
         \A e \in Entry : LabelSet(e.labels, Char)
  PROVE  Spec => []StreamsAreLabelSets
  <1>1. L!Init => Grouping
    <2> SUFFICES ASSUME L!Init PROVE Grouping
      OBVIOUS
    <2>1. given \in Batches /\ todo = 0 /\ made = <<>> /\ aux1 = <<>> /\ Len(given) \in Nat
      BY DEF L!Init
    <2>2. DOMAIN made = {}
      BY <2>1
    <2> QED BY <2>1, <2>2 DEF Grouping, Grouped
  <1>2. Grouping /\ [L!Next]_L!vars => Grouping'
    <2> SUFFICES ASSUME Grouping, [L!Next]_L!vars PROVE Grouping'
      OBVIOUS
    <2>1. CASE UNCHANGED L!vars
      <3>1. given' = given /\ todo' = todo /\ made' = made /\ aux1' = aux1
        BY <2>1 DEF L!vars
      <3>2. (\A i : Fp(i)' = Fp(i)) /\ (\A l, k : L!Count(l, k)' = L!Count(l, k)) /\ (L!NoComma' <=> L!NoComma)
        BY <3>1 DEF Fp, L!Count, L!NoComma
      <3>3. \A i : Holds(made[Fp(i)], given[i].labels, todo)' <=> Holds(made[Fp(i)], given[i].labels, todo)
        BY <3>1, <3>2 DEF Holds
      <3>4. aux1' \in L!SetToSeqs({made[k] : k \in DOMAIN made})' <=> aux1 \in L!SetToSeqs({made[k] : k \in DOMAIN made})
        BY <3>1 DEF L!SetToSeqs
      <3> QED BY <3>1, <3>2, <3>3, <3>4 DEF Grouping, Grouped
    <2> QED BY <2>1, GroupingStep
  <1>3. Grouping => L!StreamsAreLabelSets
    <2> SUFFICES ASSUME Grouping, aux1 # <<>>, L!NoComma PROVE L!StreamsAreLabelSets
      BY DEF L!StreamsAreLabelSets
    <2> DEFINE T == {made[k] : k \in DOMAIN made}
               n == Len(given)
    <2>1. /\ given \in Batches /\ given \in Seq(Entry) /\ n \in Nat /\ DOMAIN given = 1..n
          /\ Grouped /\ todo = n /\ aux1 \in L!SetToSeqs(T)
      BY DEF Grouping, Grouped
    <2>2. /\ \A k \in DOMAIN made : \E i \in 1..n : k = Fp(i)
          /\ \A i \in 1..n : Fp(i) \in DOMAIN made /\ Holds(made[Fp(i)], given[i].labels, n)
      BY <2>1 DEF Grouped
    <2>3. IsFiniteSet(T)
      <3> DEFINE g == [i \in 1..n |-> made[Fp(i)]]
      <3>1. g \in Surjection(1..n, T)
        <4>1. \A i \in 1..n : g[i] \in T
          BY <2>2
        <4>2. \A x \in T : \E i \in 1..n : g[i] = x
          BY <2>2
        <4> HIDE DEF T
        <4> QED BY <4>1, <4>2 DEF Surjection
      <3>2. IsFiniteSet(1..n)
        BY <2>1, FS_Interval
      <3> HIDE DEF g, T
      <3> QED BY <3>1, <3>2, FS_Surjection
    <2>4. /\ \A i \in DOMAIN aux1 : aux1[i] \in T
          /\ \A i, j \in DOMAIN aux1 : aux1[i] = aux1[j] => i = j
          /\ \A x \in T : \E i \in DOMAIN aux1 : aux1[i] = x
      <3> HIDE DEF T
      <3> QED BY <2>1, <2>3, OrderHasAll
    <2>5. \A x \in T : \E i \in 1..n : x = made[Fp(i)] /\ Holds(x, given[i].labels, n)
      BY <2>2
    <2>6. \A i \in 1..n : made[Fp(i)] \in T
      BY <2>2
    <2> HIDE DEF T
    <2>7. \A x, y \in T : x.labels = y.labels => x = y
      <3> SUFFICES ASSUME NEW x \in T, NEW y \in T, x.labels = y.labels PROVE x = y
        OBVIOUS
      <3>1. PICK i \in 1..n : x = made[Fp(i)] /\ Holds(x, given[i].labels, n)
        BY <2>5
      <3>2. PICK j \in 1..n : y = made[Fp(j)] /\ Holds(y, given[j].labels, n)
        BY <2>5
      <3>3. given[i].labels = given[j].labels
        BY <3>1, <3>2 DEF Holds
      <3> QED BY <3>1, <3>2, <3>3 DEF Fp
    <2>8. {aux1[i].labels : i \in DOMAIN aux1} = {given[j].labels : j \in DOMAIN given}
      <3>1. ASSUME NEW i \in DOMAIN aux1 PROVE \E j \in DOMAIN given : aux1[i].labels = given[j].labels
        BY <2>1, <2>4, <2>5 DEF Holds
      <3>2. ASSUME NEW j \in DOMAIN given PROVE \E i \in DOMAIN aux1 : given[j].labels = aux1[i].labels
        BY <2>1, <2>2, <2>4, <2>6 DEF Holds
      <3> QED BY <3>1, <3>2
    <2>9. \A i, j \in DOMAIN aux1 : aux1[i].labels = aux1[j].labels => i = j
      BY <2>4, <2>7
    <2>10. ASSUME NEW i \in DOMAIN aux1
           PROVE  /\ Len(aux1[i].values) = L!Count(aux1[i].labels, n)
                  /\ \A j \in DOMAIN given : given[j].labels = aux1[i].labels =>
                       aux1[i].values[L!Count(aux1[i].labels, j)] = given[j].line
      <3>1. PICK m \in 1..n : Holds(aux1[i], given[m].labels, n)
        BY <2>4, <2>5
      <3> QED BY <2>1, <3>1 DEF Holds
    <2> QED BY <2>8, <2>9, <2>10 DEF L!StreamsAreLabelSets
  <1> DEFINE Inv == part = "LokiWriter" => Grouping
  <1>4. Init => Inv
    BY <1>1 DEF Init
  <1>5. Inv /\ [Next]_vars => Inv'
    BY <1>2, OtherParts
  <1>6. Inv => StreamsAreLabelSets
    BY <1>3 DEF StreamsAreLabelSets
  <1> QED BY <1>4, <1>5, <1>6, PTL DEF Spec

-----------------------------------------------------------------------------
(* remote_write encoder *)

(* Marshal has met a label without a name only when it has given up, and no
   series it has encoded holds one. *)
NamedSoFar ==
  /\ given \in WriteRequests
  /\ todo \in 0..Len(given)
  /\ \A i \in 1..todo : ~W!Unnamed(given[i].labels)
  /\ status \in {"running", "encoded", "error"}
  /\ status = "error" => todo < Len(given) /\ W!Unnamed(given[todo + 1].labels)
  /\ status = "encoded" => todo = Len(given)

(* Marshal fails for a request with a label that has no name, in whichever
   series and place it is, and for no other request: for requests of any
   length over any series. *)
THEOREM NamelessRequestsFail ==
  ASSUME NEW AnySeries, WriteRequests \subseteq Seq(AnySeries)
  PROVE  Spec => []NamelessFails
  <1>1. W!Init => NamedSoFar
    BY DEF W!Init, NamedSoFar
  <1>2. NamedSoFar /\ [W!Next]_W!vars => NamedSoFar'
    <2> SUFFICES ASSUME NamedSoFar, [W!Next]_W!vars PROVE NamedSoFar'
      OBVIOUS
    <2> USE DEF NamedSoFar
    <2>0. Len(given) \in Nat
      OBVIOUS
    <2>1. CASE W!MarshalSeries
      BY <2>0, <2>1 DEF W!MarshalSeries, W!Unnamed
    <2>2. CASE W!MarshalFail
      BY <2>0, <2>2 DEF W!MarshalFail, W!Unnamed
    <2>3. CASE W!Return
      BY <2>0, <2>3 DEF W!Return, W!Unnamed
    <2>4. CASE UNCHANGED W!vars
      BY <2>4 DEF W!vars, W!Unnamed
    <2> QED BY <2>1, <2>2, <2>3, <2>4 DEF W!Next
  <1>3. NamedSoFar => W!NamelessFails
    <2> SUFFICES ASSUME NamedSoFar, status # "running" PROVE W!NamelessFails
      BY DEF W!NamelessFails
    <2> DEFINE nameless == \E i \in DOMAIN given : \E j \in DOMAIN given[i].labels :
                             given[i].labels[j].name = <<>>
    <2>1. Len(given) \in Nat /\ DOMAIN given = 1..Len(given)
      BY DEF NamedSoFar
    <2>2. CASE status = "error"
      <3>1. todo + 1 \in DOMAIN given /\ W!Unnamed(given[todo + 1].labels)
        BY <2>1, <2>2 DEF NamedSoFar
      <3>2. nameless = TRUE
        BY <3>1 DEF W!Unnamed
      <3> QED BY <2>2, <3>2 DEF W!NamelessFails
    <2>3. CASE status = "encoded"
      <3>1. \A i \in DOMAIN given : ~W!Unnamed(given[i].labels)
        BY <2>1, <2>3 DEF NamedSoFar
      <3>2. nameless = FALSE
        BY <3>1 DEF W!Unnamed
      <3>3. (status = "error") = FALSE
        BY <2>3
      <3> QED BY <3>2, <3>3 DEF W!NamelessFails
    <2> QED BY <2>2, <2>3 DEF NamedSoFar
  <1> DEFINE Inv == part = "RemoteWrite" => NamedSoFar
  <1>4. Init => Inv
    BY <1>1 DEF Init
  <1>5. Inv /\ [Next]_vars => Inv'
    BY <1>2, OtherParts
  <1>6. Inv => NamelessFails
    BY <1>3 DEF NamelessFails
  <1> QED BY <1>4, <1>5, <1>6, PTL DEF Spec

(* Uvarints up to n *)
IsPut(f, n) ==
  f = [v \in 0..n |-> IF v < 128 THEN <<v>> ELSE <<128 + (v % 128)>> \o f[v \div 128]]

(* A number of more than seven bits is larger than what is left after seven. *)
LEMMA Smaller ==
  ASSUME NEW v \in Nat, v >= 128
  PROVE  v \div 128 \in Nat /\ v \div 128 < v
  OBVIOUS

(* There is such a function, for every n. *)
LEMMA PutExists ==
  ASSUME NEW n \in Nat
  PROVE  \E f : IsPut(f, n)
  <1> DEFINE Unmet == {k \in Nat : ~\E f : IsPut(f, k)}
  <1> SUFFICES ASSUME Unmet # {} PROVE FALSE
    OBVIOUS
  <1>1. PICK k \in Unmet : \A j \in Unmet : k <= j
    <2> HIDE DEF Unmet
    <2>1. Unmet \in SUBSET Nat
      BY DEF Unmet
    <2> QED BY <2>1, LeastNumber
  <1>2. k \in Nat /\ ~\E f : IsPut(f, k)
    OBVIOUS
  <1>3. CASE k = 0
    <2>1. IsPut([v \in 0..0 |-> <<v>>], 0)
      <3>1. \A v \in 0..0 : v < 128
        OBVIOUS
      <3> QED BY <3>1 DEF IsPut
    <2> QED BY <1>2, <1>3, <2>1
  <1>4. CASE k # 0
    <2>1. k - 1 \in Nat /\ ~(k <= k - 1)
      BY <1>2, <1>4
    <2>2. PICK g : IsPut(g, k - 1)
      BY <1>1, <2>1
    <2> DEFINE x == IF k < 128 THEN <<k>> ELSE <<128 + (k % 128)>> \o g[k \div 128]
               f == [v \in 0..k |-> IF v = k THEN x ELSE g[v]]
    <2>3. \A v \in 0..(k - 1) : g[v] = IF v < 128 THEN <<v>> ELSE <<128 + (v % 128)>> \o g[v \div 128]
      BY <2>2 DEF IsPut
    <2>4. \A v \in 0..k : v >= 128 => v \div 128 \in 0..(k - 1) /\ f[v \div 128] = g[v \div 128]
      <3> TAKE v \in 0..k
      <3> HAVE v >= 128
      <3>1. v \div 128 \in 0..(k - 1)
        BY <1>2, Smaller
      <3>2. v \div 128 \in 0..k /\ v \div 128 # k
        BY <1>2, <3>1
      <3> QED BY <3>1, <3>2
    <2>5. \A v \in 0..k : f[v] = IF v < 128 THEN <<v>> ELSE <<128 + (v % 128)>> \o f[v \div 128]
      <3> TAKE v \in 0..k
      <3>1. f[v] = IF v = k THEN x ELSE g[v]
        OBVIOUS
      <3>2. v >= 128 => f[v \div 128] = g[v \div 128]
        BY <2>4
      <3>3. v # k => v \in 0..(k - 1)
        BY <1>2
      <3> HIDE DEF f
      <3>4. v < 128 \/ v >= 128
        BY <1>2
      <3> QED BY <2>3, <3>1, <3>2, <3>3, <3>4
    <2>6. f = [v \in 0..k |-> f[v]]
      OBVIOUS
    <2> HIDE DEF f
    <2>7. IsPut(f, k)
      BY <2>5, <2>6 DEF IsPut
    <2> QED BY <1>2, <2>7
  <1> QED BY <1>3, <1>4

(* and two of them agree where both are defined. *)
LEMMA PutUnique ==
  ASSUME NEW m \in Nat, NEW n \in Nat, NEW f, NEW g, IsPut(f, m), IsPut(g, n), NEW v \in Nat, v <= m, v <= n
  PROVE  f[v] = g[v]
  <1> DEFINE Bad == {x \in Nat : x <= m /\ x <= n /\ f[x] # g[x]}
  <1> SUFFICES ASSUME Bad # {} PROVE FALSE
    OBVIOUS
  <1>1. PICK x \in Bad : \A y \in Bad : x <= y
    <2> HIDE DEF Bad
    <2>1. Bad \in SUBSET Nat
      BY DEF Bad
    <2> QED BY <2>1, LeastNumber
  <1>2. x \in 0..m /\ x \in 0..n /\ x \in Nat
    OBVIOUS
  <1>3. /\ f[x] = IF x < 128 THEN <<x>> ELSE <<128 + (x % 128)>> \o f[x \div 128]
        /\ g[x] = IF x < 128 THEN <<x>> ELSE <<128 + (x % 128)>> \o g[x \div 128]
    BY <1>2 DEF IsPut
  <1>4. x >= 128 => f[x \div 128] = g[x \div 128]
    <2> SUFFICES ASSUME x >= 128 PROVE f[x \div 128] = g[x \div 128]
      OBVIOUS
    <2> DEFINE y == x \div 128
    <2>1. y \in Nat /\ y < x
      BY <1>2, Smaller
    <2> HIDE DEF y
    <2>2. y \notin Bad /\ y <= m /\ y <= n
      BY <1>1, <1>2, <2>1
    <2>3. f[y] = g[y]
      BY <2>1, <2>2
    <2> QED BY <2>3 DEF y
  <1>5. x < 128 \/ x >= 128
    BY <1>2
  <1> QED BY <1>3, <1>4, <1>5

(* appendVarint: the lowest seven bits and then the rest, for every number. *)
LEMMA PutUnfolds ==
  \A v \in Nat : W!PutUvarint[v] = IF v < 128 THEN <<v>> ELSE <<128 + (v % 128)>> \o W!PutUvarint[v \div 128]
  <1> DEFINE Eq(f) == f = [v \in Nat |-> IF v < 128 THEN <<v>> ELSE <<128 + (v % 128)>> \o f[v \div 128]]
             upto(n) == CHOOSE f : IsPut(f, n)
             h == [v \in Nat |-> upto(v)[v]]
  <1>1. \A n \in Nat : IsPut(upto(n), n)
    BY PutExists
  <1> HIDE DEF upto
  <1>2. ASSUME NEW v \in Nat PROVE h[v] = IF v < 128 THEN <<v>> ELSE <<128 + (v % 128)>> \o h[v \div 128]
    <2>1. h[v] = upto(v)[v]
      OBVIOUS
    <2>2. upto(v)[v] = IF v < 128 THEN <<v>> ELSE <<128 + (v % 128)>> \o upto(v)[v \div 128]
      <3>1. IsPut(upto(v), v) /\ v \in 0..v
        BY <1>1
      <3> QED BY <3>1 DEF IsPut
    <2>3. v >= 128 => upto(v)[v \div 128] = h[v \div 128]
      <3> SUFFICES ASSUME v >= 128 PROVE upto(v)[v \div 128] = h[v \div 128]
        OBVIOUS
      <3> DEFINE y == v \div 128
      <3>1. y \in Nat /\ y < v
        BY Smaller
      <3> HIDE DEF y
      <3>2. upto(v)[y] = upto(y)[y]
        <4>1. IsPut(upto(v), v) /\ IsPut(upto(y), y)
          BY <1>1, <3>1
        <4>2. y <= v /\ y <= y
          BY <3>1
        <4> QED BY <3>1, <4>1, <4>2, PutUnique
      <3>3. h[y] = upto(y)[y]
        BY <3>1
      <3> QED BY <3>2, <3>3 DEF y
    <2>4. v < 128 \/ v >= 128
      OBVIOUS
    <2> HIDE DEF h
    <2> QED BY <2>1, <2>2, <2>3, <2>4
  <1>3. Eq(h)
    <2>1. h = [v \in Nat |-> h[v]]
      OBVIOUS
    <2> HIDE DEF h
    <2> QED BY <1>2, <2>1
  <1>4. W!PutUvarint = CHOOSE f : Eq(f)
    BY DEF W!PutUvarint
  <1>5. Eq(W!PutUvarint)
    BY <1>3, <1>4
  <1> DEFINE u == W!PutUvarint
  <1>6. Eq(u)
    BY <1>5
  <1> HIDE DEF u, h
  <1>7. \A v \in Nat : u[v] = IF v < 128 THEN <<v>> ELSE <<128 + (v % 128)>> \o u[v \div 128]
    BY <1>6
  <1> QED BY <1>7 DEF u

(* A varint: every byte but the last one has its highest bit set. *)
Chained(s) ==
  /\ s \in Seq(Bytes) /\ Len(s) >= 1
  /\ \A i \in 1..(Len(s) - 1) : s[i] >= 128
  /\ s[Len(s)] < 128

(* A byte with its highest bit set goes before a varint. *)
LEMMA ByteChained ==
  ASSUME NEW c \in Bytes, NEW s, Chained(s), c >= 128
  PROVE  /\ Chained(<<c>> \o s) /\ Len(<<c>> \o s) = Len(s) + 1
         /\ (<<c>> \o s)[1] = c /\ \A i \in 1..Len(s) : (<<c>> \o s)[i + 1] = s[i]
  <1> DEFINE t == <<c>> \o s
             u == <<c>>
  <1>1. u \in Seq(Bytes) /\ Len(u) = 1 /\ u[1] = c /\ s \in Seq(Bytes) /\ Len(s) \in Nat /\ Len(s) >= 1
    BY DEF Chained
  <1>2. t = u \o s
    OBVIOUS
  <1> HIDE DEF u, t
  <1>3. /\ t \in Seq(Bytes) /\ Len(t) = Len(u) + Len(s)
        /\ \A i \in 1..(Len(u) + Len(s)) : t[i] = IF i <= Len(u) THEN u[i] ELSE s[i - Len(u)]
    BY <1>1, <1>2, ConcatProperties
  <1>4. t \in Seq(Bytes) /\ Len(t) = Len(s) + 1 /\ t[1] = c
    BY <1>1, <1>3
  <1>5. \A i \in 1..Len(s) : t[i + 1] = s[i]
    <2> TAKE i \in 1..Len(s)
    <2>1. i + 1 \in 1..(Len(u) + Len(s)) /\ ~(i + 1 <= Len(u)) /\ i + 1 - Len(u) = i
      BY <1>1
    <2> QED BY <1>3, <2>1
  <1>6. \A i \in 1..(Len(t) - 1) : t[i] >= 128
    <2> TAKE i \in 1..(Len(t) - 1)
    <2>1. CASE i = 1
      BY <1>4, <2>1
    <2>2. CASE i # 1
      <3>1. i - 1 \in 1..(Len(s) - 1) /\ i - 1 \in 1..Len(s) /\ (i - 1) + 1 = i
        BY <1>1, <1>4, <2>2
      <3>2. s[i - 1] >= 128 /\ t[(i - 1) + 1] = s[i - 1]
        BY <1>5, <3>1 DEF Chained
      <3> QED BY <3>1, <3>2
    <2> QED BY <2>1, <2>2
  <1>7. t[Len(t)] < 128
    <2>1. Len(s) \in 1..Len(s)
      BY <1>1
    <2>2. t[Len(s) + 1] = s[Len(s)]
      BY <1>5, <2>1
    <2> QED BY <1>4, <2>2 DEF Chained
  <1>8. Chained(t)
    BY <1>1, <1>4, <1>6, <1>7 DEF Chained
  <1> QED BY <1>4, <1>5, <1>8 DEF t

(* What appendVarint writes is a varint. *)
LEMMA PutChained ==
  \A v \in Nat : Chained(W!PutUvarint[v])
  <1> DEFINE Bad == {x \in Nat : ~Chained(W!PutUvarint[x])}
  <1> SUFFICES ASSUME Bad # {} PROVE FALSE
    OBVIOUS
  <1>1. PICK x \in Bad : \A y \in Bad : x <= y
    <2> HIDE DEF Bad
    <2>1. Bad \in SUBSET Nat
      BY DEF Bad
    <2> QED BY <2>1, LeastNumber
  <1>2. x \in Nat /\ ~Chained(W!PutUvarint[x])
    OBVIOUS
  <1>3. CASE x < 128
    <2> DEFINE s == <<x>>
    <2>1. W!PutUvarint[x] = s
      BY <1>2, <1>3, PutUnfolds
    <2>2. x \in Bytes
      BY <1>2, <1>3 DEF Bytes
    <2>3. s \in Seq(Bytes) /\ Len(s) = 1 /\ s[1] = x
      BY <2>2
    <2> HIDE DEF s
    <2>4. Chained(s)
      BY <1>3, <2>3 DEF Chained
    <2> QED BY <1>2, <2>1, <2>4
  <1>4. CASE x >= 128
    <2> DEFINE y == x \div 128
               c == 128 + (x % 128)
    <2>1. W!PutUvarint[x] = <<c>> \o W!PutUvarint[y]
      <3>1. ~(x < 128)
        BY <1>2, <1>4
      <3> QED BY <1>2, <3>1, PutUnfolds
    <2>2. y \in Nat /\ y < x
      BY <1>2, <1>4, Smaller
    <2>3. c \in Bytes /\ c >= 128
      BY <1>2 DEF Bytes
    <2> HIDE DEF y, c
    <2>4. y \notin Bad
      BY <1>1, <1>2, <2>2
    <2>5. Chained(W!PutUvarint[y])
      BY <2>2, <2>4
    <2> QED BY <1>2, <2>1, <2>3, <2>5, ByteChained
  <1>5. x < 128 \/ x >= 128
    BY <1>2
  <1> QED BY <1>3, <1>4, <1>5

(* The bytes of s are in b, from p on. *)
At(b, p, s) ==
  /\ p \in Nat /\ p >= 1 /\ p + Len(s) <= Len(b) + 1
  /\ \A i \in 1..Len(s) : b[p + i - 1] = s[i]

(* A part of what is in b is in b, at its place. *)
LEMMA AtParts ==
  ASSUME NEW b \in Seq(Bytes), NEW p, NEW s \in Seq(Bytes), NEW t \in Seq(Bytes), At(b, p, s \o t)
  PROVE  At(b, p, s) /\ At(b, p + Len(s), t)
  <1> DEFINE c == s \o t
  <1>1. Len(s) \in Nat /\ Len(t) \in Nat /\ Len(b) \in Nat
    OBVIOUS
  <1>2. /\ Len(c) = Len(s) + Len(t)
        /\ \A i \in 1..(Len(s) + Len(t)) : c[i] = IF i <= Len(s) THEN s[i] ELSE t[i - Len(s)]
    BY ConcatProperties
  <1>3. At(b, p, c)
    OBVIOUS
  <1> HIDE DEF c
  <1>4. /\ p \in Nat /\ p >= 1 /\ p + Len(s) + Len(t) <= Len(b) + 1
        /\ \A i \in 1..(Len(s) + Len(t)) : b[p + i - 1] = c[i]
    BY <1>1, <1>2, <1>3 DEF At
  <1>5. \A i \in 1..Len(s) : b[p + i - 1] = s[i]
    <2> TAKE i \in 1..Len(s)
    <2>1. i \in 1..(Len(s) + Len(t)) /\ i <= Len(s)
      BY <1>1
    <2> QED BY <1>2, <1>4, <2>1
  <1>6. \A i \in 1..Len(t) : b[p + Len(s) + i - 1] = t[i]
    <2> TAKE i \in 1..Len(t)
    <2>1. /\ Len(s) + i \in 1..(Len(s) + Len(t)) /\ ~(Len(s) + i <= Len(s)) /\ Len(s) + i - Len(s) = i
          /\ p + (Len(s) + i) - 1 = p + Len(s) + i - 1
      BY <1>1, <1>4
    <2>2. b[p + (Len(s) + i) - 1] = c[Len(s) + i] /\ c[Len(s) + i] = t[Len(s) + i - Len(s)]
      BY <1>2, <1>4, <2>1
    <2> QED BY <2>1, <2>2
  <1>7. p + Len(s) \in Nat /\ p + Len(s) >= 1 /\ p + Len(s) <= Len(b) + 1
    BY <1>1, <1>4
  <1> QED BY <1>1, <1>4, <1>5, <1>6, <1>7 DEF At

(* b is in itself. *)
LEMMA AtOnce ==
  ASSUME NEW b \in Seq(Bytes)
  PROVE  At(b, 1, b)
  <1>1. Len(b) \in Nat
    OBVIOUS
  <1>2. \A i \in 1..Len(b) : 1 + i - 1 = i
    BY <1>1
  <1> QED BY <1>1, <1>2 DEF At

(* What is appended to b leaves what is in it at its place, *)
LEMMA AtStays ==
  ASSUME NEW b \in Seq(Bytes), NEW p, NEW s \in Seq(Bytes), NEW t \in Seq(Bytes), At(b, p, s)
  PROVE  At(b \o t, p, s)
  <1> DEFINE c == b \o t
  <1>1. Len(s) \in Nat /\ Len(t) \in Nat /\ Len(b) \in Nat
    OBVIOUS
  <1>2. /\ Len(c) = Len(b) + Len(t)
        /\ \A i \in 1..(Len(b) + Len(t)) : c[i] = IF i <= Len(b) THEN b[i] ELSE t[i - Len(b)]
    BY ConcatProperties
  <1> HIDE DEF c
  <1>3. p \in Nat /\ p >= 1 /\ p + Len(s) <= Len(b) + 1 /\ \A i \in 1..Len(s) : b[p + i - 1] = s[i]
    BY DEF At
  <1>4. \A i \in 1..Len(s) : c[p + i - 1] = s[i]
    <2> TAKE i \in 1..Len(s)
    <2>1. p + i - 1 \in 1..(Len(b) + Len(t)) /\ p + i - 1 <= Len(b)
      BY <1>1, <1>3
    <2> QED BY <1>2, <1>3, <2>1
  <1>5. p + Len(s) <= Len(c) + 1
    BY <1>1, <1>2, <1>3
  <1>6. At(c, p, s)
    BY <1>3, <1>4, <1>5 DEF At
  <1> QED BY <1>6 DEF c

(* and is in it after all that was there. *)
LEMMA AtEnd ==
  ASSUME NEW b \in Seq(Bytes), NEW t \in Seq(Bytes)
  PROVE  At(b \o t, Len(b) + 1, t)
  <1>1. b \o t \in Seq(Bytes) /\ At(b \o t, 1, b \o t)
    BY AtOnce, ConcatProperties
  <1>2. At(b \o t, 1 + Len(b), t)
    BY <1>1, AtParts
  <1>3. 1 + Len(b) = Len(b) + 1
    OBVIOUS
  <1> QED BY <1>2, <1>3

(* What is in b can be cut out of it. *)
LEMMA AtSubSeq ==
  ASSUME NEW b \in Seq(Bytes), NEW p, NEW s \in Seq(Bytes), At(b, p, s)
  PROVE  SubSeq(b, p, p + Len(s) - 1) = s
  <1> DEFINE q == p + Len(s) - 1
             m == Len(s)
             t == SubSeq(b, p, q)
  <1>1. /\ p \in Int /\ q \in Int /\ m \in Nat /\ p >= 1 /\ q <= Len(b) /\ q - p + 1 = m /\ Len(b) \in Nat
        /\ (p <= q <=> m > 0)
    BY DEF At
  <1>2. \A i \in 1..m : b[p + i - 1] = s[i]
    BY DEF At
  <1> HIDE DEF q
  <1>3. \A i \in p..q : b[i] \in Bytes
    BY <1>1
  <1>4. /\ t \in Seq(Bytes) /\ Len(t) = (IF p <= q THEN q - p + 1 ELSE 0)
        /\ \A i \in 1..(q - p + 1) : t[i] = b[p + i - 1]
    BY <1>1, <1>3, SubSeqProperties
  <1> HIDE DEF t
  <1>5. t \in Seq(Bytes) /\ Len(t) = m /\ \A i \in 1..m : t[i] = s[i]
    BY <1>1, <1>2, <1>4
  <1>6. t = s
    BY <1>5, SeqEqual
  <1> QED BY <1>6 DEF t, q

(* A receiver finds the end of the varint. *)
LEMMA LastByteFound ==
  ASSUME NEW b \in Seq(Bytes), NEW p, NEW s, Chained(s), At(b, p, s)
  PROVE  W!LastByte(b, p) = p + Len(s) - 1
  <1> DEFINE q == p + Len(s) - 1
             Ends(i) == b[i] < 128 /\ \A j \in p..(i - 1) : b[j] >= 128
  <1>1. /\ p \in Nat /\ Len(s) \in Nat /\ Len(s) >= 1 /\ q \in p..Len(b) /\ Len(b) \in Nat
        /\ \A i \in 1..Len(s) : b[p + i - 1] = s[i]
    BY DEF At, Chained
  <1>2. b[q] < 128
    <2>1. Len(s) \in 1..Len(s)
      BY <1>1
    <2> QED BY <1>1, <2>1 DEF Chained
  <1>3. \A j \in p..(q - 1) : b[j] >= 128
    <2> TAKE j \in p..(q - 1)
    <2>1. j - p + 1 \in 1..(Len(s) - 1) /\ j - p + 1 \in 1..Len(s) /\ p + (j - p + 1) - 1 = j
      BY <1>1
    <2> QED BY <1>1, <2>1 DEF Chained
  <1> HIDE DEF q
  <1>4. \A i \in p..Len(b) : Ends(i) => i = q
    <2> SUFFICES ASSUME NEW i \in p..Len(b), Ends(i), i # q PROVE FALSE
      OBVIOUS
    <2>1. \A j \in p..Len(b) : b[j] \in Nat
      <3>1. \A j \in p..Len(b) : j \in 1..Len(b)
        BY <1>1 DEF At
      <3>2. \A j \in p..Len(b) : b[j] \in Bytes
        BY <3>1
      <3> QED BY <3>2, ByteRange
    <2>2. CASE i < q
      BY <1>1, <1>3, <2>1, <2>2
    <2>3. CASE i > q
      BY <1>1, <1>2, <2>1, <2>3
    <2> QED BY <1>1, <2>2, <2>3
  <1>5. Ends(q) /\ q \in p..Len(b)
    BY <1>1, <1>2, <1>3
  <1>6. W!LastByte(b, p) = CHOOSE i \in p..Len(b) : Ends(i)
    BY DEF W!LastByte
  <1> HIDE DEF Ends
  <1>7. (CHOOSE i \in p..Len(b) : Ends(i)) = q
    BY <1>4, <1>5
  <1> QED BY <1>6, <1>7 DEF q

(* The value that is read, from each byte on *)
IsValue(f, b, p, last, signed) ==
  f = [i \in p..last |-> IF i = last THEN (IF signed /\ last - p = 9 THEN -b[i] ELSE b[i])
                         ELSE f[i + 1] * 128 + (b[i] % 128)]

(* There is such a function, for every varint. *)
LEMMA ValueExists ==
  ASSUME NEW b, NEW p \in Nat, NEW last \in Nat, p <= last, NEW signed \in BOOLEAN
  PROVE  \E f : IsValue(f, b, p, last, signed)
  <1> DEFINE x == IF signed /\ last - p = 9 THEN -b[last] ELSE b[last]
             Eq(f, k) == f = [i \in (last - k)..last |-> IF i = last THEN x ELSE f[i + 1] * 128 + (b[i] % 128)]
             Unmet == {k \in Nat : ~\E f : Eq(f, k)}
  <1> HIDE DEF x
  <1>1. Unmet = {}
    <2> SUFFICES ASSUME Unmet # {} PROVE FALSE
      OBVIOUS
    <2>1. PICK k \in Unmet : \A j \in Unmet : k <= j
      <3> HIDE DEF Unmet
      <3>1. Unmet \in SUBSET Nat
        BY DEF Unmet
      <3> QED BY <3>1, LeastNumber
    <2>2. k \in Nat /\ ~\E f : Eq(f, k)
      OBVIOUS
    <2>3. CASE k = 0
      <3>1. \A i \in (last - 0)..last : i = last
        OBVIOUS
      <3>2. Eq([i \in (last - 0)..last |-> x], 0)
        BY <3>1
      <3> QED BY <2>2, <2>3, <3>2
    <2>4. CASE k # 0
      <3>1. k - 1 \in Nat /\ ~(k <= k - 1)
        BY <2>2, <2>4
      <3>2. PICK g : Eq(g, k - 1)
        <4> HIDE DEF Eq
        <4>1. k - 1 \notin Unmet
          BY <2>1, <3>1
        <4> QED BY <3>1, <4>1
      <3> DEFINE a == last - k
                 y == g[a + 1] * 128 + (b[a] % 128)
                 f == [i \in a..last |-> IF i = a THEN y ELSE g[i]]
      <3>3. a \in Int /\ a < last /\ last - (k - 1) = a + 1
        BY <2>2, <2>4
      <3>4. \A i \in (a + 1)..last : g[i] = IF i = last THEN x ELSE g[i + 1] * 128 + (b[i] % 128)
        <4>1. g = [i \in (a + 1)..last |-> IF i = last THEN x ELSE g[i + 1] * 128 + (b[i] % 128)]
          BY <3>2, <3>3
        <4> HIDE DEF a
        <4> QED BY <4>1
      <3> HIDE DEF a, Eq
      <3>5. \A i \in a..last : f[i] = IF i = last THEN x ELSE f[i + 1] * 128 + (b[i] % 128)
        <4> TAKE i \in a..last
        <4>1. f[i] = IF i = a THEN y ELSE g[i]
          OBVIOUS
        <4>2. i # last => f[i + 1] = g[i + 1]
          BY <3>3
        <4>3. i # a => i \in (a + 1)..last
          BY <3>3
        <4> HIDE DEF f
        <4> QED BY <3>3, <3>4, <4>1, <4>2, <4>3
      <3>6. f = [i \in a..last |-> f[i]]
        OBVIOUS
      <3> HIDE DEF f
      <3>7. f = [i \in a..last |-> IF i = last THEN x ELSE f[i + 1] * 128 + (b[i] % 128)]
        BY <3>5, <3>6
      <3>8. Eq(f, k)
        BY <3>7 DEF Eq, a
      <3> QED BY <2>2, <3>8
    <2> QED BY <2>3, <2>4
  <1>2. last - p \in Nat /\ last - (last - p) = p
    OBVIOUS
  <1>3. PICK f : Eq(f, last - p)
    BY <1>1, <1>2
  <1>4. f = [i \in p..last |-> IF i = last THEN x ELSE f[i + 1] * 128 + (b[i] % 128)]
    BY <1>2, <1>3
  <1>5. \A i \in p..last : i = last => x = IF signed /\ last - p = 9 THEN -b[i] ELSE b[i]
    BY DEF x
  <1>6. IsValue(f, b, p, last, signed)
    BY <1>4, <1>5 DEF IsValue
  <1> QED BY <1>6

(* The receiver puts the lowest seven bits of a byte under what the next ones give. *)
LEMMA ValueUnfolds ==
  ASSUME NEW b, NEW p \in Nat, NEW last \in Nat, p <= last, NEW signed \in BOOLEAN
  PROVE  /\ W!ValueFrom(b, p, last, signed)[last] = IF signed /\ last - p = 9 THEN -b[last] ELSE b[last]
         /\ \A i \in p..(last - 1) : W!ValueFrom(b, p, last, signed)[i] =
              W!ValueFrom(b, p, last, signed)[i + 1] * 128 + (b[i] % 128)
  <1> DEFINE f == W!ValueFrom(b, p, last, signed)
  <1>1. f = CHOOSE g : IsValue(g, b, p, last, signed)
    BY DEF W!ValueFrom, IsValue
  <1>2. IsValue(f, b, p, last, signed)
    BY <1>1, ValueExists
  <1> HIDE DEF f
  <1>3. \A i \in p..last : f[i] = IF i = last THEN (IF signed /\ last - p = 9 THEN -b[i] ELSE b[i])
                                  ELSE f[i + 1] * 128 + (b[i] % 128)
    BY <1>2 DEF IsValue
  <1>4. last \in p..last /\ \A i \in p..(last - 1) : i \in p..last /\ i # last
    OBVIOUS
  <1>5. /\ f[last] = IF signed /\ last - p = 9 THEN -b[last] ELSE b[last]
        /\ \A i \in p..(last - 1) : f[i] = f[i + 1] * 128 + (b[i] % 128)
    BY <1>3, <1>4
  <1> QED BY <1>5 DEF f

(* Seven bits and the rest are the number again, negative numbers included. *)
LEMMA Digit ==
  ASSUME NEW v \in Int
  PROVE  (v \div 128) * 128 + ((128 + (v % 128)) % 128) = v
  OBVIOUS

(* f has the value of the bytes from each of them on, unsigned. *)
Unsigned(f, b, p, last) ==
  /\ f[last] = b[last]
  /\ \A i \in p..(last - 1) : f[i] = f[i + 1] * 128 + (b[i] % 128)

(* v is spelled by the bytes from p to last. *)
Spelled(b, p, last, v) == At(b, p, W!PutUvarint[v]) /\ last = p + Len(W!PutUvarint[v]) - 1

(* The bytes that spell a number have its value, from the first of them on. *)
LEMMA UvarintFrom ==
  ASSUME NEW b \in Seq(Bytes), NEW p \in Nat, NEW last \in Nat, p <= last, NEW f, Unsigned(f, b, p, last)
  PROVE  \A v \in Nat : \A q \in p..last : Spelled(b, q, last, v) => f[q] = v
  <1> DEFINE Put(v) == W!PutUvarint[v]
             Holds0(v) == \A q \in p..last : At(b, q, Put(v)) /\ last = q + Len(Put(v)) - 1 => f[q] = v
             Bad == {v \in Nat : ~Holds0(v)}
  <1> SUFFICES ASSUME Bad # {} PROVE FALSE
    BY DEF Spelled
  <1>1. PICK v \in Bad : \A y \in Bad : v <= y
    <2> HIDE DEF Bad
    <2>1. Bad \in SUBSET Nat
      BY DEF Bad
    <2> QED BY <2>1, LeastNumber
  <1>2. v \in Nat
    OBVIOUS
  <1>3. PICK q \in p..last : At(b, q, Put(v)) /\ last = q + Len(Put(v)) - 1 /\ f[q] # v
    OBVIOUS
  <1>4. q \in Nat /\ \A i \in 1..Len(Put(v)) : b[q + i - 1] = Put(v)[i]
    BY <1>3 DEF At
  <1>5. CASE v < 128
    <2>1. Put(v) = <<v>>
      BY <1>2, <1>5, PutUnfolds
    <2>2. Len(Put(v)) = 1 /\ Put(v)[1] = v
      BY <2>1
    <2> HIDE DEF Put
    <2>3. last = q /\ b[q] = v
      BY <1>3, <1>4, <2>2
    <2> QED BY <1>3, <2>3 DEF Unsigned
  <1>6. CASE v >= 128
    <2> DEFINE y == v \div 128
               c == 128 + (v % 128)
    <2>1. Put(v) = <<c>> \o Put(y)
      <3>1. ~(v < 128)
        BY <1>2, <1>6
      <3> QED BY <1>2, <3>1, PutUnfolds
    <2>2. y \in Nat /\ y < v /\ y * 128 + (c % 128) = v
      BY <1>2, <1>6, Smaller, Digit
    <2>3. c \in Bytes /\ c >= 128
      BY <1>2 DEF Bytes
    <2> HIDE DEF y, c
    <2>4. Chained(Put(y))
      BY <2>2, PutChained
    <2> HIDE DEF Put
    <2>5. /\ <<c>> \in Seq(Bytes) /\ Len(<<c>>) = 1 /\ Put(y) \in Seq(Bytes) /\ Len(Put(y)) \in Nat
          /\ Len(Put(y)) >= 1
      BY <2>3, <2>4 DEF Chained
    <2>6. At(b, q + 1, Put(y))
      <3>1. At(b, q + Len(<<c>>), Put(y))
        <4> DEFINE t == <<c>>
        <4>1. t \in Seq(Bytes) /\ At(b, q, t \o Put(y))
          BY <1>3, <2>1, <2>5
        <4> HIDE DEF t
        <4>2. At(b, q + Len(t), Put(y))
          BY <2>5, <4>1, AtParts
        <4> QED BY <4>2 DEF t
      <3> QED BY <2>5, <3>1
    <2>7. Len(Put(v)) = Len(Put(y)) + 1 /\ Put(v)[1] = c
      BY <2>1, <2>3, <2>4, ByteChained
    <2>8. b[q] = c
      <3>1. 1 \in 1..Len(Put(v)) /\ q + 1 - 1 = q
        BY <1>4, <2>5, <2>7
      <3> QED BY <1>4, <2>7, <3>1
    <2>9. q + 1 \in p..last /\ last = (q + 1) + Len(Put(y)) - 1 /\ q \in p..(last - 1)
      BY <1>3, <1>4, <2>5, <2>7
    <2>10. f[q + 1] = y
      <3>1. y \notin Bad
        BY <1>1, <1>2, <2>2
      <3>2. Holds0(y)
        BY <2>2, <3>1
      <3> QED BY <2>6, <2>9, <3>2
    <2>11. f[q] = y * 128 + (c % 128)
      BY <2>8, <2>9, <2>10 DEF Unsigned
    <2> QED BY <1>3, <2>2, <2>11
  <1>7. v < 128 \/ v >= 128
    BY <1>2
  <1> QED BY <1>5, <1>6, <1>7

(* A uvarint that was put into a message is read from it. *)
LEMMA UvarintRead ==
  ASSUME NEW b \in Seq(Bytes), NEW p, NEW v \in Nat, At(b, p, W!PutUvarint[v]),
         NEW signed \in BOOLEAN, ~signed \/ Len(W!PutUvarint[v]) # 10
  PROVE  W!VarintAt(b, p, signed) = [val |-> v, next |-> p + Len(W!PutUvarint[v])]
  <1> DEFINE m == Len(W!PutUvarint[v])
             last == p + m - 1
             f == W!ValueFrom(b, p, last, signed)
  <1>1. Chained(W!PutUvarint[v])
    BY PutChained
  <1>2. p \in Nat /\ m \in Nat /\ m >= 1
    BY <1>1 DEF Chained, At
  <1>3. W!LastByte(b, p) = last
    BY <1>1, LastByteFound
  <1>4. p <= last /\ last \in Nat /\ last - p = m - 1 /\ last + 1 = p + m
    BY <1>2
  <1> HIDE DEF m
  <1>a. last = p + m - 1
    OBVIOUS
  <1> HIDE DEF last
  <1>5. /\ f[last] = IF signed /\ last - p = 9 THEN -b[last] ELSE b[last]
        /\ \A i \in p..(last - 1) : f[i] = f[i + 1] * 128 + (b[i] % 128)
    <2>1. p \in Nat /\ last \in Nat /\ p <= last
      BY <1>2, <1>4
    <2> QED BY <2>1, ValueUnfolds
  <1>6. ~(signed /\ last - p = 9)
    <2>1. signed => m # 10
      BY DEF m
    <2> QED BY <1>2, <1>4, <2>1
  <1>7. f[last] = b[last]
    BY <1>5, <1>6
  <1> HIDE DEF f
  <1>8. f[p] = v
    <2>1. p \in p..last /\ Spelled(b, p, last, v)
      BY <1>2, <1>4, <1>a DEF m, Spelled
    <2>2. p \in Nat /\ last \in Nat /\ p <= last
      BY <1>2, <1>4
    <2>a. Unsigned(f, b, p, last)
      BY <1>5, <1>7 DEF Unsigned
    <2> QED BY <2>1, <2>2, <2>a, UvarintFrom
  <1>9. W!VarintAt(b, p, signed) = [val |-> f[p], next |-> last + 1]
    BY <1>3 DEF W!VarintAt, f
  <1> QED BY <1>4, <1>8, <1>9 DEF m

(* Powers of 128: a uvarint below the k-th takes up to k bytes. *)
Power2 == 128 * 128
Power3 == 128 * Power2
Power4 == 128 * Power3
Power5 == 128 * Power4
Power6 == 128 * Power5
Power7 == 128 * Power6
Power8 == 128 * Power7
Power9 == 128 * Power8

(* 2^63 is the ninth. *)
Int64 == (-Power9)..(Power9 - 1)

(* No uvarint below max takes more than k bytes. *)
Short(k, max) == \A v \in Nat : v < max => Len(W!PutUvarint[v]) <= k

(* A byte more is enough for seven bits more. *)
LEMMA OneByteMore ==
  ASSUME NEW k \in Nat, k >= 1, NEW max \in Nat, Short(k, max)
  PROVE  Short(k + 1, 128 * max)
  <1> SUFFICES ASSUME NEW v \in Nat, v < 128 * max PROVE Len(W!PutUvarint[v]) <= k + 1
    BY DEF Short
  <1>1. CASE v < 128
    <2>1. W!PutUvarint[v] = <<v>>
      BY <1>1, PutUnfolds
    <2>2. Len(W!PutUvarint[v]) = 1
      BY <2>1
    <2> QED BY <2>2
  <1>2. CASE v >= 128
    <2> DEFINE y == v \div 128
               c == 128 + (v % 128)
    <2>1. W!PutUvarint[v] = <<c>> \o W!PutUvarint[y]
      <3>1. ~(v < 128)
        BY <1>2
      <3> QED BY <3>1, PutUnfolds
    <2>2. y \in Nat /\ y < max
      OBVIOUS
    <2>3. c \in Bytes /\ c >= 128
      BY DEF Bytes
    <2> HIDE DEF y, c
    <2>4. Chained(W!PutUvarint[y]) /\ Len(W!PutUvarint[y]) <= k
      BY <2>2, PutChained DEF Short
    <2>5. Len(W!PutUvarint[y]) \in Nat
      BY <2>4 DEF Chained
    <2>6. Len(W!PutUvarint[v]) = Len(W!PutUvarint[y]) + 1
      BY <2>1, <2>3, <2>4, ByteChained
    <2> QED BY <2>4, <2>5, <2>6
  <1> QED BY <1>1, <1>2

(* The powers are numbers. *)
LEMMA PowersNat ==
  /\ Power2 \in Nat /\ Power3 \in Nat /\ Power4 \in Nat /\ Power5 \in Nat
  /\ Power6 \in Nat /\ Power7 \in Nat /\ Power8 \in Nat /\ Power9 \in Nat
  BY DEF Power2, Power3, Power4, Power5, Power6, Power7, Power8, Power9

(* An int64 that is not negative takes nine bytes at the most: a varint of ten
   is that of a negative one. *)
LEMMA NineBytes ==
  Short(9, Power9)
  <1>1. Short(1, 128)
    <2> SUFFICES ASSUME NEW v \in Nat, v < 128 PROVE Len(W!PutUvarint[v]) <= 1
      BY DEF Short
    <2>1. W!PutUvarint[v] = <<v>>
      BY PutUnfolds
    <2>2. Len(W!PutUvarint[v]) = 1
      BY <2>1
    <2> QED BY <2>2
  <1>0. ASSUME NEW k \in Nat, k >= 1, NEW j \in Nat, j = k + 1, NEW max \in Nat, NEW next,
               next = 128 * max, Short(k, max)
        PROVE  Short(j, next)
    BY <1>0, OneByteMore
  <1>2. Short(2, Power2)
    BY <1>0, <1>1 DEF Power2
  <1>3. Short(3, Power3)
    BY <1>0, <1>2, PowersNat DEF Power3
  <1>4. Short(4, Power4)
    BY <1>0, <1>3, PowersNat DEF Power4
  <1>5. Short(5, Power5)
    BY <1>0, <1>4, PowersNat DEF Power5
  <1>6. Short(6, Power6)
    BY <1>0, <1>5, PowersNat DEF Power6
  <1>7. Short(7, Power7)
    BY <1>0, <1>6, PowersNat DEF Power7
  <1>8. Short(8, Power8)
    BY <1>0, <1>7, PowersNat DEF Power8
  <1> QED BY <1>0, <1>8, PowersNat DEF Power9

(* v and what is left of it after each of eight bytes *)
IsShifted(f, v) == f = [i \in 0..8 |-> IF i = 0 THEN v ELSE f[i - 1] \div 128]

(* There is such a function, for every number. *)
LEMMA ShiftedExists ==
  ASSUME NEW v
  PROVE  \E f : IsShifted(f, v)
  <1> DEFINE s1 == v \div 128
             s2 == s1 \div 128
             s3 == s2 \div 128
             s4 == s3 \div 128
             s5 == s4 \div 128
             s6 == s5 \div 128
             s7 == s6 \div 128
             s8 == s7 \div 128
  <1> HIDE DEF s1, s2, s3, s4, s5, s6, s7, s8
  <1> DEFINE f == [i \in 0..8 |-> CASE i = 0 -> v [] i = 1 -> s1 [] i = 2 -> s2 [] i = 3 -> s3 [] i = 4 -> s4
                                    [] i = 5 -> s5 [] i = 6 -> s6 [] i = 7 -> s7 [] i = 8 -> s8]
  <1>1. /\ f[0] = v /\ f[1] = s1 /\ f[2] = s2 /\ f[3] = s3 /\ f[4] = s4
        /\ f[5] = s5 /\ f[6] = s6 /\ f[7] = s7 /\ f[8] = s8
    OBVIOUS
  <1>2. f = [i \in 0..8 |-> f[i]]
    OBVIOUS
  <1> HIDE DEF f
  <1>3. \A i \in 0..8 : f[i] = IF i = 0 THEN v ELSE f[i - 1] \div 128
    <2> TAKE i \in 0..8
    <2>1. i = 0 \/ i = 1 \/ i = 2 \/ i = 3 \/ i = 4 \/ i = 5 \/ i = 6 \/ i = 7 \/ i = 8
      OBVIOUS
    <2>2. 1 - 1 = 0 /\ 2 - 1 = 1 /\ 3 - 1 = 2 /\ 4 - 1 = 3 /\ 5 - 1 = 4 /\ 6 - 1 = 5 /\ 7 - 1 = 6 /\ 8 - 1 = 7
      OBVIOUS
    <2> QED BY <1>1, <2>1, <2>2 DEF s1, s2, s3, s4, s5, s6, s7, s8
  <1>4. IsShifted(f, v)
    BY <1>2, <1>3 DEF IsShifted
  <1> QED BY <1>4

(* f: v and what is left of it after each of eight bytes; v is spelled by the
   lowest seven bits of each, and a last byte 1. *)
Spells(f, v) ==
  /\ f[0] = v /\ \A i \in 1..8 : f[i] = f[i - 1] \div 128
  /\ W!PutNegative(v) = [i \in 1..9 |-> 128 + (f[i - 1] % 128)] \o <<1>>

(* A negative int64 is written that way. *)
LEMMA ShiftedBytes ==
  ASSUME NEW v
  PROVE  \E f : Spells(f, v)
  <1> DEFINE f == CHOOSE g : IsShifted(g, v)
  <1>1. IsShifted(f, v)
    BY ShiftedExists
  <1>2. W!PutNegative(v) = [i \in 1..9 |-> 128 + (f[i - 1] % 128)] \o <<1>>
    BY DEF W!PutNegative, IsShifted
  <1> HIDE DEF f
  <1>3. \A i \in 0..8 : f[i] = IF i = 0 THEN v ELSE f[i - 1] \div 128
    BY <1>1 DEF IsShifted
  <1>4. f[0] = v /\ \A i \in 1..8 : f[i] = f[i - 1] \div 128
    BY <1>3
  <1>5. Spells(f, v)
    BY <1>2, <1>4 DEF Spells
  <1> QED BY <1>5

(* A negative number of no more than max *)
Below(x, max) == x \in Int /\ x < 0 /\ x >= -max

(* A shift by seven bits leaves a negative number of seven bits less. *)
LEMMA NegativeQuotient ==
  ASSUME NEW x, NEW max \in Nat, Below(x, 128 * max)
  PROVE  Below(x \div 128, max)
  BY DEF Below

(* Eight shifts of a negative int64 leave a negative number of seven bits. *)
LEMMA ShiftedRange ==
  ASSUME NEW v \in Int64, v < 0, NEW f, Spells(f, v)
  PROVE  (\A i \in 0..8 : f[i] \in Int) /\ f[8] \in (-128)..(-1)
  <1>1. /\ f[1] = f[0] \div 128 /\ f[2] = f[1] \div 128 /\ f[3] = f[2] \div 128 /\ f[4] = f[3] \div 128
        /\ f[5] = f[4] \div 128 /\ f[6] = f[5] \div 128 /\ f[7] = f[6] \div 128 /\ f[8] = f[7] \div 128
    <2>1. 1 - 1 = 0 /\ 2 - 1 = 1 /\ 3 - 1 = 2 /\ 4 - 1 = 3 /\ 5 - 1 = 4 /\ 6 - 1 = 5 /\ 7 - 1 = 6 /\ 8 - 1 = 7
      OBVIOUS
    <2>2. \A i \in 1..8 : f[i] = f[i - 1] \div 128
      BY DEF Spells
    <2>3. /\ 1 \in 1..8 /\ 2 \in 1..8 /\ 3 \in 1..8 /\ 4 \in 1..8 /\ 5 \in 1..8 /\ 6 \in 1..8
          /\ 7 \in 1..8 /\ 8 \in 1..8
      OBVIOUS
    <2> QED BY <2>1, <2>2, <2>3
  <1>3. Below(f[0], Power9)
    BY PowersNat DEF Int64, Below, Spells
  <1>4. Below(f[1], Power8)
    <2>1. f[1] = f[0] \div 128
      BY <1>1
    <2> QED BY <1>3, <2>1, NegativeQuotient, PowersNat DEF Power9
  <1>5. Below(f[2], Power7)
    <2>1. f[2] = f[1] \div 128
      BY <1>1
    <2> QED BY <1>4, <2>1, NegativeQuotient, PowersNat DEF Power8
  <1>6. Below(f[3], Power6)
    <2>1. f[3] = f[2] \div 128
      BY <1>1
    <2> QED BY <1>5, <2>1, NegativeQuotient, PowersNat DEF Power7
  <1>7. Below(f[4], Power5)
    <2>1. f[4] = f[3] \div 128
      BY <1>1
    <2> QED BY <1>6, <2>1, NegativeQuotient, PowersNat DEF Power6
  <1>8. Below(f[5], Power4)
    <2>1. f[5] = f[4] \div 128
      BY <1>1
    <2> QED BY <1>7, <2>1, NegativeQuotient, PowersNat DEF Power5
  <1>9. Below(f[6], Power3)
    <2>1. f[6] = f[5] \div 128
      BY <1>1
    <2> QED BY <1>8, <2>1, NegativeQuotient, PowersNat DEF Power4
  <1>10. Below(f[7], Power2)
    <2>1. f[7] = f[6] \div 128
      BY <1>1
    <2> QED BY <1>9, <2>1, NegativeQuotient, PowersNat DEF Power3
  <1>11. Below(f[8], 128)
    <2>1. f[8] = f[7] \div 128
      BY <1>1
    <2> QED BY <1>10, <2>1, NegativeQuotient, PowersNat DEF Power2
  <1>12. /\ f[0] \in Int /\ f[1] \in Int /\ f[2] \in Int /\ f[3] \in Int /\ f[4] \in Int
         /\ f[5] \in Int /\ f[6] \in Int /\ f[7] \in Int /\ f[8] \in Int
    BY <1>3, <1>4, <1>5, <1>6, <1>7, <1>8, <1>9, <1>10, <1>11 DEF Below
  <1>13. \A i \in 0..8 : i = 0 \/ i = 1 \/ i = 2 \/ i = 3 \/ i = 4 \/ i = 5 \/ i = 6 \/ i = 7 \/ i = 8
    OBVIOUS
  <1>14. f[8] \in (-128)..(-1)
    BY <1>11 DEF Below
  <1> QED BY <1>12, <1>13, <1>14

(* A function on 1..n is a sequence of n. *)
LEMMA ListOf ==
  ASSUME NEW n \in Nat, NEW S1, NEW f \in [1..n -> S1]
  PROVE  f \in Seq(S1) /\ Len(f) = n
  <1>1. DOMAIN f = 1..n /\ \A i \in 1..n : f[i] \in S1
    OBVIOUS
  <1>2. f \in Seq(S1)
    BY SeqDef
  <1>3. Len(f) \in Nat /\ DOMAIN f = 1..Len(f)
    BY <1>2
  <1> QED BY <1>1, <1>2, <1>3

(* Seven bits under a set one are a byte. *)
LEMMA LowBits ==
  ASSUME NEW x \in Int
  PROVE  128 + (x % 128) \in Bytes /\ 128 + (x % 128) >= 128
  BY DEF Bytes

(* The ten bytes of a negative int64 *)
LEMMA NegativeBytes ==
  ASSUME NEW v \in Int64, v < 0, NEW f, Spells(f, v)
  PROVE  /\ Chained(W!PutNegative(v)) /\ Len(W!PutNegative(v)) = 10
         /\ W!PutNegative(v)[10] = 1
         /\ \A i \in 1..9 : W!PutNegative(v)[i] = 128 + (f[i - 1] % 128)
  <1> DEFINE s == W!PutNegative(v)
             t == [i \in 1..9 |-> 128 + (f[i - 1] % 128)]
             u == <<1>>
  <1>0. \A i \in 0..8 : f[i] \in Int
    BY ShiftedRange
  <1>1. \A i \in 1..9 : t[i] \in Bytes /\ t[i] >= 128 /\ t[i] = 128 + (f[i - 1] % 128)
    <2> TAKE i \in 1..9
    <2>1. f[i - 1] \in Int
      BY <1>0
    <2>2. t[i] = 128 + (f[i - 1] % 128)
      OBVIOUS
    <2> HIDE DEF t
    <2> QED BY <2>1, <2>2, LowBits
  <1>2. t \in Seq(Bytes) /\ Len(t) = 9
    <2>1. t \in [1..9 -> Bytes]
      BY <1>1
    <2> HIDE DEF t
    <2> QED BY <2>1, ListOf
  <1>3. u \in Seq(Bytes) /\ Len(u) = 1 /\ u[1] = 1
    BY DEF Bytes
  <1>4. s = t \o u
    BY DEF Spells
  <1> HIDE DEF s, t, u
  <1>5. /\ s \in Seq(Bytes) /\ Len(s) = Len(t) + Len(u)
        /\ \A i \in 1..(Len(t) + Len(u)) : s[i] = IF i <= Len(t) THEN t[i] ELSE u[i - Len(t)]
    BY <1>2, <1>3, <1>4, ConcatProperties
  <1>6. Len(s) = 10 /\ s[10] = 1 /\ \A i \in 1..9 : s[i] = t[i]
    BY <1>2, <1>3, <1>5
  <1>7. Chained(s)
    <2>1. \A i \in 1..(Len(s) - 1) : s[i] >= 128
      <3>1. Len(s) - 1 = 9
        BY <1>6
      <3> QED BY <1>1, <1>6, <3>1
    <2>2. s[Len(s)] < 128 /\ Len(s) >= 1
      BY <1>6
    <2> QED BY <1>5, <2>1, <2>2 DEF Chained
  <1>8. \A i \in 1..9 : s[i] = 128 + (f[i - 1] % 128)
    BY <1>1, <1>6
  <1> QED BY <1>6, <1>7, <1>8 DEF s

(* f has the value of the ten bytes of a negative number from each of them on. *)
SignedValue(f, b, p, last) ==
  f[last] = -b[last] /\ \A i \in p..(last - 1) : f[i] = f[i + 1] * 128 + (b[i] % 128)

(* The receiver reads ten bytes as a negative number. *)
LEMMA SignedUnfolds ==
  ASSUME NEW b, NEW p \in Nat, NEW last \in Nat, p <= last, NEW signed \in BOOLEAN
  PROVE  signed /\ last - p = 9 => SignedValue(W!ValueFrom(b, p, last, signed), b, p, last)
  <1> DEFINE f == W!ValueFrom(b, p, last, signed)
  <1>1. /\ f[last] = IF signed /\ last - p = 9 THEN -b[last] ELSE b[last]
        /\ \A i \in p..(last - 1) : f[i] = f[i + 1] * 128 + (b[i] % 128)
    BY ValueUnfolds
  <1> HIDE DEF f
  <1>2. signed /\ last - p = 9 => SignedValue(f, b, p, last)
    BY <1>1 DEF SignedValue
  <1> QED BY <1>2 DEF f

(* A negative int64 that was put into a message is read from it, *)
LEMMA NegativeRead ==
  ASSUME NEW b \in Seq(Bytes), NEW p, NEW v \in Int64, v < 0, At(b, p, W!PutNegative(v))
  PROVE  W!VarintAt(b, p, TRUE) = [val |-> v, next |-> p + Len(W!PutNegative(v))]
  <1>1. PICK f : Spells(f, v)
    BY ShiftedBytes
  <1>2. \A i \in 0..8 : f[i] \in Int
    BY <1>1, ShiftedRange
  <1>a. f[8] \in (-128)..(-1)
    BY <1>1, ShiftedRange
  <1> DEFINE s == W!PutNegative(v)
             last == p + 9
             g == W!ValueFrom(b, p, last, TRUE)
  <1>3. Chained(s) /\ Len(s) = 10 /\ s[10] = 1 /\ \A i \in 1..9 : s[i] = 128 + (f[i - 1] % 128)
    BY <1>1, NegativeBytes
  <1>4. \A i \in 1..10 : b[p + i - 1] = s[i]
    BY <1>3 DEF At
  <1>b. p \in Nat
    BY DEF At
  <1>c. Chained(s) /\ At(b, p, s)
    BY <1>3
  <1>d. f[0] = v /\ \A i \in 1..8 : f[i] = f[i - 1] \div 128
    BY <1>1 DEF Spells
  <1> HIDE DEF s
  <1>5. W!LastByte(b, p) = p + Len(s) - 1
    BY <1>c, LastByteFound
  <1>6. W!LastByte(b, p) = last /\ last \in Nat /\ p <= last /\ last - p = 9 /\ last - 1 = p + 8
    BY <1>3, <1>b, <1>5
  <1>7. g[last] = -b[last] /\ \A i \in p..(last - 1) : g[i] = g[i + 1] * 128 + (b[i] % 128)
    <2> HIDE DEF last
    <2>1. SignedValue(g, b, p, last)
      <3>1. last \in Nat /\ p <= last /\ last - p = 9
        BY <1>6
      <3> QED BY <1>b, <3>1, SignedUnfolds
    <2> QED BY <2>1 DEF SignedValue
  <1> HIDE DEF g
  <1>8. g[p + 9] = -1
    <2>1. b[p + 9] = 1
      <3>1. p + 10 - 1 = p + 9 /\ 10 \in 1..10
        BY <1>b
      <3> QED BY <1>3, <1>4, <3>1
    <2> QED BY <1>6, <1>7, <2>1
  <1>9. \A i \in 0..8 : g[p + i] = g[p + i + 1] * 128 + ((128 + (f[i] % 128)) % 128)
    <2> TAKE i \in 0..8
    <2>1. /\ p + i \in p..(last - 1) /\ i + 1 \in 1..9 /\ i + 1 \in 1..10
          /\ p + (i + 1) - 1 = p + i /\ i + 1 - 1 = i
      BY <1>b
    <2>2. b[p + (i + 1) - 1] = s[i + 1] 
      BY <1>4, <2>1
    <2>4. s[i + 1] = 128 + (f[i + 1 - 1] % 128)
      BY <1>3, <2>1
    <2>3. b[p + i] = 128 + (f[i] % 128)
      BY <2>1, <2>2, <2>4
    <2> QED BY <1>7, <2>1, <2>3
  <1>10. ASSUME NEW i \in 0..7, g[p + (i + 1)] = f[i + 1] PROVE g[p + i] = f[i]
    <2>1. f[i + 1] = f[i] \div 128 /\ f[i] \in Int
      <3>1. i + 1 \in 1..8 /\ i + 1 - 1 = i /\ i \in 0..8
        OBVIOUS
      <3>2. f[i + 1] = f[i + 1 - 1] \div 128
        BY <1>d, <3>1
      <3> QED BY <1>2, <3>1, <3>2
    <2>2. g[p + i] = g[p + i + 1] * 128 + ((128 + (f[i] % 128)) % 128)
      <3>1. i \in 0..8
        OBVIOUS
      <3> QED BY <1>9, <3>1
    <2>4. p + i + 1 = p + (i + 1)
      BY <1>b
    <2>3. (f[i] \div 128) * 128 + ((128 + (f[i] % 128)) % 128) = f[i]
      BY <2>1, Digit
    <2> QED BY <1>10, <2>1, <2>2, <2>3, <2>4
  <1>11. g[p + 8] = f[8]
    <2>1. g[p + 8] = g[p + 8 + 1] * 128 + ((128 + (f[8] % 128)) % 128) /\ p + 8 + 1 = p + 9
      BY <1>b, <1>9
    <2>2. g[p + 8] = (-1) * 128 + ((128 + (f[8] % 128)) % 128)
      BY <1>8, <2>1
    <2>3. \A x \in (-128)..(-1) : (-1) * 128 + ((128 + (x % 128)) % 128) = x
      OBVIOUS
    <2> QED BY <1>a, <2>2, <2>3
  <1>14. /\ 7 + 1 = 8 /\ 6 + 1 = 7 /\ 5 + 1 = 6 /\ 4 + 1 = 5 /\ 3 + 1 = 4 /\ 2 + 1 = 3 /\ 1 + 1 = 2
         /\ 0 + 1 = 1 /\ p + 0 = p
    BY <1>b
  <1>24. /\ 0 \in 0..7 /\ 1 \in 0..7 /\ 2 \in 0..7 /\ 3 \in 0..7 /\ 4 \in 0..7 /\ 5 \in 0..7
         /\ 6 \in 0..7 /\ 7 \in 0..7
    OBVIOUS
  <1>25. g[p + 7] = f[7]
    BY <1>10, <1>11, <1>14, <1>24
  <1>15. g[p + 6] = f[6]
    BY <1>10, <1>14, <1>24, <1>25
  <1>16. g[p + 5] = f[5]
    BY <1>10, <1>14, <1>15, <1>24
  <1>17. g[p + 4] = f[4]
    BY <1>10, <1>14, <1>16, <1>24
  <1>18. g[p + 3] = f[3]
    BY <1>10, <1>14, <1>17, <1>24
  <1>19. g[p + 2] = f[2]
    BY <1>10, <1>14, <1>18, <1>24
  <1>20. g[p + 1] = f[1]
    BY <1>10, <1>14, <1>19, <1>24
  <1>26. g[p + 0] = f[0]
    BY <1>10, <1>14, <1>20, <1>24
  <1>21. g[p] = v
    BY <1>14, <1>26, <1>d
  <1>22. W!VarintAt(b, p, TRUE) = [val |-> g[p], next |-> last + 1]
    BY <1>6 DEF W!VarintAt, g
  <1>23. last + 1 = p + Len(s)
    BY <1>3, <1>b
  <1> QED BY <1>21, <1>22, <1>23 DEF s

(* and so is every int64: times before 1970 come out as they went in. *)
LEMMA Int64Read ==
  ASSUME NEW b \in Seq(Bytes), NEW p, NEW v \in Int64, At(b, p, W!PutInt64(v))
  PROVE  W!VarintAt(b, p, TRUE) = [val |-> v, next |-> p + Len(W!PutInt64(v))]
  <1>0. v \in Int /\ v < Power9
    BY PowersNat DEF Int64
  <1>1. CASE v < 0
    <2>1. W!PutInt64(v) = W!PutNegative(v)
      BY <1>1 DEF W!PutInt64
    <2> QED BY <1>1, <2>1, NegativeRead
  <1>2. CASE ~(v < 0)
    <2>1. W!PutInt64(v) = W!PutUvarint[v] /\ v \in Nat
      BY <1>0, <1>2 DEF W!PutInt64
    <2>2. Len(W!PutUvarint[v]) <= 9
      BY <1>0, <2>1, NineBytes DEF Short
    <2>3. Chained(W!PutUvarint[v])
      BY <2>1, PutChained
    <2>5. Len(W!PutUvarint[v]) \in Nat
      BY <2>3 DEF Chained
    <2>4. Len(W!PutUvarint[v]) # 10
      <3>1. \A x \in Nat : x <= 9 => x # 10
        OBVIOUS
      <3> QED BY <2>2, <2>5, <3>1
    <2> QED BY <2>1, <2>4, UvarintRead
  <1> QED BY <1>1, <1>2

(* What is written for an int64 is a varint. *)
LEMMA Int64Chained ==
  ASSUME NEW v \in Int64
  PROVE  Chained(W!PutInt64(v))
  <1>0. v \in Int
    BY PowersNat DEF Int64
  <1>1. CASE v < 0
    <2>1. W!PutInt64(v) = W!PutNegative(v)
      BY <1>1 DEF W!PutInt64
    <2>2. PICK f : Spells(f, v)
      BY ShiftedBytes
    <2> QED BY <1>1, <2>1, <2>2, NegativeBytes
  <1>2. CASE ~(v < 0)
    BY <1>0, <1>2, PutChained DEF W!PutInt64
  <1> QED BY <1>1, <1>2

(* A tag of this format is one byte. *)
LEMMA TagBytes ==
  ASSUME NEW num \in 1..2, NEW wire \in 0..2
  PROVE  /\ W!Tag(num, wire) = W!PutUvarint[num * 8 + wire] /\ num * 8 + wire \in Nat
         /\ Len(W!Tag(num, wire)) = 1 /\ W!Tag(num, wire) \in Seq(Bytes)
  <1> DEFINE k == num * 8 + wire
  <1>1. k \in Nat /\ k < 128 /\ k \in Bytes
    BY DEF Bytes
  <1>2. W!Tag(num, wire) = W!PutUvarint[k]
    BY DEF W!Tag
  <1> HIDE DEF k
  <1>3. W!PutUvarint[k] = <<k>>
    BY <1>1, PutUnfolds
  <1>4. <<k>> \in Seq(Bytes) /\ Len(<<k>>) = 1
    BY <1>1
  <1> QED BY <1>1, <1>2, <1>3, <1>4 DEF k

(* A tag with the value k at p, and what a receiver makes of it *)
Tagged(b, p, num, wire, k) == At(b, p, W!Tag(num, wire)) /\ k = num * 8 + wire
TagIs(b, p, k) == W!VarintAt(b, p, FALSE) = [val |-> k, next |-> p + 1]

(* The receiver reads the tag that was written. *)
LEMMA TagRead ==
  ASSUME NEW b \in Seq(Bytes), NEW p, NEW num \in 1..2, NEW wire \in 0..2, NEW k,
         Tagged(b, p, num, wire, k)
  PROVE  TagIs(b, p, k)
  <1>1. k \in Nat /\ Len(W!PutUvarint[k]) = 1 /\ At(b, p, W!PutUvarint[k])
    BY TagBytes DEF Tagged
  <1>2. FALSE \in BOOLEAN /\ ~FALSE
    OBVIOUS
  <1>3. W!VarintAt(b, p, FALSE) = [val |-> k, next |-> p + Len(W!PutUvarint[k])]
    BY <1>1, <1>2, UvarintRead
  <1> QED BY <1>1, <1>3 DEF TagIs

(* The size of a length-delimited field *)
LEMMA DelimitedBytes ==
  ASSUME NEW num \in 1..2, NEW s \in Seq(Bytes)
  PROVE  /\ W!PutUvarint[Len(s)] \in Seq(Bytes) /\ W!appendString(s) \in Seq(Bytes)
         /\ W!Delimited(num, s) \in Seq(Bytes)
         /\ Len(W!PutUvarint[Len(s)]) \in Nat
         /\ Len(W!Delimited(num, s)) = 1 + Len(W!PutUvarint[Len(s)]) + Len(s)
         /\ Len(W!Delimited(num, s)) \in Nat /\ Len(W!Delimited(num, s)) >= 1
  <1> DEFINE l == W!PutUvarint[Len(s)]
             t == W!Tag(num, 2)
  <1>1. t \in Seq(Bytes) /\ Len(t) = 1
    BY TagBytes
  <1>2. Len(s) \in Nat
    OBVIOUS
  <1>3. Chained(l)
    BY <1>2, PutChained
  <1>4. l \in Seq(Bytes) /\ Len(l) \in Nat
    BY <1>3 DEF Chained
  <1>5. W!appendString(s) = l \o s /\ W!Delimited(num, s) = t \o (l \o s)
    BY DEF W!appendString, W!Delimited
  <1> HIDE DEF l, t
  <1>6. l \o s \in Seq(Bytes) /\ Len(l \o s) = Len(l) + Len(s)
    BY <1>4, ConcatProperties
  <1>7. t \o (l \o s) \in Seq(Bytes) /\ Len(t \o (l \o s)) = Len(t) + Len(l \o s)
    BY <1>1, <1>6, ConcatProperties
  <1>8. Len(t \o (l \o s)) = 1 + Len(l) + Len(s)
    BY <1>1, <1>2, <1>4, <1>6, <1>7
  <1>9. Len(t \o (l \o s)) \in Nat /\ Len(t \o (l \o s)) >= 1
    BY <1>2, <1>4, <1>8
  <1> QED BY <1>4, <1>5, <1>6, <1>7, <1>8, <1>9 DEF l

(* What a receiver makes of the field at p *)
FieldRead(b, p, num, val, next) == W!FieldAt(b, p) = [num |-> num, val |-> val, next |-> next]

(* A length-delimited field that was put into a message is read from it: the
   string, however long, and where the next field begins. *)
LEMMA DelimitedRead ==
  ASSUME NEW b \in Seq(Bytes), NEW p, NEW num \in 1..2, NEW s \in Seq(Bytes), At(b, p, W!Delimited(num, s))
  PROVE  FieldRead(b, p, num, s, p + Len(W!Delimited(num, s)))
  <1> DEFINE l == W!PutUvarint[Len(s)]
             t == W!Tag(num, 2)
             k == num * 8 + 2
  <1>1. /\ l \in Seq(Bytes) /\ W!appendString(s) \in Seq(Bytes) /\ Len(l) \in Nat
        /\ Len(W!Delimited(num, s)) = 1 + Len(l) + Len(s)
    BY DelimitedBytes
  <1>2. t \in Seq(Bytes) /\ Len(t) = 1
    BY TagBytes
  <1>3. W!appendString(s) = l \o s /\ W!Delimited(num, s) = t \o W!appendString(s)
    BY DEF W!appendString, W!Delimited
  <1>4. p \in Nat /\ Len(s) \in Nat
    BY DEF At
  <1> HIDE DEF t, l
  <1>5. At(b, p, t) /\ At(b, p + Len(t), W!appendString(s))
    BY <1>1, <1>2, <1>3, AtParts
  <1>6. At(b, p + 1, l \o s)
    BY <1>2, <1>3, <1>5
  <1>7. At(b, p + 1, l) /\ At(b, p + 1 + Len(l), s)
    BY <1>1, <1>6, AtParts
  <1>8. W!VarintAt(b, p, FALSE) = [val |-> k, next |-> p + 1]
    <2>1. Tagged(b, p, num, 2, k) /\ 2 \in 0..2
      BY <1>5 DEF t, Tagged
    <2> HIDE DEF k
    <2>2. TagIs(b, p, k)
      BY <2>1, TagRead
    <2> QED BY <2>2 DEF TagIs
  <1> DEFINE q == p + 1 + Len(l)
  <1>9. W!VarintAt(b, p + 1, FALSE) = [val |-> Len(s), next |-> q]
    <2>1. FALSE \in BOOLEAN /\ ~FALSE
      OBVIOUS
    <2>2. At(b, p + 1, W!PutUvarint[Len(s)])
      BY <1>7 DEF l
    <2>3. W!VarintAt(b, p + 1, FALSE) = [val |-> Len(s), next |-> p + 1 + Len(W!PutUvarint[Len(s)])]
      BY <1>4, <2>1, <2>2, UvarintRead
    <2> QED BY <2>3 DEF l
  <1>10. SubSeq(b, q, q + Len(s) - 1) = s
    BY <1>7, AtSubSeq
  <1>11. k % 8 = 2 /\ k \div 8 = num /\ ~(2 = 0) /\ ~(2 = 1)
    OBVIOUS
  <1>12. p + Len(W!Delimited(num, s)) = q + Len(s)
    BY <1>1, <1>4
  <1> HIDE DEF k, q
  <1>13. [val |-> k, next |-> p + 1].val = k /\ [val |-> k, next |-> p + 1].next = p + 1
    OBVIOUS
  <1>14. [val |-> Len(s), next |-> q].val = Len(s) /\ [val |-> Len(s), next |-> q].next = q
    OBVIOUS
  <1>15. W!FieldAt(b, p) = [num |-> num, val |-> s, next |-> q + Len(s)]
    BY <1>8, <1>9, <1>10, <1>11, <1>13, <1>14 DEF W!FieldAt
  <1> QED BY <1>12, <1>15 DEF FieldRead

(* The same for a sample's value *)
LEMMA DoubleRead ==
  ASSUME NEW b \in Seq(Bytes), NEW p, NEW s \in Seq(Bytes), Len(s) = 8, At(b, p, W!Tag(1, 1)), At(b, p + 1, s)
  PROVE  FieldRead(b, p, 1, s, p + 9)
  <1>1. p \in Nat
    BY DEF At
  <1>2. W!VarintAt(b, p, FALSE) = [val |-> 9, next |-> p + 1]
    <2>1. Tagged(b, p, 1, 1, 9) /\ 1 \in 1..2 /\ 1 \in 0..2
      BY DEF Tagged
    <2>2. TagIs(b, p, 9)
      BY <2>1, TagRead
    <2> QED BY <2>2 DEF TagIs
  <1>3. SubSeq(b, p + 1, p + 1 + Len(s) - 1) = s
    BY AtSubSeq
  <1>4. p + 1 + Len(s) - 1 = p + 1 + 7 /\ p + 1 + 8 = p + 9 /\ 9 % 8 = 1 /\ 9 \div 8 = 1 /\ ~(1 = 0)
    BY <1>1
  <1>5. [val |-> 9, next |-> p + 1].val = 9 /\ [val |-> 9, next |-> p + 1].next = p + 1
    OBVIOUS
  <1>6. W!VarintAt(b, p, FALSE) = [val |-> 9, next |-> p + 1] /\ SubSeq(b, p + 1, p + 1 + 7) = s
    BY <1>2, <1>3, <1>4
  <1>7. W!FieldAt(b, p) = [num |-> 1, val |-> s, next |-> p + 1 + 8]
    BY <1>4, <1>5, <1>6 DEF W!FieldAt
  <1> QED BY <1>4, <1>7 DEF FieldRead

(* and its time. *)
LEMMA Int64FieldRead ==
  ASSUME NEW b \in Seq(Bytes), NEW p, NEW v \in Int64, At(b, p, W!Tag(2, 0)), At(b, p + 1, W!PutInt64(v))
  PROVE  FieldRead(b, p, 2, v, p + 1 + Len(W!PutInt64(v)))
  <1> DEFINE q == p + 1 + Len(W!PutInt64(v))
  <1>1. W!VarintAt(b, p, FALSE) = [val |-> 16, next |-> p + 1]
    <2>1. Tagged(b, p, 2, 0, 16) /\ 2 \in 1..2 /\ 0 \in 0..2
      BY DEF Tagged
    <2>2. TagIs(b, p, 16)
      BY <2>1, TagRead
    <2> QED BY <2>2 DEF TagIs
  <1>2. 16 % 8 = 0 /\ 16 \div 8 = 2 /\ ~(0 = 1)
    OBVIOUS
  <1>3. W!VarintAt(b, p + 1, TRUE) = [val |-> v, next |-> q]
    BY Int64Read
  <1> HIDE DEF q
  <1>5. [val |-> 16, next |-> p + 1].val = 16 /\ [val |-> 16, next |-> p + 1].next = p + 1
    OBVIOUS
  <1>6. [val |-> v, next |-> q].val = v /\ [val |-> v, next |-> q].next = q
    OBVIOUS
  <1>7. W!FieldAt(b, p) = [num |-> 2, val |-> v, next |-> q]
    BY <1>1, <1>2, <1>3, <1>5, <1>6 DEF W!FieldAt
  <1> QED BY <1>7 DEF FieldRead, q

(* The contents of the fields with a number, from each position on *)
IsContents(f, b, num) ==
  f = [p \in 1..(Len(b) + 1) |->
         IF p > Len(b) \/ W!FieldAt(b, p).next \notin (p + 1)..(Len(b) + 1) THEN <<>>
         ELSE (IF W!FieldAt(b, p).num = num THEN <<W!FieldAt(b, p).val>> ELSE <<>>) \o f[W!FieldAt(b, p).next]]

(* There is such a function, for every message. *)
LEMMA ContentsExist ==
  ASSUME NEW b \in Seq(Bytes), NEW num
  PROVE  \E f : IsContents(f, b, num)
  <1> DEFINE n == Len(b)
             Nx(p) == W!FieldAt(b, p).next
             Stop(p) == p > n \/ Nx(p) \notin (p + 1)..(n + 1)
             Piece(p) == IF W!FieldAt(b, p).num = num THEN <<W!FieldAt(b, p).val>> ELSE <<>>
             Eq(f, k) == f = [p \in (n + 1 - k)..(n + 1) |-> IF Stop(p) THEN <<>> ELSE Piece(p) \o f[Nx(p)]]
             Unmet == {k \in Nat : ~\E f : Eq(f, k)}
  <1>1. n \in Nat
    OBVIOUS
  <1>2. Stop(n + 1) /\ \A p \in Int : ~Stop(p) => p <= n /\ Nx(p) \in (p + 1)..(n + 1)
    BY <1>1
  <1>3. ASSUME NEW f, Eq(f, n) PROVE IsContents(f, b, num)
    <2>1. n + 1 - n = 1
      BY <1>1
    <2>2. f = [p \in 1..(n + 1) |-> IF Stop(p) THEN <<>> ELSE Piece(p) \o f[Nx(p)]]
      BY <1>3, <2>1
    <2> QED BY <2>2 DEF IsContents
  <1> HIDE DEF n, Nx, Stop, Piece
  <1>4. Unmet = {}
    <2> SUFFICES ASSUME Unmet # {} PROVE FALSE
      OBVIOUS
    <2>1. PICK k \in Unmet : \A j \in Unmet : k <= j
      <3> HIDE DEF Unmet
      <3>1. Unmet \in SUBSET Nat
        BY DEF Unmet
      <3> QED BY <3>1, LeastNumber
    <2>2. k \in Nat /\ ~\E f : Eq(f, k)
      OBVIOUS
    <2>3. CASE k = 0
      <3>1. \A p \in (n + 1 - 0)..(n + 1) : Stop(p)
        <4>1. \A p \in (n + 1 - 0)..(n + 1) : p = n + 1
          BY <1>1
        <4> QED BY <1>2, <4>1
      <3>2. Eq([p \in (n + 1 - 0)..(n + 1) |-> <<>>], 0)
        BY <3>1
      <3> QED BY <2>2, <2>3, <3>2
    <2>4. CASE k # 0
      <3>1. k - 1 \in Nat /\ ~(k <= k - 1)
        BY <2>2, <2>4
      <3>2. PICK g : Eq(g, k - 1)
        <4> HIDE DEF Eq
        <4>1. k - 1 \notin Unmet
          BY <2>1, <3>1
        <4> QED BY <3>1, <4>1
      <3> DEFINE a == n + 1 - k
                 y == IF Stop(a) THEN <<>> ELSE Piece(a) \o g[Nx(a)]
                 f == [p \in a..(n + 1) |-> IF p = a THEN y ELSE g[p]]
      <3>3. a \in Int /\ a < n + 1 /\ n + 1 - (k - 1) = a + 1
        BY <1>1, <2>2, <2>4
      <3>4. \A p \in (a + 1)..(n + 1) : g[p] = IF Stop(p) THEN <<>> ELSE Piece(p) \o g[Nx(p)]
        <4>1. g = [p \in (a + 1)..(n + 1) |-> IF Stop(p) THEN <<>> ELSE Piece(p) \o g[Nx(p)]]
          BY <3>2, <3>3
        <4> HIDE DEF a
        <4> QED BY <4>1
      <3>a. Eq(f, k) <=> f = [p \in a..(n + 1) |-> IF Stop(p) THEN <<>> ELSE Piece(p) \o f[Nx(p)]]
        OBVIOUS
      <3> HIDE DEF a, Eq
      <3>5. \A p \in a..(n + 1) : f[p] = IF Stop(p) THEN <<>> ELSE Piece(p) \o f[Nx(p)]
        <4> TAKE p \in a..(n + 1)
        <4>1. f[p] = IF p = a THEN y ELSE g[p]
          OBVIOUS
        <4>2. ~Stop(p) => f[Nx(p)] = g[Nx(p)]
          <5> HAVE ~Stop(p)
          <5>1. p \in Int /\ p >= a
            BY <1>1, <3>3
          <5>2. Nx(p) \in (p + 1)..(n + 1)
            BY <1>2, <5>1
          <5>3. Nx(p) \in a..(n + 1) /\ Nx(p) # a
            BY <1>1, <3>3, <5>1, <5>2
          <5> QED BY <5>3
        <4>3. p # a => p \in (a + 1)..(n + 1)
          BY <1>1, <3>3
        <4> HIDE DEF f
        <4> QED BY <3>4, <4>1, <4>2, <4>3
      <3>6. f = [p \in a..(n + 1) |-> f[p]]
        OBVIOUS
      <3> HIDE DEF f
      <3>7. Eq(f, k)
        BY <3>5, <3>6, <3>a
      <3> QED BY <2>2, <3>7
    <2> QED BY <2>3, <2>4
  <1>5. \E f : Eq(f, n)
    BY <1>1, <1>4
  <1> QED BY <1>3, <1>5

(* It is what a receiver collects. *)
LEMMA ContentsUnfold ==
  ASSUME NEW b \in Seq(Bytes), NEW num
  PROVE  IsContents(W!ContentsFrom(b, num), b, num)
  <1>1. W!ContentsFrom(b, num) = CHOOSE f : IsContents(f, b, num)
    BY DEF W!ContentsFrom, IsContents
  <1> QED BY <1>1, ContentsExist

(* Nothing follows the last byte. *)
LEMMA ContentsEnd ==
  ASSUME NEW b \in Seq(Bytes), NEW num
  PROVE  W!ContentsFrom(b, num)[Len(b) + 1] = <<>>
  <1> DEFINE f == W!ContentsFrom(b, num)
  <1>1. IsContents(f, b, num)
    BY ContentsUnfold
  <1> HIDE DEF f
  <1>2. Len(b) + 1 \in 1..(Len(b) + 1) /\ Len(b) + 1 > Len(b)
    OBVIOUS
  <1>3. f[Len(b) + 1] = <<>>
    BY <1>1, <1>2 DEF IsContents
  <1> QED BY <1>3 DEF f

(* f at p has the field's value, if it has the number, and what f has after it. *)
Adds(f, p, num, k, val, next) == f[p] = (IF k = num THEN <<val>> ELSE <<>>) \o f[next]

(* The contents from a field on: its own, if it has the number, and those from
   the next field on. *)
LEMMA ContentsStep ==
  ASSUME NEW b \in Seq(Bytes), NEW num, NEW p \in Nat, p >= 1, NEW next \in (p + 1)..(Len(b) + 1), NEW k, NEW val,
         FieldRead(b, p, k, val, next)
  PROVE  Adds(W!ContentsFrom(b, num), p, num, k, val, next)
  <1> DEFINE f == W!ContentsFrom(b, num)
  <1>1. IsContents(f, b, num)
    BY ContentsUnfold
  <1> HIDE DEF f
  <1>2. p \in 1..(Len(b) + 1) /\ ~(p > Len(b))
    OBVIOUS
  <1>3. W!FieldAt(b, p).num = k /\ W!FieldAt(b, p).val = val /\ W!FieldAt(b, p).next = next
    BY DEF FieldRead
  <1>4. f[p] = IF p > Len(b) \/ W!FieldAt(b, p).next \notin (p + 1)..(Len(b) + 1) THEN <<>>
               ELSE (IF W!FieldAt(b, p).num = num THEN <<W!FieldAt(b, p).val>> ELSE <<>>) \o f[W!FieldAt(b, p).next]
    BY <1>1, <1>2 DEF IsContents
  <1>5. f[p] = IF p > Len(b) \/ next \notin (p + 1)..(Len(b) + 1) THEN <<>>
               ELSE (IF k = num THEN <<val>> ELSE <<>>) \o f[next]
    BY <1>3, <1>4
  <1>6. f[p] = (IF k = num THEN <<val>> ELSE <<>>) \o f[next]
    BY <1>2, <1>5
  <1> QED BY <1>6 DEF f, Adds

(* The fields from lo up to hi are all among the contents, or none of them is. *)
Keeps(c, lo, hi, vals) == \A i \in lo..(hi - 1) : c[i] = <<vals[i]>> \o c[i + 1]
Drops(c, lo, hi) == \A i \in lo..(hi - 1) : c[i] = <<>> \o c[i + 1]

(* s has m of the values, from the one after skip on. *)
Lists(s, vals, skip, m) == Len(s) = m /\ \A j \in 1..m : s[j] = vals[skip + j]

(* One more value before the others. *)
LEMMA OneMore ==
  ASSUME NEW V, NEW vals, NEW i \in Nat, i >= 1, NEW m \in Nat, NEW s \in Seq(V), Lists(s, vals, i, m), vals[i] \in V
  PROVE  <<vals[i]>> \o s \in Seq(V) /\ Lists(<<vals[i]>> \o s, vals, i - 1, m + 1)
  <1> DEFINE u == <<vals[i]>>
             t == u \o s
  <1>1. u \in Seq(V) /\ Len(u) = 1 /\ u[1] = vals[i]
    OBVIOUS
  <1> HIDE DEF u
  <1>2. /\ t \in Seq(V) /\ Len(t) = Len(u) + Len(s)
        /\ \A j \in 1..(Len(u) + Len(s)) : t[j] = IF j <= Len(u) THEN u[j] ELSE s[j - Len(u)]
    BY <1>1, ConcatProperties
  <1>3. Len(s) = m /\ \A j \in 1..m : s[j] = vals[i + j]
    BY DEF Lists
  <1> HIDE DEF t
  <1>4. Len(t) = m + 1
    BY <1>1, <1>2, <1>3
  <1>5. \A j \in 1..(m + 1) : t[j] = vals[i - 1 + j]
    <2> TAKE j \in 1..(m + 1)
    <2>0. t[j] = IF j <= 1 THEN u[j] ELSE s[j - 1]
      <3>1. j \in 1..(Len(u) + Len(s))
        BY <1>1, <1>3
      <3> QED BY <1>1, <1>2, <3>1
    <2>1. CASE j = 1
      <3>1. i - 1 + 1 = i /\ j <= 1
        BY <2>1
      <3> QED BY <1>1, <2>0, <2>1, <3>1
    <2>2. CASE j # 1
      <3>1. ~(j <= 1) /\ j - 1 \in 1..m /\ i + (j - 1) = i - 1 + j
        BY <2>2
      <3>2. t[j] = s[j - 1] /\ s[j - 1] = vals[i + (j - 1)]
        BY <1>3, <2>0, <3>1
      <3> QED BY <3>1, <3>2
    <2> QED BY <2>1, <2>2
  <1>6. t \in Seq(V) /\ Lists(t, vals, i - 1, m + 1)
    BY <1>2, <1>4, <1>5 DEF Lists
  <1> QED BY <1>6 DEF t, u

(* The values from lo up to hi are in V. *)
Within(vals, lo, hi, V) == \A i \in lo..(hi - 1) : vals[i] \in V

(* The contents from lo on, if all the fields up to hi are among them and none
   after *)
LEMMA Kept ==
  ASSUME NEW V, NEW c, NEW vals, NEW lo \in Nat, lo >= 1, NEW hi \in Nat, lo <= hi,
         Within(vals, lo, hi, V), Keeps(c, lo, hi, vals), c[hi] = <<>>,
         NEW skip, skip = lo - 1, NEW m, m = hi - lo
  PROVE  c[lo] \in Seq(V) /\ Lists(c[lo], vals, skip, m)
  <1> DEFINE P0(d) == c[hi - d] \in Seq(V) /\ Lists(c[hi - d], vals, hi - d - 1, d)
             Bad == {d \in 0..(hi - lo) : ~P0(d)}
  <1>1. Bad = {}
    <2> SUFFICES ASSUME Bad # {} PROVE FALSE
      OBVIOUS
    <2>1. PICK d \in Bad : \A j \in Bad : d <= j
      <3> HIDE DEF Bad
      <3>1. Bad \in SUBSET Nat
        BY DEF Bad
      <3> QED BY <3>1, LeastNumber
    <2>2. d \in 0..(hi - lo) /\ ~P0(d) /\ d \in Nat
      OBVIOUS
    <2>3. CASE d = 0
      <3>1. hi - 0 = hi /\ c[hi] \in Seq(V) /\ Len(c[hi]) = 0
        OBVIOUS
      <3>2. Lists(c[hi], vals, hi - 0 - 1, 0)
        BY <3>1 DEF Lists
      <3> QED BY <2>2, <2>3, <3>1, <3>2
    <2>4. CASE d # 0
      <3> DEFINE i == hi - d
                 s == c[i + 1]
      <3>1. /\ i \in Nat /\ i >= 1 /\ i \in lo..(hi - 1) /\ d - 1 \in 0..(hi - lo)
            /\ hi - (d - 1) = i + 1 /\ i + 1 - 1 = i /\ d - 1 + 1 = d /\ ~(d <= d - 1)
            /\ d - 1 \in Nat
        BY <2>2, <2>4
      <3>2. P0(d - 1)
        <4> HIDE DEF P0
        <4>1. d - 1 \notin Bad
          BY <2>1, <3>1
        <4> QED BY <3>1, <4>1
      <3>3. s \in Seq(V) /\ Lists(s, vals, i, d - 1)
        BY <3>1, <3>2
      <3>4. c[i] = <<vals[i]>> \o s /\ vals[i] \in V
        BY <3>1 DEF Keeps, Within
      <3> HIDE DEF i, s
      <3>5. <<vals[i]>> \o s \in Seq(V) /\ Lists(<<vals[i]>> \o s, vals, i - 1, d - 1 + 1)
        BY <3>1, <3>3, <3>4, OneMore
      <3>6. c[i] \in Seq(V) /\ Lists(c[i], vals, i - 1, d)
        BY <3>1, <3>4, <3>5
      <3>7. P0(d)
        BY <3>6 DEF i
      <3> QED BY <2>2, <3>7
    <2> QED BY <2>3, <2>4
  <1>2. hi - lo \in 0..(hi - lo) /\ hi - (hi - lo) = lo
    OBVIOUS
  <1>3. P0(hi - lo)
    BY <1>1, <1>2
  <1> QED BY <1>2, <1>3

(* and if none of the fields up to hi is. *)
LEMMA Dropped ==
  ASSUME NEW V, NEW c, NEW lo \in Nat, NEW hi \in Nat, lo <= hi, Drops(c, lo, hi), c[hi] \in Seq(V)
  PROVE  c[lo] = c[hi]
  <1> DEFINE Bad == {d \in 0..(hi - lo) : c[hi - d] # c[hi]}
  <1>1. Bad = {}
    <2> SUFFICES ASSUME Bad # {} PROVE FALSE
      OBVIOUS
    <2>1. PICK d \in Bad : \A j \in Bad : d <= j
      <3> HIDE DEF Bad
      <3>1. Bad \in SUBSET Nat
        BY DEF Bad
      <3> QED BY <3>1, LeastNumber
    <2>2. d \in 0..(hi - lo) /\ c[hi - d] # c[hi] /\ d \in Nat
      OBVIOUS
    <2>3. d # 0
      <3>1. hi - 0 = hi
        OBVIOUS
      <3> QED BY <2>2, <3>1
    <2> DEFINE i == hi - d
    <2>4. i \in lo..(hi - 1) /\ d - 1 \in 0..(hi - lo) /\ hi - (d - 1) = i + 1 /\ ~(d <= d - 1) /\ d - 1 \in Nat
      BY <2>2, <2>3
    <2>5. d - 1 \notin Bad
      <3> HIDE DEF Bad
      <3> QED BY <2>1, <2>4
    <2>6. c[i + 1] = c[hi]
      BY <2>4, <2>5
    <2>7. c[i] = <<>> \o c[i + 1]
      BY <2>4 DEF Drops
    <2>8. <<>> \o c[hi] = c[hi]
      BY ConcatEmptySeq
    <2> QED BY <2>2, <2>6, <2>7, <2>8
  <1>2. hi - lo \in 0..(hi - lo) /\ hi - (hi - lo) = lo
    OBVIOUS
  <1>3. c[hi - (hi - lo)] = c[hi]
    BY <1>1, <1>2
  <1> QED BY <1>2, <1>3

(* b is m fields with the number 1 and then others with the number 2, n in all;
   at has where each begins. *)
Laid(b, at, m, n, vals) ==
  /\ at[1] = 1 /\ at[n + 1] = Len(b) + 1
  /\ \A i \in 1..n : at[i] \in Nat /\ at[i] >= 1 /\ at[i + 1] \in (at[i] + 1)..(Len(b) + 1)
  /\ \A i \in 1..n : FieldRead(b, at[i], IF i <= m THEN 1 ELSE 2, vals[i], at[i + 1])

(* The receiver gets the values of the fields with the number 1 and those of
   the fields with the number 2, all of them and in their order. *)
LEMMA FieldsRead ==
  ASSUME NEW b \in Seq(Bytes), NEW at, NEW n \in Nat, NEW m \in 0..n, NEW vals, Laid(b, at, m, n, vals)
  PROVE  Lists(W!Contents(b, 1), vals, 0, m) /\ Lists(W!Contents(b, 2), vals, m, n - m)
  <1> DEFINE V == {vals[i] : i \in 1..n}
             c(k) == [i \in 1..(n + 1) |-> W!ContentsFrom(b, k)[at[i]]]
  <1>1. ASSUME NEW k PROVE c(k)[n + 1] = <<>> /\ W!Contents(b, k) = c(k)[1]
    <2>1. 1 \in 1..(n + 1) /\ n + 1 \in 1..(n + 1)
      OBVIOUS
    <2>2. at[1] = 1 /\ at[n + 1] = Len(b) + 1
      BY DEF Laid
    <2> QED BY <2>1, <2>2, ContentsEnd DEF W!Contents
  <1>2. ASSUME NEW k, NEW i \in 1..n
        PROVE  c(k)[i] = (IF (IF i <= m THEN 1 ELSE 2) = k THEN <<vals[i]>> ELSE <<>>) \o c(k)[i + 1]
    <2> DEFINE p == at[i]
               q == at[i + 1]
               j == IF i <= m THEN 1 ELSE 2
    <2>1. p \in Nat /\ p >= 1 /\ q \in (p + 1)..(Len(b) + 1)
      BY DEF Laid
    <2>2. FieldRead(b, p, j, vals[i], q)
      BY DEF Laid
    <2>3. c(k)[i] = W!ContentsFrom(b, k)[p] /\ c(k)[i + 1] = W!ContentsFrom(b, k)[q]
      OBVIOUS
    <2> HIDE DEF c, p, q, j
    <2>4. Adds(W!ContentsFrom(b, k), p, k, j, vals[i], q)
      BY <2>1, <2>2, ContentsStep
    <2>5. W!ContentsFrom(b, k)[p] = (IF j = k THEN <<vals[i]>> ELSE <<>>) \o W!ContentsFrom(b, k)[q]
      BY <2>4 DEF Adds
    <2> QED BY <2>3, <2>5 DEF j
  <1> HIDE DEF c
  <1> DEFINE one == c(1)
             two == c(2)
  <1>3. /\ one[n + 1] = <<>> /\ W!Contents(b, 1) = one[1]
        /\ two[n + 1] = <<>> /\ W!Contents(b, 2) = two[1]
    BY <1>1
  <1>4. Keeps(one, 1, m + 1, vals)
    <2> SUFFICES ASSUME NEW i \in 1..(m + 1 - 1) PROVE one[i] = <<vals[i]>> \o one[i + 1]
      BY DEF Keeps
    <2>1. i \in 1..n /\ i <= m
      OBVIOUS
    <2>2. one[i] = (IF (IF i <= m THEN 1 ELSE 2) = 1 THEN <<vals[i]>> ELSE <<>>) \o one[i + 1]
      BY <1>2, <2>1
    <2> QED BY <2>1, <2>2
  <1>5. Drops(one, m + 1, n + 1)
    <2> SUFFICES ASSUME NEW i \in (m + 1)..(n + 1 - 1) PROVE one[i] = <<>> \o one[i + 1]
      BY DEF Drops
    <2>1. i \in 1..n /\ ~(i <= m) /\ ~(2 = 1)
      OBVIOUS
    <2>2. one[i] = (IF (IF i <= m THEN 1 ELSE 2) = 1 THEN <<vals[i]>> ELSE <<>>) \o one[i + 1]
      BY <1>2, <2>1
    <2> QED BY <2>1, <2>2
  <1>6. Drops(two, 1, m + 1)
    <2> SUFFICES ASSUME NEW i \in 1..(m + 1 - 1) PROVE two[i] = <<>> \o two[i + 1]
      BY DEF Drops
    <2>1. i \in 1..n /\ i <= m /\ ~(1 = 2)
      OBVIOUS
    <2>2. two[i] = (IF (IF i <= m THEN 1 ELSE 2) = 2 THEN <<vals[i]>> ELSE <<>>) \o two[i + 1]
      BY <1>2, <2>1
    <2> QED BY <2>1, <2>2
  <1>7. Keeps(two, m + 1, n + 1, vals)
    <2> SUFFICES ASSUME NEW i \in (m + 1)..(n + 1 - 1) PROVE two[i] = <<vals[i]>> \o two[i + 1]
      BY DEF Keeps
    <2>1. i \in 1..n /\ ~(i <= m)
      OBVIOUS
    <2>2. two[i] = (IF (IF i <= m THEN 1 ELSE 2) = 2 THEN <<vals[i]>> ELSE <<>>) \o two[i + 1]
      BY <1>2, <2>1
    <2> QED BY <2>1, <2>2
  <1> HIDE DEF one, two
  <1>8. /\ m + 1 \in Nat /\ n + 1 \in Nat /\ 1 <= m + 1 /\ m + 1 <= n + 1 /\ m + 1 >= 1
        /\ m + 1 - 1 = m /\ n + 1 - (m + 1) = n - m /\ 1 - 1 = 0
    OBVIOUS
  <1>9. Within(vals, 1, m + 1, V) /\ Within(vals, m + 1, n + 1, V)
    <2>1. (\A i \in 1..(m + 1 - 1) : i \in 1..n) /\ (\A i \in (m + 1)..(n + 1 - 1) : i \in 1..n)
      OBVIOUS
    <2> QED BY <2>1 DEF Within
  <1> HIDE DEF V
  <1> DEFINE mid == m + 1
             end == n + 1
  <1>a. /\ mid \in Nat /\ end \in Nat /\ 1 \in Nat /\ 1 <= mid /\ mid <= end /\ mid >= 1 /\ 1 >= 1
        /\ m = mid - 1 /\ n - m = end - mid /\ 0 = 1 - 1
    BY <1>8
  <1>b. /\ one[end] = <<>> /\ two[end] = <<>> /\ Keeps(one, 1, mid, vals) /\ Drops(one, mid, end)
        /\ Drops(two, 1, mid) /\ Keeps(two, mid, end, vals) /\ Within(vals, 1, mid, V) /\ Within(vals, mid, end, V)
    BY <1>3, <1>4, <1>5, <1>6, <1>7, <1>9
  <1> HIDE DEF mid, end
  <1>10. one[mid] = <<>>
    <2>1. one[end] \in Seq(V)
      BY <1>b
    <2>2. one[mid] = one[end]
      BY <1>a, <1>b, <2>1, Dropped
    <2> QED BY <1>b, <2>2
  <1>11. Lists(one[1], vals, 0, m)
    BY <1>a, <1>b, <1>10, Kept
  <1>12. two[mid] \in Seq(V) /\ Lists(two[mid], vals, m, n - m)
    BY <1>a, <1>b, Kept
  <1>13. two[1] = two[mid]
    <2>1. 1 \in Nat /\ mid \in Nat /\ 1 <= mid
      BY <1>a
    <2>2. Drops(two, 1, mid) /\ two[mid] \in Seq(V)
      BY <1>b, <1>12
    <2> QED BY <2>1, <2>2, Dropped
  <1> QED BY <1>3, <1>11, <1>12, <1>13

(* What a request is made of: strings are bytes, a double is eight of them. *)
Text == Seq(Bytes)
Double == {s \in Text : Len(s) = 8}
Label == [name : Text, value : Text]
Sample == [value : Double, ts : Int64]
Series == [labels : Seq(Label), samples : Seq(Sample)]

(* The same for a message of one field each. *)
LEMMA TwoFields ==
  ASSUME NEW b \in Seq(Bytes), NEW mid \in 2..Len(b), NEW x, NEW y,
         FieldRead(b, 1, 1, x, mid), FieldRead(b, mid, 2, y, Len(b) + 1)
  PROVE  W!Contents(b, 1)[1] = x /\ W!Contents(b, 2)[1] = y
  <1> DEFINE at == <<1, mid, Len(b) + 1>>
             vals == <<x, y>>
  <1>1. /\ at[1] = 1 /\ at[2] = mid /\ at[3] = Len(b) + 1 /\ vals[1] = x /\ vals[2] = y
        /\ 1 + 1 = 2 /\ 2 + 1 = 3 /\ Len(b) \in Nat
    OBVIOUS
  <1> HIDE DEF at, vals
  <1>2. \A i \in 1..2 : i = 1 \/ i = 2
    OBVIOUS
  <1>3. \A i \in 1..2 : at[i] \in Nat /\ at[i] >= 1 /\ at[i + 1] \in (at[i] + 1)..(Len(b) + 1)
    <2>1. at[1] \in Nat /\ at[1] >= 1 /\ at[2] \in (at[1] + 1)..(Len(b) + 1)
      BY <1>1
    <2>2. at[2] \in Nat /\ at[2] >= 1 /\ at[3] \in (at[2] + 1)..(Len(b) + 1)
      BY <1>1
    <2> QED BY <1>1, <1>2, <2>1, <2>2
  <1>4. \A i \in 1..2 : FieldRead(b, at[i], IF i <= 1 THEN 1 ELSE 2, vals[i], at[i + 1])
    <2> TAKE i \in 1..2
    <2>1. CASE i = 1
      <3>1. (IF i <= 1 THEN 1 ELSE 2) = 1
        BY <2>1
      <3> QED BY <1>1, <2>1, <3>1
    <2>2. CASE i = 2
      <3>1. (IF i <= 1 THEN 1 ELSE 2) = 2
        BY <2>2
      <3> QED BY <1>1, <2>2, <3>1
    <2> QED BY <1>2, <2>1, <2>2
  <1>5. Laid(b, at, 1, 2, vals)
    BY <1>1, <1>3, <1>4 DEF Laid
  <1>6. Lists(W!Contents(b, 1), vals, 0, 1) /\ Lists(W!Contents(b, 2), vals, 1, 2 - 1)
    <2>1. 2 \in Nat /\ 1 \in 0..2
      OBVIOUS
    <2> QED BY <1>5, <2>1, FieldsRead
  <1>7. W!Contents(b, 1)[1] = vals[0 + 1] /\ W!Contents(b, 2)[1] = vals[1 + 1]
    <2>1. 1 \in 1..1 /\ 1 \in 1..(2 - 1)
      OBVIOUS
    <2> QED BY <1>6, <2>1 DEF Lists
  <1> QED BY <1>1, <1>7

(* A label is read as it was written, its name or value empty or not. *)
LEMMA LabelRead ==
  ASSUME NEW l \in Label
  PROVE  W!marshalLabel(l) \in Seq(Bytes) /\ W!ReadLabel(W!marshalLabel(l)) = l
  <1> DEFINE x == W!Delimited(1, l.name)
             y == W!Delimited(2, l.value)
             b == x \o y
             mid == 1 + Len(x)
  <1>1. l.name \in Seq(Bytes) /\ l.value \in Seq(Bytes) /\ 1 \in 1..2 /\ 2 \in 1..2
    BY DEF Label, Text
  <1>2. Len(l.name) \in Nat /\ Len(l.value) \in Nat
    BY <1>1
  <1>3. x \in Seq(Bytes) /\ Len(x) \in Nat /\ Len(x) >= 1
    BY <1>1, DelimitedBytes
  <1>4. y \in Seq(Bytes) /\ Len(y) \in Nat /\ Len(y) >= 1
    BY <1>1, DelimitedBytes
  <1>5. W!marshalLabel(l) = b
    BY DEF W!marshalLabel
  <1>6. FieldRead(b, 1, 1, l.name, mid) /\ FieldRead(b, mid, 2, l.value, mid + Len(y)) /\ b \in Seq(Bytes)
    <2> DEFINE u == x
               v == y
    <2>1. u \in Seq(Bytes) /\ v \in Seq(Bytes) /\ u \o v \in Seq(Bytes)
      BY <1>3, <1>4, ConcatProperties
    <2>2. At(u \o v, 1, u \o v)
      BY <2>1, AtOnce
    <2>3. At(u \o v, 1, u) /\ At(u \o v, 1 + Len(u), v)
      <3> HIDE DEF u, v
      <3> QED BY <2>1, <2>2, AtParts
    <2>4. At(b, 1, W!Delimited(1, l.name)) /\ At(b, mid, W!Delimited(2, l.value)) /\ b \in Seq(Bytes)
      BY <2>1, <2>3
    <2> HIDE DEF b, mid
    <2>5. FieldRead(b, 1, 1, l.name, 1 + Len(W!Delimited(1, l.name)))
      BY <1>1, <2>4, DelimitedRead
    <2>6. FieldRead(b, mid, 2, l.value, mid + Len(W!Delimited(2, l.value)))
      BY <1>1, <2>4, DelimitedRead
    <2> QED BY <2>4, <2>5, <2>6 DEF mid
  <1>7. Len(b) = Len(x) + Len(y)
    BY <1>3, <1>4, ConcatProperties
  <1> HIDE DEF x, y, b
  <1>8. mid \in 2..Len(b) /\ mid + Len(y) = Len(b) + 1
    BY <1>3, <1>4, <1>7
  <1> HIDE DEF mid
  <1>9. W!Contents(b, 1)[1] = l.name /\ W!Contents(b, 2)[1] = l.value
    BY <1>6, <1>8, TwoFields
  <1>10. W!ReadLabel(b) = [name |-> l.name, value |-> l.value]
    BY <1>9 DEF W!ReadLabel
  <1>11. l = [name |-> l.name, value |-> l.value]
    BY DEF Label
  <1> QED BY <1>5, <1>6, <1>10, <1>11

(* A sample is read as it was written. *)
LEMMA SampleRead ==
  ASSUME NEW s \in Sample
  PROVE  W!marshalSample(s) \in Seq(Bytes) /\ W!ReadSample(W!marshalSample(s)) = s
  <1> DEFINE t == W!Tag(1, 1)
             x == s.value
             u == W!Tag(2, 0)
             y == W!PutInt64(s.ts)
             b == t \o x \o u \o y
  <1>1. x \in Seq(Bytes) /\ Len(x) = 8 /\ s.ts \in Int64
    BY DEF Sample, Double, Text
  <1>2. t \in Seq(Bytes) /\ Len(t) = 1
    <2>1. 1 \in 1..2 /\ 1 \in 0..2
      OBVIOUS
    <2> QED BY <2>1, TagBytes
  <1>3. u \in Seq(Bytes) /\ Len(u) = 1
    <2>1. 2 \in 1..2 /\ 0 \in 0..2
      OBVIOUS
    <2> QED BY <2>1, TagBytes
  <1>4. y \in Seq(Bytes) /\ Len(y) \in Nat /\ Len(y) >= 1
    BY <1>1, Int64Chained DEF Chained
  <1>5. W!marshalSample(s) = b
    BY DEF W!marshalSample
  <1> HIDE DEF t, x, u, y
  <1>6. t \o x \in Seq(Bytes) /\ Len(t \o x) = 9
    <2>1. t \o x \in Seq(Bytes) /\ Len(t \o x) = Len(t) + Len(x)
      BY <1>1, <1>2, ConcatProperties
    <2> QED BY <1>1, <1>2, <2>1
  <1>7. t \o x \o u \in Seq(Bytes) /\ Len(t \o x \o u) = 10
    <2> DEFINE v == t \o x
    <2>1. v \in Seq(Bytes) /\ Len(v) = 9
      BY <1>6
    <2> HIDE DEF v
    <2>2. v \o u \in Seq(Bytes) /\ Len(v \o u) = Len(v) + Len(u)
      BY <1>3, <2>1, ConcatProperties
    <2>3. v \o u \in Seq(Bytes) /\ Len(v \o u) = 10
      BY <1>3, <2>1, <2>2
    <2> QED BY <2>3 DEF v
  <1>8. b \in Seq(Bytes) /\ Len(b) = 10 + Len(y)
    BY <1>4, <1>7, ConcatProperties
  <1>9. At(b, 1, b)
    BY <1>8, AtOnce
  <1>10. At(b, 1, t \o x \o u) /\ At(b, 11, y)
    <2>1. At(b, 1, t \o x \o u) /\ At(b, 1 + Len(t \o x \o u), y)
      BY <1>4, <1>7, <1>8, <1>9, AtParts
    <2> QED BY <1>7, <2>1
  <1> HIDE DEF b
  <1>11. At(b, 1, t \o x) /\ At(b, 10, u)
    <2>1. At(b, 1, t \o x) /\ At(b, 1 + Len(t \o x), u)
      BY <1>3, <1>6, <1>8, <1>10, AtParts
    <2> QED BY <1>6, <2>1
  <1>12. At(b, 1, t) /\ At(b, 2, x)
    <2>1. At(b, 1, t) /\ At(b, 1 + Len(t), x)
      BY <1>1, <1>2, <1>8, <1>11, AtParts
    <2> QED BY <1>2, <2>1
  <1>13. FieldRead(b, 1, 1, x, 10)
    <2>1. At(b, 1, W!Tag(1, 1)) /\ At(b, 1 + 1, x)
      BY <1>12 DEF t
    <2>2. FieldRead(b, 1, 1, x, 1 + 9)
      BY <1>1, <1>8, <2>1, DoubleRead
    <2> QED BY <2>2
  <1>14. FieldRead(b, 10, 2, s.ts, Len(b) + 1)
    <2>1. At(b, 10, W!Tag(2, 0)) /\ At(b, 10 + 1, W!PutInt64(s.ts))
      BY <1>10, <1>11 DEF u, y
    <2>2. FieldRead(b, 10, 2, s.ts, 10 + 1 + Len(W!PutInt64(s.ts)))
      BY <1>1, <1>8, <2>1, Int64FieldRead
    <2>3. 10 + 1 + Len(W!PutInt64(s.ts)) = Len(b) + 1
      <3>1. 10 + 1 + Len(y) = Len(b) + 1
        BY <1>4, <1>8
      <3> QED BY <3>1 DEF y
    <2> QED BY <2>2, <2>3
  <1>15. 10 \in 2..Len(b)
    BY <1>4, <1>8
  <1>16. W!Contents(b, 1)[1] = x /\ W!Contents(b, 2)[1] = s.ts
    BY <1>8, <1>13, <1>14, <1>15, TwoFields
  <1>17. W!ReadSample(b) = [value |-> s.value, ts |-> s.ts]
    BY <1>16 DEF W!ReadSample, x
  <1>18. s = [value |-> s.value, ts |-> s.ts]
    BY DEF Sample
  <1> QED BY <1>5, <1>8, <1>17, <1>18

(* after has the message after each of its n fields: m with the number 1, then
   others with the number 2, which contain vals. *)
Number(m, i) == IF i <= m THEN 1 ELSE 2
Built(after, m, n, vals) ==
  /\ after[0] = <<>>
  /\ \A i \in 1..n : vals[i] \in Seq(Bytes) /\ after[i] = after[i - 1] \o W!Delimited(Number(m, i), vals[i])

(* b is a message, and has field i at the place. *)
Placed(b, m, vals, i, place) == At(b, place, W!Delimited(Number(m, i), vals[i]))

(* A field has the number 1 or 2. *)
LEMMA NumberFacts ==
  ASSUME NEW m, NEW i
  PROVE  Number(m, i) \in 1..2
  BY DEF Number

(* A field that is appended leaves those before it at their places. *)
LEMMA BuiltStep ==
  ASSUME NEW n \in Nat, NEW m, NEW after, NEW vals, Built(after, m, n, vals), NEW k \in 1..n,
         after[k - 1] \in Seq(Bytes)
  PROVE  /\ after[k] \in Seq(Bytes)
         /\ Placed(after[k], m, vals, k, Len(after[k - 1]) + 1)
         /\ \A i, place : Placed(after[k - 1], m, vals, i, place) /\ vals[i] \in Seq(Bytes) =>
              Placed(after[k], m, vals, i, place)
  <1> DEFINE d == W!Delimited(Number(m, k), vals[k])
             b == after[k - 1]
  <1>1. vals[k] \in Seq(Bytes) /\ after[k] = b \o d
    BY DEF Built
  <1>2. d \in Seq(Bytes)
    BY <1>1, NumberFacts, DelimitedBytes
  <1>3. At(b \o d, Len(b) + 1, d)
    BY <1>2, AtEnd
  <1>4. ASSUME NEW i, NEW place, Placed(b, m, vals, i, place), vals[i] \in Seq(Bytes)
        PROVE  Placed(b \o d, m, vals, i, place)
    <2> DEFINE e == W!Delimited(Number(m, i), vals[i])
    <2>1. e \in Seq(Bytes) /\ At(b, place, e)
      BY <1>4, NumberFacts, DelimitedBytes DEF Placed
    <2> HIDE DEF d, b, e
    <2>2. b \in Seq(Bytes)
      BY DEF b
    <2>3. At(b \o d, place, e)
      BY <1>2, <2>1, <2>2, AtStays
    <2> QED BY <2>3 DEF Placed, e
  <1>5. b \o d \in Seq(Bytes)
    <2> HIDE DEF d
    <2> QED BY <1>2, ConcatProperties
  <1> QED BY <1>1, <1>3, <1>4, <1>5 DEF Placed

(* Every field is at its place in the message. *)
LEMMA BuiltPlaces ==
  ASSUME NEW n \in Nat, NEW m, NEW after, NEW vals, Built(after, m, n, vals)
  PROVE  \A k \in 0..n : /\ after[k] \in Seq(Bytes)
                         /\ \A i \in 1..k : Placed(after[k], m, vals, i, Len(after[i - 1]) + 1)
  <1> DEFINE P0(k) == /\ after[k] \in Seq(Bytes)
                      /\ \A i \in 1..k : Placed(after[k], m, vals, i, Len(after[i - 1]) + 1)
             Bad == {k \in 0..n : ~P0(k)}
  <1> SUFFICES ASSUME Bad # {} PROVE FALSE
    OBVIOUS
  <1>1. PICK k \in Bad : \A j \in Bad : k <= j
    <2> HIDE DEF Bad
    <2>1. Bad \in SUBSET Nat
      BY DEF Bad
    <2> QED BY <2>1, LeastNumber
  <1>2. k \in 0..n /\ ~P0(k) /\ k \in Nat
    OBVIOUS
  <1>3. CASE k = 0
    <2>1. after[0] \in Seq(Bytes)
      BY DEF Built
    <2>2. \A i \in 1..0 : FALSE
      OBVIOUS
    <2> QED BY <1>2, <1>3, <2>1, <2>2
  <1>4. CASE k # 0
    <2>1. k \in 1..n /\ k - 1 \in 0..n /\ ~(k <= k - 1) /\ k - 1 \in Nat
      BY <1>2, <1>4
    <2>2. P0(k - 1)
      <3> HIDE DEF P0
      <3>1. k - 1 \notin Bad
        BY <1>1, <2>1
      <3> QED BY <2>1, <3>1
    <2>3. after[k - 1] \in Seq(Bytes)
      BY <2>2
    <2>4. after[k] \in Seq(Bytes) /\ Placed(after[k], m, vals, k, Len(after[k - 1]) + 1)
      BY <2>1, <2>3, BuiltStep
    <2>5. \A i, place : Placed(after[k - 1], m, vals, i, place) /\ vals[i] \in Seq(Bytes) =>
            Placed(after[k], m, vals, i, place)
      BY <2>1, <2>3, BuiltStep
    <2>6. ASSUME NEW i \in 1..k PROVE Placed(after[k], m, vals, i, Len(after[i - 1]) + 1)
      <3>1. CASE i = k
        BY <2>4, <3>1
      <3>2. CASE i # k
        <4>1. i \in 1..(k - 1) /\ i \in 1..n
          BY <2>1, <3>2
        <4>2. Placed(after[k - 1], m, vals, i, Len(after[i - 1]) + 1) /\ vals[i] \in Seq(Bytes)
          BY <2>2, <4>1 DEF Built
        <4> QED BY <2>5, <4>2
      <3> QED BY <3>1, <3>2
    <2>7. P0(k)
      BY <2>4, <2>6
    <2> QED BY <1>2, <2>7
  <1> QED BY <1>3, <1>4

(* The receiver gets the contents of all the fields of such a message. *)
LEMMA BuiltRead ==
  ASSUME NEW n \in Nat, NEW m \in 0..n, NEW after, NEW vals, Built(after, m, n, vals)
  PROVE  /\ after[n] \in Seq(Bytes)
         /\ Lists(W!Contents(after[n], 1), vals, 0, m) /\ Lists(W!Contents(after[n], 2), vals, m, n - m)
  <1> DEFINE b == after[n]
             at == [i \in 1..(n + 1) |-> Len(after[i - 1]) + 1]
  <1>1. \A k \in 0..n : after[k] \in Seq(Bytes)
    BY BuiltPlaces
  <1>2. n \in 0..n /\ b \in Seq(Bytes) /\ Len(b) \in Nat
    BY <1>1
  <1>3. \A i \in 1..n : Placed(b, m, vals, i, Len(after[i - 1]) + 1)
    BY <1>2, BuiltPlaces
  <1>4. at[1] = 1 /\ at[n + 1] = Len(b) + 1
    <2>1. 1 \in 1..(n + 1) /\ n + 1 \in 1..(n + 1) /\ 1 - 1 = 0 /\ n + 1 - 1 = n
      OBVIOUS
    <2>2. after[0] = <<>>
      BY DEF Built
    <2>3. at[1] = Len(after[1 - 1]) + 1 /\ at[n + 1] = Len(after[n + 1 - 1]) + 1
      BY <2>1
    <2>4. Len(<<>>) + 1 = 1
      OBVIOUS
    <2> QED BY <2>1, <2>2, <2>3, <2>4
  <1>5. ASSUME NEW i \in 1..n
        PROVE  /\ at[i] \in Nat /\ at[i] >= 1 /\ at[i + 1] \in (at[i] + 1)..(Len(b) + 1)
               /\ FieldRead(b, at[i], Number(m, i), vals[i], at[i + 1])
    <2> DEFINE num == Number(m, i)
               d == W!Delimited(num, vals[i])
               p == at[i]
               q == at[i + 1]
    <2>1. vals[i] \in Seq(Bytes)
      BY DEF Built
    <2>2. num \in 1..2 /\ d \in Seq(Bytes) /\ Len(d) \in Nat /\ Len(d) >= 1
      BY <2>1, NumberFacts, DelimitedBytes
    <2>3. p = Len(after[i - 1]) + 1 /\ q = Len(after[i]) + 1
      <3>1. i \in 1..(n + 1) /\ i + 1 \in 1..(n + 1) /\ i + 1 - 1 = i
        OBVIOUS
      <3> QED BY <3>1
    <2>4. after[i - 1] \in Seq(Bytes)
      <3>1. i - 1 \in 0..n
        OBVIOUS
      <3> QED BY <1>1, <3>1
    <2>5. Len(after[i]) = Len(after[i - 1]) + Len(d) /\ Len(after[i - 1]) \in Nat
      <3>1. after[i] = after[i - 1] \o d
        BY DEF Built
      <3> DEFINE c == after[i - 1]
      <3>2. c \in Seq(Bytes) /\ Len(c) \in Nat
        BY <2>4
      <3> HIDE DEF c, d
      <3>3. Len(c \o d) = Len(c) + Len(d)
        BY <2>2, <3>2, ConcatProperties
      <3> QED BY <3>1, <3>2, <3>3 DEF c
    <2>6. At(b, p, d)
      BY <1>3, <2>3 DEF Placed
    <2> HIDE DEF b, p, q, num, at
    <2>7. FieldRead(b, p, num, vals[i], p + Len(d))
      <3>1. b \in Seq(Bytes)
        BY <1>2
      <3> QED BY <2>1, <2>2, <2>6, <3>1, DelimitedRead
    <2> HIDE DEF d
    <2>8. p \in Nat /\ p >= 1 /\ q = p + Len(d)
      BY <2>2, <2>3, <2>5
    <2>9. p + Len(d) <= Len(b) + 1
      BY <2>6 DEF At
    <2>10. q \in (p + 1)..(Len(b) + 1)
      BY <1>2, <2>2, <2>8, <2>9
    <2> QED BY <2>7, <2>8, <2>10 DEF p, q, num
  <1> HIDE DEF at, b
  <1>6. Laid(b, at, m, n, vals)
    BY <1>4, <1>5 DEF Laid, Number
  <1>7. Lists(W!Contents(b, 1), vals, 0, m) /\ Lists(W!Contents(b, 2), vals, m, n - m)
    BY <1>2, <1>6, FieldsRead
  <1> QED BY <1>2, <1>7 DEF b

(* f has the bytes of the series after each of its n fields. *)
IsAfter(f, ts, n) == f = [i \in 0..n |-> IF i = 0 THEN <<>> ELSE f[i - 1] \o W!SeriesField(ts, i)]

(* There is such a function, for every series. *)
LEMMA AfterExists ==
  ASSUME NEW ts, NEW n \in Nat
  PROVE  \E f : IsAfter(f, ts, n)
  <1> DEFINE Unmet == {k \in Nat : ~\E f : IsAfter(f, ts, k)}
  <1> SUFFICES ASSUME Unmet # {} PROVE FALSE
    OBVIOUS
  <1>1. PICK k \in Unmet : \A j \in Unmet : k <= j
    <2> HIDE DEF Unmet
    <2>1. Unmet \in SUBSET Nat
      BY DEF Unmet
    <2> QED BY <2>1, LeastNumber
  <1>2. k \in Nat /\ ~\E f : IsAfter(f, ts, k)
    OBVIOUS
  <1>3. CASE k = 0
    <2>1. \A i \in 0..0 : i = 0
      OBVIOUS
    <2>2. IsAfter([i \in 0..0 |-> <<>>], ts, 0)
      BY <2>1 DEF IsAfter
    <2> QED BY <1>2, <1>3, <2>2
  <1>4. CASE k # 0
    <2>1. k - 1 \in Nat /\ ~(k <= k - 1)
      BY <1>2, <1>4
    <2>2. PICK g : IsAfter(g, ts, k - 1)
      BY <1>1, <2>1
    <2> DEFINE x == g[k - 1] \o W!SeriesField(ts, k)
               f == [i \in 0..k |-> IF i = k THEN x ELSE g[i]]
    <2>3. \A i \in 0..(k - 1) : g[i] = IF i = 0 THEN <<>> ELSE g[i - 1] \o W!SeriesField(ts, i)
      BY <2>2 DEF IsAfter
    <2>4. \A i \in 0..k : f[i] = IF i = 0 THEN <<>> ELSE f[i - 1] \o W!SeriesField(ts, i)
      <3> TAKE i \in 0..k
      <3>1. f[i] = IF i = k THEN x ELSE g[i]
        OBVIOUS
      <3>2. i # 0 => f[i - 1] = g[i - 1]
        <4> HAVE i # 0
        <4>1. i - 1 \in 0..k /\ i - 1 # k
          BY <1>2
        <4> QED BY <4>1
      <3>3. i # k => i \in 0..(k - 1)
        BY <1>2
      <3> HIDE DEF f
      <3> QED BY <1>4, <2>3, <3>1, <3>2, <3>3
    <2>5. f = [i \in 0..k |-> f[i]]
      OBVIOUS
    <2> HIDE DEF f
    <2>6. IsAfter(f, ts, k)
      BY <2>4, <2>5 DEF IsAfter
    <2> QED BY <1>2, <2>6
  <1> QED BY <1>3, <1>4

(* The contents of the fields of a series *)
Fields(ts) == [i \in 1..(Len(ts.labels) + Len(ts.samples)) |->
                 IF i <= Len(ts.labels) THEN W!marshalLabel(ts.labels[i])
                 ELSE W!marshalSample(ts.samples[i - Len(ts.labels)])]

(* marshalTimeSeries writes the labels and then the samples. *)
LEMMA SeriesBuilt ==
  ASSUME NEW ts \in Series
  PROVE  Built(W!SeriesBytes(ts), Len(ts.labels), Len(ts.labels) + Len(ts.samples), Fields(ts))
  <1> DEFINE m == Len(ts.labels)
             n == m + Len(ts.samples)
             f == W!SeriesBytes(ts)
             v == Fields(ts)
  <1>1. /\ m \in Nat /\ n \in Nat /\ Len(ts.samples) \in Nat
        /\ \A i \in 1..m : ts.labels[i] \in Label
        /\ \A i \in 1..Len(ts.samples) : ts.samples[i] \in Sample
    BY DEF Series
  <1>2. f = CHOOSE g : IsAfter(g, ts, n)
    BY DEF W!SeriesBytes, IsAfter
  <1> HIDE DEF n
  <1>3. IsAfter(f, ts, n)
    BY <1>1, <1>2, AfterExists
  <1> HIDE DEF f
  <1>4. \A i \in 0..n : f[i] = IF i = 0 THEN <<>> ELSE f[i - 1] \o W!SeriesField(ts, i)
    BY <1>3 DEF IsAfter
  <1>5. f[0] = <<>>
    <2>1. 0 \in 0..n
      BY <1>1
    <2> QED BY <1>4, <2>1
  <1>6. ASSUME NEW i \in 1..n PROVE v[i] \in Seq(Bytes) /\ f[i] = f[i - 1] \o W!Delimited(Number(m, i), v[i])
    <2>1. i \in 0..n /\ i # 0
      BY <1>1
    <2>2. f[i] = f[i - 1] \o W!SeriesField(ts, i)
      BY <1>4, <2>1
    <2>3. v[i] = IF i <= m THEN W!marshalLabel(ts.labels[i]) ELSE W!marshalSample(ts.samples[i - m])
      BY DEF Fields, n
    <2>4. CASE i <= m
      <3>1. i \in 1..m /\ v[i] = W!marshalLabel(ts.labels[i]) /\ Number(m, i) = 1
        BY <1>1, <2>3, <2>4 DEF Number
      <3>2. W!SeriesField(ts, i) = W!Delimited(1, v[i])
        BY <2>4, <3>1 DEF W!SeriesField
      <3>3. v[i] \in Seq(Bytes)
        BY <1>1, <3>1, LabelRead
      <3> QED BY <2>2, <3>1, <3>2, <3>3
    <2>5. CASE ~(i <= m)
      <3>0. i - m \in 1..Len(ts.samples)
        <4> HIDE DEF m
        <4> QED BY <1>1, <2>5 DEF n
      <3>1. v[i] = W!marshalSample(ts.samples[i - m]) /\ Number(m, i) = 2
        BY <2>3, <2>5 DEF Number
      <3>2. W!SeriesField(ts, i) = W!Delimited(2, v[i])
        BY <2>5, <3>1 DEF W!SeriesField
      <3>3. v[i] \in Seq(Bytes)
        BY <1>1, <3>0, <3>1, SampleRead
      <3> QED BY <2>2, <3>1, <3>2, <3>3
    <2> QED BY <2>4, <2>5
  <1> HIDE DEF v, m
  <1>7. Built(f, m, n, v)
    BY <1>5, <1>6 DEF Built
  <1> QED BY <1>7 DEF f, m, n, v

(* A series is read as it was written, with its labels and samples in order. *)
LEMMA SeriesRead ==
  ASSUME NEW ts \in Series
  PROVE  W!marshalTimeSeries(ts) \in Seq(Bytes) /\ W!ReadSeries(W!marshalTimeSeries(ts)) = ts
  <1> DEFINE m == Len(ts.labels)
             j == Len(ts.samples)
             n == m + j
             v == Fields(ts)
             b == W!marshalTimeSeries(ts)
  <1>1. /\ m \in Nat /\ n \in Nat /\ j \in Nat /\ m \in 0..n /\ n - m = j
        /\ \A i \in 1..m : ts.labels[i] \in Label
        /\ \A i \in 1..j : ts.samples[i] \in Sample
    BY DEF Series
  <1>2. /\ ts = [labels |-> ts.labels, samples |-> ts.samples]
        /\ ts.labels = [i \in 1..m |-> ts.labels[i]] /\ ts.samples = [i \in 1..j |-> ts.samples[i]]
    BY DEF Series
  <1>3. b \in Seq(Bytes) /\ Lists(W!Contents(b, 1), v, 0, m) /\ Lists(W!Contents(b, 2), v, m, n - m)
    <2> DEFINE f == W!SeriesBytes(ts)
    <2>1. b = f[n]
      BY DEF W!marshalTimeSeries
    <2>2. Built(f, m, n, v)
      BY SeriesBuilt
    <2> HIDE DEF b, f, m, n, v
    <2> QED BY <1>1, <2>1, <2>2, BuiltRead
  <1>4. \A i \in 1..n : v[i] = IF i <= m THEN W!marshalLabel(ts.labels[i]) ELSE W!marshalSample(ts.samples[i - m])
    BY DEF Fields
  <1> DEFINE c == W!Contents(b, 1)
             d == W!Contents(b, 2)
  <1>5. Len(c) = m /\ \A i \in 1..m : c[i] = v[0 + i]
    BY <1>3 DEF Lists
  <1>6. Len(d) = j /\ \A i \in 1..j : d[i] = v[m + i]
    BY <1>1, <1>3 DEF Lists
  <1> HIDE DEF b, c, d, v, m, j, n
  <1>7. \A i \in 1..m : W!ReadLabel(c[i]) = ts.labels[i]
    <2> TAKE i \in 1..m
    <2>1. 0 + i = i /\ i \in 1..n /\ i <= m
      BY <1>1
    <2>2. c[i] = W!marshalLabel(ts.labels[i])
      BY <1>4, <1>5, <2>1
    <2> QED BY <1>1, <2>2, LabelRead
  <1>8. \A i \in 1..j : W!ReadSample(d[i]) = ts.samples[i]
    <2> TAKE i \in 1..j
    <2>2. d[i] = W!marshalSample(ts.samples[i])
      <3>1. d[i] = v[m + i]
        BY <1>6
      <3> DEFINE k == m + i
      <3>2. k \in 1..n /\ ~(k <= m) /\ k - m = i
        BY <1>1 DEF n
      <3> HIDE DEF k
      <3>3. v[k] = W!marshalSample(ts.samples[k - m])
        BY <1>4, <3>2
      <3> QED BY <3>1, <3>2, <3>3 DEF k
    <2> QED BY <1>1, <2>2, SampleRead
  <1>9. W!ReadSeries(b) = [labels |-> [i \in 1..Len(c) |-> W!ReadLabel(c[i])],
                           samples |-> [i \in 1..Len(d) |-> W!ReadSample(d[i])]]
    BY DEF W!ReadSeries, W!Repeated, c, d
  <1>10. [i \in 1..Len(c) |-> W!ReadLabel(c[i])] = ts.labels
    BY <1>2, <1>5, <1>7
  <1>11. [i \in 1..Len(d) |-> W!ReadSample(d[i])] = ts.samples
    BY <1>2, <1>6, <1>8
  <1> QED BY <1>2, <1>3, <1>9, <1>10, <1>11 DEF b

(* The messages of the series of a request *)
Marshalled(request) == [i \in 1..Len(request) |-> W!marshalTimeSeries(request[i])]

(* Marshal's state: after has the bytes after each series encoded so far. *)
Encoding ==
  /\ given \in Seq(Series) /\ todo \in 0..Len(given)
  /\ status = "encoded" => todo = Len(given)
  /\ status # "error" => \E after : Built(after, todo, todo, Marshalled(given)) /\ made = after[todo]

(* Marshal appends a series. *)
LEMMA EncodingSeries ==
  ASSUME Encoding, W!MarshalSeries
  PROVE  Encoding'
  <1> DEFINE v == Marshalled(given)
             k == todo + 1
             x == made \o W!Delimited(1, W!marshalTimeSeries(given[k]))
  <1>1. /\ given \in Seq(Series) /\ todo \in 0..Len(given) /\ todo < Len(given)
        /\ status = "running" /\ made' = x
        /\ todo' = k /\ given' = given /\ status' = status /\ Len(given) \in Nat
    BY DEF Encoding, W!MarshalSeries
  <1>2. PICK f : Built(f, todo, todo, v) /\ made = f[todo]
    BY <1>1 DEF Encoding
  <1>3. k \in 1..Len(given) /\ k \in Nat /\ k \in 0..Len(given) /\ k - 1 = todo /\ todo \in Nat
    BY <1>1
  <1>4. given[k] \in Series
    BY <1>1, <1>3
  <1>5. v[k] = W!marshalTimeSeries(given[k])
    BY <1>3 DEF Marshalled
  <1>6. v[k] \in Seq(Bytes)
    BY <1>4, <1>5, SeriesRead
  <1> DEFINE g == [i \in 0..k |-> IF i = k THEN x ELSE f[i]]
  <1>7. g[k] = x /\ g[0] = f[0] /\ \A i \in 1..k : g[i - 1] = f[i - 1]
    <2>1. k \in 0..k /\ 0 \in 0..k /\ 0 # k /\ \A i \in 1..k : i - 1 \in 0..k /\ i - 1 # k
      BY <1>3
    <2> QED BY <2>1
  <1>8. \A i \in 1..k : i # k => g[i] = f[i]
    BY <1>3
  <1>9. x = f[k - 1] \o W!Delimited(1, v[k])
    BY <1>2, <1>3, <1>5
  <1> HIDE DEF v, k, x, g
  <1>10. Built(g, k, k, v)
    <2>1. g[0] = <<>>
      BY <1>2, <1>7 DEF Built
    <2>2. ASSUME NEW i \in 1..k PROVE v[i] \in Seq(Bytes) /\ g[i] = g[i - 1] \o W!Delimited(Number(k, i), v[i])
      <3>1. Number(k, i) = 1
        BY <1>3 DEF Number
      <3>2. CASE i = k
        BY <1>6, <1>7, <1>9, <3>1, <3>2
      <3>3. CASE i # k
        <4>1. i \in 1..todo
          BY <1>3, <3>3
        <4>2. Number(todo, i) = 1
          BY <1>3, <4>1 DEF Number
        <4>3. v[i] \in Seq(Bytes) /\ f[i] = f[i - 1] \o W!Delimited(Number(todo, i), v[i])
          BY <1>2, <4>1 DEF Built
        <4> QED BY <1>7, <1>8, <3>1, <3>3, <4>2, <4>3
      <3> QED BY <3>2, <3>3
    <2> QED BY <2>1, <2>2 DEF Built
  <1>11. Marshalled(given)' = v
    BY <1>1 DEF Marshalled, v
  <1>12. \E after : Built(after, todo', todo', Marshalled(given)') /\ made' = after[todo']
    BY <1>1, <1>7, <1>10, <1>11
  <1>13. given' \in Seq(Series) /\ todo' \in 0..Len(given') /\ status' # "encoded"
    BY <1>1, <1>3
  <1> QED BY <1>12, <1>13 DEF Encoding, Built

(* What Marshal returns is read as the request. *)
LEMMA RequestRead ==
  ASSUME Encoding, status = "encoded"
  PROVE  W!ReadRequest(made) = given
  <1> DEFINE v == Marshalled(given)
             n == Len(given)
             c == W!Contents(made, 1)
  <1>1. /\ given \in Seq(Series) /\ n \in Nat /\ todo = n /\ given = [i \in 1..n |-> given[i]]
        /\ \A i \in 1..n : given[i] \in Series
    BY DEF Encoding
  <1>2. PICK after : Built(after, todo, todo, v) /\ made = after[todo]
    BY DEF Encoding
  <1>3. \A i \in 1..n : v[i] = W!marshalTimeSeries(given[i])
    BY DEF Marshalled
  <1>4. Lists(c, v, 0, n)
    <2> HIDE DEF v, n
    <2>1. n \in Nat /\ n \in 0..n /\ Built(after, n, n, v) /\ made = after[n]
      BY <1>1, <1>2
    <2> QED BY <2>1, BuiltRead
  <1>5. Len(c) = n /\ \A i \in 1..n : c[i] = v[0 + i]
    BY <1>4 DEF Lists
  <1> HIDE DEF v, n, c
  <1>6. \A i \in 1..n : W!ReadSeries(c[i]) = given[i]
    <2> TAKE i \in 1..n
    <2>1. 0 + i = i
      BY <1>1
    <2>2. c[i] = W!marshalTimeSeries(given[i])
      BY <1>3, <1>5, <2>1
    <2> QED BY <1>1, <2>2, SeriesRead
  <1>7. W!ReadRequest(made) = [i \in 1..Len(c) |-> W!ReadSeries(c[i])]
    BY DEF W!ReadRequest, W!Repeated, c
  <1> QED BY <1>1, <1>5, <1>6, <1>7

(* The receiver of a request that Marshal encodes reads the series that were
   sent, with all their labels and samples in their order: for requests of any
   number of series, labels and samples, strings of any bytes and any length,
   every int64 as a time and every double as a value. *)
THEOREM RequestsAreReadBack ==
  ASSUME WriteRequests \subseteq Seq(Series)
  PROVE  Spec => []RoundTrip
  <1>1. W!Init => Encoding
    <2> SUFFICES ASSUME W!Init PROVE Encoding
      OBVIOUS
    <2> DEFINE f == [i \in 0..0 |-> <<>>]
    <2>1. given \in Seq(Series) /\ todo = 0 /\ made = <<>> /\ status = "running" /\ Len(given) \in Nat
      BY DEF W!Init
    <2>2. f[0] = <<>> /\ \A i \in 1..0 : FALSE
      OBVIOUS
    <2> HIDE DEF f
    <2>3. Built(f, 0, 0, Marshalled(given)) /\ made = f[0]
      BY <2>1, <2>2 DEF Built
    <2>4. todo \in 0..Len(given)
      BY <2>1
    <2> QED BY <2>1, <2>3, <2>4 DEF Encoding
  <1>2. Encoding /\ [W!Next]_W!vars => Encoding'
    <2> SUFFICES ASSUME Encoding, [W!Next]_W!vars PROVE Encoding'
      OBVIOUS
    <2>1. CASE W!MarshalSeries
      BY <2>1, EncodingSeries
    <2>2. CASE W!MarshalFail
      <3>1. given' = given /\ todo' = todo /\ status' = "error"
        BY <2>2 DEF W!MarshalFail
      <3> QED BY <3>1 DEF Encoding
    <2>3. CASE W!Return
      <3>1. /\ given' = given /\ todo' = todo /\ made' = made /\ status = "running"
            /\ status' = "encoded" /\ todo = Len(given)
        BY <2>3 DEF W!Return
      <3> QED BY <3>1 DEF Encoding, Built, Marshalled
    <2>4. CASE UNCHANGED W!vars
      BY <2>4 DEF Encoding, Built, Marshalled, W!vars
    <2> QED BY <2>1, <2>2, <2>3, <2>4 DEF W!Next
  <1>3. Encoding => W!RoundTrip
    BY RequestRead DEF W!RoundTrip
  <1> DEFINE Inv == part = "RemoteWrite" => Encoding
  <1>4. Init => Inv
    BY <1>1 DEF Init
  <1>5. Inv /\ [Next]_vars => Inv'
    BY <1>2, OtherParts
  <1>6. Inv => RoundTrip
    BY <1>3 DEF RoundTrip
  <1> QED BY <1>4, <1>5, <1>6, PTL DEF Spec
=============================================================================
