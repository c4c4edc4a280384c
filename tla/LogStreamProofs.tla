-------------------------- MODULE LogStreamProofs --------------------------
(***************************************************************************)
(* What a goroutine of the log tail sends is the log, for any number of    *)
(* clients and any log without frames that are too long.                   *)
(*                                                                         *)
(* The order of what a client has received is not inductive by itself: the *)
(* next line depends on where the goroutine is.  ReadersInStep says that   *)
(* it is at the start of a frame, that no client has this frame or a later *)
(* one from it, and that those subscribed have all since the first.  That  *)
(* a position is the start of one frame only follows from the header being *)
(* longer than nothing.                                                    *)
(***************************************************************************)
EXTENDS LogStream, WellFoundedInduction, TLAPS

(* A set of natural numbers that is not empty has a least element. *)
LEMMA Least ==
    ASSUME NEW T \in SUBSET Nat, T # {}
    PROVE  \E x \in T : \A y \in T : x <= y
<1> DEFINE R == {ss \in Nat \X Nat : ss[1] < ss[2]}
<1>1. IsWellFoundedOn(R, Nat)
  BY NatLessThanWellFounded DEF OpToRel
<1>2. PICK x \in T : \A y \in T : ~(<<y, x>> \in R)
  BY <1>1, WFMin, Zenon
<1>3. ASSUME NEW y \in T PROVE x <= y
  <2>1. x \in Nat /\ y \in Nat /\ <<y, x>> \in Nat \X Nat
    OBVIOUS
  <2>2. ~(<<y, x>>[1] < <<y, x>>[2])
    BY <1>2, <2>1
  <2>3. QED
    BY <2>1, <2>2
<1>4. QED
  BY <1>3

(* The positions of the first n + 1 frames. *)
Positions(n) ==
    {g \in [1..(n + 1) -> Nat] :
        g[1] = 0 /\ \A i \in 2..(n + 1) : g[i] = g[i - 1] + HeaderLen + log[i - 1]}

(* There are such positions, for as many frames as the log has: otherwise  *)
(* there would be a least number of frames for which there are none. *)
LEMMA PositionsExist ==
    ASSUME log \in Seq(Nat)
    PROVE  Positions(Len(log)) # {}
<1> USE LogAssumption
<1> DEFINE T == {n \in 0..Len(log) : Positions(n) = {}}
<1>1. Len(log) \in Nat
  OBVIOUS
<1>2. SUFFICES ASSUME T # {} PROVE FALSE
  BY <1>1
<1>3. PICK n \in T : \A m \in T : n <= m
  <2>1. T \in SUBSET Nat
    BY <1>1
  <2>2. QED
    BY <1>2, <2>1, Least
<1>4. n # 0
  <2> DEFINE g == [i \in 1..1 |-> 0]
  <2>1. g \in [1..(0 + 1) -> Nat] /\ g[1] = 0 /\ 2..(0 + 1) = {}
    OBVIOUS
  <2>2. g \in Positions(0)
    BY <2>1 DEF Positions
  <2>3. QED
    BY <1>3, <2>2
<1>5. n \in Nat /\ n - 1 \in 0..Len(log) /\ ~(n <= n - 1) /\ n \in DOMAIN log
  BY <1>1, <1>3, <1>4
<1>6. PICK g \in Positions(n - 1) : TRUE
  BY <1>3, <1>5
<1>7. /\ g \in [1..n -> Nat] /\ g[1] = 0
      /\ \A i \in 2..n : g[i] = g[i - 1] + HeaderLen + log[i - 1]
  <2>1. (n - 1) + 1 = n
    BY <1>5
  <2>2. QED
    BY <1>6, <2>1 DEF Positions
<1> DEFINE h == [i \in 1..(n + 1) |-> IF i = n + 1 THEN g[n] + HeaderLen + log[n] ELSE g[i]]
<1>8. g[n] \in Nat /\ log[n] \in Nat /\ HeaderLen \in Nat
  BY <1>4, <1>5, <1>7
<1>9. h \in [1..(n + 1) -> Nat]
  BY <1>5, <1>7, <1>8
<1>10. /\ h[1] = 0 /\ h[n + 1] = g[n] + HeaderLen + log[n]
       /\ \A i \in 1..n : h[i] = g[i]
  BY <1>4, <1>5, <1>7
<1> HIDE DEF h
<1>11. ASSUME NEW i \in 2..(n + 1) PROVE h[i] = h[i - 1] + HeaderLen + log[i - 1]
  <2>1. CASE i = n + 1
    BY <1>4, <1>5, <1>10, <2>1
  <2>2. CASE i # n + 1
    <3>1. i \in 2..n /\ i \in 1..n /\ i - 1 \in 1..n
      BY <1>5, <2>2
    <3>2. QED
      BY <1>7, <1>10, <3>1
  <2>3. QED
    BY <2>1, <2>2
<1>12. h \in Positions(n)
  BY <1>9, <1>10, <1>11 DEF Positions
<1>13. QED
  BY <1>3, <1>12

(* Start is what its recursive definition says. *)
LEMMA StartFacts ==
    ASSUME log \in Seq(Nat)
    PROVE  /\ Start(1) = 0
           /\ \A f \in 1..(Len(log) + 1) : Start(f) \in Nat
           /\ \A f \in 1..Len(log) : Start(f + 1) = Start(f) + HeaderLen + log[f]
<1> DEFINE n == Len(log)
<1>1. n \in Nat
  OBVIOUS
<1>2. PICK g \in Positions(n) : TRUE
  BY PositionsExist
<1>3. /\ g \in [1..(n + 1) -> Nat] /\ g[1] = 0
      /\ \A i \in 2..(n + 1) : g[i] = g[i - 1] + HeaderLen + log[i - 1]
  BY <1>2 DEF Positions
<1> HIDE DEF n
<1>4. g = [i \in 1..(n + 1) |-> IF i = 1 THEN 0 ELSE g[i - 1] + HeaderLen + log[i - 1]]
  <2>1. \A i \in 1..(n + 1) : g[i] = IF i = 1 THEN 0 ELSE g[i - 1] + HeaderLen + log[i - 1]
    BY <1>1, <1>3
  <2>2. QED
    BY <1>3, <2>1
<1> DEFINE s == CHOOSE S : S = [i \in 1..(n + 1) |-> IF i = 1 THEN 0 ELSE S[i - 1] + HeaderLen + log[i - 1]]
<1>5. s = [i \in 1..(n + 1) |-> IF i = 1 THEN 0 ELSE s[i - 1] + HeaderLen + log[i - 1]]
  BY <1>4
<1>6. \A f : Start(f) = s[f]
  BY DEF Start, n
<1> HIDE DEF s
<1>7. s[1] = 0 /\ \A i \in 2..(n + 1) : s[i] = s[i - 1] + HeaderLen + log[i - 1]
  BY <1>1, <1>5
<1>8. \A f \in 1..(n + 1) : s[f] = g[f]
  <2> DEFINE T == {f \in 1..(n + 1) : s[f] # g[f]}
  <2>1. SUFFICES ASSUME T # {} PROVE FALSE
    OBVIOUS
  <2>2. PICK f \in T : \A m \in T : f <= m
    <3>1. T \in SUBSET Nat
      BY <1>1
    <3>2. QED
      BY <2>1, <3>1, Least
  <2>3. f \in 2..(n + 1) /\ f - 1 \in 1..(n + 1) /\ ~(f <= f - 1)
    BY <1>1, <1>3, <1>7, <2>2
  <2>4. s[f - 1] = g[f - 1]
    BY <2>2, <2>3
  <2>5. QED
    BY <1>3, <1>7, <2>2, <2>3, <2>4
<1>9. \A f \in 1..n : s[f + 1] = s[f] + HeaderLen + log[f]
  <2> SUFFICES ASSUME NEW f \in 1..n PROVE s[f + 1] = s[f] + HeaderLen + log[f]
    OBVIOUS
  <2>1. f + 1 \in 2..(n + 1) /\ (f + 1) - 1 = f
    BY <1>1
  <2>2. QED
    BY <1>7, <2>1
<1>10. QED
  BY <1>3, <1>6, <1>7, <1>8, <1>9 DEF n

(* A position is the start of at most one frame. *)
LEMMA StartsDiffer ==
    ASSUME log \in Seq(Nat), NEW f \in 1..(Len(log) + 1), NEW g \in 1..(Len(log) + 1), f < g
    PROVE  Start(f) + HeaderLen <= Start(g)
<1> DEFINE n == Len(log)
           s(i) == Start(i)
           T == {i \in 1..(n + 1) : f < i /\ ~(s(f) + HeaderLen <= s(i))}
<1>1. /\ n \in Nat /\ HeaderLen \in Nat /\ HeaderLen > 0
      /\ \A i \in 1..n : log[i] \in Nat
  BY LogAssumption
<1>2. /\ \A i \in 1..(n + 1) : s(i) \in Nat
      /\ \A i \in 1..n : s(i + 1) = s(i) + HeaderLen + log[i]
  BY StartFacts
<1>3. SUFFICES ASSUME T # {} PROVE FALSE
  OBVIOUS
<1>4. PICK i \in T : \A j \in T : i <= j
  <2>1. T \in SUBSET Nat
    BY <1>1
  <2>2. QED
    BY <1>3, <2>1, Least
<1> HIDE DEF n, s
<1> DEFINE j == i - 1
<1>5. j \in 1..n /\ j \in 1..(n + 1) /\ i = j + 1 /\ ~(i <= j) /\ f <= j
  <2>1. f \in 1..(n + 1)
    BY DEF n
  <2>2. QED
    BY <1>1, <1>4, <2>1
<1>6. s(i) = s(j) + HeaderLen + log[j] /\ s(j) \in Nat /\ s(f) \in Nat /\ log[j] \in Nat
  <2>1. f \in 1..(n + 1)
    BY DEF n
  <2>2. QED
    BY <1>1, <1>2, <1>5, <2>1
<1>7. f = j \/ s(f) + HeaderLen <= s(j)
  <2>1. f \in Nat /\ j \in Nat
    BY <1>1, <1>5
  <2>2. j \notin T
    BY <1>4, <1>5
  <2>3. QED
    BY <1>5, <2>1, <2>2
<1>8. s(f) + HeaderLen <= s(i)
  <2> DEFINE a == s(f)  b == s(j)  c == s(i)  l == log[j]
  <2>1. a \in Nat /\ b \in Nat /\ l \in Nat /\ c = b + HeaderLen + l
    BY <1>6
  <2>2. a = b \/ a + HeaderLen <= b
    BY <1>7
  <2> HIDE DEF a, b, c, l
  <2>3. a + HeaderLen <= c
    BY <1>1, <2>1, <2>2
  <2>4. QED
    BY <2>3 DEF a, c
<1>9. QED
  BY <1>4, <1>8

-----------------------------------------------------------------------------
(* What a client receives. *)
Message == [line : Nat, by : Clients]

LEMMA LinesAreNumbers ==
    ASSUME NEW s \in Seq(Message)
    PROVE  \A i \in DOMAIN s : s[i].line \in Nat
<1>1. \A i \in DOMAIN s : s[i] \in Message
  OBVIOUS
<1>2. QED
  BY <1>1 DEF Message

LEMMA AppendFacts ==
    ASSUME NEW S, NEW s \in Seq(S), NEW x \in S
    PROVE  /\ Len(s) \in Nat /\ DOMAIN s = 1..Len(s)
           /\ DOMAIN Append(s, x) = 1..(Len(s) + 1) /\ Len(Append(s, x)) = Len(s) + 1
           /\ \A i \in 1..Len(s) : Append(s, x)[i] = s[i]
           /\ Append(s, x)[Len(s) + 1] = x
OBVIOUS

(* A silent frame need not be sent. *)
LEMMA SilentAdvances ==
    ASSUME NEW s \in Seq(Message), NEW d, NEW f \in Nat, UpTo(s, d, f)
    PROVE  /\ UpTo(s, d, f + 1)
           /\ Silent(f) /\ AllSince(s, d, f) => AllSince(s, d, f + 1)
<1>1. \A i \in DOMAIN s : s[i].line \in Nat
  BY LinesAreNumbers
<1>2. UpTo(s, d, f + 1)
  BY <1>1 DEF UpTo
<1>3. ASSUME Silent(f), AllSince(s, d, f), NEW i \in DOMAIN s, s[i].by = d,
             NEW g \in (s[i].line + 1)..((f + 1) - 1)
      PROVE  Silent(g) \/ \E k \in (i + 1)..((Len(s) + 1) - 1) : s[k] = [line |-> g, by |-> d]
  <2>1. g = f \/ g \in (s[i].line + 1)..(f - 1)
    BY <1>1, <1>3
  <2>2. QED
    BY <1>3, <2>1 DEF AllSince, SentBetween
<1>4. QED
  BY <1>2, <1>3 DEF AllSince, SentBetween

(* Frame f is sent by goroutine c to a client that has all before it ... *)
LEMMA SendingAdvances ==
    ASSUME NEW s \in Seq(Message), NEW c \in Clients, NEW f \in Nat, f # Garbage,
           ~Silent(f), PieceOfLog(s), UpTo(s, c, f), AllSince(s, c, f)
    PROVE  LET t == Append(s, [line |-> f, by |-> c])
           IN  PieceOfLog(t) /\ UpTo(t, c, f + 1) /\ AllSince(t, c, f + 1)
<1> DEFINE t == Append(s, [line |-> f, by |-> c])
           n == Len(s)
<1>1. /\ n \in Nat /\ DOMAIN s = 1..n /\ DOMAIN t = 1..(n + 1) /\ Len(t) = n + 1
      /\ \A i \in 1..n : t[i] = s[i] /\ s[i].line \in Nat
      /\ t[n + 1] = [line |-> f, by |-> c]
  <2>1. [line |-> f, by |-> c] \in Message
    BY DEF Message
  <2>2. QED
    BY <2>1, AppendFacts, LinesAreNumbers
<1> HIDE DEF t, n
<1>2. t[n + 1].line = f /\ t[n + 1].by = c
  BY <1>1
<1>3. ASSUME NEW j \in DOMAIN t
      PROVE  /\ t[j].line # Garbage /\ ~Silent(t[j].line)
             /\ \A i \in 1..(j - 1) :
                   t[i].by = t[j].by => /\ t[i].line < t[j].line
                                        /\ SentBetween(t, t[j].by, i, j, t[i].line, t[j].line)
  <2>1. CASE j \in 1..n
    <3>1. t[j] = s[j] /\ s[j].line # Garbage /\ ~Silent(s[j].line)
      BY <1>1, <2>1 DEF PieceOfLog
    <3>2. ASSUME NEW i \in 1..(j - 1), t[i].by = t[j].by
          PROVE  /\ t[i].line < t[j].line
                 /\ SentBetween(t, t[j].by, i, j, t[i].line, t[j].line)
      <4>1. i \in 1..n /\ t[i] = s[i] /\ (i + 1)..(j - 1) \subseteq 1..n
        BY <1>1, <2>1, <3>2
      <4>2. s[i].line < s[j].line /\ SentBetween(s, s[j].by, i, j, s[i].line, s[j].line)
        BY <1>1, <2>1, <3>1, <3>2, <4>1 DEF PieceOfLog
      <4>3. SentBetween(t, s[j].by, i, j, s[i].line, s[j].line)
        BY <1>1, <4>1, <4>2 DEF SentBetween
      <4>4. QED
        BY <3>1, <4>1, <4>2, <4>3
    <3>3. QED
      BY <3>1, <3>2
  <2>2. CASE j = n + 1
    <3>1. ASSUME NEW i \in 1..(j - 1), t[i].by = t[j].by
          PROVE  /\ t[i].line < t[j].line
                 /\ SentBetween(t, t[j].by, i, j, t[i].line, t[j].line)
      <4>1. i \in 1..n /\ t[i] = s[i] /\ (i + 1)..(j - 1) \subseteq 1..n /\ s[i].by = c
        BY <1>1, <1>2, <2>2, <3>1
      <4>2. s[i].line < f /\ SentBetween(s, c, i, n + 1, s[i].line, f)
        BY <1>1, <4>1 DEF UpTo, AllSince, n
      <4>3. SentBetween(t, c, i, j, s[i].line, f)
        BY <1>1, <2>2, <4>1, <4>2 DEF SentBetween
      <4>4. QED
        BY <1>2, <2>2, <4>1, <4>2, <4>3
    <3>2. QED
      BY <1>2, <2>2, <3>1
  <2>3. QED
    BY <1>1, <2>1, <2>2
<1>4. UpTo(t, c, f + 1)
  <2> SUFFICES ASSUME NEW i \in DOMAIN t, t[i].by = c PROVE t[i].line < f + 1
    BY DEF UpTo
  <2>1. CASE i \in 1..n
    BY <1>1, <2>1 DEF UpTo
  <2>2. QED
    BY <1>1, <1>2, <2>1
<1>5. AllSince(t, c, f + 1)
  <2> SUFFICES ASSUME NEW i \in DOMAIN t, t[i].by = c, NEW g \in (t[i].line + 1)..((f + 1) - 1)
               PROVE  Silent(g) \/ \E k \in (i + 1)..((n + 2) - 1) : t[k] = [line |-> g, by |-> c]
    <3>1. Len(t) + 1 = n + 2
      BY <1>1
    <3>2. QED
      BY <3>1 DEF AllSince, SentBetween
  <2>1. CASE i = n + 1
    BY <1>2, <2>1
  <2>2. CASE i \in 1..n
    <3>1. t[i] = s[i] /\ s[i].by = c /\ s[i].line \in Nat
      BY <1>1, <2>2
    <3>2. CASE g = f
      <4>1. n + 1 \in (i + 1)..((n + 2) - 1)
        BY <1>1, <2>2
      <4>2. QED
        BY <1>1, <3>2, <4>1
    <3>3. CASE g # f
      <4>1. g \in (s[i].line + 1)..(f - 1)
        BY <3>1, <3>3
      <4>2. Silent(g) \/ \E k \in (i + 1)..((n + 1) - 1) : s[k] = [line |-> g, by |-> c]
        BY <1>1, <2>2, <3>1, <4>1 DEF AllSince, SentBetween, n
      <4>3. \A k \in (i + 1)..((n + 1) - 1) : k \in (i + 1)..((n + 2) - 1) /\ t[k] = s[k]
        BY <1>1, <2>2
      <4>4. QED
        BY <4>2, <4>3
    <3>4. QED
      BY <3>2, <3>3
  <2>3. QED
    BY <1>1, <2>1, <2>2
<1>6. QED
  BY <1>3, <1>4, <1>5 DEF PieceOfLog, t

(* ... which does not change what the client has from another goroutine. *)
LEMMA SendingLeavesOthers ==
    ASSUME NEW s \in Seq(Message), NEW c \in Clients, NEW f \in Nat,
           NEW d, d # c, NEW g \in Nat, UpTo(s, d, g)
    PROVE  LET t == Append(s, [line |-> f, by |-> c])
           IN  UpTo(t, d, g) /\ (AllSince(s, d, g) => AllSince(t, d, g))
<1> DEFINE t == Append(s, [line |-> f, by |-> c])
           n == Len(s)
<1>1. /\ n \in Nat /\ DOMAIN s = 1..n /\ DOMAIN t = 1..(n + 1) /\ Len(t) = n + 1
      /\ \A i \in 1..n : t[i] = s[i] /\ s[i].line \in Nat
      /\ t[n + 1].by # d
  <2>1. [line |-> f, by |-> c] \in Message /\ [line |-> f, by |-> c].by # d
    BY DEF Message
  <2>2. QED
    BY <2>1, AppendFacts, LinesAreNumbers
<1> HIDE DEF t, n
<1>2. ASSUME NEW i \in DOMAIN t, t[i].by = d PROVE i \in 1..n /\ s[i] = t[i] /\ s[i].by = d
  BY <1>1, <1>2
<1>3. UpTo(t, d, g)
  BY <1>1, <1>2 DEF UpTo
<1>4. ASSUME AllSince(s, d, g), NEW i \in DOMAIN t, t[i].by = d,
             NEW h \in (t[i].line + 1)..(g - 1)
      PROVE  Silent(h) \/ \E k \in (i + 1)..((n + 2) - 1) : t[k] = [line |-> h, by |-> d]
  <2>1. i \in 1..n /\ s[i] = t[i] /\ s[i].by = d
    BY <1>2, <1>4
  <2>2. Silent(h) \/ \E k \in (i + 1)..((n + 1) - 1) : s[k] = [line |-> h, by |-> d]
    <3>1. i \in DOMAIN s /\ h \in (s[i].line + 1)..(g - 1)
      BY <1>1, <1>4, <2>1
    <3>2. QED
      BY <1>4, <2>1, <3>1 DEF AllSince, SentBetween, n
  <2>3. \A k \in (i + 1)..((n + 1) - 1) : k \in (i + 1)..((n + 2) - 1) /\ t[k] = s[k]
    BY <1>1, <2>1
  <2>4. QED
    BY <2>2, <2>3
<1>5. AllSince(s, d, g) => AllSince(t, d, g)
  <2>1. Len(t) + 1 = n + 2
    BY <1>1
  <2>2. QED
    BY <1>4, <2>1 DEF AllSince, SentBetween
<1>6. QED
  BY <1>3, <1>5 DEF t

-----------------------------------------------------------------------------
(* The log does not change, and with it what is computed from it. *)
LEMMA SameLog ==
    ASSUME UNCHANGED log
    PROVE  /\ Framed' <=> Framed
           /\ \A f : Start(f)' = Start(f)
           /\ \A s : PieceOfLog(s)' <=> PieceOfLog(s)
           /\ \A s, d, f : UpTo(s, d, f)' <=> UpTo(s, d, f)
           /\ \A s, d, f : AllSince(s, d, f)' <=> AllSince(s, d, f)
<1>1. (Framed' <=> Framed) /\ \A f : Start(f)' = Start(f)
  BY DEF Framed, Frames, Start
<1>2. \A f : Silent(f)' <=> Silent(f)
  BY DEF Silent
<1>3. \A s, d, i, j, m, n : SentBetween(s, d, i, j, m, n)' <=> SentBetween(s, d, i, j, m, n)
  BY <1>2, Zenon DEF SentBetween
<1>4. \A s : PieceOfLog(s)' <=> PieceOfLog(s)
  BY <1>2, <1>3, Zenon DEF PieceOfLog
<1>5. \A s, d, f : UpTo(s, d, f)' <=> UpTo(s, d, f)
  BY DEF UpTo
<1>6. \A s, d, f : AllSince(s, d, f)' <=> AllSince(s, d, f)
  BY <1>3, Zenon DEF AllSince
<1>7. QED
  BY <1>1, <1>4, <1>5, <1>6

(* The parts of the type invariant. *)
LEMMA TypeFacts ==
    ASSUME LogTypeOK
    PROVE  /\ log \in Seq(Nat) /\ Len(log) \in Nat /\ DOMAIN log = 1..Len(log)
           /\ written \in Nat /\ written <= Len(log)
           /\ \A c \in Clients : pos[c] \in Nat /\ received[c] \in Seq(Message)
<1>1. log \in Seq(Nat) /\ Len(log) \in Nat /\ DOMAIN log = 1..Len(log)
  BY LogAssumption DEF LogTypeOK
<1>2. Lines \subseteq Message
  BY <1>1 DEF Lines, Message, Frames, Garbage
<1>3. \A c \in Clients : received[c] \in Seq(Message)
  <2> SUFFICES ASSUME NEW c \in Clients PROVE received[c] \in Seq(Message)
    OBVIOUS
  <2>1. received[c] \in Seq(Lines)
    BY DEF LogTypeOK
  <2>2. QED
    BY <1>2, <2>1
<1>4. QED
  BY <1>1, <1>3 DEF LogTypeOK

(* A step that neither reads nor sends. *)
LEMMA QuietKeeps ==
    ASSUME LogInv, UNCHANGED <<log, pos, received>>, written' \in Nat, written <= written',
           \A c \in Clients : client'[c] = "subscribed" => client[c] = "subscribed" \/ received[c] = <<>>
    PROVE  LinesInOrder' /\ ReadersInStep'
<1> DEFINE n == written'
<1>0. n \in Nat /\ written <= n
  OBVIOUS
<1> HIDE DEF n
<1>1. LinesInOrder'
  BY SameLog DEF LogInv, LinesInOrder
<1>2. ASSUME Framed, NEW d \in Clients PROVE \E f \in 1..(written' + 1) : ReadsNext(d, f)'
  <2>1. PICK f \in 1..(written + 1) : ReadsNext(d, f)
    BY <1>2 DEF LogInv, ReadersInStep
  <2>2. f \in 1..(written' + 1)
    <3>1. written \in Nat
      BY TypeFacts DEF LogInv
    <3>2. f \in Nat /\ 1 <= f /\ f <= written + 1
      BY <3>1
    <3>3. f \in 1..(n + 1)
      BY <1>0, <3>1, <3>2
    <3>4. QED
      BY <3>3 DEF n
  <2>3. ASSUME NEW c \in Clients, client'[c] = "subscribed" PROVE AllSince(received[c], d, f)
    <3>1. CASE client[c] = "subscribed"
      BY <2>1, <3>1 DEF ReadsNext
    <3>2. CASE received[c] = <<>>
      BY <3>2 DEF AllSince
    <3>3. QED
      BY <2>3, <3>1, <3>2
  <2>4. pos'[d] = Start(f)'
    BY <2>1, SameLog DEF ReadsNext
  <2>5. \A c \in Clients : UpTo(received[c], d, f)' /\ (client'[c] = "subscribed" => AllSince(received[c], d, f)')
    BY <2>1, <2>3, SameLog DEF ReadsNext
  <2>6. ReadsNext(d, f)'
    BY <2>4, <2>5 DEF ReadsNext
  <2>7. QED
    BY <2>2, <2>6
<1>3. ReadersInStep'
  BY <1>2, SameLog DEF ReadersInStep
<1>4. QED
  BY <1>1, <1>3

(* A goroutine at the start of a frame reads the header of that frame. *)
LEMMA HeaderOfFrame ==
    ASSUME LogTypeOK, NEW c \in Clients, NEW f \in 1..(written + 1), pos[c] = Start(f),
           pos[c] + HeaderLen <= Available, NEW h \in HeadersAt(pos[c])
    PROVE  f \in 1..written /\ h.line = f /\ h.size = log[f] /\ log[f] \in Nat
           /\ Start(f + 1) = pos[c] + HeaderLen + log[f]
<1>1. /\ log \in Seq(Nat) /\ Len(log) \in Nat /\ DOMAIN log = 1..Len(log)
      /\ written \in Nat /\ written <= Len(log) /\ pos[c] \in Nat
  BY TypeFacts
<1>2. HeaderLen \in Nat /\ HeaderLen > 0
  BY LogAssumption
<1>3. f \in 1..written
  <2>1. f # written + 1
    BY <1>1, <1>2 DEF Available
  <2>2. QED
    BY <1>1, <2>1
<1>4. \A g \in 1..written : pos[c] = Start(g) => g = f
  <2> SUFFICES ASSUME NEW g \in 1..written, Start(f) = Start(g), g # f PROVE FALSE
    OBVIOUS
  <2>1. f \in 1..(Len(log) + 1) /\ g \in 1..(Len(log) + 1) /\ (f < g \/ g < f)
    BY <1>1, <1>3
  <2>2. Start(f) \in Nat /\ Start(g) \in Nat
    BY <1>1, <2>1, StartFacts
  <2>3. Start(f) + HeaderLen <= Start(g) \/ Start(g) + HeaderLen <= Start(f)
    BY <1>1, <2>1, StartsDiffer
  <2>4. QED
    BY <1>2, <2>2, <2>3
<1>5. \E g \in 1..written : pos[c] = Start(g)
  BY <1>3
<1>6. h \in {[line |-> g, size |-> log[g]] : g \in {g \in 1..written : pos[c] = Start(g)}}
  BY <1>5 DEF HeadersAt
<1>7. h.line = f /\ h.size = log[f]
  BY <1>4, <1>6
<1>8. f \in 1..Len(log) /\ log[f] \in Nat
  BY <1>1, <1>3
<1>9. Start(f + 1) = Start(f) + HeaderLen + log[f]
  BY <1>1, <1>8, StartFacts
<1>10. QED
  BY <1>3, <1>7, <1>8, <1>9

(* A frame is passed over: it is silent. *)
LEMMA PassingKeeps ==
    ASSUME LogInv, Framed, UNCHANGED <<log, written, client, received>>,
           NEW c \in Clients, NEW f \in 1..written, ReadsNext(c, f), Silent(f),
           pos' = [pos EXCEPT ![c] = Start(f + 1)]
    PROVE  LinesInOrder' /\ ReadersInStep'
<1>1. LinesInOrder'
  BY SameLog DEF LogInv, LinesInOrder
<1>2. \A d \in Clients : pos'[d] = IF d = c THEN Start(f + 1) ELSE pos[d]
  BY DEF LogInv, LogTypeOK
<1>3. written \in Nat /\ \A e \in Clients : received[e] \in Seq(Message)
  BY TypeFacts DEF LogInv
<1>4. ASSUME NEW d \in Clients PROVE \E g \in 1..(written' + 1) : ReadsNext(d, g)'
  <2>1. CASE d = c
    <3>1. f \in Nat /\ f + 1 \in 1..(written' + 1)
      BY <1>3
    <3>2. ASSUME NEW e \in Clients
          PROVE  /\ UpTo(received[e], c, f + 1)
                 /\ client[e] = "subscribed" => AllSince(received[e], c, f + 1)
      <4>1. /\ UpTo(received[e], c, f)
            /\ client[e] = "subscribed" => AllSince(received[e], c, f)
        BY <3>2 DEF ReadsNext
      <4>2. QED
        BY <1>3, <3>1, <4>1, SilentAdvances
    <3>3. ReadsNext(c, f + 1)'
      BY <1>2, <3>2, SameLog DEF ReadsNext
    <3>4. QED
      BY <2>1, <3>1, <3>3
  <2>2. CASE d # c
    <3>1. PICK g \in 1..(written + 1) : ReadsNext(d, g)
      BY DEF LogInv, ReadersInStep
    <3>2. ReadsNext(d, g)'
      BY <1>2, <2>2, <3>1, SameLog DEF ReadsNext
    <3>3. QED
      BY <3>2
  <2>3. QED
    BY <2>1, <2>2
<1>5. QED
  BY <1>1, <1>4, SameLog DEF ReadersInStep

(* A frame is sent to the clients that are subscribed. *)
LEMMA SendingKeeps ==
    ASSUME LogInv, Framed, UNCHANGED <<log, written, client>>,
           NEW c \in Clients, NEW f \in 1..written, ReadsNext(c, f), ~Silent(f), Publish(c, f),
           pos' = [pos EXCEPT ![c] = Start(f + 1)]
    PROVE  LinesInOrder' /\ ReadersInStep'
<1> DEFINE m == [line |-> f, by |-> c]
<1>1. /\ written \in Nat /\ f \in Nat /\ f # Garbage
      /\ \A e \in Clients : received[e] \in Seq(Message)
  BY TypeFacts DEF LogInv, Garbage
<1>2. \A d \in Clients : pos'[d] = IF d = c THEN Start(f + 1) ELSE pos[d]
  BY DEF LogInv, LogTypeOK
<1>3. \A e \in Clients : received'[e] = IF client[e] = "subscribed" THEN Append(received[e], m) ELSE received[e]
  BY DEF Publish
<1>4. \A e \in Clients : /\ PieceOfLog(received[e]) /\ UpTo(received[e], c, f)
                         /\ client[e] = "subscribed" => AllSince(received[e], c, f)
  BY DEF LogInv, LinesInOrder, ReadsNext
<1>5. ASSUME NEW e \in Clients
      PROVE  /\ PieceOfLog(received[e])' /\ UpTo(received[e], c, f + 1)'
             /\ client[e] = "subscribed" => AllSince(received[e], c, f + 1)'
  <2>1. CASE client[e] = "subscribed"
    <3>1. /\ PieceOfLog(Append(received[e], m)) /\ UpTo(Append(received[e], m), c, f + 1)
          /\ AllSince(Append(received[e], m), c, f + 1)
      BY <1>1, <1>4, <2>1, SendingAdvances
    <3>2. received'[e] = Append(received[e], m)
      BY <1>3, <2>1
    <3>3. QED
      BY <3>1, <3>2, SameLog
  <2>2. CASE client[e] # "subscribed"
    <3>1. received'[e] = received[e] /\ UpTo(received[e], c, f + 1)
      BY <1>1, <1>3, <1>4, <2>2, SilentAdvances
    <3>2. QED
      BY <1>4, <2>2, <3>1, SameLog
  <2>3. QED
    BY <2>1, <2>2
<1>6. LinesInOrder'
  BY <1>5 DEF LinesInOrder
<1>7. ASSUME NEW d \in Clients PROVE \E g \in 1..(written' + 1) : ReadsNext(d, g)'
  <2>1. CASE d = c
    <3>1. f + 1 \in 1..(written' + 1)
      BY <1>1
    <3>2. ReadsNext(c, f + 1)'
      BY <1>2, <1>5, SameLog DEF ReadsNext
    <3>3. QED
      BY <2>1, <3>1, <3>2
  <2>2. CASE d # c
    <3>1. PICK g \in 1..(written + 1) : ReadsNext(d, g)
      BY DEF LogInv, ReadersInStep
    <3>2. ASSUME NEW e \in Clients
          PROVE  /\ UpTo(received[e], d, g)'
                 /\ client[e] = "subscribed" => AllSince(received[e], d, g)'
      <4>1. /\ UpTo(received[e], d, g)
            /\ client[e] = "subscribed" => AllSince(received[e], d, g)
        BY <3>1, <3>2 DEF ReadsNext
      <4>2. g \in Nat
        BY <1>1, <3>1
      <4>3. CASE client[e] = "subscribed"
        <5>1. UpTo(Append(received[e], m), d, g) /\ AllSince(Append(received[e], m), d, g)
          BY <1>1, <2>2, <4>1, <4>2, <4>3, SendingLeavesOthers
        <5>2. received'[e] = Append(received[e], m)
          BY <1>3, <4>3
        <5>3. QED
          BY <5>1, <5>2, SameLog
      <4>4. CASE client[e] # "subscribed"
        <5>1. received'[e] = received[e]
          BY <1>3, <4>4
        <5>2. QED
          BY <4>1, <4>4, <5>1, SameLog
      <4>5. QED
        BY <4>3, <4>4
    <3>3. pos'[d] = Start(g)'
      BY <1>2, <2>2, <3>1, SameLog DEF ReadsNext
    <3>4. ReadsNext(d, g)'
      BY <3>2, <3>3 DEF ReadsNext
    <3>5. QED
      BY <3>1, <3>4
  <2>3. QED
    BY <2>1, <2>2
<1>8. QED
  BY <1>6, <1>7 DEF ReadersInStep

-----------------------------------------------------------------------------
(* Nothing has been read or sent at first. *)
LEMMA LogInitInv == Init => LogInv
<1> SUFFICES ASSUME Init PROVE LogInv
  OBVIOUS
<1>1. log \in Seq(Nat) /\ Len(log) \in Nat
  BY LogAssumption DEF Init
<1>2. LogTypeOK
  <2>1. written \in 0..Len(log) /\ <<>> \in Seq(Lines)
    BY <1>1 DEF Init
  <2>2. pos \in [Clients -> Nat] /\ received \in [Clients -> Seq(Lines)]
    BY <2>1 DEF Init
  <2>3. QED
    BY <2>1, <2>2 DEF Init, LogTypeOK
<1>3. \A c \in Clients : received[c] = <<>> /\ DOMAIN received[c] = {}
  <2>1. \A c \in Clients : received[c] = <<>>
    BY DEF Init
  <2>2. DOMAIN <<>> = {}
    OBVIOUS
  <2>3. QED
    BY <2>1, <2>2
<1>4. LinesInOrder /\ NothingTooEarly
  BY <1>3 DEF LinesInOrder, PieceOfLog, NothingTooEarly
<1>5. ASSUME NEW d \in Clients PROVE 1 \in 1..(written + 1) /\ ReadsNext(d, 1)
  <2>1. pos[d] = Start(1) /\ written = 0
    BY <1>1, StartFacts DEF Init
  <2>2. QED
    BY <1>3, <2>1 DEF ReadsNext, UpTo, AllSince
<1>6. QED
  BY <1>2, <1>4, <1>5 DEF LogInv, ReadersInStep

(* The size that a header gives is a number, and its line one of the log. *)
LEMMA HeaderType ==
    ASSUME LogTypeOK, NEW p, NEW h \in HeadersAt(p)
    PROVE  h.size \in Nat /\ h.line \in Frames \cup {Garbage}
<1>1. /\ log \in Seq(Nat) /\ Len(log) \in Nat /\ DOMAIN log = 1..Len(log)
      /\ written \in Nat /\ written <= Len(log)
  BY TypeFacts
<1>2. CASE \E f \in 1..written : h = [line |-> f, size |-> log[f]]
  <2>1. PICK f \in 1..written : h = [line |-> f, size |-> log[f]]
    BY <1>2
  <2>2. f \in 1..Len(log) /\ log[f] \in Nat
    BY <1>1, <2>1
  <2>3. QED
    BY <1>1, <2>1, <2>2 DEF Frames
<1>3. CASE \E n \in 0..MaxGarbage : h = [line |-> Garbage, size |-> n]
  BY <1>3, LogAssumption
<1>4. QED
  BY <1>2, <1>3 DEF HeadersAt

(* Publishing keeps the types. *)
LEMMA PublishType ==
    ASSUME LogTypeOK, NEW c \in Clients, NEW l \in Frames \cup {Garbage}, Publish(c, l), UNCHANGED log
    PROVE  received' \in [Clients -> Seq(Lines)']
<1>1. Lines' = Lines /\ [line |-> l, by |-> c] \in Lines
  BY DEF Lines, Frames
<1>2. \A d \in Clients : received[d] \in Seq(Lines)
  BY DEF LogTypeOK
<1>3. \A d \in Clients : Append(received[d], [line |-> l, by |-> c]) \in Seq(Lines)
  BY <1>1, <1>2
<1>4. QED
  BY <1>1, <1>2, <1>3 DEF Publish

(* The steps of the goroutine that reads a frame. *)
LEMMA SkipKeeps ==
    ASSUME LogInv, NEW c \in Clients, DemuxSkips(c)
    PROVE  LogInv'
<1>1. /\ UNCHANGED <<log, written, client, stream, received>>
      /\ pos[c] + HeaderLen <= Available /\ pos' = [pos EXCEPT ![c] = @ + HeaderLen]
  BY DEF DemuxSkips
<1>2. LogTypeOK /\ pos \in [Clients -> Nat] /\ pos[c] \in Nat /\ HeaderLen \in Nat /\ MaxSize \in Nat
  BY LogAssumption DEF LogInv, LogTypeOK
<1>3. PICK h \in HeadersAt(pos[c]) : h.size \notin 1..MaxSize
  BY DEF DemuxSkips
<1>4. LogTypeOK' /\ NothingTooEarly'
  <2>1. pos' \in [Clients -> Nat]
    BY <1>1, <1>2
  <2>2. QED
    BY <1>1, <2>1 DEF LogInv, LogTypeOK, NothingTooEarly, Lines, Frames
<1>5. ASSUME Framed PROVE LinesInOrder' /\ ReadersInStep'
  <2>1. PICK f \in 1..(written + 1) : ReadsNext(c, f)
    BY <1>5 DEF LogInv, ReadersInStep
  <2>2. pos[c] = Start(f)
    BY <2>1 DEF ReadsNext
  <2>3. /\ f \in 1..written /\ h.size = log[f] /\ log[f] \in Nat
        /\ Start(f + 1) = pos[c] + HeaderLen + log[f]
    BY <1>1, <1>2, <1>3, <2>2, HeaderOfFrame
  <2>4. f \in Frames
    <3>1. DOMAIN log = 1..Len(log) /\ Len(log) \in Nat /\ written \in Nat /\ written <= Len(log)
      BY <1>2, TypeFacts
    <3>2. QED
      BY <2>3, <3>1 DEF Frames
  <2>5. log[f] = 0
    BY <1>2, <1>3, <1>5, <2>3, <2>4 DEF Framed
  <2>6. Silent(f) /\ pos' = [pos EXCEPT ![c] = Start(f + 1)]
    <3>1. Start(f + 1) = pos[c] + HeaderLen
      BY <1>2, <2>3, <2>5
    <3>2. QED
      BY <1>1, <2>5, <3>1 DEF Silent
  <2>7. QED
    BY <1>1, <1>5, <2>1, <2>3, <2>6, PassingKeeps
<1>6. Framed' <=> Framed
  BY <1>1, SameLog
<1>7. QED
  BY <1>4, <1>5, <1>6 DEF LogInv, LinesInOrder, ReadersInStep

LEMMA FrameKeeps ==
    ASSUME LogInv, NEW c \in Clients, DemuxFrame(c)
    PROVE  LogInv'
<1>1. UNCHANGED <<log, written, client, stream>>
  BY DEF DemuxFrame
<1>2. LogTypeOK /\ pos \in [Clients -> Nat] /\ pos[c] \in Nat /\ HeaderLen \in Nat /\ MaxSize \in Nat
  BY LogAssumption DEF LogInv, LogTypeOK
<1>3. PICK h \in HeadersAt(pos[c]) :
        /\ h.size \in 1..MaxSize
        /\ pos[c] + HeaderLen + h.size <= Available
        /\ pos' = [pos EXCEPT ![c] = @ + HeaderLen + h.size]
        /\ IF h.line \in Blank THEN UNCHANGED received ELSE Publish(c, h.line)
  BY DEF DemuxFrame
<1>4. h.size \in Nat /\ h.line \in Frames \cup {Garbage}
  BY <1>2, HeaderType
<1>5. LogTypeOK' /\ NothingTooEarly'
  <2>1. pos' \in [Clients -> Nat]
    BY <1>2, <1>3, <1>4
  <2>2. received' \in [Clients -> Seq(Lines)']
    <3>1. CASE h.line \in Blank
      <4>1. Lines' = Lines /\ received' = received
        BY <1>1, <1>3, <3>1 DEF Lines, Frames
      <4>2. QED
        BY <1>2, <4>1 DEF LogTypeOK
    <3>2. CASE h.line \notin Blank
      BY <1>1, <1>2, <1>3, <1>4, <3>2, PublishType
    <3>3. QED
      BY <3>1, <3>2
  <2>3. NothingTooEarly'
    <3>1. ASSUME NEW d \in Clients, client[d] # "subscribed" PROVE received'[d] = received[d]
      BY <1>3, <3>1 DEF Publish
    <3>2. QED
      BY <1>1, <3>1 DEF LogInv, NothingTooEarly
  <2>4. QED
    BY <1>1, <1>2, <2>1, <2>2, <2>3 DEF LogTypeOK
<1>6. ASSUME Framed PROVE LinesInOrder' /\ ReadersInStep'
  <2>1. PICK f \in 1..(written + 1) : ReadsNext(c, f)
    BY <1>6 DEF LogInv, ReadersInStep
  <2>2. pos[c] = Start(f)
    BY <2>1 DEF ReadsNext
  <2>3. pos[c] + HeaderLen <= Available
    <3>1. Available \in Nat
      <4>1. /\ log \in Seq(Nat) /\ Len(log) \in Nat /\ written \in Nat /\ written <= Len(log)
        BY <1>2, TypeFacts
      <4>2. written + 1 \in 1..(Len(log) + 1)
        BY <4>1
      <4>3. QED
        BY <4>1, <4>2, StartFacts DEF Available
    <3>2. QED
      BY <1>2, <1>3, <1>4, <3>1
  <2>4. /\ f \in 1..written /\ h.line = f /\ h.size = log[f] /\ log[f] \in Nat
        /\ Start(f + 1) = pos[c] + HeaderLen + log[f]
    BY <1>2, <1>3, <2>2, <2>3, HeaderOfFrame
  <2>5. pos' = [pos EXCEPT ![c] = Start(f + 1)] /\ log[f] # 0
    <3>1. Start(f + 1) = pos[c] + HeaderLen + h.size /\ h.size # 0
      BY <1>3, <2>4
    <3>2. QED
      BY <1>3, <2>4, <3>1
  <2>6. CASE f \in Blank
    BY <1>1, <1>3, <1>6, <2>1, <2>4, <2>5, <2>6, PassingKeeps DEF Silent
  <2>7. CASE f \notin Blank
    BY <1>1, <1>3, <1>6, <2>1, <2>4, <2>5, <2>7, SendingKeeps DEF Silent
  <2>8. QED
    BY <2>6, <2>7
<1>7. Framed' <=> Framed
  BY <1>1, SameLog
<1>8. QED
  BY <1>5, <1>6, <1>7 DEF LogInv, LinesInOrder, ReadersInStep

(* The inductive invariant. *)
LEMMA LogStepInv == LogInv /\ [Next]_vars => LogInv'
<1> SUFFICES ASSUME LogInv, [Next]_vars PROVE LogInv'
  OBVIOUS
<1>1. LogTypeOK /\ NothingTooEarly /\ written \in Nat /\ Len(log) \in Nat
  BY TypeFacts DEF LogInv
<1>2. ASSUME UNCHANGED <<log, pos, received>>, written' \in 0..Len(log), written <= written',
             client' \in [Clients -> {"none", "connected", "subscribed", "gone"}],
             stream' \in [Clients -> {"none", "listing", "reading", "ended"}],
             \A d \in Clients : /\ client'[d] = "subscribed" => client[d] \in {"connected", "subscribed"}
                                /\ client'[d] \in {"none", "connected"} => client[d] \in {"none", "connected"}
      PROVE  LogInv'
  <2>1. LogTypeOK'
    BY <1>1, <1>2 DEF LogTypeOK, Lines, Frames
  <2>2. NothingTooEarly'
    BY <1>1, <1>2 DEF NothingTooEarly
  <2>3. \A d \in Clients : client'[d] = "subscribed" => client[d] = "subscribed" \/ received[d] = <<>>
    BY <1>1, <1>2 DEF NothingTooEarly
  <2>4. written' \in Nat
    BY <1>1, <1>2
  <2>5. LinesInOrder' /\ ReadersInStep'
    BY <1>2, <2>3, <2>4, QuietKeeps
  <2>6. QED
    BY <2>1, <2>2, <2>5 DEF LogInv
<1>3. ASSUME Write PROVE LogInv'
  <2>1. written' \in 0..Len(log) /\ written <= written'
    BY <1>1, <1>3 DEF Write
  <2>2. QED
    BY <1>1, <1>2, <1>3, <2>1 DEF Write, LogTypeOK
<1>4. ASSUME NEW c \in Clients, Connect(c) \/ Subscribe(c) \/ Leave(c) PROVE LogInv'
  <2>1. /\ UNCHANGED <<log, pos, received, written>> /\ written' \in 0..Len(log) /\ written <= written'
        /\ client' \in [Clients -> {"none", "connected", "subscribed", "gone"}]
        /\ stream' \in [Clients -> {"none", "listing", "reading", "ended"}]
    <3>1. UNCHANGED <<log, pos, received, written>>
      BY <1>4 DEF Connect, Subscribe, Leave
    <3>2. written' \in 0..Len(log) /\ written <= written'
      BY <1>1, <3>1 DEF LogTypeOK
    <3>3. client' \in [Clients -> {"none", "connected", "subscribed", "gone"}]
      BY <1>1, <1>4 DEF Connect, Subscribe, Leave, LogTypeOK
    <3>4. stream' \in [Clients -> {"none", "listing", "reading", "ended"}]
      BY <1>1, <1>4 DEF Connect, Subscribe, Leave, LogTypeOK
    <3>5. QED
      BY <3>1, <3>2, <3>3, <3>4
  <2>2. \A d \in Clients : /\ client'[d] = "subscribed" => client[d] \in {"connected", "subscribed"}
                           /\ client'[d] \in {"none", "connected"} => client[d] \in {"none", "connected"}
    BY <1>1, <1>4 DEF Connect, Subscribe, Leave, LogTypeOK
  <2>3. QED
    BY <1>2, <2>1, <2>2
<1>5. ASSUME NEW c \in Clients, OpenLogs(c) \/ DemuxEnds(c) PROVE LogInv'
  <2>1. /\ UNCHANGED <<log, pos, received, written, client>>
        /\ stream' \in [Clients -> {"none", "listing", "reading", "ended"}]
    BY <1>1, <1>5 DEF OpenLogs, DemuxEnds, LogTypeOK
  <2>2. QED
    BY <1>1, <1>2, <2>1 DEF LogTypeOK
<1>6. ASSUME NEW c \in Clients, DemuxSkips(c) \/ DemuxFrame(c) PROVE LogInv'
  BY <1>6, SkipKeeps, FrameKeeps
<1>7. ASSUME UNCHANGED vars PROVE LogInv'
  BY <1>1, <1>2, <1>7 DEF vars, LogTypeOK
<1>8. QED
  BY <1>3, <1>4, <1>5, <1>6, <1>7 DEF Next, StreamStep, Over

(* What the goroutine of a request sends (demuxDockerLogs) arrives as a    *)
(* piece of the log: in order, each line once and without a gap, however   *)
(* many clients of the service there are and whenever they come and go.    *)
THEOREM LogInvariant == Spec => []LogInv
<1>1. QED
  BY LogInitInv, LogStepInv, PTL DEF Spec
=============================================================================
