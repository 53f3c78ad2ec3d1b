---------------------------- MODULE LogTailProofs ----------------------------
(***************************************************************************)
(* LogTail implements LogStream, for files, batches and logs of any size   *)
(* and any number of restarts.  The step that needs most is the restart:   *)
(* the unread lines stay at the end, in their order, if the newer of two   *)
(* files with lines in them was also the last to be modified, and trade    *)
(* places as a whole if not; none appears twice because the two files      *)
(* never share a line.  At the end: no wake-up of the uploader is lost.    *)
(***************************************************************************)
EXTENDS LogTail, SequenceTheorems, TLAPS

(* The offsets lie in their files, and the count of new lines is at most   *)
(* what was there when the file was opened and what was written since: an  *)
(* overflow therefore finds more than half the limit in the newer file.    *)
Sizes ==
    /\ wOff \in 0..Len(file[newer]) /\ rOff \in 0..Len(file[older])
    /\ newly \in 0..written /\ newly <= Len(file[newer]) + wOff
    /\ Len(file[1]) + Len(file[2]) <= written

(* No line is in the files twice.                                          *)
Distinct ==
    \A f, g \in 1..2 : \A i \in 1..Len(file[f]), j \in 1..Len(file[g]) :
        file[f][i] = file[g][j] => f = g /\ i = j

FilchInv ==
    /\ written \in 0..MaxLines
    /\ file \in [1..2 -> Seq(1..written)] /\ lastMod \in 1..2 /\ newer \in 1..2
    /\ Sizes /\ Distinct

Flags ==
    /\ flush \in BOOLEAN /\ armed \in BOOLEAN /\ firing \in BOOLEAN
    /\ wake \in BOOLEAN /\ cancelled \in BOOLEAN /\ up \in BOOLEAN
    /\ ready \in BOOLEAN /\ deltas \in Seq(BOOLEAN)

Batch ==
    /\ body \in Seq(1..written) /\ Len(body) <= MaxBatch
    /\ received \subseteq 1..written

Points ==
    /\ writer \in {"idle", "rotated", "buffered"}
    /\ moved \in BOOLEAN
    /\ at \in {"drain", "block", "upload", "sleep", "await", "done"}
    /\ shut \in {"no", "called", "started"}
    /\ restarts \in 0..MaxRestarts /\ flaps \in 0..MaxFlaps

(* Uploads are given up only when the logger has been told to stop.        *)
CancelInv == cancelled => shut # "no"

IInv == FilchInv /\ Flags /\ Batch /\ Points /\ CancelInv

-----------------------------------------------------------------------------
(* The sequences the files are made of.                                    *)

(* A line at an offset of a file, as PutAt puts it there.                  *)
PutLine(s, off, l) == IF off < Len(s) THEN [s EXCEPT ![off + 1] = l]
                                      ELSE Append(s, l)

(* What is left of s after r lines, and then t.                            *)
Rest(s, r, t) == SubSeq(s, r + 1, Len(s)) \o t

(* A new line replaces the one at the offset, or is the last.              *)
LEMMA PutLineSeq ==
    ASSUME NEW w \in Nat, NEW s \in Seq(1..w), NEW off \in 0..Len(s)
    PROVE  /\ PutLine(s, off, w + 1) \in Seq(1..(w + 1))
           /\ Len(PutLine(s, off, w + 1)) =
                 (IF off < Len(s) THEN Len(s) ELSE Len(s) + 1)
           /\ \A i \in 1..Len(PutLine(s, off, w + 1)) :
                 PutLine(s, off, w + 1)[i] =
                   IF i = off + 1 THEN w + 1 ELSE s[i]
<1>1. s \in Seq(1..(w + 1)) /\ w + 1 \in 1..(w + 1) /\ Len(s) \in Nat
  <2>1. 1..w \subseteq 1..(w + 1)  OBVIOUS
  <2> QED  BY <2>1, SeqMonotonic, LenProperties
<1>2. CASE off < Len(s)
  <2>1. off + 1 \in 1..Len(s)  BY <1>1, <1>2
  <2> QED  BY <1>1, <1>2, <2>1, ExceptSeq DEF PutLine
<1>3. CASE ~(off < Len(s))
  <2>1. off = Len(s)  BY <1>1, <1>3
  <2> QED  BY <1>1, <1>3, <2>1, AppendProperties DEF PutLine
<1> QED  BY <1>2, <1>3

(* The lines of Rest, by their places.                                     *)
LEMMA RestSeq ==
    ASSUME NEW S, NEW s \in Seq(S), NEW t \in Seq(S), NEW r \in 0..Len(s)
    PROVE  /\ Rest(s, r, t) \in Seq(S)
           /\ Len(Rest(s, r, t)) = (Len(s) - r) + Len(t)
           /\ \A i \in 1..((Len(s) - r) + Len(t)) :
                 Rest(s, r, t)[i] = IF i <= Len(s) - r THEN s[r + i]
                                    ELSE t[i - (Len(s) - r)]
<1> DEFINE u == SubSeq(s, r + 1, Len(s))
<1>1. Len(s) \in Nat /\ Len(t) \in Nat /\ r \in Nat /\ r <= Len(s)
  BY LenProperties
<1>2. \A i \in (r + 1)..Len(s) : s[i] \in S
  BY <1>1, ElementOfSeq
<1>3. /\ u \in Seq(S) /\ Len(u) = Len(s) - r
      /\ \A i \in 1..(Len(s) - r) : u[i] = s[r + i]
  <2>1. /\ u \in Seq(S)
        /\ Len(u) = IF r + 1 <= Len(s) THEN Len(s) - (r + 1) + 1 ELSE 0
        /\ \A i \in 1..(Len(s) - (r + 1) + 1) : u[i] = s[(r + 1) + i - 1]
    BY <1>1, <1>2, SubSeqProperties
  <2>2. Len(s) - (r + 1) + 1 = Len(s) - r  BY <1>1
  <2>3. \A i \in 1..(Len(s) - r) : (r + 1) + i - 1 = r + i  BY <1>1
  <2> HIDE DEF u
  <2> QED  BY <1>1, <2>1, <2>2, <2>3
<1> HIDE DEF u
<1>4. /\ u \o t \in Seq(S) /\ Len(u \o t) = Len(u) + Len(t)
      /\ \A i \in 1..(Len(u) + Len(t)) :
            (u \o t)[i] = IF i <= Len(u) THEN u[i] ELSE t[i - Len(u)]
  BY <1>3, ConcatProperties
<1>5. Rest(s, r, t) = u \o t  BY DEF Rest, u
<1>6. \A i \in 1..((Len(s) - r) + Len(t)) : i <= Len(s) - r =>
          i \in 1..(Len(s) - r)
  BY <1>1
<1> QED  BY <1>1, <1>3, <1>4, <1>5, <1>6

(* A sequence whose places are the last ones of another is its suffix.     *)
LEMMA SuffixByPlaces ==
    ASSUME NEW S, NEW s \in Seq(S), NEW t \in Seq(S), Len(s) <= Len(t),
           \A i \in 1..Len(s) : s[i] = t[(Len(t) - Len(s)) + i]
    PROVE  IsSuffix(s, t)
<1> DEFINE a == Reverse(s)
           b == Reverse(t)
           n == Len(s)
<1>1. n \in Nat /\ Len(t) \in Nat /\ n <= Len(t)  BY LenProperties
<1>2. /\ a \in Seq(S) /\ Len(a) = n
      /\ \A i \in 1..n : a[i] = s[(n - i) + 1]
  <2>1. \A i \in 1..n : (n - i) + 1 \in 1..n  BY <1>1
  <2>2. a = [i \in 1..n |-> s[(n - i) + 1]]  BY DEF Reverse
  <2>3. \A i \in 1..n : s[(n - i) + 1] \in S  BY <2>1, ElementOfSeq
  <2>4. a \in [1..n -> S]  BY <2>2, <2>3
  <2> QED  BY <1>1, <2>2, <2>4, SeqDef
<1>3. /\ b \in Seq(S) /\ Len(b) = Len(t)
      /\ \A i \in 1..Len(t) : b[i] = t[(Len(t) - i) + 1]
  <2>1. \A i \in 1..Len(t) : (Len(t) - i) + 1 \in 1..Len(t)  BY <1>1
  <2>2. b = [i \in 1..Len(t) |-> t[(Len(t) - i) + 1]]  BY DEF Reverse
  <2>3. \A i \in 1..Len(t) : t[(Len(t) - i) + 1] \in S
    BY <2>1, ElementOfSeq
  <2>4. b \in [1..Len(t) -> S]  BY <2>2, <2>3
  <2> QED  BY <1>1, <2>2, <2>4, SeqDef
<1>4. \A i \in 1..n : a[i] = b[i]
  <2> SUFFICES ASSUME NEW i \in 1..n PROVE a[i] = b[i]
    OBVIOUS
  <2>1. /\ (n - i) + 1 \in 1..n /\ i \in 1..Len(t)
        /\ (Len(t) - n) + ((n - i) + 1) = (Len(t) - i) + 1
    BY <1>1
  <2>2. s[(n - i) + 1] = t[(Len(t) - i) + 1]  BY <2>1
  <2> HIDE DEF a, b
  <2> QED  BY <1>2, <1>3, <2>1, <2>2
<1> HIDE DEF a, b
<1>5. SubSeq(a, 1, n) = SubSeq(b, 1, n)
  <2>1. \A i \in 1..n : a[i] \in S /\ b[i] \in S
    BY <1>1, <1>2, <1>4, ElementOfSeq
  <2>2. /\ SubSeq(a, 1, n) \in Seq(S) /\ SubSeq(b, 1, n) \in Seq(S)
        /\ Len(SubSeq(a, 1, n)) = n /\ Len(SubSeq(b, 1, n)) = n
        /\ \A i \in 1..n : SubSeq(a, 1, n)[i] = a[i]
        /\ \A i \in 1..n : SubSeq(b, 1, n)[i] = b[i]
    <3>1. /\ SubSeq(a, 1, n) \in Seq(S)
          /\ Len(SubSeq(a, 1, n)) = (IF 1 <= n THEN n - 1 + 1 ELSE 0)
          /\ \A i \in 1..(n - 1 + 1) : SubSeq(a, 1, n)[i] = a[1 + i - 1]
      BY <1>1, <2>1, SubSeqProperties
    <3>2. /\ SubSeq(b, 1, n) \in Seq(S)
          /\ Len(SubSeq(b, 1, n)) = (IF 1 <= n THEN n - 1 + 1 ELSE 0)
          /\ \A i \in 1..(n - 1 + 1) : SubSeq(b, 1, n)[i] = b[1 + i - 1]
      BY <1>1, <2>1, SubSeqProperties
    <3>3. n - 1 + 1 = n /\ \A i \in 1..n : 1 + i - 1 = i  BY <1>1
    <3> HIDE DEF n
    <3> QED  BY <1>1, <3>1, <3>2, <3>3
  <2> QED  BY <1>4, <2>2, SeqEqual
<1> QED  BY <1>1, <1>2, <1>3, <1>5 DEF IsSuffix, IsPrefix, a, b

(* A line is put at an offset of t: with what is left of s in front, that  *)
(* is to append it, or to replace the first line behind the offset.        *)
LEMMA PutQueue ==
    ASSUME NEW w \in Nat, NEW s \in Seq(1..w), NEW t \in Seq(1..w),
           NEW r \in 0..Len(s), NEW off \in 0..Len(t)
    PROVE  LET u == PutLine(t, off, w + 1)
               q == Rest(s, r, t)
               z == Rest(s, r, u)
           IN  /\ off = Len(t) => z = Append(q, w + 1) /\ Len(u) = Len(t) + 1
               /\ off # Len(t) =>
                    /\ z = [q EXCEPT ![Len(q) - (Len(t) - off) + 1] = w + 1]
                    /\ Len(u) = Len(t)
<1> DEFINE u == PutLine(t, off, w + 1)
           q == Rest(s, r, t)
           z == Rest(s, r, u)
           n == Len(s) - r
           m == Len(t)
           l == w + 1
           L == 1..l
<1>1. m \in Nat /\ n \in Nat /\ off \in Nat /\ off <= m /\ l \in L
  BY LenProperties
<1>2. s \in Seq(L) /\ t \in Seq(L)
  <2>1. 1..w \subseteq L  OBVIOUS
  <2> QED  BY <2>1, SeqMonotonic
<1>3. /\ u \in Seq(L) /\ Len(u) = IF off < m THEN m ELSE m + 1
      /\ \A i \in 1..Len(u) : u[i] = IF i = off + 1 THEN l ELSE t[i]
  BY PutLineSeq
<1>4. /\ q \in Seq(L) /\ Len(q) = n + m
      /\ \A i \in 1..(n + m) : q[i] = IF i <= n THEN s[r + i] ELSE t[i - n]
  BY <1>2, RestSeq
<1>a. u \in Seq(L)  BY <1>3
<1> HIDE DEF L, l, m, u
<1>5. /\ z \in Seq(L) /\ Len(z) = n + Len(u)
      /\ \A i \in 1..(n + Len(u)) :
            z[i] = IF i <= n THEN s[r + i] ELSE u[i - n]
  BY <1>2, <1>a, RestSeq
<1> HIDE DEF n, q, z
<1>b. q \in Seq(L) /\ z \in Seq(L)  BY <1>4, <1>5
<1>c. Len(q) = n + m  BY <1>4
<1>d. Len(z) = n + Len(u)  BY <1>5
<1>e. \A i \in 1..(n + m) : q[i] = IF i <= n THEN s[r + i] ELSE t[i - n]
  BY <1>4
<1>f. \A i \in 1..(n + Len(u)) : z[i] = IF i <= n THEN s[r + i] ELSE u[i - n]
  BY <1>5
<1>g. \A i \in 1..Len(u) : u[i] = IF i = off + 1 THEN l ELSE t[i]  BY <1>3
<1>6. ASSUME off = m
      PROVE  z = Append(q, l) /\ Len(u) = m + 1
  <2>1. Len(u) = m + 1
    <3>1. Len(u) = IF off < m THEN m ELSE m + 1  BY <1>3
    <3> QED  BY <1>1, <1>6, <3>1
  <2> DEFINE v == Append(q, l)
  <2>2. /\ v \in Seq(L) /\ Len(v) = Len(q) + 1
        /\ \A i \in 1..Len(q) : v[i] = q[i]
        /\ v[Len(q) + 1] = l
    BY <1>1, <1>b, AppendProperties
  <2> HIDE DEF v
  <2>3. Len(v) = n + m + 1 /\ Len(z) = n + m + 1
    BY <1>1, <1>c, <1>d, <2>1, <2>2
  <2>4. ASSUME NEW i \in 1..(n + m + 1) PROVE z[i] = v[i]
    <3>1. i \in 1..(n + Len(u))  BY <1>1, <2>1
    <3>2. CASE i <= n
      <4>1. i \in 1..(n + m) /\ i \in 1..Len(q)  BY <1>1, <1>c, <3>2
      <4> QED  BY <1>e, <1>f, <2>2, <3>1, <3>2, <4>1
    <3>3. CASE i > n /\ i <= n + m
      <4>1. /\ i - n # off + 1 /\ i - n \in 1..Len(u) /\ ~(i <= n)
            /\ i \in 1..(n + m) /\ i \in 1..Len(q)
        BY <1>1, <1>6, <1>c, <2>1, <3>3
      <4>2. u[i - n] = t[i - n]  BY <1>g, <4>1
      <4> QED  BY <1>e, <1>f, <2>2, <3>1, <4>1, <4>2
    <3>4. CASE i = n + m + 1
      <4>1. i - n = off + 1 /\ ~(i <= n) /\ i - n \in 1..Len(u)
        BY <1>1, <1>6, <2>1, <3>4
      <4>2. u[i - n] = l  BY <1>g, <4>1
      <4>3. v[i] = l  BY <1>1, <1>c, <2>2, <3>4
      <4> QED  BY <1>f, <3>1, <4>1, <4>2, <4>3
    <3> QED  BY <1>1, <3>2, <3>3, <3>4
  <2>5. z = v  BY <1>b, <2>2, <2>3, <2>4, SeqEqual
  <2> QED  BY <2>1, <2>5 DEF v
<1>7. ASSUME off # m
      PROVE  z = [q EXCEPT ![Len(q) - (m - off) + 1] = l] /\ Len(u) = m
  <2> DEFINE p == Len(q) - (m - off) + 1
             v == [q EXCEPT ![p] = l]
  <2>1. Len(u) = m
    <3>1. Len(u) = IF off < m THEN m ELSE m + 1  BY <1>3
    <3> QED  BY <1>1, <1>7, <3>1
  <2>2. p = n + off + 1 /\ p \in 1..Len(q) /\ p \in 1..(n + m)
    BY <1>1, <1>7, <1>c
  <2> HIDE DEF p
  <2>3. /\ v \in Seq(L) /\ Len(v) = Len(q)
        /\ \A i \in 1..Len(q) : v[i] = IF i = p THEN l ELSE q[i]
    BY <1>1, <1>b, <2>2, ExceptSeq
  <2> HIDE DEF v
  <2>4. Len(v) = n + m /\ Len(z) = n + m  BY <1>c, <1>d, <2>1, <2>3
  <2>5. ASSUME NEW i \in 1..(n + m) PROVE z[i] = v[i]
    <3>1. i \in 1..Len(q) /\ i \in 1..(n + Len(u))  BY <1>c, <2>1
    <3>2. CASE i <= n
      <4>1. i # p  BY <1>1, <2>2, <3>2
      <4> QED  BY <1>e, <1>f, <2>3, <3>1, <3>2, <4>1
    <3>3. CASE ~(i <= n)
      <4>1. i - n \in 1..Len(u) /\ (i - n = off + 1 <=> i = p)
        BY <1>1, <2>1, <2>2, <3>3
      <4>2. u[i - n] = IF i = p THEN l ELSE t[i - n]  BY <1>g, <4>1
      <4> QED  BY <1>e, <1>f, <2>3, <3>1, <3>3, <4>2
    <3> QED  BY <3>2, <3>3
  <2>6. z = v  BY <1>b, <2>3, <2>4, <2>5, SeqEqual
  <2> QED  BY <2>1, <2>6 DEF v, p
<1> QED  BY <1>6, <1>7 DEF m, l, u, q, z

(* With nothing in front, or nothing behind, Rest is the other sequence.   *)
LEMMA RestEnds ==
    ASSUME NEW S, NEW s \in Seq(S), NEW t \in Seq(S)
    PROVE  /\ Rest(s, Len(s), t) = t
           /\ Rest(t, 0, << >>) = t
           /\ s = << >> => Rest(s, 0, t) = t
           /\ t # << >> => Rest(t, 1, << >>) = Tail(t)
<1>1. Len(s) \in Nat /\ Len(t) \in Nat  BY LenProperties
<1>2. SubSeq(s, Len(s) + 1, Len(s)) = << >>  BY <1>1, SubSeqEmpty
<1>3. Rest(s, Len(s), t) = t  BY <1>2, ConcatEmptySeq DEF Rest
<1>4. Rest(t, 0, << >>) = t
  <2>1. SubSeq(t, 1, Len(t)) = t  BY SubSeqFull
  <2> QED  BY <2>1, ConcatEmptySeq DEF Rest
<1>5. s = << >> => Rest(s, 0, t) = t
  BY <1>3, EmptySeq
<1>6. t # << >> => Rest(t, 1, << >>) = Tail(t)
  <2> SUFFICES ASSUME t # << >> PROVE Rest(t, 1, << >>) = Tail(t)
    OBVIOUS
  <2>1. Tail(t) = SubSeq(t, 2, Len(t)) /\ Tail(t) \in Seq(S)
    BY TailIsSubSeq, HeadTailProperties
  <2> QED  BY <2>1, ConcatEmptySeq DEF Rest
<1> QED  BY <1>3, <1>4, <1>5, <1>6

(* The first line of Rest is the next one of s, as long as s has one.      *)
LEMMA RestNext ==
    ASSUME NEW S, NEW s \in Seq(S), NEW t \in Seq(S), NEW r \in 0..Len(s),
           r < Len(s)
    PROVE  /\ Rest(s, r, t) # << >> /\ Head(Rest(s, r, t)) = s[r + 1]
           /\ Tail(Rest(s, r, t)) = Rest(s, r + 1, t)
<1> DEFINE q == Rest(s, r, t)
           p == r + 1
           z == Rest(s, p, t)
           m == Len(t)
           n == Len(s) - r
<1>1. /\ m \in Nat /\ n \in Nat /\ n >= 1 /\ r \in Nat /\ p = r + 1
      /\ p \in 0..Len(s) /\ Len(s) - p = n - 1
  BY LenProperties
<1>2. q \in Seq(S) /\ Len(q) = n + m  BY RestSeq
<1>3. \A i \in 1..(n + m) : q[i] = IF i <= n THEN s[r + i] ELSE t[i - n]
  BY RestSeq
<1> HIDE DEF p
<1>4. /\ z \in Seq(S) /\ Len(z) = (Len(s) - p) + m
      /\ \A i \in 1..((Len(s) - p) + m) :
            z[i] = IF i <= Len(s) - p THEN s[p + i] ELSE t[i - (Len(s) - p)]
  <2>1. p \in 0..Len(s)  BY <1>1
  <2> QED  BY <2>1, RestSeq
<1> HIDE DEF q, z, n, m
<1>5. /\ z \in Seq(S) /\ Len(z) = (n - 1) + m
      /\ \A i \in 1..((n - 1) + m) :
            z[i] = IF i <= n - 1 THEN s[p + i] ELSE t[i - (n - 1)]
  BY <1>1, <1>4
<1>6. q # << >> /\ Head(q) = s[r + 1]
  <2>1. Len(q) # 0 /\ 1 \in 1..(n + m) /\ 1 <= n  BY <1>1, <1>2
  <2>2. q # << >>  BY <2>1, EmptySeq
  <2>3. Head(q) = q[1]  BY <1>2, <2>2
  <2> QED  BY <1>3, <2>1, <2>2, <2>3
<1>7. /\ Tail(q) \in Seq(S) /\ Len(Tail(q)) = Len(q) - 1
      /\ \A i \in 1..Len(Tail(q)) : Tail(q)[i] = q[i + 1]
  BY <1>2, <1>6, HeadTailProperties
<1>8. Len(Tail(q)) = (n - 1) + m  BY <1>1, <1>2, <1>7
<1>9. ASSUME NEW i \in 1..((n - 1) + m) PROVE Tail(q)[i] = z[i]
  <2>1. i + 1 \in 1..(n + m) /\ (i + 1 <= n <=> i <= n - 1)
        /\ r + (i + 1) = p + i /\ (i + 1) - n = i - (n - 1)
    BY <1>1
  <2>2. Tail(q)[i] = q[i + 1]  BY <1>7, <1>8
  <2>3. q[i + 1] = IF i + 1 <= n THEN s[r + (i + 1)] ELSE t[(i + 1) - n]
    BY <1>3, <2>1
  <2> QED  BY <1>5, <2>1, <2>2, <2>3
<1>10. Tail(q) = z  BY <1>5, <1>7, <1>8, <1>9, SeqEqual
<1> QED  BY <1>6, <1>10 DEF q, z, p

(* Without its part of s, Rest is t.                                       *)
LEMMA RestDrop ==
    ASSUME NEW S, NEW s \in Seq(S), NEW t \in Seq(S), NEW r \in 0..Len(s)
    PROVE  SubSeq(Rest(s, r, t), (Len(s) - r) + 1, Len(Rest(s, r, t))) = t
<1> DEFINE q == Rest(s, r, t)
           m == Len(t)
           n == Len(s) - r
           v == SubSeq(q, n + 1, n + m)
<1>1. m \in Nat /\ n \in Nat  BY LenProperties
<1>2. q \in Seq(S) /\ Len(q) = n + m  BY RestSeq
<1>3. \A i \in 1..(n + m) : q[i] = IF i <= n THEN s[r + i] ELSE t[i - n]
  BY RestSeq
<1> HIDE DEF q, n
<1>4. \A i \in (n + 1)..(n + m) : q[i] \in S  BY <1>1, <1>2, ElementOfSeq
<1>5. /\ v \in Seq(S)
      /\ Len(v) = (IF n + 1 <= n + m THEN (n + m) - (n + 1) + 1 ELSE 0)
      /\ \A i \in 1..((n + m) - (n + 1) + 1) : v[i] = q[(n + 1) + i - 1]
  BY <1>1, <1>4, SubSeqProperties
<1> HIDE DEF v, m
<1>6. Len(v) = m /\ (n + m) - (n + 1) + 1 = m  BY <1>1, <1>5
<1>7. ASSUME NEW i \in 1..m PROVE v[i] = t[i]
  <2>1. (n + 1) + i - 1 = n + i /\ n + i \in 1..(n + m) /\ ~(n + i <= n)
        /\ (n + i) - n = i
    BY <1>1
  <2>2. v[i] = q[n + i]  BY <1>5, <1>6, <2>1
  <2> QED  BY <1>3, <2>1, <2>2
<1>8. v = t  BY <1>5, <1>6, <1>7, SeqEqual DEF m
<1> QED  BY <1>2, <1>8 DEF v, q, n

(* What is left after r lines is a suffix of the whole.                    *)
LEMMA RestSuffix ==
    ASSUME NEW S, NEW s \in Seq(S), NEW t \in Seq(S), NEW r \in 0..Len(s)
    PROVE  IsSuffix(Rest(s, r, t), Rest(s, 0, t))
<1> DEFINE q == Rest(s, r, t)
           z == Rest(s, 0, t)
           m == Len(t)
           n == Len(s)
<1>1. m \in Nat /\ n \in Nat /\ r \in Nat /\ r <= n /\ 0 \in 0..Len(s)
  BY LenProperties
<1>2. /\ q \in Seq(S) /\ Len(q) = (n - r) + m
      /\ \A i \in 1..((n - r) + m) :
            q[i] = IF i <= n - r THEN s[r + i] ELSE t[i - (n - r)]
  BY RestSeq
<1>3. /\ z \in Seq(S) /\ Len(z) = (n - 0) + m
      /\ \A i \in 1..((n - 0) + m) :
            z[i] = IF i <= n - 0 THEN s[0 + i] ELSE t[i - (n - 0)]
  BY <1>1, RestSeq
<1> HIDE DEF q, z, m, n
<1>4. /\ z \in Seq(S) /\ Len(z) = n + m
      /\ \A i \in 1..(n + m) : z[i] = IF i <= n THEN s[i] ELSE t[i - n]
  BY <1>1, <1>3
<1>5. Len(z) - Len(q) = r /\ Len(q) <= Len(z)  BY <1>1, <1>2, <1>4
<1>6. ASSUME NEW i \in 1..Len(q) PROVE q[i] = z[r + i]
  <2>1. /\ i \in 1..((n - r) + m) /\ r + i \in 1..(n + m)
        /\ (i <= n - r <=> r + i <= n) /\ (r + i) - n = i - (n - r)
    BY <1>1, <1>2
  <2>2. q[i] = IF i <= n - r THEN s[r + i] ELSE t[i - (n - r)]
    BY <1>2, <2>1
  <2>3. z[r + i] = IF r + i <= n THEN s[r + i] ELSE t[(r + i) - n]
    BY <1>4, <2>1
  <2> QED  BY <2>1, <2>2, <2>3
<1>7. q \in Seq(S) /\ z \in Seq(S)  BY <1>2, <1>4
<1>8. \A i \in 1..Len(q) : q[i] = z[(Len(z) - Len(q)) + i]
  BY <1>5, <1>6
<1>9. IsSuffix(q, z)  BY <1>5, <1>7, <1>8, SuffixByPlaces
<1> QED  BY <1>9 DEF q, z

(* What was the first part of q is at the end of z, and the other part at  *)
(* its beginning.                                                          *)
Trade(q, z) ==
    \E i \in 0..Len(q) :
        /\ IsPrefix(SubSeq(q, i + 1, Len(q)), z)
        /\ IsSuffix(SubSeq(q, 1, i), z)

(* The files trade places.                                                 *)
LEMMA RestTrade ==
    ASSUME NEW S, NEW s \in Seq(S), NEW t \in Seq(S), NEW r \in 0..Len(s)
    PROVE  Trade(Rest(s, r, t), Rest(t, 0, s))
<1> DEFINE q == Rest(s, r, t)
           z == Rest(t, 0, s)
           m == Len(t)
           n == Len(s)
           k == n - r
           u == SubSeq(q, 1, k)
<1>1. /\ m \in Nat /\ n \in Nat /\ r \in Nat /\ r <= n /\ 0 \in 0..Len(t)
      /\ k \in Nat /\ k + r = n
  BY LenProperties
<1>2. /\ q \in Seq(S) /\ Len(q) = k + m
      /\ \A i \in 1..(k + m) :
            q[i] = IF i <= k THEN s[r + i] ELSE t[i - k]
  BY RestSeq
<1>3. /\ z \in Seq(S) /\ Len(z) = (m - 0) + n
      /\ \A i \in 1..((m - 0) + n) :
            z[i] = IF i <= m - 0 THEN t[0 + i] ELSE s[i - (m - 0)]
  BY <1>1, RestSeq
<1>4. SubSeq(q, k + 1, Len(q)) = t  BY RestDrop
<1> HIDE DEF q, z, m, n, k
<1>5. /\ z \in Seq(S) /\ Len(z) = m + n
      /\ \A i \in 1..(m + n) : z[i] = IF i <= m THEN t[i] ELSE s[i - m]
  BY <1>1, <1>3
<1>6. IsPrefix(t, z)
  <2>1. SubSeq(t, 1, m) = t  BY SubSeqFull DEF m
  <2>2. /\ SubSeq(z, 1, m) \in Seq(S) /\ Len(SubSeq(z, 1, m)) = m
        /\ \A i \in 1..m : SubSeq(z, 1, m)[i] = z[i]
    <3>1. \A i \in 1..m : z[i] \in S  BY <1>1, <1>5, ElementOfSeq
    <3>2. 1 \in Nat \ {0} /\ m \in 0..Len(z)  BY <1>1, <1>5
    <3> QED  BY <1>1, <1>5, <3>1, <3>2, SubSeqProperties
  <2>3. \A i \in 1..m : z[i] = t[i]  BY <1>1, <1>5
  <2>4. SubSeq(z, 1, m) = t
    <3>1. Len(t) = m  BY DEF m
    <3> QED  BY <2>2, <2>3, <3>1, SeqEqual
  <2>5. Len(t) <= Len(z)  BY <1>1, <1>5 DEF m
  <2> QED  BY <2>1, <2>4, <2>5 DEF IsPrefix, m
<1>7. /\ u \in Seq(S) /\ Len(u) = k /\ \A i \in 1..k : u[i] = q[i]
  <2>1. \A i \in 1..k : q[i] \in S  BY <1>1, <1>2, ElementOfSeq
  <2> QED  BY <1>1, <1>2, <2>1, SubSeqProperties
<1> HIDE DEF u
<1>8. /\ Len(u) <= Len(z) /\ Len(z) - Len(u) = m + r
  BY <1>1, <1>5, <1>7
<1>9. ASSUME NEW i \in 1..k PROVE u[i] = z[(m + r) + i]
  <2>1. i \in 1..(k + m) /\ i <= k /\ (m + r) + i \in 1..(m + n)
    BY <1>1
  <2>2. ~((m + r) + i <= m) /\ ((m + r) + i) - m = r + i  BY <1>1
  <2>3. q[i] = s[r + i]  BY <1>2, <2>1
  <2>4. z[(m + r) + i] = s[((m + r) + i) - m]  BY <1>5, <2>1, <2>2
  <2> QED  BY <1>7, <2>2, <2>3, <2>4
<1>10. \A i \in 1..Len(u) : u[i] = z[(Len(z) - Len(u)) + i]
  BY <1>7, <1>8, <1>9
<1>11. IsSuffix(u, z)  BY <1>5, <1>7, <1>8, <1>10, SuffixByPlaces
<1>12. k \in 0..Len(q)  BY <1>1, <1>2
<1>13. Trade(q, z)  BY <1>4, <1>6, <1>11, <1>12 DEF Trade, u
<1> QED  BY <1>13 DEF q, z

(* Rest does not depend on what it leaves out.                             *)
LEMMA SameRest ==
    ASSUME NEW S, NEW s \in Seq(S), NEW u \in Seq(S), NEW t,
           NEW r \in 0..Len(s), Len(u) = Len(s),
           \A i \in 1..Len(s) : i > r => u[i] = s[i]
    PROVE  Rest(u, r, t) = Rest(s, r, t)
<1> DEFINE a == r + 1
           n == Len(s)
           v == SubSeq(s, a, n)
           w == SubSeq(u, a, n)
<1>1. n \in Nat /\ r \in Nat /\ a \in Nat /\ a = r + 1 /\ r <= n
  BY LenProperties
<1>2. \A i \in a..n : s[i] \in S /\ u[i] \in S /\ u[i] = s[i]
  BY <1>1, ElementOfSeq
<1> HIDE DEF a, n
<1>3. a \in 1..(n + 1) /\ n - a + 1 \in Nat  BY <1>1
<1>4. /\ v \in Seq(S) /\ Len(v) = IF a <= n THEN n - a + 1 ELSE 0
      /\ \A i \in 1..(n - a + 1) : v[i] = s[a + i - 1]
  BY <1>1, <1>2, <1>3, SubSeqProperties
<1>5. /\ w \in Seq(S) /\ Len(w) = IF a <= n THEN n - a + 1 ELSE 0
      /\ \A i \in 1..(n - a + 1) : w[i] = u[a + i - 1]
  BY <1>1, <1>2, <1>3, SubSeqProperties
<1> HIDE DEF v, w
<1>6. \A i \in 1..(n - a + 1) : a + i - 1 \in a..n  BY <1>1
<1>7. \A i \in 1..(n - a + 1) : v[i] = w[i]  BY <1>2, <1>4, <1>5, <1>6
<1>8. Len(v) = n - a + 1 /\ Len(w) = n - a + 1  BY <1>1, <1>3, <1>4, <1>5
<1>9. v = w  BY <1>4, <1>5, <1>7, <1>8, SeqEqual
<1> QED  BY <1>9 DEF Rest, v, w, a, n

-----------------------------------------------------------------------------
(* What each operation of filch does to the files and to the unread lines. *)

Risk == Len(file[newer]) - wOff

(* There are two files, ...                                                *)
LEMMA Files ==
    ASSUME FilchInv
    PROVE  /\ newer \in 1..2 /\ older \in 1..2 /\ older # newer
           /\ Other(older) = newer
           /\ \A f \in 1..2 : f = older \/ f = newer
           /\ \/ newer = 1 /\ older = 2
              \/ newer = 2 /\ older = 1
BY DEF FilchInv, older, Other

(* ... and the unread lines are those of the older one behind the read     *)
(* offset and then those of the newer one.                                 *)
LEMMA FileSizes ==
    ASSUME FilchInv
    PROVE  /\ written \in Nat /\ Len(file[newer]) \in Nat
           /\ Len(file[older]) \in Nat
           /\ Len(file[newer]) + Len(file[older]) <= written
           /\ file[newer] \in Seq(1..written) /\ file[older] \in Seq(1..written)
           /\ rOff \in 0..Len(file[older]) /\ wOff \in 0..Len(file[newer])
           /\ newly \in Nat /\ newly <= written
           /\ newly <= Len(file[newer]) + wOff
           /\ Unread = Rest(file[older], rOff, file[newer])
<1>1. written \in Nat /\ file[1] \in Seq(1..written) /\ file[2] \in Seq(1..written)
  BY LogTailAssumption DEF FilchInv
<1>2. Len(file[1]) \in Nat /\ Len(file[2]) \in Nat  BY <1>1, LenProperties
<1>3. /\ Len(file[1]) + Len(file[2]) <= written /\ newly \in 0..written
      /\ wOff \in 0..Len(file[newer]) /\ rOff \in 0..Len(file[older])
      /\ newly <= Len(file[newer]) + wOff
  BY DEF FilchInv, Sizes
<1>4. Unread = Rest(file[older], rOff, file[newer])  BY DEF Unread, Rest
<1>5. \/ newer = 1 /\ older = 2
      \/ newer = 2 /\ older = 1
  BY Files
<1>6. /\ file[newer] \in Seq(1..written) /\ file[older] \in Seq(1..written)
      /\ Len(file[newer]) \in Nat /\ Len(file[older]) \in Nat
  BY <1>1, <1>2, <1>5
<1>7. Len(file[newer]) + Len(file[older]) <= written
  <2> DEFINE a == Len(file[1])
             b == Len(file[2])
  <2>1. \/ Len(file[newer]) = a /\ Len(file[older]) = b
        \/ Len(file[newer]) = b /\ Len(file[older]) = a
    BY <1>5
  <2>2. a \in Nat /\ b \in Nat /\ a + b <= written  BY <1>2, <1>3
  <2> HIDE DEF a, b
  <2>3. CASE Len(file[newer]) = a /\ Len(file[older]) = b
    BY <2>2, <2>3
  <2>4. CASE Len(file[newer]) = b /\ Len(file[older]) = a
    <3>1. b + a <= written  BY <1>1, <2>2
    <3> QED  BY <2>4, <3>1
  <2> QED  BY <2>1, <2>3, <2>4
<1>8. newly \in Nat /\ newly <= written  BY <1>1, <1>3
<1> QED  BY <1>1, <1>3, <1>4, <1>6, <1>7, <1>8

(* Two places in the files with the same line are one place.               *)
LEMMA DistinctLines ==
    ASSUME Distinct, NEW f \in 1..2, NEW g \in 1..2, NEW i, NEW j,
           i \in 1..Len(file[f]), j \in 1..Len(file[g]),
           file[f][i] = file[g][j]
    PROVE  f = g /\ i = j
BY DEF Distinct

(* A new line at an offset of one of the files.                            *)
LEMMA LinePut ==
    ASSUME FilchInv, NEW p \in 1..2, NEW off \in 0..Len(file[p]),
           written < MaxLines, written' = written + 1,
           file' = PutAt(file, p, off, written + 1)
    PROVE  /\ written' \in 0..MaxLines
           /\ file' \in [1..2 -> Seq(1..written')]
           /\ file'[p] = PutLine(file[p], off, written + 1)
           /\ file'[Other(p)] = file[Other(p)]
           /\ Len(file'[p]) \in Nat /\ Len(file'[p]) >= Len(file[p])
           /\ off + 1 \in 0..Len(file'[p])
           /\ Len(file'[1]) + Len(file'[2]) <= written'
           /\ Distinct'
<1> DEFINE o == Other(p)
           s == file[o]
           t == file[p]
           l == written + 1
           u == PutLine(t, off, l)
<1>0. /\ o \in 1..2 /\ o # p /\ \A f \in 1..2 : f = o \/ f = p
      /\ \/ p = newer /\ o = older
         \/ p = older /\ o = newer
  BY Files DEF FilchInv, Other, older
<1>1. /\ written \in Nat /\ s \in Seq(1..written) /\ t \in Seq(1..written)
      /\ Len(s) \in Nat /\ Len(t) \in Nat /\ off \in 0..Len(t)
      /\ Len(t) + Len(s) <= written
  <2>1. CASE p = newer /\ o = older  BY <2>1, FileSizes
  <2>2. CASE p = older /\ o = newer
    <3>1. /\ written \in Nat /\ s \in Seq(1..written) /\ t \in Seq(1..written)
          /\ Len(s) \in Nat /\ Len(t) \in Nat /\ Len(s) + Len(t) <= written
      BY <2>2, FileSizes
    <3>2. off \in 0..Len(t)  OBVIOUS
    <3> HIDE DEF s, t
    <3> QED  BY <3>1, <3>2
  <2> QED  BY <1>0, <2>1, <2>2
<1>3. file' = [file EXCEPT ![p] = u]
  BY DEF PutAt, PutLine
<1>4. l \in Nat /\ l = written + 1 /\ written' = l /\ 1..written \subseteq 1..l
  BY <1>1
<1>6. \A f \in 1..2 : file[f] = IF f = p THEN t ELSE s
  BY <1>0
<1>7. u = PutLine(t, off, written + 1)  OBVIOUS
<1> HIDE DEF o, s, t, l, u
<1>8. /\ u \in Seq(1..l)
      /\ Len(u) = (IF off < Len(t) THEN Len(t) ELSE Len(t) + 1)
      /\ \A i \in 1..Len(u) : u[i] = IF i = off + 1 THEN l ELSE t[i]
  <2>1. written \in Nat /\ t \in Seq(1..written) /\ off \in 0..Len(t)
    BY <1>1
  <2> QED  BY <1>7, <2>1, PutLineSeq DEF l
<1>9. s \in Seq(1..l)  BY <1>1, <1>4, SeqMonotonic
<1>10. \A f \in 1..2 : file'[f] = IF f = p THEN u ELSE s
  BY <1>0, <1>3, <1>6 DEF FilchInv
<1>11. file' \in [1..2 -> Seq(1..l)]
  <2>1. file' = [f \in 1..2 |-> file'[f]]  BY <1>3 DEF FilchInv
  <2> QED  BY <1>8, <1>9, <1>10, <2>1
<1>12. /\ Len(u) \in Nat /\ Len(u) >= Len(t) /\ Len(u) <= Len(t) + 1
       /\ off + 1 \in 0..Len(u)
  BY <1>1, <1>8
<1>13. file'[p] = u /\ file'[o] = s /\ file[o] = s  BY <1>0, <1>6, <1>10
<1>14. Len(file'[1]) + Len(file'[2]) <= written'
  <2>1. \/ file'[1] = u /\ file'[2] = s
        \/ file'[1] = s /\ file'[2] = u
    BY <1>0, <1>10
  <2>2. Len(u) + Len(s) <= written' /\ Len(s) + Len(u) <= written'
    BY <1>1, <1>4, <1>12
  <2> QED  BY <2>1, <2>2
<1>15. Distinct'
  <2>1. ASSUME NEW f \in 1..2, NEW i \in 1..Len(file'[f])
        PROVE  \/ f = p /\ i = off + 1 /\ file'[f][i] = l
               \/ /\ i \in 1..Len(file[f]) /\ file'[f][i] = file[f][i]
                  /\ file[f][i] \in 1..written
    <3>1. CASE f = o
      BY <1>0, <1>1, <1>6, <1>10, <3>1, ElementOfSeq
    <3>2. CASE f = p /\ i = off + 1
      BY <1>8, <1>10, <3>2
    <3>3. CASE f = p /\ i # off + 1
      <4>1. i \in 1..Len(u) /\ file'[f] = u /\ file[f] = t
        BY <1>6, <1>10, <3>3
      <4>2. i \in 1..Len(t) /\ u[i] = t[i]  BY <1>1, <1>8, <3>3, <4>1
      <4> QED  BY <1>1, <4>1, <4>2, ElementOfSeq
    <3> QED  BY <1>0, <3>1, <3>2, <3>3
  <2>2. ASSUME NEW f \in 1..2, NEW g \in 1..2, NEW i \in 1..Len(file'[f]),
               NEW j \in 1..Len(file'[g]), file'[f][i] = file'[g][j]
        PROVE  f = g /\ i = j
    <3>1. ~(l \in 1..written)  BY <1>1, <1>4
    <3>2. \/ f = p /\ i = off + 1 /\ file'[f][i] = l
          \/ /\ i \in 1..Len(file[f]) /\ file'[f][i] = file[f][i]
             /\ file[f][i] \in 1..written
      BY <2>1
    <3>3. \/ g = p /\ j = off + 1 /\ file'[g][j] = l
          \/ /\ j \in 1..Len(file[g]) /\ file'[g][j] = file[g][j]
             /\ file[g][j] \in 1..written
      BY <2>1
    <3>4. Distinct  BY DEF FilchInv
    <3>5. CASE /\ i \in 1..Len(file[f]) /\ file'[f][i] = file[f][i]
               /\ j \in 1..Len(file[g]) /\ file'[g][j] = file[g][j]
      <4>1. file[f][i] = file[g][j]  BY <2>2, <3>5
      <4>2. i \in 1..Len(file[f]) /\ j \in 1..Len(file[g])  BY <3>5
      <4> QED  BY <3>4, <4>1, <4>2, DistinctLines
    <3> QED  BY <2>2, <3>1, <3>2, <3>3, <3>5
  <2> QED  BY <2>2 DEF Distinct
<1>16. written' \in 0..MaxLines  BY <1>1, LogTailAssumption
<1> QED  BY <1>4, <1>7, <1>11, <1>12, <1>13, <1>14, <1>15, <1>16 DEF o, t

(* A line is put at the write offset of the newer file, by Write or        *)
(* through stderr: LogStream appends it, or replaces the first at risk.    *)
LEMMA PutStep ==
    ASSUME FilchInv, written < MaxLines, written' = written + 1,
           file' = PutAt(file, newer, wOff, written + 1), wOff' = wOff + 1,
           newer' = newer, rOff' = rOff, lastMod' = newer,
           newly' \in 0..(written + 1), newly' <= Len(file[newer]) + wOff + 1
    PROVE  /\ FilchInv'
           /\ Risk = 0 => Unread' = Append(Unread, written') /\ Risk' = Risk
           /\ Risk # 0 => /\ Unread' = [Unread EXCEPT ![Len(Unread) - Risk + 1] =
                                           written']
                          /\ Risk' = Risk - 1
<1> DEFINE s == file[older]
           t == file[newer]
           u == PutLine(t, wOff, written + 1)
<1>1. /\ newer \in 1..2 /\ Other(newer) = older /\ written \in Nat
      /\ s \in Seq(1..written) /\ t \in Seq(1..written)
      /\ Len(s) \in Nat /\ Len(t) \in Nat /\ wOff \in 0..Len(t)
      /\ rOff \in 0..Len(s) /\ Unread = Rest(s, rOff, t)
  BY Files, FileSizes DEF older
<1>2. older' = older  BY DEF older
<1>3. /\ written' \in 0..MaxLines /\ file' \in [1..2 -> Seq(1..written')]
      /\ file'[newer] = u /\ file'[older] = s
      /\ Len(u) \in Nat /\ Len(u) >= Len(t) /\ wOff + 1 \in 0..Len(u)
      /\ Len(file'[1]) + Len(file'[2]) <= written' /\ Distinct'
  <2>1. wOff \in 0..Len(file[newer])  BY <1>1
  <2>2. /\ written' \in 0..MaxLines /\ file' \in [1..2 -> Seq(1..written')]
        /\ file'[newer] = PutLine(file[newer], wOff, written + 1)
        /\ file'[Other(newer)] = file[Other(newer)]
        /\ Len(file'[newer]) \in Nat /\ Len(file'[newer]) >= Len(file[newer])
        /\ wOff + 1 \in 0..Len(file'[newer])
        /\ Len(file'[1]) + Len(file'[2]) <= written' /\ Distinct'
    BY <1>1, <2>1, LinePut
  <2> QED  BY <1>1, <2>2
<1>5. Risk = Len(t) - wOff /\ newly' \in 0..written' /\ newly' <= Len(t) + wOff + 1
  BY DEF Risk
<1>7. u = PutLine(t, wOff, written + 1)  OBVIOUS
<1> HIDE DEF s, t, u
<1>13. file'[newer] = u /\ file'[older] = s  BY <1>3
<1>14. Sizes'
  <2>1. /\ wOff' \in 0..Len(u) /\ rOff' \in 0..Len(s)
        /\ newly' \in 0..written' /\ newly' <= Len(u) + wOff'
    BY <1>1, <1>3, <1>5
  <2>2. file'[newer'] = u /\ file'[older'] = s  BY <1>2, <1>13
  <2> QED  BY <1>3, <2>1, <2>2 DEF Sizes
<1>18. FilchInv'  BY <1>1, <1>3, <1>14 DEF FilchInv
<1>19. Unread' = Rest(s, rOff, u)
  BY <1>2, <1>13 DEF Unread, Rest
<1>20. Risk' = Len(u) - (wOff + 1)
  BY <1>13 DEF Risk
<1>21. /\ wOff = Len(t) => Unread' = Append(Unread, written + 1)
                           /\ Len(u) = Len(t) + 1
       /\ wOff # Len(t) =>
            /\ Unread' = [Unread EXCEPT ![Len(Unread) - (Len(t) - wOff) + 1] =
                            written + 1]
            /\ Len(u) = Len(t)
  <2>1. /\ written \in Nat /\ s \in Seq(1..written) /\ t \in Seq(1..written)
        /\ rOff \in 0..Len(s) /\ wOff \in 0..Len(t)
    BY <1>1
  <2>2. Unread = Rest(s, rOff, t)  BY <1>1
  <2>3. LET z == Rest(s, rOff, PutLine(t, wOff, written + 1))
            q == Rest(s, rOff, t)
            m == Len(PutLine(t, wOff, written + 1))
        IN  /\ wOff = Len(t) => z = Append(q, written + 1) /\ m = Len(t) + 1
            /\ wOff # Len(t) =>
                 /\ z = [q EXCEPT ![Len(q) - (Len(t) - wOff) + 1] = written + 1]
                 /\ m = Len(t)
    BY <2>1, PutQueue
  <2> QED  BY <1>7, <1>19, <2>2, <2>3
<1>22. Risk = 0 <=> wOff = Len(t)  BY <1>1, <1>5
<1>23. CASE wOff = Len(t)  BY <1>1, <1>5, <1>18, <1>20, <1>21, <1>22, <1>23
<1>24. CASE wOff # Len(t)
  <2>1. Risk' = Risk - 1  BY <1>1, <1>5, <1>20, <1>21, <1>24
  <2> QED  BY <1>5, <1>18, <1>21, <1>22, <1>24, <2>1
<1> QED  BY <1>23, <1>24

(* A line through stderr reaches the older file, at the offset of the      *)
(* reader: it takes the place of the next unread line, and neither of the  *)
(* two will be read.                                                       *)
LEMMA LateStep ==
    ASSUME FilchInv, written < MaxLines, written' = written + 1,
           file' = PutAt(file, older, rOff, written + 1), rOff' = rOff + 1,
           lastMod' = older, UNCHANGED <<newer, wOff, newly>>
    PROVE  /\ FilchInv'
           /\ Risk' = Risk
           /\ \/ Unread' = Unread
              \/ /\ Unread # << >> /\ Unread' = Tail(Unread)
                 /\ Len(Unread) > Risk
<1> DEFINE s == file[older]
           t == file[newer]
           u == PutLine(s, rOff, written + 1)
<1>1. /\ newer \in 1..2 /\ older \in 1..2 /\ Other(older) = newer
      /\ written \in Nat /\ s \in Seq(1..written) /\ t \in Seq(1..written)
      /\ Len(s) \in Nat /\ Len(t) \in Nat /\ wOff \in 0..Len(t)
      /\ rOff \in 0..Len(s) /\ newly \in Nat /\ newly <= written
      /\ newly <= Len(t) + wOff /\ Unread = Rest(s, rOff, t)
  BY Files, FileSizes
<1>2. older' = older  BY DEF older
<1>3. /\ written' \in 0..MaxLines /\ file' \in [1..2 -> Seq(1..written')]
      /\ file'[older] = u /\ file'[newer] = t
      /\ Len(u) \in Nat /\ Len(u) >= Len(s) /\ rOff + 1 \in 0..Len(u)
      /\ Len(file'[1]) + Len(file'[2]) <= written' /\ Distinct'
  <2>1. rOff \in 0..Len(file[older])  BY <1>1
  <2>2. /\ written' \in 0..MaxLines /\ file' \in [1..2 -> Seq(1..written')]
        /\ file'[older] = PutLine(file[older], rOff, written + 1)
        /\ file'[Other(older)] = file[Other(older)]
        /\ Len(file'[older]) \in Nat /\ Len(file'[older]) >= Len(file[older])
        /\ rOff + 1 \in 0..Len(file'[older])
        /\ Len(file'[1]) + Len(file'[2]) <= written' /\ Distinct'
    BY <1>1, <2>1, LinePut
  <2> QED  BY <1>1, <2>2
<1>4. u = PutLine(s, rOff, written + 1)  OBVIOUS
<1>12. Risk = Len(t) - wOff /\ Risk' = Risk  BY <1>3 DEF Risk
<1> HIDE DEF s, t, u
<1>5. Sizes'
  <2>1. /\ wOff' \in 0..Len(t) /\ rOff' \in 0..Len(u)
        /\ newly' \in 0..written' /\ newly' <= Len(t) + wOff'
    BY <1>1, <1>3
  <2>2. file'[newer'] = t /\ file'[older'] = u  BY <1>2, <1>3
  <2> QED  BY <1>3, <2>1, <2>2 DEF Sizes
<1>6. FilchInv'  BY <1>1, <1>3, <1>5 DEF FilchInv
<1>7. Unread' = Rest(u, rOff + 1, t)  BY <1>2, <1>3 DEF Unread, Rest
<1>8. /\ u \in Seq(1..(written + 1))
      /\ Len(u) = (IF rOff < Len(s) THEN Len(s) ELSE Len(s) + 1)
      /\ \A i \in 1..Len(u) : u[i] = IF i = rOff + 1 THEN written + 1 ELSE s[i]
  <2>1. written \in Nat /\ s \in Seq(1..written) /\ rOff \in 0..Len(s)
    BY <1>1
  <2> QED  BY <1>4, <2>1, PutLineSeq
<1>9. s \in Seq(1..(written + 1)) /\ t \in Seq(1..(written + 1))
  <2>1. 1..written \subseteq 1..(written + 1)  BY <1>1
  <2> QED  BY <1>1, <2>1, SeqMonotonic
<1>10. CASE rOff < Len(s)
  <2>1. Len(u) = Len(s)  BY <1>8, <1>10
  <2>2. rOff + 1 \in 0..Len(s) /\ rOff \in Nat  BY <1>1, <1>10
  <2>3. \A i \in 1..Len(s) : i > rOff + 1 => u[i] = s[i]  BY <1>8, <2>1
  <2>4. Rest(u, rOff + 1, t) = Rest(s, rOff + 1, t)
    BY <1>8, <1>9, <2>1, <2>2, <2>3, SameRest
  <2>5. /\ Rest(s, rOff, t) # << >>
        /\ Tail(Rest(s, rOff, t)) = Rest(s, rOff + 1, t)
    BY <1>1, <1>10, RestNext
  <2>6. Len(Unread) = (Len(s) - rOff) + Len(t)  BY <1>1, RestSeq
  <2>7. Len(Unread) > Risk  BY <1>1, <1>10, <1>12, <2>6
  <2> QED  BY <1>1, <1>6, <1>7, <1>12, <2>4, <2>5, <2>7
<1>11. CASE ~(rOff < Len(s))
  <2>1. rOff = Len(s) /\ Len(u) = rOff + 1  BY <1>1, <1>8, <1>11
  <2>2. Rest(u, Len(u), t) = t  BY <1>8, <1>9, RestEnds
  <2>3. Rest(s, Len(s), t) = t  BY <1>1, RestEnds
  <2> QED  BY <1>1, <1>6, <1>7, <1>12, <2>1, <2>2, <2>3
<1> QED  BY <1>10, <1>11

(* rotateLocked: the newer file becomes the older one, and the other one   *)
(* is emptied and becomes the newer.                                       *)
LEMMA Swapped ==
    ASSUME FilchInv, written' = written, newer' = older, file' = Truncated,
           wOff' = 0, newly' = 0, rOff' \in 0..Len(file[newer]),
           lastMod' \in 1..2
    PROVE  /\ FilchInv' /\ Unread' = Rest(file[newer], rOff', << >>)
           /\ Risk' = 0 /\ ~Mixed'
<1> DEFINE t == file[newer]
<1>1. /\ newer \in 1..2 /\ older \in 1..2 /\ older # newer
      /\ \A f \in 1..2 : f = older \/ f = newer
  BY Files
<1>2. older' = newer  BY Files DEF older
<1>3. /\ written \in Nat /\ Len(t) \in Nat /\ t \in Seq(1..written)
      /\ Len(t) <= written
  <2>1. /\ written \in Nat /\ Len(t) \in Nat /\ t \in Seq(1..written)
        /\ Len(file[older]) \in Nat /\ Len(t) + Len(file[older]) <= written
    BY FileSizes
  <2> HIDE DEF t
  <2> QED  BY <2>1
<1>4. << >> \in Seq(1..written) /\ Len(<< >>) = 0  BY EmptySeq
<1>5. file'[older] = << >> /\ file'[newer] = t
  BY <1>1 DEF FilchInv, Truncated
<1>6. file' \in [1..2 -> Seq(1..written')]  BY <1>4 DEF FilchInv, Truncated
<1>7. Sizes'
  <2>1. \/ file'[1] = << >> /\ file'[2] = t
        \/ file'[1] = t /\ file'[2] = << >>
    BY <1>1, <1>5
  <2> HIDE DEF t
  <2>2. Len(file'[1]) + Len(file'[2]) <= written'
    <3>1. 0 + Len(t) <= written' /\ Len(t) + 0 <= written'  BY <1>3
    <3> QED  BY <1>4, <2>1, <3>1
  <2>3. rOff' \in 0..Len(t)  BY DEF t
  <2>4. /\ wOff' \in 0..0 /\ newly' \in 0..written' /\ newly' <= 0 + wOff'
    BY <1>3
  <2> QED  BY <1>2, <1>4, <1>5, <2>2, <2>3, <2>4 DEF Sizes
<1>8. Distinct'
  <2>1. \A f \in 1..2 : 1..Len(file'[f]) # {} => f = newer
    BY <1>1, <1>4, <1>5
  <2>2. \A i, j \in 1..Len(t) : t[i] = t[j] => i = j
    BY <1>1 DEF FilchInv, Distinct
  <2> HIDE DEF t
  <2> QED  BY <1>5, <2>1, <2>2 DEF Distinct
<1>9. ~Mixed'  BY <1>1, <1>5 DEF Mixed
<1>10. FilchInv'  BY <1>1, <1>6, <1>7, <1>8 DEF FilchInv
<1>11. Unread' = Rest(file[newer], rOff', << >>)
  BY <1>2, <1>5 DEF Unread, Rest
<1>12. Risk' = 0  BY <1>4, <1>5 DEF Risk
<1> QED  BY <1>9, <1>10, <1>11, <1>12

(* A Write that finds the newer file full drops what is unread in the      *)
(* older one, and more than half the limit is left.                        *)
LEMMA RotateStep ==
    ASSUME FilchInv, FilchRotate, written' = written
    PROVE  /\ FilchInv' /\ Risk' = 0 /\ ~Mixed'
           /\ \E n \in 0..Len(Unread) :
                /\ Len(Unread) - n >= MaxFileSize \div 2 + 1
                /\ Unread' = SubSeq(Unread, n + 1, Len(Unread))
<1> DEFINE s == file[older]
           t == file[newer]
           n == Len(s) - rOff
<1>1. /\ written \in Nat /\ s \in Seq(1..written) /\ t \in Seq(1..written)
      /\ Len(s) \in Nat /\ Len(t) \in Nat /\ rOff \in 0..Len(s)
      /\ wOff \in 0..Len(t) /\ newly \in Nat /\ newly <= Len(t) + wOff
      /\ Unread = Rest(s, rOff, t)
  BY FileSizes
<1>2. older \in 1..2  BY Files
<1>3. /\ FilchInv' /\ Unread' = Rest(t, 0, << >>) /\ Risk' = 0 /\ ~Mixed'
  <2>1. /\ file' = Truncated /\ newer' = older /\ wOff' = 0 /\ rOff' = 0
        /\ newly' = 0 /\ lastMod' \in 1..2
    BY <1>2 DEF FilchRotate, FilchInv
  <2>2. rOff' \in 0..Len(file[newer])  BY <1>1, <2>1
  <2>3. /\ FilchInv' /\ Unread' = Rest(file[newer], rOff', << >>) /\ Risk' = 0
        /\ ~Mixed'
    BY <2>1, <2>2, Swapped
  <2> QED  BY <2>1, <2>3
<1>4. Unread' = t  BY <1>1, <1>3, RestEnds
<1>5. Len(Unread) = n + Len(t)  BY <1>1, RestSeq
<1>6. SubSeq(Unread, n + 1, Len(Unread)) = t
  BY <1>1, RestDrop
<1>7. Len(t) >= MaxFileSize \div 2 + 1
  <2> DEFINE m == Len(t)
             h == MaxFileSize \div 2
             size == SizeSeen(TRUE)
  <2>0. size > MaxFileSize /\ (size = m \/ size = newly)
    BY DEF FilchRotate, SizeSeen
  <2> HIDE DEF size
  <2>1. m \in Nat /\ m + m > MaxFileSize
    <3>1. size \in Nat /\ size <= m + m  BY <1>1, <2>0
    <3> QED  BY <1>1, <2>0, <3>1, LogTailAssumption
  <2>2. h \in Nat /\ h + h <= MaxFileSize /\ MaxFileSize <= h + h + 1
    BY LogTailAssumption
  <2> HIDE DEF m, h
  <2>3. m >= h + 1  BY <2>1, <2>2, LogTailAssumption
  <2> QED  BY <2>3 DEF m, h
<1>8. n \in Nat /\ n \in 0..Len(Unread) /\ Len(Unread) - n = Len(t)
  <2>1. n \in Nat  BY <1>1
  <2> HIDE DEF n, t
  <2> QED  BY <1>1, <1>5, <2>1
<1> HIDE DEF n, t
<1>9. /\ Len(Unread) - n >= MaxFileSize \div 2 + 1
      /\ Unread' = SubSeq(Unread, n + 1, Len(Unread))
  BY <1>4, <1>6, <1>7, <1>8
<1> QED  BY <1>3, <1>8, <1>9

(* The reader takes the next line of the older file.                       *)
LEMMA ReadStep ==
    ASSUME FilchInv, rOff < Len(file[older]), rOff' = rOff + 1,
           UNCHANGED <<file, lastMod, newer, wOff, newly, written>>
    PROVE  /\ FilchInv' /\ Risk' = Risk /\ Mixed' = Mixed /\ Unread # << >>
           /\ Head(Unread) = file[older][rOff + 1] /\ Unread' = Tail(Unread)
           /\ file[older][rOff + 1] \in 1..written
<1>1. older' = older  BY DEF older
<1>2. /\ written \in Nat /\ file[newer] \in Seq(1..written)
      /\ file[older] \in Seq(1..written) /\ Len(file[older]) \in Nat
      /\ rOff \in 0..Len(file[older])
      /\ Unread = Rest(file[older], rOff, file[newer])
  BY FileSizes
<1>3. rOff' \in 0..Len(file[older]) /\ rOff + 1 \in 1..Len(file[older])
  BY <1>2
<1>4. Sizes'  BY <1>1, <1>3 DEF FilchInv, Sizes
<1>5. Distinct'  BY DEF FilchInv, Distinct
<1>6. FilchInv' /\ Mixed' = Mixed  BY <1>4, <1>5 DEF FilchInv, Mixed
<1>7. Unread' = Rest(file[older], rOff + 1, file[newer])
  BY <1>1 DEF Unread, Rest
<1>8. /\ Unread # << >> /\ Head(Unread) = file[older][rOff + 1]
      /\ Tail(Unread) = Rest(file[older], rOff + 1, file[newer])
  BY <1>2, RestNext
<1>9. file[older][rOff + 1] \in 1..written  BY <1>2, <1>3, ElementOfSeq
<1> QED  BY <1>6, <1>7, <1>8, <1>9 DEF Risk

(* The reader has read the older file and rotates: it takes the first line *)
(* of the other, or finds that there is none.                              *)
LEMMA TurnStep ==
    ASSUME FilchInv, ~(rOff < Len(file[older])), file' = Truncated,
           lastMod' = (IF file[older] # << >> THEN older ELSE lastMod),
           newer' = older, wOff' = 0, newly' = 0, written' = written,
           rOff' = IF file[newer] # << >> THEN 1 ELSE 0
    PROVE  /\ FilchInv' /\ Risk' = 0 /\ ~Mixed'
           /\ file[newer] # << >> =>
                /\ Unread # << >> /\ Head(Unread) = Head(file[newer])
                /\ Unread' = Tail(Unread) /\ Head(file[newer]) \in 1..written
           /\ file[newer] = << >> => Unread' = Unread /\ Risk = 0 /\ ~Mixed
<1> DEFINE s == file[older]
           t == file[newer]
<1>1. /\ written \in Nat /\ s \in Seq(1..written) /\ t \in Seq(1..written)
      /\ Len(s) \in Nat /\ Len(t) \in Nat /\ rOff \in 0..Len(s)
      /\ wOff \in 0..Len(t) /\ Unread = Rest(s, rOff, t)
  BY FileSizes
<1>2. older \in 1..2  BY Files
<1>3. rOff = Len(s)  BY <1>1
<1>5. t # << >> => Len(t) \in Nat \ {0}  BY <1>1, EmptySeq
<1>6. /\ FilchInv' /\ Unread' = Rest(t, rOff', << >>) /\ Risk' = 0 /\ ~Mixed'
  <2>1. rOff' \in 0..Len(file[newer]) /\ lastMod' \in 1..2
    BY <1>1, <1>2, <1>5 DEF FilchInv
  <2> QED  BY <2>1, Swapped
<1>7. Unread = t  BY <1>1, <1>3, RestEnds
<1> HIDE DEF s
<1>8. ASSUME t # << >>
      PROVE  /\ Unread # << >> /\ Head(Unread) = Head(t)
             /\ Unread' = Tail(Unread) /\ Head(t) \in 1..written
  <2>1. rOff' = 1  BY <1>8
  <2> HIDE DEF t
  <2>2. Rest(t, 1, << >>) = Tail(t)  BY <1>1, <1>8, RestEnds
  <2>3. Head(t) \in 1..written  BY <1>1, <1>8, HeadTailProperties
  <2> QED  BY <1>6, <1>7, <1>8, <2>1, <2>2, <2>3
<1>9. ASSUME t = << >>
      PROVE  Unread' = Unread /\ Risk = 0 /\ ~Mixed
  <2>0. ~Mixed  BY <1>9, Files DEF Mixed
  <2>1. rOff' = 0  BY <1>9
  <2>2. Rest(t, 0, << >>) = t  BY <1>1, RestEnds
  <2>3. Len(t) = 0 /\ wOff = 0  BY <1>1, <1>9, EmptySeq
  <2>4. Risk = 0  BY <2>3 DEF Risk
  <2> HIDE DEF t
  <2> QED  BY <1>6, <1>7, <2>0, <2>1, <2>2, <2>4
<1> QED  BY <1>6, <1>8, <1>9

(* New: whatever the files were called before, the unread lines are at the *)
(* end of what will be read, and nothing is there twice.                   *)
LEMMA OpenStep ==
    ASSUME FilchInv, FilchNew, written' = written
    PROVE  /\ FilchInv' /\ IsInjective(Unread')
           /\ IsSuffix(Unread, Unread') \/ (Mixed /\ Trade(Unread, Unread'))
           /\ ~Mixed' /\ ToSet(Unread') \subseteq 1..written
           /\ Risk' \in 0..Len(Unread')
<1> DEFINE s == file[older]
           t == file[newer]
           a == file[older']
           b == file[newer']
           S == 1..written
<1>1. /\ written \in Nat /\ s \in Seq(S) /\ t \in Seq(S)
      /\ Len(s) \in Nat /\ Len(t) \in Nat /\ rOff \in 0..Len(s)
      /\ Len(t) + Len(s) <= written /\ Unread = Rest(s, rOff, t)
  BY FileSizes
<1>2. /\ newer \in 1..2 /\ older \in 1..2 /\ older # newer
      /\ \/ newer = 1 /\ older = 2
         \/ newer = 2 /\ older = 1
  BY Files
<1>3. /\ newer' = NewerOnOpen /\ wOff' = 0 /\ rOff' = 0
      /\ newly' = Len(file[newer']) /\ file' = file /\ lastMod' = lastMod
  BY DEF FilchNew
<1>4. newer' \in 1..2 /\ older' \in 1..2 /\ older' # newer'
  BY <1>3 DEF NewerOnOpen, FilchInv, older, Other
<1>5. \/ newer' = newer /\ older' = older
      \/ newer' = older /\ older' = newer
  BY <1>2, <1>4
<1>6. s # << >> /\ t # << >> => newer' = lastMod
  <2> SUFFICES ASSUME s # << >>, t # << >> PROVE newer' = lastMod
    OBVIOUS
  <2>1. file[1] # << >> /\ file[2] # << >>  BY <1>2
  <2>2. Len(file[1]) # 0 /\ Len(file[2]) # 0
    BY <2>1, EmptySeq DEF FilchInv
  <2>3. NewerOnOpen = lastMod  BY <2>2 DEF NewerOnOpen
  <2> QED  BY <1>3, <2>3
<1>7. /\ a \in Seq(S) /\ b \in Seq(S) /\ Len(a) \in Nat /\ Len(b) \in Nat
      /\ Len(b) <= written
  <2>1. \/ a = s /\ b = t
        \/ a = t /\ b = s
    BY <1>5
  <2>2. Len(s) <= written /\ Len(t) <= written
    <3> HIDE DEF s, t
    <3> QED  BY <1>1
  <2> HIDE DEF a, b, s, t, S
  <2> QED  BY <1>1, <2>1, <2>2
<1>8. FilchInv'
  <2>1. Sizes'
    <3>1. /\ wOff' \in 0..Len(b) /\ rOff' \in 0..Len(a)
          /\ newly' \in 0..written' /\ newly' <= Len(b) + wOff'
      <4>1. newly' = Len(b)  BY <1>3
      <4> HIDE DEF a, b
      <4> QED  BY <1>1, <1>3, <1>7, <4>1
    <3> QED  BY <1>3, <3>1 DEF Sizes, FilchInv
  <2>2. Distinct'  BY <1>3 DEF FilchInv, Distinct
  <2> QED  BY <1>3, <1>4, <2>1, <2>2 DEF FilchInv
<1>15. ~Mixed'
  <2>1. file[1] # << >> /\ file[2] # << >> => s # << >> /\ t # << >>
    BY <1>2
  <2> QED  BY <1>3, <1>6, <2>1 DEF Mixed
<1>9. Unread' = Rest(a, 0, b)  BY <1>3 DEF Unread, Rest
<1>10. IsSuffix(Unread, Unread') \/ (Mixed /\ Trade(Unread, Unread'))
  <2>1. ASSUME Unread' = Rest(s, 0, t) PROVE IsSuffix(Unread, Unread')
    <3> HIDE DEF s, t, S
    <3> QED  BY <1>1, <2>1, RestSuffix
  <2>2. CASE newer' = newer /\ older' = older
    BY <1>9, <2>1, <2>2
  <2>3. CASE newer' = older /\ older' = newer
    <3>1. Unread' = Rest(t, 0, s)  BY <1>9, <2>3
    <3>2. s # << >> /\ t # << >> => Mixed
      BY <1>2, <1>6, <2>3 DEF Mixed
    <3> HIDE DEF s, t, S
    <3>3. CASE s = << >>
      BY <1>1, <2>1, <3>1, <3>3, RestEnds
    <3>4. CASE t = << >>
      BY <1>1, <2>1, <3>1, <3>4, RestEnds
    <3>5. Trade(Unread, Unread')  BY <1>1, <3>1, RestTrade
    <3> QED  BY <3>2, <3>3, <3>4, <3>5
  <2> QED  BY <1>5, <2>2, <2>3
<1>11. /\ Unread' \in Seq(S) /\ Len(Unread') = Len(a) + Len(b)
       /\ \A i \in 1..(Len(a) + Len(b)) :
             Unread'[i] = IF i <= Len(a) THEN a[i] ELSE b[i - Len(a)]
  <2> HIDE DEF a, b, S
  <2> DEFINE q == Rest(a, 0, b)
  <2>1. /\ q \in Seq(S) /\ Len(q) = (Len(a) - 0) + Len(b)
        /\ \A i \in 1..((Len(a) - 0) + Len(b)) :
              q[i] = IF i <= Len(a) - 0 THEN a[0 + i] ELSE b[i - (Len(a) - 0)]
    <3>1. 0 \in 0..Len(a)  BY <1>7
    <3> QED  BY <1>7, <3>1, RestSeq
  <2>2. Unread' = q  BY <1>9
  <2> HIDE DEF q
  <2> QED  BY <1>7, <2>1, <2>2
<1>12. IsInjective(Unread')
  <2>1. ASSUME NEW i \in 1..Len(Unread')
        PROVE  \/ i \in 1..Len(a) /\ Unread'[i] = a[i]
               \/ /\ i > Len(a) /\ i - Len(a) \in 1..Len(b)
                  /\ Unread'[i] = b[i - Len(a)]
    <3> HIDE DEF a, b
    <3>1. i \in 1..(Len(a) + Len(b))  BY <1>11
    <3> QED  BY <1>7, <1>11, <3>1
  <2>2. ASSUME NEW i \in 1..Len(Unread'), NEW j \in 1..Len(Unread'),
               Unread'[i] = Unread'[j]
        PROVE  i = j
    <3>1. \/ i \in 1..Len(a) /\ Unread'[i] = a[i]
          \/ /\ i > Len(a) /\ i - Len(a) \in 1..Len(b)
             /\ Unread'[i] = b[i - Len(a)]
      BY <2>1
    <3>2. \/ j \in 1..Len(a) /\ Unread'[j] = a[j]
          \/ /\ j > Len(a) /\ j - Len(a) \in 1..Len(b)
             /\ Unread'[j] = b[j - Len(a)]
      BY <2>1
    <3>3. Distinct  BY DEF FilchInv
    <3>4. \A k, m : k \in 1..Len(a) /\ m \in 1..Len(a) /\ a[k] = a[m] => k = m
      BY <1>4, <3>3, DistinctLines
    <3>5. \A k, m : k \in 1..Len(b) /\ m \in 1..Len(b) /\ b[k] = b[m] => k = m
      BY <1>4, <3>3, DistinctLines
    <3>6. \A k, m : k \in 1..Len(a) /\ m \in 1..Len(b) => a[k] # b[m]
      BY <1>4, <3>3, DistinctLines
    <3> HIDE DEF a, b
    <3>7. CASE i \in 1..Len(a) /\ j \in 1..Len(a)
      BY <1>7, <2>2, <3>1, <3>2, <3>4, <3>7
    <3>8. CASE i > Len(a) /\ j > Len(a)
      <4>1. /\ i - Len(a) \in 1..Len(b) /\ Unread'[i] = b[i - Len(a)]
            /\ j - Len(a) \in 1..Len(b) /\ Unread'[j] = b[j - Len(a)]
        BY <1>7, <3>1, <3>2, <3>8
      <4>2. b[i - Len(a)] = b[j - Len(a)]  BY <2>2, <4>1
      <4>3. i - Len(a) = j - Len(a)  BY <3>5, <4>1, <4>2
      <4> QED  BY <1>7, <4>3
    <3>9. CASE i \in 1..Len(a) /\ j > Len(a)
      BY <1>7, <2>2, <3>1, <3>2, <3>6, <3>9
    <3>10. CASE i > Len(a) /\ j \in 1..Len(a)
      BY <1>7, <2>2, <3>1, <3>2, <3>6, <3>10
    <3> QED  BY <3>1, <3>2, <3>7, <3>8, <3>9, <3>10
  <2>3. DOMAIN Unread' = 1..Len(Unread')  BY <1>11, LenProperties
  <2> QED  BY <2>2, <2>3 DEF IsInjective
<1>13. ToSet(Unread') \subseteq 1..written
  <2>1. DOMAIN Unread' = 1..Len(Unread')  BY <1>11, LenProperties
  <2>2. \A i \in 1..Len(Unread') : Unread'[i] \in S  BY <1>11, ElementOfSeq
  <2> QED  BY <2>1, <2>2 DEF ToSet
<1>14. Risk' \in 0..Len(Unread')
  <2>1. Risk' = Len(b) - 0  BY <1>3 DEF Risk
  <2> HIDE DEF a, b
  <2> QED  BY <1>7, <1>11, <2>1
<1> QED  BY <1>8, <1>10, <1>12, <1>13, <1>14, <1>15

(* An operation that leaves the files alone.                               *)
LEMMA SameFiles ==
    ASSUME FilchInv, UNCHANGED <<files, written>>
    PROVE  FilchInv' /\ Unread' = Unread /\ Risk' = Risk /\ Mixed' = Mixed
<1>1. UNCHANGED <<file, lastMod, newer, wOff, rOff, newly, written>>
  BY DEF files
<1>2. older' = older  BY <1>1 DEF older
<1>3. Sizes'  BY <1>1, <1>2 DEF FilchInv, Sizes
<1>4. Distinct'  BY <1>1 DEF FilchInv, Distinct
<1>5. Mixed' = Mixed  BY <1>1 DEF Mixed
<1> QED  BY <1>1, <1>2, <1>3, <1>4, <1>5 DEF FilchInv, Unread, Risk

-----------------------------------------------------------------------------
(* Every step of LogTail is one of LogStream, or none.                     *)

StreamStep == [Stream!Next]_(Stream!vars)

(* The operators on sequences are the same in both specifications.         *)
LEMMA SameOperators ==
    ASSUME NEW s, NEW t
    PROVE  /\ IsSuffix(s, t) = Stream!IsSuffix(s, t)
           /\ IsPrefix(s, t) = Stream!IsPrefix(s, t)
           /\ IsInjective(s) = Stream!IsInjective(s)
           /\ ToSet(s) = Stream!ToSet(s)
BY DEF IsSuffix, IsPrefix, Reverse, Stream!IsSuffix, Stream!IsPrefix,
       Stream!Reverse, IsInjective, Stream!IsInjective, ToSet, Stream!ToSet

(* The lines of the uploader are still lines that have been written.       *)
LEMMA BatchGrows ==
    ASSUME FilchInv, Batch, written' = written + 1, UNCHANGED <<body, received>>
    PROVE  Batch'
<1>1. written \in Nat  BY FileSizes
<1>2. 1..written \subseteq 1..written'  BY <1>1
<1>3. body \in Seq(1..written')  BY <1>2, SeqMonotonic DEF Batch
<1> QED  BY <1>2, <1>3 DEF Batch

(* A line is put into the newer file, by Write or through stderr.          *)
LEMMA WriteStep ==
    ASSUME IInv, Write \/ WriteRotated \/ StderrWrite
    PROVE  FilchInv' /\ StreamStep
<1>1. /\ written < MaxLines /\ written' = written + 1
      /\ UNCHANGED <<body, received, shut>>
  <2>1. written \in Nat /\ RawLines \subseteq 1..MaxLines /\ MaxLines \in Nat
    BY FileSizes, LogTailAssumption DEF IInv
  <2>2. CASE Write \/ WriteRotated  BY <2>2 DEF Write, WriteRotated, uploader
  <2>3. CASE StderrWrite
    <3>1. /\ written + 1 \in 1..MaxLines /\ written' = written + 1
          /\ UNCHANGED <<body, received, shut>>
      BY <2>1, <2>3 DEF StderrWrite, RawLine, uploader
    <3> QED  BY <2>1, <3>1
  <2> QED  BY <2>2, <2>3
<1>2. /\ FilchInv /\ written \in Nat /\ newly \in Nat /\ newly <= written
      /\ wOff \in Nat /\ Len(file[newer]) \in Nat
      /\ Len(file[newer]) <= written /\ newly <= Len(file[newer]) + wOff
  <2>1. FilchInv  BY DEF IInv
  <2>2. /\ Len(file[older]) \in Nat /\ written \in Nat
        /\ Len(file[newer]) \in Nat /\ wOff \in 0..Len(file[newer])
        /\ Len(file[newer]) + Len(file[older]) <= written
        /\ newly \in Nat /\ newly <= written
        /\ newly <= Len(file[newer]) + wOff
    BY <2>1, FileSizes
  <2>3. Len(file[newer]) <= written /\ wOff \in Nat
    <3> DEFINE m == Len(file[newer])
               n == Len(file[older])
    <3>1. /\ m \in Nat /\ n \in Nat /\ written \in Nat /\ m + n <= written
          /\ wOff \in 0..m
      BY <2>2
    <3> HIDE DEF m, n
    <3>2. m <= written /\ wOff \in Nat  BY <3>1
    <3> QED  BY <3>2 DEF m
  <2> QED  BY <2>1, <2>2, <2>3
<1>3. ASSUME file' = PutAt(file, newer, wOff, written + 1), wOff' = wOff + 1,
             newer' = newer, rOff' = rOff, lastMod' = newer,
             newly' \in 0..(written + 1),
             newly' <= Len(file[newer]) + wOff + 1
      PROVE  FilchInv' /\ StreamStep
  <2>1. /\ FilchInv'
        /\ Risk = 0 => Unread' = Append(Unread, written') /\ Risk' = Risk
        /\ Risk # 0 => /\ Unread' = [Unread EXCEPT ![Len(Unread) - Risk + 1] =
                                        written']
                       /\ Risk' = Risk - 1
    BY <1>1, <1>2, <1>3, PutStep
  <2>3. ~Mixed'  BY <1>3 DEF Mixed
  <2>2. Stream!Put  BY <1>1, <2>1, <2>3 DEF Stream!Put, Risk
  <2> QED  BY <2>1, <2>2 DEF StreamStep, Stream!Next
<1>4. ASSUME NEW size, size = newly \/ size = Len(file[newer]),
             FilchPut(written + 1, size)
      PROVE  FilchInv' /\ StreamStep
  <2>1. /\ file' = PutAt(file, newer, wOff, written + 1) /\ wOff' = wOff + 1
        /\ newer' = newer /\ rOff' = rOff /\ lastMod' = newer
        /\ newly' = size + 1
    BY <1>4 DEF FilchPut
  <2>2. newly' \in 0..(written + 1) /\ newly' <= Len(file[newer]) + wOff + 1
    BY <1>2, <1>4, <2>1
  <2> QED  BY <1>3, <2>1, <2>2
<1>5. CASE StderrWrite
  <2>1. /\ file' = PutAt(file, newer, wOff, written + 1) /\ wOff' = wOff + 1
        /\ newer' = newer /\ rOff' = rOff /\ lastMod' = newer
        /\ newly' = newly
    BY <1>1, <1>5 DEF StderrWrite
  <2>2. newly \in 0..(written + 1) /\ newly <= Len(file[newer]) + wOff + 1
    BY <1>2
  <2> QED  BY <1>3, <2>1, <2>2
<1>6. CASE Write
  <2>1. PICK stat \in {newly > MaxFileSize, TRUE} :
            FilchPut(written + 1, SizeSeen(stat))
    BY <1>6 DEF Write, FilchWrite
  <2> DEFINE size == SizeSeen(stat)
  <2>2. size = newly \/ size = Len(file[newer])  BY DEF SizeSeen
  <2> HIDE DEF size
  <2> QED  BY <1>4, <2>1, <2>2 DEF size
<1>7. CASE WriteRotated
  BY <1>4, <1>7 DEF WriteRotated
<1> QED  BY <1>5, <1>6, <1>7

(* A Write that rotates the files first.                                   *)
LEMMA OverflowStep ==
    ASSUME IInv, WriteRotates
    PROVE  FilchInv' /\ Batch' /\ StreamStep
<1>1. /\ FilchInv /\ Batch /\ FilchRotate
      /\ UNCHANGED <<written, received, body, shut>>
  BY DEF IInv, WriteRotates, uploader, lines
<1>2. /\ FilchInv' /\ Risk' = 0 /\ ~Mixed'
      /\ \E n \in 0..Len(Unread) :
           /\ Len(Unread) - n >= MaxFileSize \div 2 + 1
           /\ Unread' = SubSeq(Unread, n + 1, Len(Unread))
  BY <1>1, RotateStep
<1>3. Stream!Drop  BY <1>1, <1>2 DEF Stream!Drop, Risk
<1>4. Batch'  BY <1>1 DEF Batch
<1> QED  BY <1>2, <1>3, <1>4 DEF StreamStep, Stream!Next

(* A line through stderr that comes after the rotation.                    *)
LEMMA LateKeeps ==
    ASSUME IInv, StderrLate
    PROVE  /\ FilchInv' /\ Batch' /\ StreamStep
           /\ \/ Unread' = Unread
              \/ Unread # << >> /\ Unread' = Tail(Unread)
<1>1. /\ FilchInv /\ Batch /\ written' = written + 1 /\ written' \in RawLines
      /\ UNCHANGED <<body, received, shut>>
  BY DEF IInv, StderrLate, RawLine, uploader
<1>2. written < MaxLines
  <2>1. written \in Nat /\ RawLines \subseteq 1..MaxLines /\ MaxLines \in Nat
    BY <1>1, FileSizes, LogTailAssumption
  <2>2. written + 1 \in 1..MaxLines  BY <2>1 DEF StderrLate, RawLine
  <2> QED  BY <2>1, <2>2
<1>3. /\ file' = PutAt(file, older, rOff, written + 1) /\ rOff' = rOff + 1
      /\ lastMod' = older /\ UNCHANGED <<newer, wOff, newly>>
  BY <1>1 DEF StderrLate
<1>4. Batch'  BY <1>1, BatchGrows
<1>5. /\ FilchInv' /\ Risk' = Risk
      /\ \/ Unread' = Unread
         \/ /\ Unread # << >> /\ Unread' = Tail(Unread)
            /\ Len(Unread) > Risk
  BY <1>1, <1>2, <1>3, LateStep
<1>6. Mixed' \in BOOLEAN  BY DEF Mixed
<1>7. Stream!Stray  BY <1>1, <1>2, <1>5, <1>6 DEF Stream!Stray, Risk
<1> QED  BY <1>4, <1>5, <1>7 DEF StreamStep, Stream!Next

(* One turn of drainPending reads a line, finds none, or has enough.       *)
LEMMA DrainStep ==
    ASSUME IInv, Drain
    PROVE  /\ FilchInv' /\ Batch' /\ StreamStep
           /\ at' \in {"drain", "block", "upload"}
<1>1. /\ FilchInv /\ Batch /\ at = "drain"
      /\ UNCHANGED <<shut, cancelled, written, received>>
  BY DEF IInv, Drain, lines
<1>2. body \in Seq(1..written) /\ Len(body) \in Nat /\ Len(body) <= MaxBatch
  BY <1>1, LenProperties DEF Batch
<1>3. ASSUME NEW l \in 1..written, body' = Append(body, l),
             Len(body) < MaxBatch
      PROVE  Batch'
  <2>1. body' \in Seq(1..written) /\ Len(body') = Len(body) + 1
    BY <1>2, <1>3, AppendProperties
  <2>2. Len(body') <= MaxBatch
    BY <1>2, <1>3, <2>1, LogTailAssumption
  <2> QED  BY <1>1, <2>1, <2>2 DEF Batch
<1>4. ASSUME UNCHANGED body PROVE Batch'
  BY <1>1, <1>4 DEF Batch
<1>5. ASSUME FilchInv', Unread # << >>, Unread' = Tail(Unread),
             body' = Append(body, Head(Unread)), Risk' = Risk \/ Risk' = 0,
             Mixed' = Mixed \/ Mixed' = FALSE
      PROVE  StreamStep
  <2>1. Stream!Take  BY <1>1, <1>5 DEF Stream!Take, Risk
  <2> QED  BY <2>1 DEF StreamStep, Stream!Next
<1>6. ASSUME Unread' = Unread, Risk' = Risk, Mixed' = Mixed, UNCHANGED body
      PROVE  StreamStep
  BY <1>1, <1>6 DEF StreamStep, Stream!vars, Risk
<1>7. CASE ~(Len(body) < MaxBatch)
  <2>1. at' = "upload" /\ UNCHANGED <<files, body>>  BY <1>7 DEF Drain, filch
  <2>2. FilchInv' /\ Unread' = Unread /\ Risk' = Risk /\ Mixed' = Mixed
    BY <1>1, <2>1, SameFiles
  <2> QED  BY <1>4, <1>6, <2>1, <2>2
<1>8. CASE Len(body) < MaxBatch /\ rOff < Len(file[older])
  <2>1. /\ body' = Append(body, file[older][rOff + 1]) /\ rOff' = rOff + 1
        /\ UNCHANGED <<file, lastMod, newer, wOff, newly, at>>
    BY <1>8 DEF Drain, TryReadLine
  <2>2. /\ FilchInv' /\ Risk' = Risk /\ Mixed' = Mixed /\ Unread # << >>
        /\ Head(Unread) = file[older][rOff + 1] /\ Unread' = Tail(Unread)
        /\ file[older][rOff + 1] \in 1..written
    BY <1>1, <1>8, <2>1, ReadStep
  <2> QED  BY <1>1, <1>3, <1>5, <1>8, <2>1, <2>2
<1>9. CASE Len(body) < MaxBatch /\ ~(rOff < Len(file[older]))
  <2>1. /\ file' = Truncated
        /\ lastMod' = (IF file[older] # << >> THEN older ELSE lastMod)
        /\ newer' = older /\ wOff' = 0 /\ newly' = 0
        /\ file[newer] # << >> => /\ body' = Append(body, Head(file[newer]))
                                  /\ rOff' = 1 /\ at' = at
        /\ file[newer] = << >> => /\ rOff' = 0 /\ body' = body
                                  /\ at' \in {"block", "upload"}
    BY <1>9 DEF Drain, TryReadLine
  <2>2. rOff' = IF file[newer] # << >> THEN 1 ELSE 0  BY <2>1
  <2>3. /\ FilchInv' /\ Risk' = 0 /\ Mixed' = FALSE
        /\ file[newer] # << >> =>
             /\ Unread # << >> /\ Head(Unread) = Head(file[newer])
             /\ Unread' = Tail(Unread) /\ Head(file[newer]) \in 1..written
        /\ file[newer] = << >> => Unread' = Unread /\ Risk = 0 /\ Mixed = FALSE
    BY <1>1, <1>9, <2>1, <2>2, TurnStep
  <2>4. CASE file[newer] # << >>
    BY <1>1, <1>3, <1>5, <1>9, <2>1, <2>3, <2>4
  <2>5. CASE file[newer] = << >>
    BY <1>4, <1>6, <2>1, <2>3, <2>5
  <2> QED  BY <2>4, <2>5
<1> QED  BY <1>7, <1>8, <1>9

(* The process is started again on the files it left.                      *)
LEMMA RestartStep ==
    ASSUME IInv, Restart
    PROVE  FilchInv' /\ Batch' /\ StreamStep
<1>1. /\ FilchInv /\ FilchNew /\ body' = << >> /\ shut' = "no"
      /\ UNCHANGED <<written, received>>
  BY DEF IInv, Restart, lines
<1>2. /\ FilchInv' /\ ~Mixed'
      /\ IsSuffix(Unread, Unread') \/ (Mixed /\ Trade(Unread, Unread'))
      /\ IsInjective(Unread') /\ ToSet(Unread') \subseteq 1..written
      /\ Risk' \in 0..Len(Unread')
  BY <1>1, OpenStep
<1>3. Batch'
  <2>1. << >> \in Seq(1..written) /\ Len(<< >>) = 0  BY EmptySeq
  <2>2. 0 <= MaxBatch  BY LogTailAssumption
  <2> QED  BY <1>1, <2>1, <2>2 DEF IInv, Batch
<1>4. Stream!Restart
  <2>1. /\ Stream!IsInjective(Unread')
        /\ Stream!ToSet(Unread') \subseteq 1..written
    BY <1>2, SameOperators
  <2>2. Trade(Unread, Unread') => Stream!Halves
    BY SameOperators DEF Trade, Stream!Halves
  <2>3. Stream!IsSuffix(Unread, Unread') \/ (Mixed /\ Stream!Halves)
    BY <1>2, <2>2, SameOperators
  <2> QED  BY <1>1, <1>2, <2>1, <2>3 DEF Stream!Restart, Risk
<1> QED  BY <1>2, <1>3, <1>4 DEF StreamStep, Stream!Next

(* An upload: the server has the batch, or it is given up, or kept.        *)
LEMMA UploadStep ==
    ASSUME IInv, Upload
    PROVE  Batch' /\ StreamStep
<1>1. /\ FilchInv /\ Batch /\ UNCHANGED <<files, written, shut>>
  BY DEF IInv, Upload, UploadOk, UploadFails, UploadCancelled, Retry,
         AwaitEnds, filch, lines
<1>2. Unread' = Unread /\ Risk' = Risk /\ Mixed' = Mixed
  BY <1>1, SameFiles
<1>3. << >> \in Seq(1..written) /\ Len(<< >>) <= MaxBatch
  <2>1. << >> \in Seq(1..written) /\ Len(<< >>) = 0  BY EmptySeq
  <2> QED  BY <2>1, LogTailAssumption
<1>4. ToSet(body) = Stream!ToSet(body)  BY SameOperators
<1>5. ToSet(body) \subseteq 1..written
  <2>1. body \in Seq(1..written)  BY <1>1 DEF Batch
  <2>2. DOMAIN body = 1..Len(body)  BY <2>1, LenProperties
  <2>3. \A i \in 1..Len(body) : body[i] \in 1..written
    BY <2>1, ElementOfSeq
  <2> QED  BY <2>2, <2>3 DEF ToSet
<1>6. ASSUME received' = received \union ToSet(body),
             body' = body \/ body' = << >>
      PROVE  Batch' /\ StreamStep
  <2>1. Stream!Deliver
    BY <1>1, <1>2, <1>4, <1>6 DEF Stream!Deliver, Risk
  <2>2. Batch'  BY <1>1, <1>3, <1>5, <1>6 DEF Batch
  <2> QED  BY <2>1, <2>2 DEF StreamStep, Stream!Next
<1>7. ASSUME UNCHANGED <<received, body>>
      PROVE  Batch' /\ StreamStep
  BY <1>1, <1>2, <1>7 DEF Batch, StreamStep, Stream!vars, Risk
<1>8. CASE UploadOk
  BY <1>6, <1>8 DEF UploadOk, NextTurn
<1>9. CASE UploadFails
  BY <1>6, <1>7, <1>9 DEF UploadFails
<1>10. CASE UploadCancelled
  <2>1. /\ body' = << >> /\ received' = received /\ shut # "no"
    BY <1>10 DEF UploadCancelled, NextTurn, lines, IInv, CancelInv
  <2>2. Stream!GiveUp
    BY <1>1, <1>2, <2>1 DEF Stream!GiveUp, Risk
  <2>3. Batch'  BY <1>1, <1>3, <2>1 DEF Batch
  <2> QED  BY <2>2, <2>3 DEF StreamStep, Stream!Next
<1>11. CASE Retry \/ AwaitEnds
  BY <1>7, <1>11 DEF Retry, AwaitEnds, lines
<1> QED  BY <1>8, <1>9, <1>10, <1>11 DEF Upload

(* Wake-ups, the network and the beginning of a shutdown do not concern    *)
(* the lines.                                                              *)
LEMMA OtherStep ==
    ASSUME IInv, \/ SetTimer \/ FlushNow \/ TimerFires \/ StartFlush \/ SendWake
                 \/ Woken \/ BlockEnds \/ Shutdown \/ CloseStart
                 \/ UploadCancel \/ LinkChange \/ OnChangeDelta
    PROVE  FilchInv' /\ Batch' /\ StreamStep
<1>1. /\ FilchInv /\ Batch /\ UNCHANGED <<files, written, received, body>>
      /\ \/ shut' = shut
         \/ shut = "no" /\ shut' = "called"
         \/ shut = "called" /\ shut' = "started"
  BY DEF IInv, SetTimer, FlushNow, TimerFires, StartFlush, ClearPending,
         SendWake, Woken, BlockEnds, Shutdown, CloseStart,
         UploadCancel, LinkChange, OnChangeDelta, filch, uploader, lines
<1>2. FilchInv' /\ Unread' = Unread /\ Risk' = Risk /\ Mixed' = Mixed
  BY <1>1, SameFiles
<1>3. Batch'  BY <1>1 DEF Batch
<1>4. CASE shut = "no" /\ shut' = "called"
  <2>1. Stream!Stop  BY <1>1, <1>2, <1>4 DEF Stream!Stop, Risk
  <2> QED  BY <1>2, <1>3, <2>1 DEF StreamStep, Stream!Next
<1>5. CASE shut' = shut \/ (shut = "called" /\ shut' = "started")
  <2>1. (shut # "no")' = (shut # "no")  BY <1>5
  <2> QED  BY <1>1, <1>2, <1>3, <2>1 DEF StreamStep, Stream!vars, Risk
<1> QED  BY <1>1, <1>4, <1>5

(* The program points and the flags.                                       *)
LEMMA PointStep ==
    ASSUME IInv, Next
    PROVE  Points' /\ CancelInv'
<1> USE DEF Points, CancelInv
<1>0. Points /\ CancelInv  BY DEF IInv
<1>1. CASE \/ Write \/ WriteRotates \/ WriterStep
           \/ TimerFires \/ StartFlush \/ SendWake
  <2>1. UNCHANGED <<at, shut, cancelled, restarts, flaps>>
    <3>1. CASE Write \/ WriteRotates \/ WriteRotated
      BY <3>1 DEF Write, WriteRotates, WriteRotated, uploader, bounds
    <3>2. CASE SetTimer  BY <3>2 DEF SetTimer, uploader, bounds
    <3>3. CASE FlushNow  BY <3>3 DEF FlushNow, uploader, bounds
    <3>4. CASE TimerFires \/ StartFlush
      BY <3>4 DEF TimerFires, StartFlush, ClearPending, uploader, bounds
    <3>5. CASE SendWake  BY <3>5 DEF SendWake, uploader, bounds
    <3> QED  BY <1>1, <3>1, <3>2, <3>3, <3>4, <3>5 DEF WriterStep
  <2>2. writer' \in {writer, "idle", "rotated", "buffered"} /\ moved' \in BOOLEAN
    <3>1. CASE Write  BY <1>0, <3>1 DEF Write, FilchWrite, FilchPut
    <3>2. CASE WriteRotates  BY <3>2 DEF WriteRotates, FilchRotate
    <3>3. CASE WriteRotated  BY <1>0, <3>3 DEF WriteRotated, FilchPut
    <3>4. CASE SetTimer \/ FlushNow  BY <1>0, <3>4 DEF SetTimer, FlushNow, filch
    <3>5. CASE TimerFires \/ StartFlush
      BY <1>0, <3>5 DEF TimerFires, StartFlush, ClearPending, filch
    <3>6. CASE SendWake  BY <1>0, <3>6 DEF SendWake, filch
    <3> QED  BY <1>1, <3>1, <3>2, <3>3, <3>4, <3>5, <3>6 DEF WriterStep
  <2> QED  BY <1>0, <2>1, <2>2
<1>2. CASE Drain
  <2>1. at' \in {"drain", "block", "upload"}  BY <1>2, DrainStep
  <2>2. moved' \in BOOLEAN  BY <1>0, <1>2 DEF Drain, TryReadLine, filch
  <2> QED  BY <1>0, <1>2, <2>1, <2>2 DEF Drain, wakers, bounds
<1>3. CASE Woken \/ BlockEnds \/ Upload
  BY <1>0, <1>3 DEF Woken, BlockEnds, Upload, UploadOk, UploadFails,
     UploadCancelled, Retry, AwaitEnds, NextTurn, filch, wakers, bounds
<1>4. CASE Shutdown \/ CloseStart \/ UploadCancel
  BY <1>0, <1>4 DEF Shutdown, CloseStart, UploadCancel, filch, wakers, bounds
<1>5. CASE LinkChange \/ OnChangeDelta
  BY <1>0, <1>5, LogTailAssumption
     DEF LinkChange, OnChangeDelta, filch, uploader, wakers, bounds
<1>6. CASE Restart
  <2>1. moved' \in BOOLEAN  BY <1>6 DEF Restart, FilchNew
  <2> QED  BY <1>0, <1>6, <2>1, LogTailAssumption DEF Restart
<1>7. CASE StderrWrite \/ StderrLate
  <2>1. UNCHANGED <<wakers, uploader, bounds>>
    BY <1>7 DEF StderrWrite, StderrLate
  <2>2. moved' = moved  BY <1>7 DEF StderrWrite, StderrLate
  <2> QED  BY <1>0, <2>1, <2>2 DEF wakers, uploader, bounds
<1> QED  BY <1>1, <1>2, <1>3, <1>4, <1>5, <1>6, <1>7 DEF Next, UploaderStep

(* The flags stay flags.                                                   *)
LEMMA FlagStep ==
    ASSUME IInv, Next
    PROVE  Flags'
<1> USE DEF Flags
<1>0. Flags  BY DEF IInv
<1>1. CASE Write \/ WriteRotates \/ WriteRotated
  BY <1>0, <1>1 DEF Write, WriteRotates, WriteRotated, uploader, net
<1>10. CASE StderrWrite \/ StderrLate
  <2>1. UNCHANGED <<wakers, uploader, net>>
    BY <1>10 DEF StderrWrite, StderrLate
  <2> QED  BY <1>0, <2>1 DEF wakers, uploader, net
<1>2. CASE SetTimer
  <2>1. armed' \in BOOLEAN  BY <1>0, <1>2, Zenon DEF SetTimer
  <2>2. flush' \in BOOLEAN  BY <1>2 DEF SetTimer
  <2> QED  BY <1>0, <1>2, <2>1, <2>2 DEF SetTimer, uploader, net
<1>3. CASE FlushNow \/ SendWake \/ Woken
  BY <1>0, <1>3 DEF FlushNow, SendWake, Woken, uploader, net
<1>4. CASE TimerFires \/ StartFlush
  <2>1. armed' = armed \/ armed' = FALSE
    BY <1>4 DEF TimerFires, StartFlush, ClearPending
  <2>2. /\ flush' = FALSE /\ firing' = TRUE
        /\ UNCHANGED <<wake, cancelled, up, ready, deltas>>
    BY <1>4 DEF TimerFires, StartFlush, ClearPending, uploader, net
  <2> QED  BY <1>0, <2>1, <2>2
<1>5. CASE Drain \/ BlockEnds \/ Upload \/ Shutdown \/ CloseStart
  BY <1>0, <1>5 DEF Drain, BlockEnds, Upload, UploadOk, UploadFails,
     UploadCancelled, Retry, AwaitEnds, Shutdown, CloseStart, wakers, net
<1>6. CASE UploadCancel
  BY <1>0, <1>6 DEF UploadCancel, wakers, net
<1>7. CASE LinkChange
  <2>1. /\ up' = ~up /\ deltas' = Append(deltas, up')
        /\ UNCHANGED <<flush, armed, firing, wake, cancelled, ready>>
    BY <1>7 DEF LinkChange, wakers, uploader
  <2>2. up' \in BOOLEAN  BY <2>1
  <2>3. deltas' \in Seq(BOOLEAN)  BY <1>0, <2>1, <2>2, AppendProperties
  <2> QED  BY <1>0, <2>1, <2>2, <2>3
<1>8. CASE OnChangeDelta
  <2>1. /\ ready' = Head(deltas) /\ deltas' = Tail(deltas) /\ deltas # << >>
        /\ UNCHANGED <<flush, armed, firing, wake, cancelled, up>>
    BY <1>8 DEF OnChangeDelta, wakers, uploader
  <2>2. ready' \in BOOLEAN /\ deltas' \in Seq(BOOLEAN)
    BY <1>0, <2>1, HeadTailProperties
  <2> QED  BY <1>0, <2>1, <2>2
<1>9. CASE Restart
  <2>1. << >> \in Seq(BOOLEAN)  BY EmptySeq
  <2>2. /\ flush' = FALSE /\ armed' = FALSE /\ firing' = FALSE
        /\ wake' = FALSE /\ cancelled' = FALSE /\ ready' = FALSE
        /\ deltas' = << >> /\ up' = up
    BY <1>9 DEF Restart
  <2> QED  BY <1>0, <2>1, <2>2
<1> QED
  BY <1>1, <1>2, <1>3, <1>4, <1>5, <1>6, <1>7, <1>8, <1>9, <1>10
     DEF Next, UploaderStep, WriterStep

(* What New and the first uploader start with.                             *)
LEMMA InitInv == Init => IInv /\ Stream!Init
<1> SUFFICES ASSUME Init PROVE IInv /\ Stream!Init
  OBVIOUS
<1>1. /\ << >> \in Seq(1..0) /\ << >> \in Seq(BOOLEAN) /\ Len(<< >>) = 0
  BY EmptySeq
<1>2. /\ newer = 1 /\ older = 2 /\ file[1] = << >> /\ file[2] = << >>
      /\ wOff = 0 /\ rOff = 0 /\ newly = 0 /\ written = 0 /\ lastMod = 1
  BY DEF Init, older, Other
<1>3. FilchInv
  <2>1. file \in [1..2 -> Seq(1..0)]  BY <1>1 DEF Init
  <2>2. Sizes  BY <1>1, <1>2 DEF Sizes
  <2>3. \A f \in 1..2 : Len(file[f]) = 0  BY <1>1, <1>2
  <2>4. Distinct  BY <2>3 DEF Distinct
  <2> QED
    BY <1>2, <2>1, <2>2, <2>4, LogTailAssumption DEF FilchInv
<1>4. Flags /\ Batch /\ Points /\ CancelInv
  <2>1. Flags  BY <1>1, LogTailAssumption DEF Init, Flags
  <2>2. Batch  BY <1>1, LogTailAssumption DEF Init, Batch
  <2>3. Points /\ CancelInv
    <3>1. moved \in BOOLEAN  BY DEF Init
    <3> QED  BY <3>1, LogTailAssumption DEF Init, Points, CancelInv
  <2> QED  BY <2>1, <2>2, <2>3
<1>5. Stream!Init
  <2>1. Unread = << >>
    <3>1. << >> \in Seq(Nat)  BY EmptySeq
    <3>2. Unread = Rest(<< >>, Len(<< >>), << >>)  BY <1>1, <1>2 DEF Unread, Rest
    <3> QED  BY <3>1, <3>2, RestEnds
  <2>2. Len(file[newer]) - wOff = 0  BY <1>1, <1>2
  <2>3. Mixed = FALSE  BY <1>2 DEF Mixed
  <2> QED  BY <2>1, <2>2, <2>3 DEF Stream!Init, Init
<1> QED  BY <1>3, <1>4, <1>5 DEF IInv

(* Every step keeps the invariant and is one of LogStream, or none.        *)
LEMMA Inductive ==
    IInv /\ [Next]_vars => IInv' /\ StreamStep
<1> SUFFICES ASSUME IInv, [Next]_vars PROVE IInv' /\ StreamStep
  OBVIOUS
<1>1. ASSUME Next PROVE FilchInv' /\ Batch' /\ StreamStep
  <2>1. ASSUME Write \/ WriteRotated \/ StderrWrite
        PROVE  FilchInv' /\ Batch' /\ StreamStep
    <3>1. written' = written + 1 /\ UNCHANGED <<body, received>>
      BY <2>1 DEF Write, WriteRotated, StderrWrite, RawLine, uploader
    <3>2. Batch'  BY <3>1, BatchGrows DEF IInv
    <3> QED  BY <2>1, <3>2, WriteStep
  <2>2. CASE Drain  BY <2>2, DrainStep
  <2>3. CASE Upload
    <3>1. UNCHANGED <<files, written>>
      BY <2>3 DEF Upload, UploadOk, UploadFails, UploadCancelled, Retry,
         AwaitEnds, filch, lines
    <3> QED  BY <2>3, <3>1, UploadStep, SameFiles DEF IInv
  <2>4. CASE Restart  BY <2>4, RestartStep
  <2>5. CASE \/ SetTimer \/ FlushNow \/ TimerFires \/ StartFlush \/ SendWake
             \/ Woken \/ BlockEnds \/ Shutdown \/ CloseStart
             \/ UploadCancel \/ LinkChange \/ OnChangeDelta
    BY <2>5, OtherStep
  <2>6. CASE WriteRotates  BY <2>6, OverflowStep
  <2>7. CASE StderrLate  BY <2>7, LateKeeps
  <2> QED
    BY <1>1, <2>1, <2>2, <2>3, <2>4, <2>5, <2>6, <2>7
       DEF Next, UploaderStep, WriterStep
<1>2. CASE Next
  BY <1>1, <1>2, PointStep, FlagStep DEF IInv
<1>3. CASE UNCHANGED vars
  <2>1. /\ UNCHANGED <<files, moved, written, received, body, shut>>
        /\ UNCHANGED <<writer, flush, armed, firing, wake, at, cancelled>>
        /\ UNCHANGED <<up, deltas, ready, restarts, flaps>>
    BY <1>3 DEF vars, filch, wakers, uploader, net, lines, bounds
  <2>2. FilchInv' /\ Unread' = Unread /\ Risk' = Risk /\ Mixed' = Mixed
    BY <2>1, SameFiles DEF IInv
  <2>3. Flags' /\ Batch' /\ Points' /\ CancelInv'
    BY <2>1 DEF IInv, Flags, Batch, Points, CancelInv
  <2>4. StreamStep  BY <2>1, <2>2 DEF StreamStep, Stream!vars, Risk
  <2> QED  BY <2>2, <2>3, <2>4 DEF IInv
<1> QED  BY <1>2, <1>3

(* The invariant holds in every behaviour of the pipeline.                 *)
LEMMA Invariance == Spec => []IInv
<1>1. Init => IInv  BY InitInv
<1>2. IInv /\ [Next]_vars => IInv'  BY Inductive
<1> QED  BY <1>1, <1>2, PTL DEF Spec

-----------------------------------------------------------------------------
(* The wake-ups.  flushPending is set only with the timer, so a line that  *)
(* finds it set has a wake-up; and the uploader blocks only after it has   *)
(* seen both files empty.                                                  *)

OnItsWay == writer # "idle" \/ armed \/ firing \/ wake
RawOnly == \A i \in 1..Len(Unread) : Unread[i] \in RawLines

WakeInv ==
    /\ flush => armed
    /\ at = "block" => body = << >> /\ (OnItsWay \/ RawOnly)

(* What is unread has been written.                                        *)
LEMMA UnreadSeq ==
    ASSUME FilchInv
    PROVE  /\ Unread \in Seq(1..written) /\ Len(Unread) \in Nat
           /\ Len(Unread) = (Len(file[older]) - rOff) + Len(file[newer])
<1> DEFINE s == file[older]
           t == file[newer]
<1>1. s \in Seq(1..written) /\ t \in Seq(1..written)  BY Files DEF FilchInv
<1>2. rOff \in 0..Len(s)  BY DEF FilchInv, Sizes
<1>3. Unread = Rest(s, rOff, t)  BY DEF Unread, Rest
<1> HIDE DEF s, t
<1>4. Unread \in Seq(1..written) /\ Len(Unread) = (Len(s) - rOff) + Len(t)
  BY <1>1, <1>2, <1>3, RestSeq
<1> QED  BY <1>4, LenProperties DEF s, t

(* A line through stderr leaves raw lines where there were only such.      *)
LEMMA StderrStaysRaw ==
    ASSUME IInv, StderrWrite, RawOnly
    PROVE  RawOnly'
<1>1. /\ written' \in RawLines /\ written' = written + 1
      /\ file' = PutAt(file, newer, wOff, written + 1) /\ wOff' = wOff + 1
      /\ newer' = newer /\ rOff' = rOff /\ lastMod' = newer
      /\ newly' = newly
  BY DEF StderrWrite, RawLine
<1>2. /\ FilchInv /\ written \in Nat /\ newly \in Nat /\ newly <= written
      /\ Len(file[newer]) \in Nat /\ wOff \in 0..Len(file[newer])
      /\ newly <= Len(file[newer]) + wOff
  BY FileSizes DEF IInv
<1>3. written < MaxLines
  <2>1. written + 1 \in 1..MaxLines  BY <1>1, LogTailAssumption
  <2> QED  BY <1>2, <2>1, LogTailAssumption
<1>4. newly' \in 0..(written + 1) /\ newly' <= Len(file[newer]) + wOff + 1
  <2> DEFINE m == Len(file[newer])
  <2>1. /\ m \in Nat /\ wOff \in 0..m /\ newly \in Nat /\ newly <= m + wOff
        /\ newly <= written /\ written \in Nat
    BY <1>2
  <2> HIDE DEF m
  <2>2. newly \in 0..(written + 1) /\ newly <= m + wOff + 1  BY <2>1
  <2> QED  BY <1>1, <2>2 DEF m
<1>5. /\ Risk = 0 => Unread' = Append(Unread, written')
      /\ Risk # 0 => Unread' = [Unread EXCEPT ![Len(Unread) - Risk + 1] =
                                    written']
  BY <1>1, <1>2, <1>3, <1>4, PutStep
<1>6. Unread \in Seq(1..written) /\ Len(Unread) \in Nat  BY <1>2, UnreadSeq
<1>7. \A i \in 1..Len(Unread) : Unread[i] \in RawLines  BY DEF RawOnly
<1>8. Unread \in Seq(RawLines)
  <2>1. Unread \in [1..Len(Unread) -> RawLines]
    <3>1. Unread = [i \in 1..Len(Unread) |-> Unread[i]]
      BY <1>6, LenProperties
    <3> QED  BY <1>7, <3>1
  <2> QED  BY <1>6, <2>1, SeqDef
<1>9. Unread' \in Seq(RawLines)
  <2>1. CASE Risk = 0  BY <1>1, <1>5, <1>8, <2>1, AppendProperties
  <2>2. CASE Risk # 0
    <3> DEFINE u == Unread
               k == Len(Unread) - Risk + 1
    <3>1. u \in Seq(RawLines) /\ written' \in RawLines  BY <1>1, <1>8
    <3>2. k \in 1..Len(u)
      <4> DEFINE m == Len(file[newer])
                 n == Len(file[older]) - rOff
      <4>1. Len(u) = n + m  BY <1>2, UnreadSeq
      <4>2. Risk = m - wOff /\ m \in Nat /\ wOff \in 0..m
        BY <1>2 DEF Risk
      <4>3. n \in Nat
        <5>1. Len(file[older]) \in Nat /\ rOff \in 0..Len(file[older])
          BY <1>2, FileSizes DEF FilchInv, Sizes
        <5> QED  BY <5>1
      <4>4. k = (n + m) - (m - wOff) + 1  BY <4>1, <4>2
      <4>5. m - wOff # 0  BY <2>2, <4>2
      <4> HIDE DEF m, n, k, u
      <4> QED  BY <4>1, <4>2, <4>3, <4>4, <4>5
    <3>3. Unread' = [u EXCEPT ![k] = written']  BY <1>5, <2>2
    <3> HIDE DEF u, k
    <3> QED  BY <3>1, <3>2, <3>3, ExceptSeq
  <2> QED  BY <2>1, <2>2
<1> QED  BY <1>9, ElementOfSeq DEF RawOnly

(* So does one that comes late, for it only takes a line away.             *)
LEMMA LateStaysRaw ==
    ASSUME IInv, StderrLate, RawOnly
    PROVE  RawOnly'
<1>1. \/ Unread' = Unread
      \/ Unread # << >> /\ Unread' = Tail(Unread)
  BY LateKeeps
<1>2. Unread \in Seq(1..written) /\ Len(Unread) \in Nat
  BY UnreadSeq DEF IInv
<1>3. CASE Unread' = Unread  BY <1>3 DEF RawOnly
<1>4. CASE Unread # << >> /\ Unread' = Tail(Unread)
  <2>1. /\ Len(Unread') = Len(Unread) - 1
        /\ \A i \in 1..Len(Unread') : Unread'[i] = Unread[i + 1]
    BY <1>2, <1>4, HeadTailProperties
  <2>2. \A i \in 1..Len(Unread') : i + 1 \in 1..Len(Unread)  BY <1>2, <2>1
  <2> QED  BY <2>1, <2>2 DEF RawOnly
<1> QED  BY <1>1, <1>3, <1>4

(* drainPending gives up only when both files are empty.                   *)
LEMMA BlocksEmpty ==
    ASSUME IInv, Drain, at' = "block"
    PROVE  body' = << >> /\ RawOnly'
<1>1. FilchInv /\ at = "drain"  BY DEF IInv, Drain
<1>2. /\ file' = Truncated /\ newer' = older /\ rOff' = 0
      /\ file[newer] = << >> /\ body = << >> /\ body' = body
  BY <1>1 DEF Drain, TryReadLine
<1>3. /\ newer \in 1..2 /\ older \in 1..2 /\ older # newer
      /\ file \in [1..2 -> Seq(1..written)]
  BY <1>1, Files DEF FilchInv
<1>4. older' = newer  BY <1>2, <1>3 DEF older, Other
<1>5. file'[older'] = << >> /\ file'[newer'] = << >>
  BY <1>2, <1>3, <1>4 DEF Truncated
<1>6. Unread' = << >>
  <2>1. << >> \in Seq(Nat) /\ Len(<< >>) = 0  BY EmptySeq
  <2>2. Unread' = Rest(<< >>, 0, << >>)  BY <1>2, <1>5, <2>1 DEF Unread, Rest
  <2> QED  BY <2>1, <2>2, RestEnds
<1>7. Len(Unread') = 0  BY <1>6, EmptySeq
<1> QED  BY <1>2, <1>7 DEF RawOnly

(* Each step keeps a wake-up on its way to a blocked reader.               *)
LEMMA WakeStep ==
    ASSUME IInv, WakeInv, [Next]_vars
    PROVE  WakeInv'
<1>0. FilchInv  BY DEF IInv
<1>1. CASE Write \/ WriteRotates \/ WriteRotated
  <2>1. writer' # "idle" /\ UNCHANGED <<flush, armed, at, body>>
    BY <1>1 DEF Write, WriteRotates, WriteRotated, uploader
  <2> QED  BY <2>1 DEF WakeInv, OnItsWay
<1>2. CASE StderrWrite
  <2>1. UNCHANGED <<writer, flush, armed, firing, wake, at, body>>
    BY <1>2 DEF StderrWrite, wakers, uploader
  <2> QED  BY <1>2, <2>1, StderrStaysRaw DEF WakeInv, OnItsWay
<1>10. CASE StderrLate
  <2>1. UNCHANGED <<writer, flush, armed, firing, wake, at, body>>
    BY <1>10 DEF StderrLate, wakers, uploader
  <2>2. RawOnly => RawOnly'  BY <1>10, LateStaysRaw
  <2> QED  BY <2>1, <2>2 DEF WakeInv, OnItsWay
<1>3. CASE SetTimer
  <2>1. armed'  BY <1>3, Zenon DEF SetTimer, WakeInv
  <2>2. UNCHANGED <<at, body>>  BY <1>3 DEF SetTimer, uploader
  <2> QED  BY <2>1, <2>2 DEF WakeInv, OnItsWay
<1>4. CASE FlushNow \/ TimerFires \/ StartFlush
  <2>1. flush' = FALSE /\ firing' = TRUE /\ UNCHANGED <<at, body>>
    BY <1>4 DEF FlushNow, TimerFires, StartFlush, ClearPending, uploader
  <2> QED  BY <2>1 DEF WakeInv, OnItsWay
<1>5. CASE SendWake
  <2>1. wake' = TRUE /\ UNCHANGED <<flush, armed, at, body>>
    BY <1>5 DEF SendWake, uploader
  <2> QED  BY <2>1 DEF WakeInv, OnItsWay
<1>6. CASE Drain
  <2>1. UNCHANGED <<flush, armed>>  BY <1>6 DEF Drain, wakers
  <2> QED  BY <1>6, <2>1, BlocksEmpty DEF WakeInv
<1>7. CASE Woken \/ BlockEnds \/ Upload
  <2>1. at' # "block" /\ UNCHANGED <<flush, armed>>
    BY <1>7 DEF Woken, BlockEnds, Upload, UploadOk, UploadFails,
       UploadCancelled, Retry, AwaitEnds, NextTurn, wakers
  <2> QED  BY <2>1 DEF WakeInv
<1>8. CASE Restart
  <2>1. at' = "drain" /\ flush' = FALSE  BY <1>8 DEF Restart
  <2> QED  BY <2>1 DEF WakeInv
<1>9. CASE \/ Shutdown \/ CloseStart \/ UploadCancel \/ LinkChange
           \/ OnChangeDelta \/ UNCHANGED vars
  <2>1. UNCHANGED <<files, written, writer, flush, armed, firing, wake, at, body>>
    BY <1>9 DEF Shutdown, CloseStart, UploadCancel, LinkChange,
       OnChangeDelta, vars, filch, wakers, uploader, lines
  <2>2. Unread' = Unread  BY <1>0, <2>1, SameFiles
  <2> QED  BY <2>1, <2>2 DEF WakeInv, OnItsWay, RawOnly
<1> QED
  BY <1>1, <1>2, <1>3, <1>4, <1>5, <1>6, <1>7, <1>8, <1>9, <1>10
     DEF Next, UploaderStep, WriterStep

(* No line waits for the next one: while a logged line is unread, the      *)
(* uploader of logtail is not blocked or its wake-up is on its way; the    *)
(* flag, the timer and the channel of one place lose none.                 *)
THEOREM NoWakeUpLost == Spec => []WakeUpPending
<1>1. Init => WakeInv  BY DEF Init, WakeInv
<1>2. IInv /\ WakeInv /\ [Next]_vars => WakeInv'  BY WakeStep
<1>3. IInv /\ WakeInv => WakeUpPending
  <2> SUFFICES ASSUME IInv, WakeInv, at = "block", Waiting # {}
               PROVE  OnItsWay
    BY DEF WakeUpPending, OnItsWay
  <2>1. Unread \in Seq(1..written) /\ body = << >>
    BY UnreadSeq DEF IInv, WakeInv
  <2>2. Unread \o body = Unread  BY <2>1, ConcatEmptySeq
  <2>3. PICK l \in ToSet(Unread) : l \notin RawLines
    BY <2>2 DEF Waiting
  <2>4. \E i \in 1..Len(Unread) : Unread[i] = l
    BY <2>1, LenProperties DEF ToSet
  <2>5. ~RawOnly  BY <2>3, <2>4 DEF RawOnly
  <2> QED  BY <2>5 DEF WakeInv
<1> QED  BY <1>1, <1>2, <1>3, Invariance, PTL DEF Spec

-----------------------------------------------------------------------------
(* Every variable keeps its type; in particular the offsets of filch lie   *)
(* within its files and a batch never exceeds its limit.                   *)
THEOREM TypeCorrect == Spec => []TypeOK
<1>1. IInv => TypeOK
  <2> SUFFICES ASSUME IInv PROVE TypeOK
    OBVIOUS
  <2>1. /\ FilchInv /\ Flags /\ Batch /\ Points  BY DEF IInv
  <2>2. wOff \in 0..MaxLines /\ newly \in 0..MaxLines
    <3> DEFINE m == Len(file[newer])
               n == Len(file[older])
    <3>1. /\ m \in Nat /\ n \in Nat /\ written \in Nat /\ m + n <= written
          /\ wOff \in 0..m /\ newly \in Nat /\ newly <= written
      BY <2>1, FileSizes
    <3>2. written <= MaxLines  BY <2>1, LogTailAssumption DEF FilchInv
    <3> HIDE DEF m, n
    <3> QED  BY <3>1, <3>2, LogTailAssumption
  <2>3. {flush, armed, firing, wake, cancelled, up, ready} \subseteq BOOLEAN
    BY <2>1 DEF Flags
  <2> QED  BY <2>1, <2>2, <2>3 DEF TypeOK, FilchInv, Sizes, Flags, Batch, Points
<1> QED  BY <1>1, Invariance, PTL

(* ImplementsStream: whatever rotations, overflows, wake-ups, shutdowns    *)
(* and restarts do, the lines leave filch in the order they were written,  *)
(* each at most once between two restarts, and are lost only as LogStream  *)
(* says: the oldest by an overflow that keeps more than half the limit,    *)
(* those behind the write offset after a restart, a batch with the process *)
(* or the shutdown, and a write to stderr that outlasts a rotation,        *)
(* together with the unread line whose place it takes.                     *)
THEOREM StreamImplemented == Spec => ImplementsStream
<1>1. Init => Stream!Init  BY InitInv
<1>2. IInv /\ [Next]_vars => [Stream!Next]_(Stream!vars)
  BY Inductive DEF StreamStep
<1> QED  BY <1>1, <1>2, Invariance, PTL DEF Spec, ImplementsStream, Stream!Spec

=============================================================================
