--------------------------- MODULE LogStreamProofs ---------------------------
(* Log streams deliver the log, for any number of readers, any output of the  *)
(* build and any number of failures.                                          *)
EXTENDS LogStream, SequenceTheorems, WellFoundedInduction, TLAPS

------------------------------------------------------------------------------
(* Induction up to m, for what is true of the elements of a set G.            *)
LEMMA InductionUpTo ==
    ASSUME NEW m \in Nat, NEW G, 0 \in G,
           \A n \in 1..m : n - 1 \in G => n \in G
    PROVE  \A n \in 0..m : n \in G
<1> DEFINE R == OpToRel(<, Nat)
           Bad == {n \in 0..m : n \notin G}
<1> SUFFICES ASSUME Bad # {} PROVE FALSE
    OBVIOUS
<1>1. IsWellFoundedOn(R, Nat)
    BY NatLessThanWellFounded
<1>2. R = {ss \in Nat \X Nat : ss[1] < ss[2]}
    BY DEF OpToRel
<1>3. Bad \subseteq Nat
    OBVIOUS
<1> HIDE DEF R, Bad
<1>4. PICK k \in Bad : \A n \in Bad : <<n, k>> \notin R
    BY <1>1, <1>3, WFMin
<1>5. \A n \in Bad : ~(n < k)
    BY <1>2, <1>3, <1>4
<1>6. k \in 1..m /\ k \notin G
    BY <1>4 DEF Bad
<1>7. k - 1 \in 0..m /\ k - 1 < k
    BY <1>6
<1>8. k - 1 \in G
    BY <1>5, <1>7 DEF Bad
<1> QED BY <1>6, <1>8

------------------------------------------------------------------------------
(* The text of a sequence.                                                    *)

LEMMA KeepType == \A t \in Seq(Nat), c \in Nat : Keep(t, c) \in Seq(Nat)
BY DEF Keep

LEMMA KeepConcat ==
    ASSUME NEW s \in Seq(Nat), NEW t \in Seq(Nat), NEW c \in Nat
    PROVE  Keep(s \o t, c) = s \o Keep(t, c)
<1>1. s \o t \in Seq(Nat) /\ <<c>> \in Seq(Nat)
    OBVIOUS
<1>2. Append(s \o t, c) = (s \o t) \o <<c>> /\ Append(t, c) = t \o <<c>>
    BY <1>1, AppendIsConcat
<1>3. (s \o t) \o <<c>> = s \o (t \o <<c>>)
    BY <1>1, ConcatAssociative
<1> QED BY <1>2, <1>3 DEF Keep

(* g has the text of the first n elements of s, for every n up to m.          *)
Keeps(g, s, m) == g[0] = <<>> /\ \A n \in 1..m : g[n] = Keep(g[n - 1], s[n])

(* There is one such g ...                                                    *)
LEMMA KeptUnique ==
    ASSUME NEW m \in Nat, NEW g, NEW h, NEW s, NEW t,
           Keeps(g, s, m), Keeps(h, t, m), \A n \in 1..m : s[n] = t[n]
    PROVE  \A n \in 0..m : g[n] = h[n]
<1> DEFINE G == {n \in 0..m : g[n] = h[n]}
<1>1. 0 \in G
    BY DEF Keeps
<1>2. ASSUME NEW n \in 1..m, n - 1 \in G PROVE n \in G
    BY <1>2 DEF Keeps
<1> HIDE DEF G
<1>3. \A n \in 0..m : n \in G
    BY <1>1, <1>2, InductionUpTo
<1> QED BY <1>3 DEF G

LEMMA KeptType ==
    ASSUME NEW m \in Nat, NEW g, NEW s, Keeps(g, s, m), \A n \in 1..m : s[n] \in Nat
    PROVE  \A n \in 0..m : g[n] \in Seq(Nat)
<1> DEFINE G == {n \in 0..m : g[n] \in Seq(Nat)}
<1>1. 0 \in G
    <2>1. g[0] = <<>> /\ 0 \in 0..m
        BY DEF Keeps
    <2>2. g[0] \in Seq(Nat)
        BY <2>1, EmptySeq
    <2> QED BY <2>1, <2>2
<1>2. ASSUME NEW n \in 1..m, n - 1 \in G PROVE n \in G
    <2>1. g[n] = Keep(g[n - 1], s[n]) /\ g[n - 1] \in Seq(Nat) /\ s[n] \in Nat
        BY <1>2 DEF Keeps
    <2>2. Keep(g[n - 1], s[n]) \in Seq(Nat)
        BY <2>1, KeepType
    <2> QED BY <2>1, <2>2
<1> HIDE DEF G
<1>3. \A n \in 0..m : n \in G
    BY <1>1, <1>2, InductionUpTo
<1> QED BY <1>3 DEF G

(* ... for every sequence and every m.                                        *)
LEMMA KeptExists ==
    ASSUME NEW m \in Nat, NEW s
    PROVE  \E g : g = [i \in 0..m |-> g[i]] /\ Keeps(g, s, m)
<1> DEFINE G == {n \in 0..m : \E g : g = [i \in 0..n |-> g[i]] /\ Keeps(g, s, n)}
<1>1. 0 \in G
    <2> DEFINE g == [i \in 0..0 |-> <<>>]
    <2>1. g = [i \in 0..0 |-> g[i]] /\ Keeps(g, s, 0)
        BY DEF Keeps
    <2> QED BY <2>1
<1>2. ASSUME NEW n \in 1..m, n - 1 \in G PROVE n \in G
    <2>1. PICK g : Keeps(g, s, n - 1)
        BY <1>2
    <2> DEFINE h == [i \in 0..n |-> IF i < n THEN g[i] ELSE Keep(g[n - 1], s[n])]
    <2>2. h = [i \in 0..n |-> h[i]]
        OBVIOUS
    <2>3. h[n] = Keep(g[n - 1], s[n]) /\ h[0] = g[0]
        OBVIOUS
    <2>4. \A i \in 1..n : h[i - 1] = g[i - 1]
        OBVIOUS
    <2>5. \A i \in 1..(n - 1) : h[i] = g[i]
        OBVIOUS
    <2> HIDE DEF h
    <2>6. ASSUME NEW i \in 1..n PROVE h[i] = Keep(h[i - 1], s[i])
        <3>1. CASE i = n BY <3>1, <2>3, <2>4
        <3>2. CASE i # n
            <4>1. i \in 1..(n - 1) BY <3>2
            <4> QED BY <4>1, <2>1, <2>4, <2>5 DEF Keeps
        <3> QED BY <3>1, <3>2
    <2>7. Keeps(h, s, n)
        BY <2>1, <2>3, <2>6 DEF Keeps
    <2> QED BY <2>2, <2>7
<1> HIDE DEF G
<1>3. m \in G
    BY <1>1, <1>2, InductionUpTo
<1> QED BY <1>3 DEF G

(* The recursion of Text is well founded.                                     *)
LEMMA TextKept ==
    ASSUME NEW s \in Seq(Nat)
    PROVE  \E g : Keeps(g, s, Len(s)) /\ Text(s) = g[Len(s)]
<1> DEFINE F(g) == [n \in 0..Len(s) |-> IF n = 0 THEN <<>> ELSE Keep(g[n - 1], s[n])]
           K == CHOOSE g : g = F(g)
<1>1. Text(s) = K[Len(s)]
    BY DEF Text
<1>2. Len(s) \in Nat
    OBVIOUS
<1>3. PICK g : g = [n \in 0..Len(s) |-> g[n]] /\ Keeps(g, s, Len(s))
    BY <1>2, KeptExists
<1>4. g = F(g)
    <2>1. \A n \in 0..Len(s) : g[n] = IF n = 0 THEN <<>> ELSE Keep(g[n - 1], s[n])
        BY <1>2, <1>3 DEF Keeps
    <2> QED BY <1>3, <2>1
<1>5. K = F(K)
    BY <1>4
<1> HIDE DEF K
<1>6. Keeps(K, s, Len(s))
    <2>1. \A n \in 0..Len(s) : F(K)[n] = IF n = 0 THEN <<>> ELSE Keep(K[n - 1], s[n])
        OBVIOUS
    <2>2. \A n \in 0..Len(s) : K[n] = F(K)[n]
        BY <1>5
    <2> HIDE DEF F
    <2> QED BY <1>2, <2>1, <2>2 DEF Keeps
<1> QED BY <1>1, <1>6

LEMMA TextType == \A s \in Seq(Nat) : Text(s) \in Seq(Nat)
<1> SUFFICES ASSUME NEW s \in Seq(Nat) PROVE Text(s) \in Seq(Nat)
    OBVIOUS
<1>1. PICK g : Keeps(g, s, Len(s)) /\ Text(s) = g[Len(s)]
    BY TextKept
<1>2. Len(s) \in 0..Len(s) /\ Len(s) \in Nat /\ \A n \in 1..Len(s) : s[n] \in Nat
    OBVIOUS
<1> QED BY <1>1, <1>2, KeptType

LEMMA TextEmpty == Text(<<>>) = <<>>
<1>1. <<>> \in Seq(Nat) /\ Len(<<>>) = 0
    OBVIOUS
<1>2. PICK g : Keeps(g, <<>>, 0) /\ Text(<<>>) = g[0]
    BY <1>1, TextKept
<1> QED BY <1>2 DEF Keeps

(* The text of what is written one after the other.                           *)
LEMMA TextConcat ==
    ASSUME NEW s \in Seq(Nat), NEW t \in Seq(Nat)
    PROVE  Text(s \o t) = Text(s) \o Text(t)
<1> DEFINE st == s \o t
           a == Text(s)
<1>1. /\ st \in Seq(Nat) /\ Len(st) = Len(s) + Len(t)
      /\ \A n \in 1..Len(s) : st[n] = s[n]
      /\ \A n \in 1..Len(t) : st[Len(s) + n] = t[n] /\ t[n] \in Nat
      /\ Len(s) \in Nat /\ Len(t) \in Nat
    OBVIOUS
<1> HIDE DEF st
<1>2. PICK g : Keeps(g, s, Len(s)) /\ a = g[Len(s)]
    BY TextKept
<1>3. PICK h : Keeps(h, t, Len(t)) /\ Text(t) = h[Len(t)]
    BY TextKept
<1>4. PICK f : Keeps(f, st, Len(st)) /\ Text(st) = f[Len(st)]
    BY <1>1, TextKept
<1>5. f[Len(s)] = a
    <2>1. Keeps(f, st, Len(s))
        BY <1>1, <1>4 DEF Keeps
    <2>2. Len(s) \in Nat /\ \A n \in 1..Len(s) : st[n] = s[n]
        BY <1>1
    <2>3. \A n \in 0..Len(s) : f[n] = g[n]
        BY <1>2, <2>1, <2>2, KeptUnique
    <2> QED BY <1>2, <2>2, <2>3
<1>6. a \in Seq(Nat) /\ \A n \in 0..Len(t) : h[n] \in Seq(Nat)
    BY <1>1, <1>3, TextType, KeptType
<1> HIDE DEF a
<1> DEFINE G == {n \in 0..Len(t) : f[Len(s) + n] = a \o h[n]}
<1>7. 0 \in G
    <2>1. h[0] = <<>> /\ Len(s) + 0 = Len(s) /\ 0 \in 0..Len(t)
        BY <1>1, <1>3 DEF Keeps
    <2>2. a \o <<>> = a
        BY <1>6, ConcatEmptySeq
    <2> QED BY <1>5, <2>1, <2>2
<1>8. ASSUME NEW n \in 1..Len(t), n - 1 \in G PROVE n \in G
    <2>1. f[Len(s) + (n - 1)] = a \o h[n - 1]
        BY <1>8
    <2>2. /\ Len(s) + n \in 1..Len(st) /\ (Len(s) + n) - 1 = Len(s) + (n - 1)
          /\ n \in 0..Len(t) /\ n - 1 \in 0..Len(t)
        BY <1>1
    <2>3. f[Len(s) + n] = Keep(f[Len(s) + (n - 1)], st[Len(s) + n])
        BY <1>4, <2>2 DEF Keeps
    <2>4. f[Len(s) + n] = Keep(a \o h[n - 1], t[n])
        BY <1>1, <2>1, <2>3
    <2>5. h[n] = Keep(h[n - 1], t[n])
        BY <1>3 DEF Keeps
    <2>6. h[n - 1] \in Seq(Nat) /\ t[n] \in Nat
        BY <1>1, <1>6, <2>2
    <2>7. Keep(a \o h[n - 1], t[n]) = a \o Keep(h[n - 1], t[n])
        BY <1>6, <2>6, KeepConcat
    <2> QED BY <2>2, <2>4, <2>5, <2>7
<1> HIDE DEF G
<1>9. Len(t) \in G
    <2>1. Len(t) \in Nat /\ Len(t) \in 0..Len(t)
        BY <1>1
    <2> QED BY <1>7, <1>8, <2>1, InductionUpTo
<1>10. f[Len(st)] = a \o h[Len(t)]
    BY <1>1, <1>9 DEF G
<1> QED BY <1>3, <1>4, <1>10 DEF st, a

(* Newlines at the end do not matter.                                         *)
LEMMA TextPadded ==
    ASSUME NEW s \in Seq(Nat), NEW k \in 0..Len(s),
           \A i \in (k + 1)..Len(s) : s[i] = Newline
    PROVE  Text(s) = Text(SubSeq(s, 1, k))
<1> DEFINE p == SubSeq(s, 1, k)
<1>1. /\ p \in Seq(Nat) /\ Len(p) = k /\ \A n \in 1..k : s[n] = p[n]
      /\ k \in Nat /\ Len(s) \in Nat
    OBVIOUS
<1> HIDE DEF p
<1>2. PICK g : Keeps(g, s, Len(s)) /\ Text(s) = g[Len(s)]
    BY TextKept
<1>3. PICK h : Keeps(h, p, k) /\ Text(p) = h[k]
    BY <1>1, TextKept
<1>4. g[k] = h[k]
    <2>1. Keeps(g, s, k)
        BY <1>1, <1>2 DEF Keeps
    <2>2. \A n \in 0..k : g[n] = h[n]
        BY <1>1, <1>3, <2>1, KeptUnique
    <2> QED BY <1>1, <2>2
<1> DEFINE G == {n \in 0..(Len(s) - k) : g[k + n] = g[k]}
<1>5. 0 \in G
    BY <1>1
<1>6. ASSUME NEW n \in 1..(Len(s) - k), n - 1 \in G PROVE n \in G
    <2>1. /\ k + n \in 1..Len(s) /\ k + n \in (k + 1)..Len(s)
          /\ (k + n) - 1 = k + (n - 1) /\ n \in 0..(Len(s) - k)
        BY <1>1
    <2>2. g[k + n] = Keep(g[k + (n - 1)], s[k + n])
        BY <1>2, <2>1 DEF Keeps
    <2>3. g[k + (n - 1)] = g[k]
        BY <1>6
    <2>4. g[k + n] = g[k]
        BY <2>1, <2>2, <2>3 DEF Keep
    <2> QED BY <2>1, <2>4
<1> HIDE DEF G
<1>7. Len(s) - k \in G
    <2>1. Len(s) - k \in Nat /\ Len(s) - k \in 0..(Len(s) - k)
        BY <1>1
    <2> QED BY <1>5, <1>6, <2>1, InductionUpTo
<1>8. g[Len(s)] = g[k]
    <2>1. k + (Len(s) - k) = Len(s)
        BY <1>1
    <2> QED BY <1>7, <2>1 DEF G
<1> QED BY <1>2, <1>3, <1>4, <1>8 DEF p

------------------------------------------------------------------------------
(* What writeSSE sends of a chunk is its text.                                *)

LEMMA Largest ==
    ASSUME NEW m \in Nat, NEW S \in SUBSET (1..m)
    PROVE  \E i \in S \cup {0} : \A j \in S : j <= i
<1> DEFINE G == {n \in 0..m : \E i \in S \cup {0} : \A j \in S : j <= n => j <= i}
<1>1. 0 \in G
    OBVIOUS
<1>2. ASSUME NEW n \in 1..m, n - 1 \in G PROVE n \in G
    <2>1. PICK i \in S \cup {0} : \A j \in S : j <= n - 1 => j <= i
        BY <1>2
    <2>2. CASE n \in S
        BY <2>2
    <2>3. CASE n \notin S
        BY <2>1, <2>3
    <2> QED BY <2>2, <2>3
<1> HIDE DEF G
<1>3. m \in G
    BY <1>1, <1>2, InductionUpTo
<1> QED BY <1>3 DEF G

LEMMA SentText ==
    ASSUME NEW chunk \in Seq(Nat)
    PROVE  /\ writeSSE(chunk) \in Seq(Nat)
           /\ Text(writeSSE(chunk)) = Text(chunk)
           /\ \A i \in 1..Len(writeSSE(chunk)) :
                 writeSSE(chunk)[i] = Newline \/ \E j \in 1..Len(chunk) : writeSSE(chunk)[i] = chunk[j]
<1> DEFINE text == {i \in 1..Len(chunk) : chunk[i] # Newline}
           last == CHOOSE i \in text \cup {0} : \A j \in text : j <= i
           cut == SubSeq(chunk, 1, last)
<1>1. Len(chunk) \in Nat /\ text \in SUBSET (1..Len(chunk))
    OBVIOUS
<1>2. writeSSE(chunk) = cut \o <<Newline>>
    BY DEF writeSSE
<1>3. last \in text \cup {0} /\ \A j \in text : j <= last
    <2> HIDE DEF text
    <2> QED BY <1>1, Largest
<1> HIDE DEF last
<1>4. last \in 0..Len(chunk)
    BY <1>1, <1>3
<1>5. \A i \in (last + 1)..Len(chunk) : chunk[i] = Newline
    BY <1>1, <1>3, <1>4
<1>6. Text(chunk) = Text(cut)
    BY <1>4, <1>5, TextPadded
<1>7. /\ cut \in Seq(Nat) /\ Len(cut) = last
      /\ \A i \in 1..last : cut[i] = chunk[i] /\ i \in 1..Len(chunk)
    BY <1>4
<1>8. <<Newline>> \in Seq(Nat) /\ Text(<<Newline>>) = <<>>
    <2>1. <<Newline>> \in Seq(Nat) /\ Len(<<Newline>>) = 1 /\ <<Newline>>[1] = Newline
        BY DEF Newline
    <2>2. Text(<<Newline>>) = Text(SubSeq(<<Newline>>, 1, 0))
        <3> DEFINE nl == <<Newline>>
        <3>1. nl \in Seq(Nat) /\ 0 \in 0..Len(nl) /\ \A i \in (0 + 1)..Len(nl) : nl[i] = Newline
            BY <2>1
        <3> HIDE DEF nl
        <3>2. Text(nl) = Text(SubSeq(nl, 1, 0))
            BY <3>1, TextPadded
        <3> QED BY <3>2 DEF nl
    <2>3. SubSeq(<<Newline>>, 1, 0) = <<>>
        BY SubSeqEmpty
    <2> QED BY <2>1, <2>2, <2>3, TextEmpty
<1> HIDE DEF cut, text
<1>9. Text(cut \o <<Newline>>) = Text(cut)
    <2>1. Text(cut \o <<Newline>>) = Text(cut) \o <<>>
        BY <1>7, <1>8, TextConcat
    <2>2. Text(cut) \in Seq(Nat)
        BY <1>7, TextType
    <2> QED BY <2>1, <2>2, ConcatEmptySeq
<1>10. ASSUME NEW i \in 1..Len(cut \o <<Newline>>)
       PROVE  \/ (cut \o <<Newline>>)[i] = Newline
              \/ \E j \in 1..Len(chunk) : (cut \o <<Newline>>)[i] = chunk[j]
    <2>2. Len(cut \o <<Newline>>) = last + 1 /\ i \in 1..(last + 1)
        BY <1>4, <1>7, <1>8
    <2>1. (cut \o <<Newline>>)[i] = IF i <= last THEN cut[i] ELSE Newline
        <3>1. (cut \o <<Newline>>)[i] = IF i <= Len(cut) THEN cut[i] ELSE <<Newline>>[i - Len(cut)]
            BY <1>7, <1>8, <2>2, ConcatProperties
        <3>2. ~(i <= last) => i - last = 1
            BY <1>4, <2>2
        <3> QED BY <1>7, <3>1, <3>2
    <2> QED BY <1>4, <1>7, <2>1, <2>2
<1> QED BY <1>2, <1>6, <1>7, <1>8, <1>9, <1>10

------------------------------------------------------------------------------
(* The inductive invariant.                                                   *)

(* The log is as long as the builder has got.                                 *)
LogBounded ==
    /\ Len(logs) <= MaxLog + 3
    /\ bpc \in {"claim", "build", "report"} => Len(logs) <= MaxLog

(* The outcome is the builder's last word: nothing is written after it.       *)
OutcomeIsLast == status \in Terminal => bpc = "done"

(* A reader has printed the text of what its handler has sent.                *)
PrintedIsSent == \A r \in Readers : Text(printed[r]) = Text(SubSeq(logs, 1, sent[r]))

LogInv ==
    /\ TypeOK
    /\ LogBounded
    /\ OutcomeIsLast
    /\ PrintedIsSent

LEMMA SeqIn ==
    ASSUME NEW s \in Seq(Nat), NEW T, \A i \in 1..Len(s) : s[i] \in T
    PROVE  s \in Seq(T)
<1>1. Len(s) \in Nat /\ s \in [1..Len(s) -> T]
    BY LenProperties
<1> QED BY <1>1, SeqDef

LEMMA LogsTyped ==
    ASSUME TypeOK
    PROVE  /\ logs \in Seq(Nat) /\ Len(logs) \in Nat
           /\ \A r \in Readers : /\ printed[r] \in Seq(Nat)
                                 /\ printed[r] \in Seq(0..(MaxLog + 3))
                                 /\ sent[r] \in 0..Len(logs)
<1> USE LogAssumption
<1>1. 0..(MaxLog + 3) \subseteq Nat
    OBVIOUS
<1>2. logs \in Seq(Nat)
    BY <1>1, SeqMonotonic DEF TypeOK
<1>3. ASSUME NEW r \in Readers
      PROVE  printed[r] \in Seq(Nat) /\ printed[r] \in Seq(0..(MaxLog + 3)) /\ sent[r] \in 0..Len(logs)
    <2>1. printed[r] \in Seq(0..(MaxLog + 3)) /\ sent[r] \in 0..Len(logs)
        BY DEF TypeOK
    <2> QED BY <1>1, <2>1, SeqMonotonic
<1> QED BY <1>2, <1>3

LEMMA LogInit == Init => LogInv
<1> SUFFICES ASSUME Init PROVE LogInv
    OBVIOUS
<1> USE LogAssumption
<1>1. /\ logs \in Seq(0..(MaxLog + 3)) /\ Len(logs) \in {0, 2}
      /\ \A i \in 1..Len(logs) : logs[i] \in {i, Newline}
      /\ bpc # "done" => Len(logs) = 0
    <2>1. CASE logs = <<>>
        BY <2>1 DEF Init
    <2>2. CASE logs = <<1, Newline>> /\ bpc = "done"
        <3>1. 1 \in 0..(MaxLog + 3) /\ 0 \in 0..(MaxLog + 3)
            OBVIOUS
        <3>2. <<1, 0>> \in Seq(0..(MaxLog + 3)) /\ Len(<<1, 0>>) = 2
            BY <3>1
        <3> QED BY <2>2, <3>2 DEF Newline
    <2> QED BY <2>1, <2>2 DEF Init
<1>2. sent \in [Readers -> 0..Len(logs)] /\ printed \in [Readers -> Seq(0..(MaxLog + 3))]
    <2>1. 0 \in 0..Len(logs) /\ <<>> \in Seq(0..(MaxLog + 3))
        BY <1>1
    <2> QED BY <2>1 DEF Init
<1>3. TypeOK
    BY <1>1, <1>2 DEF Init, TypeOK, Terminal
<1>4. LogBounded /\ OutcomeIsLast
    BY <1>1 DEF Init, LogBounded, OutcomeIsLast, Terminal
<1>5. PrintedIsSent
    <2> SUFFICES ASSUME NEW r \in Readers PROVE Text(printed[r]) = Text(SubSeq(logs, 1, sent[r]))
        BY DEF PrintedIsSent
    <2>1. printed[r] = <<>> /\ sent[r] = 0
        BY DEF Init
    <2>2. SubSeq(logs, 1, 0) = <<>>
        BY SubSeqEmpty
    <2> QED BY <2>1, <2>2
<1> QED BY <1>3, <1>4, <1>5 DEF LogInv

(* What is appended to the log leaves what was sent of it alone.              *)
LEMMA AppendKeeps ==
    ASSUME LogInv, NEW chunk, chunk \in Seq(Nat), Len(chunk) \in 0..(MaxLog + 3 - Len(logs)),
           \A i \in 1..Len(chunk) : chunk[i] \in {Len(logs) + i, Newline},
           AppendBuildLog(chunk), UNCHANGED <<row, status, readerVars>>
    PROVE  /\ logs' \in Seq(0..(MaxLog + 3)) /\ Len(logs') \in Len(logs)..(Len(logs) + Len(chunk))
           /\ \A i \in 1..Len(logs') : logs'[i] \in {i, Newline}
           /\ sent' \in [Readers -> 0..Len(logs')]
           /\ PrintedIsSent'
<1> USE LogAssumption DEF LogInv
<1>1. CASE row # "exists"
    <2>1. logs' = logs /\ sent' = sent /\ printed' = printed
        BY <1>1 DEF AppendBuildLog, readerVars
    <2> QED BY <2>1, LogsTyped DEF TypeOK, PrintedIsSent
<1>2. CASE row = "exists"
    <2>1. logs' = logs \o chunk /\ sent' = sent /\ printed' = printed
        BY <1>2 DEF AppendBuildLog, readerVars
    <2>2. logs \in Seq(Nat) /\ Len(logs) \in Nat /\ Len(chunk) \in Nat
        BY LogsTyped
    <2>3. /\ Len(logs') = Len(logs) + Len(chunk) /\ logs' \in Seq(Nat)
          /\ \A i \in 1..(Len(logs) + Len(chunk)) :
                logs'[i] = IF i <= Len(logs) THEN logs[i] ELSE chunk[i - Len(logs)]
        BY <2>1, <2>2, ConcatProperties
    <2>4. \A i \in 1..Len(logs') : logs'[i] \in {i, Newline}
        <3> SUFFICES ASSUME NEW i \in 1..Len(logs') PROVE logs'[i] \in {i, Newline}
            OBVIOUS
        <3>1. CASE i <= Len(logs)
            <4>1. i \in 1..Len(logs) /\ logs'[i] = logs[i]
                BY <2>2, <2>3, <3>1
            <4> QED BY <4>1 DEF TypeOK
        <3>2. CASE ~(i <= Len(logs))
            <4>1. i - Len(logs) \in 1..Len(chunk) /\ Len(logs) + (i - Len(logs)) = i
                BY <2>2, <2>3, <3>2
            <4>2. logs'[i] = chunk[i - Len(logs)]
                BY <2>3, <3>2
            <4> QED BY <4>1, <4>2
        <3> QED BY <3>1, <3>2
    <2>5. logs' \in Seq(0..(MaxLog + 3))
        <3>1. Len(logs') \in 0..(MaxLog + 3)
            BY <2>2, <2>3
        <3>2. ASSUME NEW i \in 1..Len(logs') PROVE logs'[i] \in 0..(MaxLog + 3)
            <4>1. logs'[i] \in {i, 0}
                BY <2>4 DEF Newline
            <4> QED BY <3>1, <4>1
        <3> QED BY <2>3, <3>2, SeqIn
    <2>6. \A r \in Readers : sent[r] \in 0..Len(logs)
        BY LogsTyped
    <2>7. sent' \in [Readers -> 0..Len(logs')]
        <3>1. \A r \in Readers : sent[r] \in 0..Len(logs')
            BY <2>2, <2>3, <2>6
        <3> QED BY <2>1, <3>1 DEF TypeOK
    <2>8. PrintedIsSent'
        <3> SUFFICES ASSUME NEW r \in Readers
                     PROVE Text(printed[r]) = Text(SubSeq(logs', 1, sent[r]))
            BY <2>1 DEF PrintedIsSent
        <3>1. SubSeq(logs', 1, sent[r]) = SubSeq(logs, 1, sent[r])
            <4>1. CASE sent[r] = 0
                BY <4>1, SubSeqEmpty
            <4>2. CASE sent[r] # 0
                <5>1. 1 \in 1..Len(logs) /\ sent[r] \in 1..Len(logs)
                    BY <2>2, <2>6, <4>2
                <5> QED BY <2>1, <2>2, <5>1, SubSeqOfConcat1
            <4> QED BY <4>1, <4>2
        <3> QED BY <3>1 DEF PrintedIsSent
    <2> QED BY <2>2, <2>3, <2>4, <2>5, <2>7, <2>8
<1> QED BY <1>1, <1>2

LEMMA PollKeeps ==
    ASSUME LogInv, NEW r \in Readers, Poll(r)
    PROVE  LogInv' /\ Text(printed'[r]) = Text(logs)
<1> USE LogAssumption DEF LogInv
<1> DEFINE new == SubSeq(logs, sent[r] + 1, Len(logs))
           old == SubSeq(logs, 1, sent[r])
<1>1. /\ logs \in Seq(Nat) /\ Len(logs) \in Nat /\ sent[r] \in 0..Len(logs)
      /\ printed[r] \in Seq(Nat) /\ printed[r] \in Seq(0..(MaxLog + 3))
    BY LogsTyped
<1>2. UNCHANGED <<row, status, logs, bpc, faults>> /\ sent' = [sent EXCEPT ![r] = Len(logs)]
    BY DEF Poll, rowVars
<1>3. old \o new = logs
    <2>1. /\ 1 \in 1..(Len(logs) + 1) /\ sent[r] \in (1 - 1)..Len(logs)
          /\ Len(logs) \in sent[r]..Len(logs)
        BY <1>1
    <2>2. old \o new = SubSeq(logs, 1, Len(logs))
        BY <1>1, <2>1, ConcatAdjacentSubSeq
    <2> QED BY <1>1, <2>2, SubSeqFull
<1>4. /\ old \in Seq(Nat) /\ new \in Seq(Nat)
      /\ \A i \in 1..Len(new) : new[i] \in 0..(MaxLog + 3)
    <2>1. \A i \in 1..Len(logs) : logs[i] \in 0..(MaxLog + 3)
        BY <1>1, ElementOfSeq DEF TypeOK
    <2>2. \A i \in 1..sent[r] : logs[i] \in Nat
        BY <1>1
    <2>3. \A i \in (sent[r] + 1)..Len(logs) : logs[i] \in 0..(MaxLog + 3)
        BY <1>1, <2>1
    <2>4. new \in Seq(0..(MaxLog + 3))
        BY <1>1, <2>3, SubSeqProperties
    <2>5. old \in Seq(Nat)
        BY <1>1, <2>2, SubSeqProperties
    <2>6. new \in Seq(Nat)
        <3>1. 0..(MaxLog + 3) \subseteq Nat OBVIOUS
        <3> QED BY <2>4, <3>1, SeqMonotonic
    <2> QED BY <2>4, <2>5, <2>6, ElementOfSeq
<1> HIDE DEF new, old
<1>5. Text(printed[r]) = Text(old)
    BY DEF PrintedIsSent, old
<1>6. /\ printed' \in [Readers -> Seq(0..(MaxLog + 3))]
      /\ Text(printed'[r]) = Text(logs)
      /\ \A q \in Readers : q # r => printed'[q] = printed[q]
    <2>1. CASE Len(logs) > sent[r]
        <3> DEFINE p == printed[r] \o writeSSE(new)
        <3>1. printed' = [printed EXCEPT ![r] = p]
            BY <2>1 DEF Poll, new
        <3>2. /\ writeSSE(new) \in Seq(Nat) /\ Text(writeSSE(new)) = Text(new)
              /\ \A i \in 1..Len(writeSSE(new)) : writeSSE(new)[i] \in 0..(MaxLog + 3)
            BY <1>4, SentText DEF Newline
        <3>3. writeSSE(new) \in Seq(0..(MaxLog + 3))
            BY <3>2, SeqIn
        <3>4. p \in Seq(0..(MaxLog + 3))
            BY <1>1, <3>3, ConcatProperties
        <3>5. Text(p) = Text(old) \o Text(new)
            BY <1>1, <1>5, <3>2, TextConcat
        <3>6. Text(p) = Text(logs)
            BY <1>3, <1>4, <3>5, TextConcat
        <3> HIDE DEF p
        <3> QED BY <3>1, <3>4, <3>6 DEF TypeOK
    <2>2. CASE ~(Len(logs) > sent[r])
        <3>1. printed' = printed
            BY <2>2 DEF Poll
        <3>2. old = logs
            BY <1>1, <2>2, SubSeqFull DEF old
        <3> QED BY <1>5, <3>1, <3>2 DEF TypeOK
    <2> QED BY <2>1, <2>2
<1>7. PrintedIsSent'
    <2> SUFFICES ASSUME NEW q \in Readers
                 PROVE Text(printed'[q]) = Text(SubSeq(logs, 1, sent'[q]))
        BY <1>2 DEF PrintedIsSent
    <2>1. CASE q = r
        <3>1. sent'[q] = Len(logs)
            BY <1>2, <2>1 DEF TypeOK
        <3>2. SubSeq(logs, 1, Len(logs)) = logs
            BY <1>1, SubSeqFull
        <3> QED BY <1>6, <2>1, <3>1, <3>2
    <2>2. CASE q # r
        BY <1>2, <1>6, <2>2 DEF PrintedIsSent, TypeOK
    <2> QED BY <2>1, <2>2
<1>8. sent' \in [Readers -> 0..Len(logs)]
    <2>1. Len(logs) \in 0..Len(logs)
        BY <1>1
    <2> QED BY <1>2, <2>1 DEF TypeOK
<1>9. stream' \in [Readers -> {"none", "open", "ended", "cut"}]
    BY DEF Poll, TypeOK
<1>10. TypeOK'
    BY <1>2, <1>6, <1>8, <1>9 DEF TypeOK
<1>11. LogBounded' /\ OutcomeIsLast'
    BY <1>2 DEF LogBounded, OutcomeIsLast
<1> QED BY <1>6, <1>7, <1>10, <1>11

(* A step that leaves the log and what was sent of it alone.                  *)
LEMMA OtherKeeps ==
    ASSUME LogInv, UNCHANGED <<logs, sent, printed>>,
           row' \in {"exists", "deleted"},
           status' \in {"queued", "running"} \cup Terminal,
           bpc' \in {"claim", "build", "report", "fail", "finish", "done"},
           bpc' \in {"claim", "build", "report"} => bpc \in {"claim", "build", "report"},
           status' \in Terminal => bpc' = "done",
           stream' \in [Readers -> {"none", "open", "ended", "cut"}],
           faults' \in 0..MaxFaults
    PROVE  LogInv'
BY DEF LogInv, TypeOK, LogBounded, OutcomeIsLast, PrintedIsSent

LEMMA ChunkShape ==
    ASSUME LogInv, NEW shape, NEW n \in Nat, shape \in [1..n -> {"text", "newline"}]
    PROVE  /\ Len(shape) = n
           /\ Chunk(shape) \in Seq(Nat) /\ Len(Chunk(shape)) = n
           /\ \A i \in 1..n : Chunk(shape)[i] \in {Len(logs) + i, Newline}
<1>1. Len(logs) \in Nat
    BY LogsTyped DEF LogInv
<1>2. Len(shape) = n
    BY SeqDef
<1>3. Chunk(shape) = [i \in 1..n |-> IF shape[i] = "text" THEN Len(logs) + i ELSE Newline]
    BY <1>2 DEF Chunk
<1>4. Chunk(shape) \in [1..n -> Nat]
    BY <1>1, <1>3 DEF Newline
<1>5. Chunk(shape) \in Seq(Nat)
    BY <1>4, SeqDef
<1>6. Len(Chunk(shape)) = n
    BY <1>4, <1>5, LenProperties
<1> QED BY <1>2, <1>3, <1>5, <1>6

------------------------------------------------------------------------------
(* Every step keeps the invariant and is a step, or a stuttering step, of     *)
(* the delivery.                                                              *)

Delivered == [Delivery!Next]_(Delivery!vars)

(* The builder appends to the log while the build has no outcome.             *)
LEMMA AppendDelivers ==
    ASSUME LogInv, NEW chunk, chunk \in Seq(Nat), AppendBuildLog(chunk),
           bpc # "done", UNCHANGED <<row, status, readerVars>>
    PROVE  Delivered
<1>1. status' = status /\ printed' = printed /\ stream' = stream /\ status \notin Terminal
    BY DEF readerVars, LogInv, OutcomeIsLast
<1>2. logs \in Seq(Nat)
    BY LogsTyped DEF LogInv
<1>3. CASE row # "exists" \/ Text(chunk) = <<>>
    <2>1. Text(logs') = Text(logs)
        <3>1. CASE row # "exists"
            BY <3>1 DEF AppendBuildLog
        <3>2. CASE row = "exists"
            <4>1. Text(logs') = Text(logs) \o Text(chunk)
                BY <1>2, <3>2, TextConcat DEF AppendBuildLog
            <4>2. Text(logs) \in Seq(Nat)
                BY <1>2, TextType
            <4> QED BY <1>3, <3>2, <4>1, <4>2, ConcatEmptySeq
        <3> QED BY <3>1, <3>2
    <2> QED BY <1>1, <2>1 DEF Delivered, Delivery!vars
<1>4. CASE row = "exists" /\ Text(chunk) # <<>>
    <2> DEFINE a == Text(logs)
               b == Text(chunk)
    <2>1. Text(logs') = a \o b
        BY <1>2, <1>4, TextConcat DEF AppendBuildLog
    <2>2. a \in Seq(Nat) /\ b \in Seq(Nat)
        BY <1>2, TextType
    <2>3. Delivery!IsStrictPrefix(a, a \o b)
        <3> HIDE DEF a, b
        <3>1. a \o b # a
            BY <1>4, <2>2, ConcatEqualIffEmpty DEF b
        <3> QED BY <2>2, <3>1 DEF Delivery!IsStrictPrefix, Delivery!IsPrefix
    <2>4. Delivery!Write
        BY <1>1, <2>1, <2>3 DEF Delivery!Write
    <2> QED BY <2>4 DEF Delivered, Delivery!Next
<1> QED BY <1>3, <1>4

(* A step of the builder that sets the status or goes on.                     *)
LEMMA StatusDelivers ==
    ASSUME LogInv, UNCHANGED <<logs, readerVars>>,
           status' \in Terminal \/ status \notin Terminal
    PROVE  Delivered
<1>1. logs' = logs /\ printed' = printed /\ stream' = stream
    BY DEF readerVars
<1>2. CASE status \notin Terminal /\ status' \in Terminal
    <2>1. Delivery!Complete
        BY <1>1, <1>2 DEF Delivery!Complete
    <2> QED BY <2>1 DEF Delivered, Delivery!Next
<1>3. CASE status \in Terminal <=> status' \in Terminal
    BY <1>1, <1>3 DEF Delivered, Delivery!vars
<1> QED BY <1>2, <1>3

LEMMA BuilderCorrect == LogInv /\ (BuilderStep \/ BuilderStops) => LogInv' /\ Delivered
<1> SUFFICES ASSUME LogInv, BuilderStep \/ BuilderStops PROVE LogInv' /\ Delivered
    OBVIOUS
<1> USE LogAssumption
<1> TypeOK /\ LogBounded /\ OutcomeIsLast BY DEF LogInv
<1> Len(logs) \in Nat BY LogsTyped
<1> USE DEF rowVars, readerVars, Goto
<1>1. ASSUME UNCHANGED <<logs, readerVars>>, row' = row, faults' \in 0..MaxFaults,
             \/ status' = status /\ bpc' = "done"
             \/ status \notin Terminal /\ status' = status /\ bpc' \in {"build", "report", "fail", "finish"}
             \/ status \notin Terminal /\ status' \in Terminal /\ bpc' = "done"
             \/ status \notin Terminal /\ status' = "running" /\ bpc' = "build",
             bpc' \in {"build", "report"} => bpc \in {"claim", "build"}
      PROVE  LogInv' /\ Delivered
    <2>1. LogInv'
        <3>1. status' \in {"queued", "running"} \cup Terminal
            BY <1>1 DEF TypeOK
        <3>2. status' \in Terminal => bpc' = "done"
            BY <1>1 DEF Terminal
        <3> QED BY <1>1, <3>1, <3>2, OtherKeeps DEF TypeOK
    <2>2. Delivered
        BY <1>1, StatusDelivers
    <2> QED BY <2>1, <2>2
<1>2. bpc # "done" => status \notin Terminal
    BY DEF OutcomeIsLast
<1>3. faults \in 0..MaxFaults /\ (Fault => faults' \in 0..MaxFaults)
    BY DEF TypeOK, Fault
<1>4. ASSUME NEW chunk, chunk \in Seq(Nat), Len(chunk) \in 0..(MaxLog + 3 - Len(logs)),
             \A i \in 1..Len(chunk) : chunk[i] \in {Len(logs) + i, Newline},
             AppendBuildLog(chunk), UNCHANGED <<row, status, readerVars>>,
             \/ bpc = "build" /\ bpc' = "build" /\ Len(logs) + Len(chunk) <= MaxLog
             \/ bpc = "report" /\ bpc' = "fail",
             faults' = faults
      PROVE  LogInv' /\ Delivered
    <2>1. /\ logs' \in Seq(0..(MaxLog + 3)) /\ Len(logs') \in Len(logs)..(Len(logs) + Len(chunk))
          /\ \A i \in 1..Len(logs') : logs'[i] \in {i, Newline}
          /\ sent' \in [Readers -> 0..Len(logs')]
          /\ PrintedIsSent'
        BY <1>4, AppendKeeps
    <2>2. TypeOK'
        BY <1>4, <2>1 DEF TypeOK
    <2>3. LogBounded'
        BY <1>4, <2>1 DEF LogBounded
    <2>4. OutcomeIsLast'
        BY <1>2, <1>4 DEF OutcomeIsLast
    <2>5. Delivered
        BY <1>4, AppendDelivers
    <2> QED BY <2>1, <2>2, <2>3, <2>4, <2>5 DEF LogInv
<1>5. CASE StartBuild
    BY <1>1, <1>2, <1>3, <1>5 DEF StartBuild, SetStatus
<1>6. ASSUME NEW shape \in Shapes, WriteOutput(shape) PROVE LogInv' /\ Delivered
    <2>1. PICK n \in 1..MaxChunk : shape \in [1..n -> {"text", "newline"}]
        BY DEF Shapes
    <2>2. /\ Len(shape) = n /\ Chunk(shape) \in Seq(Nat) /\ Len(Chunk(shape)) = n
          /\ \A i \in 1..n : Chunk(shape)[i] \in {Len(logs) + i, Newline}
        BY <2>1, ChunkShape
    <2>3. /\ bpc = "build" /\ Len(logs) + n <= MaxLog /\ AppendBuildLog(Chunk(shape))
          /\ UNCHANGED <<row, status, bpc, readerVars, faults>>
        BY <1>6, <2>2 DEF WriteOutput
    <2>4. n \in 0..(MaxLog + 3 - Len(logs))
        BY <2>3
    <2> QED BY <1>4, <2>2, <2>3, <2>4
<1>7. CASE BuildFails
    BY <1>1, <1>2, <1>3, <1>7 DEF BuildFails
<1>8. CASE ReportFailure
    <2> DEFINE shape == <<"newline", "text", "newline">>
    <2>1. CASE AppendBuildLog(Chunk(shape)) /\ UNCHANGED faults
        <3>1. shape \in [1..3 -> {"text", "newline"}]
            OBVIOUS
        <3> HIDE DEF shape
        <3>2. /\ Chunk(shape) \in Seq(Nat) /\ Len(Chunk(shape)) = 3
              /\ \A i \in 1..3 : Chunk(shape)[i] \in {Len(logs) + i, Newline}
            BY <3>1, ChunkShape
        <3>3. bpc = "report" /\ bpc' = "fail" /\ UNCHANGED <<row, status, readerVars>>
            BY <1>8 DEF ReportFailure
        <3>4. 3 \in 0..(MaxLog + 3 - Len(logs))
            BY <3>3 DEF LogBounded
        <3> QED BY <1>4, <2>1, <3>2, <3>3, <3>4
    <2>2. CASE UNCHANGED logs /\ Fault
        BY <1>1, <1>2, <1>3, <1>8, <2>2 DEF ReportFailure
    <2> QED BY <1>8, <2>1, <2>2 DEF ReportFailure
<1>9. CASE Fail
    BY <1>1, <1>2, <1>3, <1>9 DEF Fail, SetStatus, Terminal
<1>10. CASE BuildSucceeds
    BY <1>1, <1>2, <1>3, <1>10 DEF BuildSucceeds
<1>11. CASE FinishBuild
    BY <1>1, <1>2, <1>3, <1>11 DEF FinishBuild, SetStatus, Terminal
<1>12. CASE BuilderStops
    BY <1>1, <1>2, <1>3, <1>12 DEF BuilderStops
<1> QED
    BY <1>5, <1>6, <1>7, <1>8, <1>9, <1>10, <1>11, <1>12 DEF BuilderStep

LEMMA ReaderCorrect ==
    ASSUME LogInv, NEW r \in Readers, Open(r) \/ Poll(r) \/ CutStream(r)
    PROVE  LogInv' /\ Delivered
<1> TypeOK /\ OutcomeIsLast BY DEF LogInv
<1>1. CASE Open(r)
    <2>1. LogInv'
        BY <1>1, OtherKeeps DEF Open, rowVars, TypeOK, OutcomeIsLast
    <2>2. Delivery!Open(r)
        BY <1>1 DEF Open, rowVars, Delivery!Open
    <2> QED BY <2>1, <2>2 DEF Delivered, Delivery!Next
<1>2. CASE Poll(r)
    <2>1. LogInv' /\ Text(printed'[r]) = Text(logs)
        BY <1>2, PollKeeps
    <2>2. \A q \in Readers : q # r => printed'[q] = printed[q]
        BY <1>2 DEF Poll, TypeOK
    <2>3. UNCHANGED <<row, status, logs>> /\ stream[r] = "open"
        BY <1>2 DEF Poll, rowVars
    <2>4. stream' = IF status \in Terminal THEN [stream EXCEPT ![r] = "ended"] ELSE stream
        BY <1>2 DEF Poll
    <2>5. [q \in Readers |-> Text(printed'[q])]
             = [[q \in Readers |-> Text(printed[q])] EXCEPT ![r] = Text(logs)]
        BY <2>1, <2>2
    <2>6. Delivery!Deliver(r)
        BY <2>3, <2>4, <2>5 DEF Delivery!Deliver
    <2> QED BY <2>1, <2>6 DEF Delivered, Delivery!Next
<1>3. CASE CutStream(r)
    <2>1. faults' \in 0..MaxFaults
        BY <1>3, LogAssumption DEF CutStream, TypeOK, Fault
    <2>2. LogInv'
        BY <1>3, <2>1, OtherKeeps DEF CutStream, rowVars, TypeOK, OutcomeIsLast
    <2>3. Delivery!Cut(r)
        BY <1>3 DEF CutStream, rowVars, Delivery!Cut
    <2> QED BY <2>2, <2>3 DEF Delivered, Delivery!Next
<1> QED BY <1>1, <1>2, <1>3

LEMMA LogStep == LogInv /\ [Next]_vars => LogInv' /\ Delivered
<1> SUFFICES ASSUME LogInv, [Next]_vars PROVE LogInv' /\ Delivered
    OBVIOUS
<1> TypeOK /\ OutcomeIsLast BY DEF LogInv
<1>1. CASE UNCHANGED vars
    <2>1. LogInv'
        BY <1>1, OtherKeeps DEF vars, rowVars, readerVars, TypeOK, OutcomeIsLast
    <2>2. Delivered
        BY <1>1 DEF vars, rowVars, readerVars, Delivered, Delivery!vars
    <2> QED BY <2>1, <2>2
<1>2. CASE DeleteRow
    <2>1. LogInv'
        BY <1>2, OtherKeeps DEF DeleteRow, readerVars, TypeOK, OutcomeIsLast
    <2>2. Delivered
        BY <1>2 DEF DeleteRow, readerVars, Delivered, Delivery!vars
    <2> QED BY <2>1, <2>2
<1>3. CASE BuilderStep \/ BuilderStops
    BY <1>3, BuilderCorrect
<1>4. ASSUME NEW r \in Readers, Open(r) \/ Poll(r) \/ CutStream(r) PROVE LogInv' /\ Delivered
    BY <1>4, ReaderCorrect
<1> QED BY <1>1, <1>2, <1>3, <1>4 DEF Next

------------------------------------------------------------------------------
(* Every reader has printed the text of just what was sent to it, the log is  *)
(* closed by the outcome, and every variable keeps its type.                  *)
THEOREM LogCorrect == Spec => []LogInv
<1>1. LogInv /\ [Next]_vars => LogInv'
    BY LogStep
<1> QED BY <1>1, LogInit, PTL DEF Spec

(* Every variable of the log stream keeps its type.                           *)
THEOREM LogTypes == Spec => []TypeOK
<1>1. LogInv => TypeOK
    BY DEF LogInv
<1> QED BY <1>1, LogCorrect, PTL

(* The streams of handleDeployLogs implement the delivery of the log: each    *)
(* reader gets the text from its start without gap or repetition, and its end *)
(* once it has all of it.                                                     *)
THEOREM StreamImplementsDelivery == Spec => ImplementsDelivery
<1>1. Init => Delivery!Init
    <2> SUFFICES ASSUME Init PROVE Delivery!Init
        OBVIOUS
    <2>1. [r \in Readers |-> Text(printed[r])] = [r \in Readers |-> <<>>]
        BY TextEmpty DEF Init
    <2> QED BY <2>1 DEF Init, Delivery!Init
<1>2. LogInv /\ [Next]_vars => [Delivery!Next]_(Delivery!vars)
    BY LogStep DEF Delivered
<1> QED BY <1>1, <1>2, LogCorrect, PTL DEF Spec, ImplementsDelivery, Delivery!Spec

==============================================================================
