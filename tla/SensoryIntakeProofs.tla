------------------------- MODULE SensoryIntakeProofs -------------------------
(***************************************************************************)
(* Proofs about SensoryIntake, for any sources, lines, files and bounds.   *)
(***************************************************************************)
EXTENDS SensoryIntake, SequenceTheorems, TLAPS

\* The keys of the deduplication window.
Keys == {RecurrenceKey(s, text) : s \in Sources, text \in Text}

\* Besides the types: a feeder goes on writing to its newest file, and an
\* envelope begun is still to be counted.
Types ==
    /\ TypeOK
    /\ recent \in Seq(Keys)
    /\ \A s \in Sources :
          /\ live[s] \in {0, Len(files[s])}
          /\ sent[s] > 0 =>
                next[s] \in Envelopes /\ sent[s] < Width[next[s]] /\ inFile[s] < MaxInFile

\* The first byte of envelope n of s is on disk.
Begun(s, n) == n < next[s] \/ (n = next[s] /\ sent[s] > 0)

BegunAfter(s, n) == n < next'[s] \/ (n = next'[s] /\ sent'[s] > 0)

\* A file holds what was begun, and the feeder's files hold the first bytes of
\* envelopes in the order they were written.
Later(k, p, l, q) == k < l \/ (k = l /\ p < q)
WrittenInOrder ==
    \A s \in Sources : \A k \in 1..Len(files[s]) : \A p \in 1..Len(files[s][k]) :
        files[s][k][p][2] = 1 =>
            /\ Begun(s, files[s][k][p][1])
            /\ \A l \in 1..Len(files[s]) : \A q \in 1..Len(files[s][l]) :
                  Later(k, p, l, q) /\ files[s][l][q][2] = 1 =>
                      files[s][k][p][1] < files[s][l][q][1]

\* What the adapter of s may still come to read: what is beyond its position
\* in the file it has open, or had open last if that is still the live one,
\* and all of later files.  A position past the end of a file says that
\* nothing of that file was read, since the adapter will start it over.
Reading(s) == stage = "lines" /\ Head(todo) = s
Beyond(f, c, p) == p > c \/ c > Len(f)
Unread(s, k, p) ==
    IF Reading(s)
    THEN k > handle \/ (k = handle /\ Beyond(files[s][k], cursor, p))
    ELSE k > from[s] \/ (k = from[s] /\ k = live[s] /\ Beyond(files[s][k], offset[s], p))

\* No stimulus is a line the adapter may still come to read, or a later one.
Precedes(e) ==
    /\ e[2][1] \in Byte
    /\ Parsed(e[2]) =>
        /\ Begun(e[1], e[2][1][1])
        /\ \A k \in 1..Len(files[e[1]]) : \A p \in 1..Len(files[e[1]][k]) :
              Unread(e[1], k, p) /\ files[e[1]][k][p][2] = 1 =>
                  e[2][1][1] < files[e[1]][k][p][1]
Fresh == LET st == Stimuli IN \A i \in 1..Len(st) : Precedes(st[i])

\* Results are there only while they are made or handled.
Results ==
    /\ stage \notin {"lines", "handle"} => got = <<>>
    /\ stage = "handle" => got # <<>>
    /\ stage = "lines" => from[Head(todo)] <= handle

\* All bytes of f up to c are in texts, and while the total is not reached a
\* first file is read so up to the position its adapter has, or remembers.
ReadUpTo(f, c, texts) ==
    /\ c <= Len(f)
    /\ \A p \in 1..c : IsNewline(f[p]) \/ \E t \in texts : \E i \in 1..Len(t) : t[i] = f[p]
GotTexts == {got[i] : i \in 1..Len(got)}
GivenTexts(s) == handled[s] \cup IF stage = "handle" /\ Head(todo) = s THEN GotTexts ELSE {}
GapFree ==
    total < MaxTotal =>
        /\ \A s \in Sources :
              /\ from[s] = 0 => offset[s] = 0
              /\ from[s] = 1 => ReadUpTo(files[s][1], offset[s], GivenTexts(s))
        /\ stage = "lines" /\ handle = 1 =>
              ReadUpTo(files[Head(todo)][1], cursor, handled[Head(todo)] \cup GotTexts)

-----------------------------------------------------------------------------
(* Sequences. *)

\* A sequence with an element is not empty.
LEMMA NonEmpty ==
    ASSUME NEW S, NEW q \in Seq(S), Len(q) > 0
    PROVE  q # <<>>
BY EmptySeq

\* The first element and the others.
LEMMA TailOf ==
    ASSUME NEW S, NEW q \in Seq(S), Len(q) > 0
    PROVE  /\ Tail(q) \in Seq(S) /\ Len(Tail(q)) = Len(q) - 1
           /\ \A i \in 1..Len(Tail(q)) : Tail(q)[i] = q[i + 1]
           /\ Head(q) = q[1] /\ Head(q) \in S
<1>1. q # <<>>
    BY EmptySeq
<1> QED
    BY <1>1, HeadTailProperties, LenProperties

\* A part of a sequence, element by element.
LEMMA PartOf ==
    ASSUME NEW S, NEW q \in Seq(S), NEW m \in Nat \ {0}, NEW n \in 0..Len(q)
    PROVE  /\ SubSeq(q, m, n) \in Seq(S)
           /\ Len(SubSeq(q, m, n)) = IF m <= n THEN n - m + 1 ELSE 0
           /\ \A i \in 1..Len(SubSeq(q, m, n)) : SubSeq(q, m, n)[i] = q[m + i - 1]
<1>1. \A i \in m..n : q[i] \in S
    BY ElementOfSeq
<1> QED
    BY <1>1, SubSeqProperties

-----------------------------------------------------------------------------
(* What the steps do to files, lines and results. *)

\* What IntakeAssumption says of the constants, as the provers take it.
LEMMA Constants ==
    /\ Order \in Seq(Sources) /\ Order # <<>> /\ Len(Order) \in Nat /\ Len(Order) > 0
    /\ {MaxWrites, MaxInFile, MaxPerPoll, MaxTotal, Capacity, Batch, Window, MaxPolls} \subseteq Nat \ {0}
    /\ \A n \in Envelopes : Width[n] \in Nat /\ Width[n] > 1 /\ Content[n] \in Envelopes
<1>1. Order \in Seq(Sources) /\ Order # <<>>
    BY IntakeAssumption
<1>2. Len(Order) \in Nat /\ Len(Order) > 0
    BY <1>1
<1>3. \A b \in {MaxWrites, MaxInFile, MaxPerPoll, MaxTotal, Capacity, Batch, Window, MaxPolls} : b \in Nat \ {0}
    BY IntakeAssumption
<1>4. \A n \in Envelopes : Width[n] \in Nat \ {0, 1} /\ Content[n] \in Envelopes
    BY IntakeAssumption
<1> QED
    BY <1>1, <1>2, <1>3, <1>4

\* The bytes a feeder adds are the next ones of the envelope at work, at the
\* end of its newest file.
LEMMA Piece ==
    ASSUME NEW n \in Envelopes, NEW m \in Nat, NEW k \in 1..Width[n], m < k
    PROVE  LET piece == SubSeq(Line(n), m + 1, k)
           IN  /\ piece \in Seq(Byte)
               /\ Len(piece) = k - m
               /\ \A i \in 1..Len(piece) : piece[i] = <<n, m + i>>
<1>1. Width[n] \in Nat /\ Width[n] > 1
    BY Constants
<1>2. Line(n) \in Seq(Byte) /\ Len(Line(n)) = Width[n] /\ \A i \in 1..Width[n] : Line(n)[i] = <<n, i>>
    BY <1>1 DEF Line, Byte
<1>3. /\ SubSeq(Line(n), m + 1, k) \in Seq(Byte)
      /\ Len(SubSeq(Line(n), m + 1, k)) = k - m
      /\ \A i \in 1..Len(SubSeq(Line(n), m + 1, k)) : SubSeq(Line(n), m + 1, k)[i] = Line(n)[m + i]
    BY <1>1, <1>2, PartOf
<1> QED
    BY <1>1, <1>2, <1>3

\* What a write does to the feeder's files: it adds bytes at the end of the
\* newest one, or makes one, and changes no byte that is there.
LEMMA Writing ==
    ASSUME Types, NEW s \in Sources, NEW k \in 1..Width[next[s]], next[s] \in Envelopes, Write(s, k)
    PROVE  LET base == IF live[s] = 0 THEN 0 ELSE Len(files[s][live[s]])
           IN  /\ files' \in [Sources -> Seq(Seq(Byte))]
               /\ live' \in [Sources -> Nat]
               /\ \A r \in Sources \ {s} : files'[r] = files[r] /\ live'[r] = live[r]
               /\ live'[s] = Len(files'[s]) /\ live'[s] \in Nat \ {0}
               /\ Len(files'[s]) = IF live[s] = 0 THEN Len(files[s]) + 1 ELSE Len(files[s])
               /\ \A l \in 1..Len(files[s]) :
                     /\ Len(files'[s][l]) >= Len(files[s][l])
                     /\ l # live[s] => files'[s][l] = files[s][l]
                     /\ \A p \in 1..Len(files[s][l]) : files'[s][l][p] = files[s][l][p]
               /\ \A p \in 1..Len(files'[s][live'[s]]) :
                     p > base => files'[s][live'[s]][p] = <<next[s], sent[s] + p - base>>
<1> DEFINE n == next[s]
           m == sent[s]
           q == files[s]
           piece == SubSeq(Line(n), m + 1, k)
<1>1. /\ files \in [Sources -> Seq(Seq(Byte))] /\ q \in Seq(Seq(Byte)) /\ Len(q) \in Nat
      /\ m \in Nat /\ m < k /\ k \in Nat
      /\ live \in [Sources -> Nat] /\ live[s] \in {0, Len(q)}
    <2>1. /\ files \in [Sources -> Seq(Seq(Byte))] /\ live \in [Sources -> Nat]
          /\ live[s] \in {0, Len(files[s])} /\ sent \in [Sources -> Nat]
        BY DEF Types, TypeOK
    <2>2. q \in Seq(Seq(Byte)) /\ m \in Nat
        BY <2>1
    <2>3. m < k
        BY DEF Write
    <2>4. Width[next[s]] \in Nat
        BY Constants
    <2> QED
        BY <2>1, <2>2, <2>3, <2>4
<1>2. piece \in Seq(Byte) /\ Len(piece) = k - m /\ \A i \in 1..Len(piece) : piece[i] = <<n, m + i>>
    BY <1>1, Piece
<1> HIDE DEF piece
<1>3. CASE live[s] = 0
    <2>1. files' = [files EXCEPT ![s] = Append(q, piece)] /\ live' = [live EXCEPT ![s] = Len(q) + 1]
        BY <1>3 DEF Write, piece
    <2>2. /\ Append(q, piece) \in Seq(Seq(Byte)) /\ Len(Append(q, piece)) = Len(q) + 1
          /\ \A l \in 1..Len(q) : Append(q, piece)[l] = q[l]
          /\ Append(q, piece)[Len(q) + 1] = piece
        BY <1>1, <1>2, AppendProperties
    <2>3. /\ files' \in [Sources -> Seq(Seq(Byte))] /\ live' \in [Sources -> Nat]
          /\ \A r \in Sources \ {s} : files'[r] = files[r] /\ live'[r] = live[r]
          /\ files'[s] = Append(q, piece) /\ live'[s] = Len(q) + 1
        BY <1>1, <2>1, <2>2
    <2> QED
        BY <1>1, <1>2, <1>3, <2>2, <2>3
<1>4. CASE live[s] # 0
    <2> DEFINE longer == q[Len(q)] \o piece
    <2>0. live[s] = Len(q) /\ Len(q) \in 1..Len(q)
        BY <1>1, <1>4
    <2>1. files' = [files EXCEPT ![s] = [q EXCEPT ![Len(q)] = longer]] /\ live' = live
        <3>1. files' = [files EXCEPT ![s][live[s]] = @ \o piece] /\ live' = live
            BY <1>4 DEF Write, piece
        <3>2. files' = [files EXCEPT ![s][Len(q)] = files[s][Len(q)] \o piece]
            BY <2>0, <3>1
        <3> QED
            BY <3>1, <3>2
    <2>2. q[Len(q)] \in Seq(Byte)
        BY <1>1, <2>0, ElementOfSeq
    <2>3. /\ longer \in Seq(Byte)
          /\ Len(longer) = Len(q[Len(q)]) + Len(piece)
          /\ \A i \in 1..Len(q[Len(q)]) + Len(piece) :
                longer[i] = IF i <= Len(q[Len(q)]) THEN q[Len(q)][i] ELSE piece[i - Len(q[Len(q)])]
        BY <1>2, <2>2, ConcatProperties
    <2> HIDE DEF longer
    <2>4. /\ [q EXCEPT ![Len(q)] = longer] \in Seq(Seq(Byte))
          /\ Len([q EXCEPT ![Len(q)] = longer]) = Len(q)
          /\ \A l \in 1..Len(q) : [q EXCEPT ![Len(q)] = longer][l] = IF l = Len(q) THEN longer ELSE q[l]
        BY <1>1, <2>0, <2>3, ExceptSeq
    <2>5. /\ files' \in [Sources -> Seq(Seq(Byte))]
          /\ \A r \in Sources \ {s} : files'[r] = files[r]
          /\ files'[s] = [q EXCEPT ![Len(q)] = longer]
        BY <1>1, <2>1, <2>4
    <2>6. Len(q[Len(q)]) \in Nat /\ Len(piece) \in Nat /\ \A l \in 1..Len(q) : Len(q[l]) \in Nat
        BY <1>1, <1>2, <2>2, ElementOfSeq, LenProperties
    <2>7. /\ files'[s][Len(q)] = longer
          /\ \A l \in 1..Len(q) : l # Len(q) => files'[s][l] = q[l]
          /\ Len(files'[s]) = Len(q)
        BY <2>0, <2>4, <2>5
    <2>8. \A l \in 1..Len(q) :
             /\ Len(files'[s][l]) >= Len(q[l])
             /\ \A p \in 1..Len(q[l]) : files'[s][l][p] = q[l][p]
        <3> SUFFICES ASSUME NEW l \in 1..Len(q)
                     PROVE  Len(files'[s][l]) >= Len(q[l]) /\ \A p \in 1..Len(q[l]) : files'[s][l][p] = q[l][p]
            OBVIOUS
        <3>1. CASE l = Len(q)
            <4>1. Len(longer) >= Len(q[Len(q)]) /\ \A p \in 1..Len(q[Len(q)]) : longer[p] = q[Len(q)][p]
                BY <2>3, <2>6
            <4>2. files'[s][l] = longer /\ q[l] = q[Len(q)]
                BY <2>7, <3>1
            <4> QED
                BY <4>1, <4>2
        <3>2. CASE l # Len(q)
            BY <2>6, <2>7, <3>2
        <3> QED
            BY <3>1, <3>2
    <2>9. \A p \in 1..Len(longer) : p > Len(q[Len(q)]) => longer[p] = <<n, m + p - Len(q[Len(q)])>>
        <3> SUFFICES ASSUME NEW p \in 1..Len(longer), p > Len(q[Len(q)])
                     PROVE  longer[p] = <<n, m + p - Len(q[Len(q)])>>
            OBVIOUS
        <3>0. p \in 1..Len(q[Len(q)]) + Len(piece) /\ ~(p <= Len(q[Len(q)])) /\ p - Len(q[Len(q)]) \in 1..Len(piece)
            BY <2>3, <2>6
        <3>1. longer[p] = piece[p - Len(q[Len(q)])] /\ p - Len(q[Len(q)]) \in 1..Len(piece)
            BY <2>3, <3>0
        <3>2. m + (p - Len(q[Len(q)])) = m + p - Len(q[Len(q)])
            BY <1>1, <2>6, <3>1
        <3> QED
            BY <1>2, <3>1, <3>2
    <2> QED
        BY <1>1, <1>4, <2>0, <2>1, <2>5, <2>7, <2>8, <2>9
<1> QED
    BY <1>3, <1>4

\* The text of a line is what there is of it in the file, without its newline.
LEMMA Reading1 ==
    ASSUME NEW f \in Seq(Byte), NEW c \in Nat, NEW rest \in {SubSeq(f, c + 1, Len(f))},
           NEW k \in 1..Len(rest), \A i \in 1..(k - 1) : ~IsNewline(rest[i])
    PROVE  LET text == Strip(SubSeq(rest, 1, k))
           IN  /\ text \in Text
               /\ c + k <= Len(f)
               /\ Len(text) <= k
               /\ \A i \in 1..Len(text) : text[i] = f[c + i]
               /\ \A i \in 1..k : IsNewline(f[c + i]) \/ i <= Len(text)
<1> DEFINE line == SubSeq(rest, 1, k)
<1>1. /\ rest \in Seq(Byte) /\ Len(rest) = IF c + 1 <= Len(f) THEN Len(f) - c ELSE 0
      /\ \A i \in 1..Len(rest) : rest[i] = f[c + i]
    <2>1. /\ SubSeq(f, c + 1, Len(f)) \in Seq(Byte)
          /\ Len(SubSeq(f, c + 1, Len(f))) = IF c + 1 <= Len(f) THEN Len(f) - (c + 1) + 1 ELSE 0
          /\ \A i \in 1..Len(SubSeq(f, c + 1, Len(f))) : SubSeq(f, c + 1, Len(f))[i] = f[(c + 1) + i - 1]
        BY SMTT(30), PartOf
    <2>2. rest = SubSeq(f, c + 1, Len(f))
        OBVIOUS
    <2>3. Len(f) \in Nat /\ rest \in Seq(Byte) /\ Len(rest) \in Nat
        BY <2>1, <2>2, LenProperties
    <2>4. \A i \in 1..Len(rest) : (c + 1) + i - 1 = c + i
        BY <2>3
    <2>5. Len(rest) = IF c + 1 <= Len(f) THEN Len(f) - c ELSE 0
        BY <2>1, <2>2, <2>3
    <2> HIDE DEF line
    <2>6. \A i \in 1..Len(rest) : rest[i] = f[(c + 1) + i - 1]
        BY <2>1, <2>2
    <2> QED
        BY <2>3, <2>4, <2>5, <2>6
<1>2. Len(f) \in Nat /\ k \in 1..Len(f) /\ c + k <= Len(f) /\ k \in 0..Len(rest)
    BY <1>1
<1>3. line \in Seq(Byte) /\ Len(line) = k /\ \A i \in 1..k : line[i] = rest[i]
    <2>1. /\ line \in Seq(Byte) /\ Len(line) = IF 1 <= k THEN k - 1 + 1 ELSE 0
          /\ \A i \in 1..Len(line) : line[i] = rest[1 + i - 1]
        BY <1>1, <1>2, PartOf
    <2> QED
        BY <1>2, <2>1
<1>4. \A i \in 1..k : line[i] = f[c + i]
    BY <1>1, <1>2, <1>3
<1> HIDE DEF line
<1>5. CASE IsNewline(line[Len(line)])
    <2>1. Strip(line) = SubSeq(line, 1, k - 1) /\ k - 1 \in 0..Len(line)
        BY <1>2, <1>3, <1>5 DEF Strip
    <2>2. /\ Strip(line) \in Seq(Byte) /\ Len(Strip(line)) = k - 1
          /\ \A i \in 1..(k - 1) : Strip(line)[i] = line[i]
        <3>1. /\ SubSeq(line, 1, k - 1) \in Seq(Byte)
              /\ Len(SubSeq(line, 1, k - 1)) = IF 1 <= k - 1 THEN (k - 1) - 1 + 1 ELSE 0
              /\ \A i \in 1..Len(SubSeq(line, 1, k - 1)) : SubSeq(line, 1, k - 1)[i] = line[1 + i - 1]
            BY <1>3, <2>1, PartOf
        <3> QED
            BY SMTT(30), <1>2, <2>1, <3>1
    <2>3. IsNewline(f[c + k])
        BY <1>2, <1>3, <1>4, <1>5
    <2>4. \A i \in 1..k : IsNewline(f[c + i]) \/ i <= k - 1
        <3> SUFFICES ASSUME NEW i \in 1..k, ~(i <= k - 1) PROVE IsNewline(f[c + i])
            OBVIOUS
        <3>1. i = k
            BY <1>2
        <3> QED
            BY <2>3, <3>1
    <2>5. \A i \in 1..(k - 1) : i \in 1..k /\ Strip(line)[i] = f[c + i]
        BY <1>2, <1>4, <2>2
    <2>6. k - 1 <= k
        BY <1>2
    <2> QED
        BY <1>2, <2>2, <2>4, <2>5, <2>6 DEF line, Text
<1>6. CASE ~IsNewline(line[Len(line)])
    <2>1. Strip(line) = line
        BY <1>6 DEF Strip
    <2>2. /\ line \in Text /\ Len(line) <= k
          /\ \A i \in 1..Len(line) : line[i] = f[c + i]
          /\ \A i \in 1..k : IsNewline(f[c + i]) \/ i <= Len(line)
        BY <1>2, <1>3, <1>4 DEF Text
    <2> QED
        BY <1>2, <2>1, <2>2 DEF line
<1> QED
    BY <1>5, <1>6

\* What a reading step adds, if anything.
LEMMA LineOf ==
    ASSUME Types, NEW k \in 1..Len(Rest), ReadLine(k)
    PROVE  LET s == Head(todo)
               f == files[s][handle]
               text == Strip(SubSeq(Rest, 1, k))
           IN  /\ stage = "lines" /\ s \in Sources /\ f \in Seq(Byte)
               /\ handle \in 1..Len(files[s])
               /\ cursor' = cursor + k /\ k \in Nat \ {0} /\ cursor + k <= Len(f)
               /\ text \in Text /\ Len(text) <= k
               /\ \A i \in 1..Len(text) : text[i] = f[cursor + i]
               /\ \A i \in 1..k : IsNewline(f[cursor + i]) \/ i <= Len(text)
               /\ IF text = <<>> THEN got' = got /\ nread' = nread
                  ELSE got' = Append(got, text) /\ nread' = nread + 1
<1>1. stage = "lines" /\ todo \in Seq(Sources) /\ todo # <<>> /\ cursor \in Nat
      /\ files \in [Sources -> Seq(Seq(Byte))] /\ handle \in 1..Len(files[Head(todo)])
    <2>1. stage = "lines"
        BY DEF ReadLine
    <2> QED
        BY <2>1 DEF Types, TypeOK
<1>2. Head(todo) \in Sources
    BY <1>1, HeadTailProperties
<1>3. files[Head(todo)][handle] \in Seq(Byte)
    <2>1. files[Head(todo)] \in Seq(Seq(Byte))
        BY <1>1, <1>2
    <2> QED
        BY <1>1, <2>1, ElementOfSeq
<1>4. Rest = SubSeq(files[Head(todo)][handle], cursor + 1, Len(files[Head(todo)][handle]))
    BY DEF Rest
<1>5. \A i \in 1..(k - 1) : ~IsNewline(Rest[i])
    BY DEF ReadLine, ReadTo
<1>6. k \in Nat \ {0}
    <2>1. Len(Rest) \in Nat
        BY <1>1, <1>3, <1>4, PartOf, LenProperties
    <2> QED
        BY <2>1
<1>7. LET text == Strip(SubSeq(Rest, 1, k))
          f == files[Head(todo)][handle]
      IN  /\ text \in Text /\ cursor + k <= Len(f) /\ Len(text) <= k
          /\ \A i \in 1..Len(text) : text[i] = f[cursor + i]
          /\ \A i \in 1..k : IsNewline(f[cursor + i]) \/ i <= Len(text)
    <2> DEFINE f == files[Head(todo)][handle]
    <2>1. f \in Seq(Byte) /\ Rest \in {SubSeq(f, cursor + 1, Len(f))} /\ cursor \in Nat
          /\ k \in 1..Len(Rest)
        BY <1>1, <1>3, <1>4
    <2> HIDE DEF f
    <2>2. LET text == Strip(SubSeq(Rest, 1, k))
          IN  /\ text \in Text /\ cursor + k <= Len(f) /\ Len(text) <= k
              /\ \A i \in 1..Len(text) : text[i] = f[cursor + i]
              /\ \A i \in 1..k : IsNewline(f[cursor + i]) \/ i <= Len(text)
        BY <1>5, <2>1, Reading1
    <2> QED
        BY <2>2 DEF f
<1>8. /\ cursor' = cursor + k
      /\ IF Strip(SubSeq(Rest, 1, k)) = <<>> THEN got' = got /\ nread' = nread
         ELSE got' = Append(got, Strip(SubSeq(Rest, 1, k))) /\ nread' = nread + 1
    BY DEF ReadLine
<1> QED
    BY <1>1, <1>2, <1>3, <1>6, <1>7, <1>8

-----------------------------------------------------------------------------
(* Types. *)

FeederTypes ==
    /\ files \in [Sources -> Seq(Seq(Byte))]
    /\ live \in [Sources -> Nat] /\ from \in [Sources -> Nat]
    /\ inFile \in [Sources -> 0..MaxInFile]
    /\ next \in [Sources -> 1..(MaxWrites + 1)]
    /\ sent \in [Sources -> Nat]
    /\ \A s \in Sources :
          /\ live[s] \in {0, Len(files[s])} /\ from[s] \in 0..Len(files[s])
          /\ sent[s] > 0 =>
                next[s] \in Envelopes /\ sent[s] < Width[next[s]] /\ inFile[s] < MaxInFile
ReaderTypes ==
    /\ stage \in {"idle", "size", "open", "lines", "handle", "publish"}
    /\ todo \in Seq(Sources)
    /\ stage \in {"size", "open", "lines", "handle"} => todo # <<>>
    /\ {handle, cursor, nread} \subseteq Nat
    /\ stage = "lines" => handle \in 1..Len(files[Head(todo)])
    /\ got \in Seq(Text)
    /\ offset \in [Sources -> Nat]
    /\ status \in [Sources -> {"registered", "active", "degraded", "disabled"}]
SinkTypes ==
    /\ total \in Nat
    /\ handled \in [Sources -> SUBSET Text]
    /\ buffer \in Seq(Sources \X Text) /\ Len(buffer) <= Capacity
    /\ published \in Seq(Sources \X Text)
    /\ recent \in Seq(Keys) /\ Len(recent) <= Window
    /\ polls \in 0..MaxPolls

\* The types by who writes the variables.
LEMMA TypesParts == Types <=> FeederTypes /\ ReaderTypes /\ SinkTypes
<1>1. ASSUME files \in [Sources -> Seq(Seq(Byte))], NEW s \in Sources, live[s] \in {0, Len(files[s])}
      PROVE  live[s] \in 0..Len(files[s])
    <2>1. Len(files[s]) \in Nat
        BY <1>1, LenProperties
    <2> QED
        BY <1>1, <2>1
<1>2. FeederTypes => \A s \in Sources : live[s] \in 0..Len(files[s])
    BY <1>1 DEF FeederTypes
<1> QED
    BY <1>2 DEF Types, TypeOK, FeederTypes, ReaderTypes, SinkTypes

\* Going on to the next source.
LEMMA GoOn ==
    ASSUME todo \in Seq(Sources), todo # <<>>, NextSource
    PROVE  /\ todo' \in Seq(Sources) /\ stage' \in {"size", "publish"}
           /\ stage' = "size" => todo' # <<>>
<1>1. Tail(todo) \in Seq(Sources) /\ Len(Tail(todo)) = Len(todo) - 1 /\ Len(todo) \in Nat
    BY HeadTailProperties, LenProperties
<1>2. CASE Len(todo) > 1
    <2>1. Tail(todo) # <<>>
        <3>1. Len(Tail(todo)) > 0
            BY <1>1, <1>2
        <3> QED
            BY <1>1, <3>1, NonEmpty
    <2> QED
        BY <1>1, <1>2, <2>1 DEF NextSource
<1>3. CASE ~(Len(todo) > 1)
    BY <1>1, <1>3 DEF NextSource
<1> QED
    BY <1>2, <1>3

\* What admit makes of buffer and window: nothing, one more, or the oldest out.
LEMMA AdmitTypes ==
    ASSUME SinkTypes, NEW s \in Sources, NEW text \in Text, Admit(s, text)
    PROVE  /\ buffer' \in Seq(Sources \X Text) /\ Len(buffer') <= Capacity
           /\ recent' \in Seq(Keys) /\ Len(recent') <= Window
           /\ \/ buffer' = buffer
              \/ buffer' = Append(buffer, <<s, text>>)
              \/ Len(buffer) > 0 /\ buffer' = Append(Tail(buffer), <<s, text>>)
<1> DEFINE key == RecurrenceKey(s, text)
           kept == IF Len(buffer) >= Capacity THEN Tail(buffer) ELSE buffer
           keys == IF Len(recent) >= Window THEN Tail(recent) ELSE recent
<1>1. /\ buffer \in Seq(Sources \X Text) /\ Len(buffer) \in Nat /\ Len(buffer) <= Capacity
      /\ recent \in Seq(Keys) /\ Len(recent) \in Nat /\ Len(recent) <= Window
      /\ Capacity \in Nat \ {0} /\ Window \in Nat \ {0}
    BY Constants, LenProperties DEF SinkTypes
<1>2. key \in Keys /\ <<s, text>> \in Sources \X Text
    BY DEF Keys
<1>3. kept \in Seq(Sources \X Text) /\ Len(kept) \in Nat /\ Len(kept) + 1 <= Capacity
    <2>1. CASE Len(buffer) >= Capacity
        <3>1. Tail(buffer) \in Seq(Sources \X Text) /\ Len(Tail(buffer)) = Len(buffer) - 1
            BY <1>1, <2>1, TailOf
        <3> QED
            BY <1>1, <2>1, <3>1
    <2>2. CASE ~(Len(buffer) >= Capacity)
        BY <1>1, <2>2
    <2> QED
        BY <2>1, <2>2
<1>4. keys \in Seq(Keys) /\ Len(keys) \in Nat /\ Len(keys) + 1 <= Window
    <2>1. CASE Len(recent) >= Window
        <3>1. Tail(recent) \in Seq(Keys) /\ Len(Tail(recent)) = Len(recent) - 1
            BY <1>1, <2>1, TailOf
        <3> QED
            BY <1>1, <2>1, <3>1
    <2>2. CASE ~(Len(recent) >= Window)
        BY <1>1, <2>2
    <2> QED
        BY <2>1, <2>2
<1>5. kept = buffer \/ (Len(buffer) > 0 /\ kept = Tail(buffer))
    BY <1>1
<1>6. (buffer' = buffer /\ recent' = recent) \/ (buffer' = Append(kept, <<s, text>>) /\ recent' = Append(keys, key))
    BY DEF Admit
<1> HIDE DEF key, kept, keys
<1>7. /\ Append(kept, <<s, text>>) \in Seq(Sources \X Text) /\ Len(Append(kept, <<s, text>>)) = Len(kept) + 1
      /\ Append(keys, key) \in Seq(Keys) /\ Len(Append(keys, key)) = Len(keys) + 1
    BY <1>2, <1>3, <1>4, AppendProperties
<1> QED
    BY <1>1, <1>3, <1>4, <1>5, <1>6, <1>7

\* A feeder's write.
LEMMA WriteTypes ==
    ASSUME Types, NEW s \in Sources, NEW k \in 1..Width[next[s]], next[s] \in Envelopes, Write(s, k)
    PROVE  FeederTypes'
<1>1. FeederTypes
    BY TypesParts
<1>2. /\ files' \in [Sources -> Seq(Seq(Byte))] /\ live' \in [Sources -> Nat]
      /\ \A r \in Sources \ {s} : files'[r] = files[r] /\ live'[r] = live[r]
      /\ live'[s] = Len(files'[s]) /\ Len(files'[s]) >= Len(files[s])
      /\ Len(files'[s]) \in Nat /\ Len(files[s]) \in Nat
    <2>1. files[s] \in Seq(Seq(Byte))
        BY <1>1 DEF FeederTypes
    <2>2. Len(files[s]) \in Nat
        BY <2>1, LenProperties
    <2>3. /\ files' \in [Sources -> Seq(Seq(Byte))] /\ live' \in [Sources -> Nat]
          /\ \A r \in Sources \ {s} : files'[r] = files[r] /\ live'[r] = live[r]
          /\ live'[s] = Len(files'[s])
          /\ Len(files'[s]) = IF live[s] = 0 THEN Len(files[s]) + 1 ELSE Len(files[s])
        BY Writing
    <2> QED
        BY <2>2, <2>3
<1>3. from' = from
    BY DEF Write, adapter
<1>4. /\ inFile' \in [Sources -> 0..MaxInFile] /\ next' \in [Sources -> 1..(MaxWrites + 1)]
      /\ sent' \in [Sources -> Nat]
      /\ \A r \in Sources \ {s} : inFile'[r] = inFile[r] /\ next'[r] = next[r] /\ sent'[r] = sent[r]
      /\ sent'[s] > 0 => next'[s] \in Envelopes /\ sent'[s] < Width[next'[s]] /\ inFile'[s] < MaxInFile
    <2>1. /\ inFile \in [Sources -> 0..MaxInFile] /\ next \in [Sources -> 1..(MaxWrites + 1)]
          /\ sent \in [Sources -> Nat] /\ MaxInFile \in Nat \ {0} /\ MaxWrites \in Nat \ {0}
        BY <1>1, Constants DEF FeederTypes
    <2>2. inFile[s] \in Nat /\ inFile[s] < MaxInFile
        <3>1. sent[s] > 0 \/ inFile[s] < MaxInFile
            BY DEF Write
        <3>2. sent[s] > 0 => inFile[s] < MaxInFile
            BY <1>1 DEF FeederTypes
        <3> QED
            BY <2>1, <3>1, <3>2
    <2>3. k \in Nat /\ k <= Width[next[s]] /\ Width[next[s]] \in Nat /\ next[s] \in 1..MaxWrites /\ sent[s] \in Nat /\ sent[s] < k
        <3>1. Width[next[s]] \in Nat
            BY Constants
        <3>2. sent[s] < k /\ next[s] \in 1..MaxWrites
            BY DEF Write, Envelopes
        <3>3. sent[s] \in Nat
            BY <2>1
        <3> QED
            BY <3>1, <3>2, <3>3
    <2>4. CASE k = Width[next[s]]
        <3>1. /\ next' = [next EXCEPT ![s] = @ + 1] /\ inFile' = [inFile EXCEPT ![s] = @ + 1]
              /\ sent' = [sent EXCEPT ![s] = 0]
            BY <2>4 DEF Write
        <3> QED
            BY <2>1, <2>2, <2>3, <3>1
    <2>5. CASE k # Width[next[s]]
        <3>1. sent' = [sent EXCEPT ![s] = k] /\ next' = next /\ inFile' = inFile
            BY <2>5 DEF Write
        <3> QED
            BY <2>1, <2>2, <2>3, <2>5, <3>1
    <2> QED
        BY <2>4, <2>5
<1>5. \A r \in Sources :
          /\ live'[r] \in {0, Len(files'[r])} /\ from'[r] \in 0..Len(files'[r])
          /\ sent'[r] > 0 =>
                next'[r] \in Envelopes /\ sent'[r] < Width[next'[r]] /\ inFile'[r] < MaxInFile
    <2> SUFFICES ASSUME NEW r \in Sources
                 PROVE  /\ live'[r] \in {0, Len(files'[r])} /\ from'[r] \in 0..Len(files'[r])
                        /\ sent'[r] > 0 =>
                              next'[r] \in Envelopes /\ sent'[r] < Width[next'[r]] /\ inFile'[r] < MaxInFile
        OBVIOUS
    <2>1. from[r] \in 0..Len(files[r])
        BY <1>1 DEF FeederTypes
    <2>2. CASE r = s
        BY <1>2, <1>3, <1>4, <2>1, <2>2
    <2>3. CASE r # s
        BY <1>1, <1>2, <1>3, <1>4, <2>1, <2>3 DEF FeederTypes
    <2> QED
        BY <2>2, <2>3
<1>6. from' \in [Sources -> Nat]
    BY <1>1, <1>3 DEF FeederTypes
<1> QED
    BY <1>2, <1>4, <1>5, <1>6 DEF FeederTypes

\* A batch is a first part of the buffer.
LEMMA PublishesSome ==
    ASSUME SinkTypes, Publish
    PROVE  \E n \in Nat :
              /\ n <= Len(buffer) /\ published' = published \o SubSeq(buffer, 1, n)
              /\ buffer' = SubSeq(buffer, n + 1, Len(buffer))
<1>1. Len(buffer) \in Nat /\ Batch \in Nat
    BY Constants, LenProperties DEF SinkTypes
<1>2. CASE Len(buffer) < Batch
    <2>1. published' = published \o SubSeq(buffer, 1, Len(buffer))
          /\ buffer' = SubSeq(buffer, Len(buffer) + 1, Len(buffer))
        BY <1>2 DEF Publish
    <2> QED
        BY <1>1, <2>1
<1>3. CASE ~(Len(buffer) < Batch)
    <2>1. published' = published \o SubSeq(buffer, 1, Batch)
          /\ buffer' = SubSeq(buffer, Batch + 1, Len(buffer))
        BY <1>3 DEF Publish
    <2>2. Batch <= Len(buffer)
        BY <1>1, <1>3
    <2> QED
        BY <1>1, <2>1, <2>2
<1> QED
    BY <1>2, <1>3

\* Types are kept; that a result is handled only when there is one is needed
\* for the text that admit is given.
LEMMA TypesStep == Types /\ Results /\ [Next]_vars => Types'
<1> SUFFICES ASSUME Types, Results, [Next]_vars PROVE Types'
    OBVIOUS
<1>1. FeederTypes /\ ReaderTypes /\ SinkTypes
    BY TypesParts
<1>2. ASSUME FeederTypes', ReaderTypes', SinkTypes' PROVE Types'
    <2>1. \A s \in Sources : live'[s] \in 0..Len(files'[s])
        <3> SUFFICES ASSUME NEW s \in Sources PROVE live'[s] \in 0..Len(files'[s])
            OBVIOUS
        <3>1. files'[s] \in Seq(Seq(Byte)) /\ live'[s] \in {0, Len(files'[s])}
            BY <1>2 DEF FeederTypes
        <3>2. Len(files'[s]) \in Nat
            BY <3>1, LenProperties
        <3> QED
            BY <3>1, <3>2
    <2> QED
        BY <1>2, <2>1 DEF Types, TypeOK, FeederTypes, ReaderTypes, SinkTypes
<1>3. ASSUME UNCHANGED <<feeder, from>> PROVE FeederTypes'
    BY <1>1, <1>3 DEF feeder, FeederTypes
<1>4. ASSUME UNCHANGED <<total, handled, buffer, recent, published, polls>> PROVE SinkTypes'
    BY <1>1, <1>4 DEF SinkTypes
<1>5. stage = "lines" => Head(todo) \in Sources /\ files[Head(todo)] \in Seq(Seq(Byte))
    <2>1. stage = "lines" => todo # <<>> /\ todo \in Seq(Sources)
        BY <1>1 DEF ReaderTypes
    <2>2. stage = "lines" => Head(todo) \in Sources
        BY <2>1, HeadTailProperties
    <2> QED
        BY <1>1, <2>2 DEF FeederTypes
<1>10. ASSUME NEW s \in Sources, Feed(s) PROVE Types'
    <2>1. UNCHANGED <<adapter, sink, stage, todo, got, status, published, polls>>
        BY <1>10 DEF Feed, Rotate, Write
    <2>2. SinkTypes'
        BY <1>4, <2>1 DEF sink
    <2>3. FeederTypes'
        <3>1. CASE Rotate(s)
            <4>1. /\ live' = [live EXCEPT ![s] = 0] /\ inFile' = [inFile EXCEPT ![s] = 0]
                  /\ UNCHANGED <<files, next, sent, from>> /\ sent[s] = 0
                BY <3>1 DEF Rotate, adapter
            <4>2. 0 \in 0..MaxInFile
                BY Constants
            <4> QED
                BY <1>1, <4>1, <4>2 DEF FeederTypes
        <3>2. ASSUME NEW n \in Envelopes, n = next[s], NEW k \in 1..Width[n], Write(s, k) PROVE FeederTypes'
            BY <3>2, WriteTypes
        <3> QED
            BY <1>10, <3>1, <3>2 DEF Feed
    <2>4. stage = "lines" => Len(files'[Head(todo)]) \in Nat /\ Len(files'[Head(todo)]) >= Len(files[Head(todo)])
        <3> SUFFICES ASSUME stage = "lines"
                     PROVE  Len(files'[Head(todo)]) \in Nat /\ Len(files'[Head(todo)]) >= Len(files[Head(todo)])
            OBVIOUS
        <3>1. Len(files[Head(todo)]) \in Nat
            BY <1>5, LenProperties
        <3>2. CASE Rotate(s)
            BY <3>1, <3>2 DEF Rotate
        <3>3. ASSUME NEW n \in Envelopes, n = next[s], NEW k \in 1..Width[n], Write(s, k)
              PROVE  Len(files'[Head(todo)]) \in Nat /\ Len(files'[Head(todo)]) >= Len(files[Head(todo)])
            <4>1. /\ \A r \in Sources \ {s} : files'[r] = files[r]
                  /\ Len(files'[s]) = IF live[s] = 0 THEN Len(files[s]) + 1 ELSE Len(files[s])
                BY <3>3, Writing
            <4>2. CASE Head(todo) = s
                BY <3>1, <4>1, <4>2
            <4>3. CASE Head(todo) # s
                BY <1>5, <3>1, <4>1, <4>3
            <4> QED
                BY <4>2, <4>3
        <3> QED
            BY <1>10, <3>2, <3>3 DEF Feed
    <2>5. ReaderTypes'
        <3>1. UNCHANGED <<handle, cursor, nread, offset, stage, todo, got, status>>
            BY <2>1 DEF adapter
        <3>2. stage = "lines" => handle \in 1..Len(files'[Head(todo)])
            <4>1. stage = "lines" => handle \in 1..Len(files[Head(todo)]) /\ Len(files[Head(todo)]) \in Nat
                BY <1>1, <1>5, LenProperties DEF ReaderTypes
            <4> QED
                BY <2>4, <4>1
        <3> QED
            BY <1>1, <3>1, <3>2 DEF ReaderTypes
    <2> QED
        BY <1>2, <2>2, <2>3, <2>5
<1>11. ASSUME NEW s \in Sources, Disable(s) PROVE Types'
    <2>1. /\ UNCHANGED <<feeder, adapter, sink, stage, todo, got, published, polls>>
          /\ status' = [status EXCEPT ![s] = "disabled"]
        BY <1>11 DEF Disable
    <2>2. FeederTypes' /\ SinkTypes'
        BY <1>3, <1>4, <2>1 DEF adapter, sink
    <2>3. ReaderTypes'
        BY <1>1, <2>1 DEF ReaderTypes, feeder, adapter
    <2> QED
        BY <1>2, <2>2, <2>3
<1>12. CASE StartPoll
    <2>1. /\ UNCHANGED <<feeder, adapter, sink, got, status, published>> /\ todo' = Order /\ stage' = "size"
          /\ polls' = polls + 1 /\ polls < MaxPolls
        BY <1>12 DEF StartPoll
    <2>2. FeederTypes' /\ ReaderTypes'
        BY <1>1, <1>3, <2>1, Constants DEF adapter, ReaderTypes
    <2>3. polls' \in 0..MaxPolls
        BY <1>1, <2>1, Constants DEF SinkTypes
    <2> QED
        BY <1>1, <1>2, <2>1, <2>2, <2>3 DEF SinkTypes, sink
<1>13. CASE SkipDisabled \/ Missing
    <2>1. /\ UNCHANGED <<feeder, adapter, sink, got, published, polls>> /\ NextSource
          /\ stage \in {"size", "open"}
          /\ status' = status \/ status' = [status EXCEPT ![Head(todo)] = "degraded"]
        BY <1>13 DEF SkipDisabled, Missing
    <2>2. todo' \in Seq(Sources) /\ stage' \in {"size", "publish"} /\ (stage' = "size" => todo' # <<>>)
        BY <1>1, <2>1, GoOn DEF ReaderTypes
    <2>3. ReaderTypes'
        BY <1>1, <2>1, <2>2 DEF ReaderTypes, adapter
    <2> QED
        BY <1>2, <1>3, <1>4, <2>1, <2>3 DEF adapter, sink
<1>14. CASE TakeSize
    <2>1. /\ UNCHANGED <<feeder, handle, cursor, nread, from, sink, todo, got, status, published, polls>>
          /\ stage' = "open" /\ stage = "size"
          /\ offset' = offset \/ offset' = [offset EXCEPT ![Head(todo)] = 0]
        BY <1>14 DEF TakeSize
    <2>2. ReaderTypes'
        BY <1>1, <2>1 DEF ReaderTypes
    <2> QED
        BY <1>2, <1>3, <1>4, <2>1, <2>2 DEF sink
<1>15. CASE OpenFile
    <2>1. /\ UNCHANGED <<feeder, nread, offset, from, sink, todo, got, status, published, polls>>
          /\ stage' = "lines" /\ stage = "open" /\ handle' = live[Head(todo)] /\ live[Head(todo)] # 0
          /\ cursor' = offset[Head(todo)]
        BY <1>15 DEF OpenFile
    <2>2. Head(todo) \in Sources
        <3>1. todo # <<>> /\ todo \in Seq(Sources)
            BY <1>1, <2>1 DEF ReaderTypes
        <3> QED
            BY <3>1, HeadTailProperties
    <2>3. live[Head(todo)] \in 1..Len(files[Head(todo)]) /\ live[Head(todo)] \in Nat /\ offset[Head(todo)] \in Nat
        <3>1. /\ live[Head(todo)] \in {0, Len(files[Head(todo)])} /\ files[Head(todo)] \in Seq(Seq(Byte))
              /\ offset[Head(todo)] \in Nat
            BY <1>1, <2>2 DEF FeederTypes, ReaderTypes
        <3>2. Len(files[Head(todo)]) \in Nat
            BY <3>1, LenProperties
        <3> QED
            BY <2>1, <3>1, <3>2
    <2>4. ReaderTypes'
        <3>1. handle' \in 1..Len(files'[Head(todo')])
            BY <2>1, <2>3 DEF feeder
        <3>2. handle' \in Nat /\ cursor' \in Nat
            BY <2>1, <2>3
        <3> QED
            BY <1>1, <2>1, <3>1, <3>2 DEF ReaderTypes
    <2> QED
        BY <1>2, <1>3, <1>4, <2>1, <2>4 DEF sink
<1>16. ASSUME NEW k \in 1..Len(Rest), ReadLine(k) PROVE Types'
    <2> DEFINE text == Strip(SubSeq(Rest, 1, k))
    <2>1. /\ stage = "lines" /\ cursor' = cursor + k /\ k \in Nat /\ text \in Text
          /\ (got' = got /\ nread' = nread) \/ (got' = Append(got, text) /\ nread' = nread + 1)
        BY <1>16, LineOf
    <2>2. UNCHANGED <<feeder, handle, offset, from, sink, stage, todo, status, published, polls>>
        BY <1>16 DEF ReadLine
    <2> HIDE DEF text
    <2>3. got' \in Seq(Text) /\ nread' \in Nat /\ cursor' \in Nat
        <3>1. got \in Seq(Text) /\ nread \in Nat /\ cursor \in Nat
            BY <1>1 DEF ReaderTypes
        <3>2. Append(got, text) \in Seq(Text)
            BY <2>1, <3>1, AppendProperties
        <3>3. got' \in Seq(Text)
            BY <2>1, <3>1, <3>2
        <3>4. nread' \in Nat /\ cursor' \in Nat
            BY <2>1, <3>1
        <3> QED
            BY <3>3, <3>4
    <2>4. ReaderTypes'
        BY <1>1, <2>1, <2>2, <2>3 DEF ReaderTypes, feeder
    <2> QED
        BY <1>2, <1>3, <1>4, <2>2, <2>4 DEF sink
<1>17. CASE CloseFile
    <2>1. /\ UNCHANGED <<feeder, sink, got, published, polls>> /\ stage = "lines"
          /\ offset' = [offset EXCEPT ![Head(todo)] = cursor]
          /\ from' = [from EXCEPT ![Head(todo)] = handle]
          /\ status' = status \/ status' = [status EXCEPT ![Head(todo)] = "active"]
          /\ handle' = 0 /\ cursor' = 0 /\ nread' = 0
          /\ NextSource \/ (stage' = "handle" /\ UNCHANGED todo)
        BY <1>17 DEF CloseFile
    <2>2. todo # <<>> /\ todo \in Seq(Sources) /\ handle \in 1..Len(files[Head(todo)]) /\ handle \in Nat /\ cursor \in Nat
        BY <1>1, <2>1 DEF ReaderTypes
    <2>3. NextSource => /\ todo' \in Seq(Sources) /\ stage' \in {"size", "publish"}
                        /\ stage' = "size" => todo' # <<>>
        BY <2>2, GoOn
    <2>4. ReaderTypes'
        <3>1. /\ todo' \in Seq(Sources) /\ stage' \in {"size", "publish", "handle"}
              /\ stage' \in {"size", "handle"} => todo' # <<>>
            BY <2>1, <2>2, <2>3
        <3>2. handle' \in Nat /\ cursor' \in Nat /\ nread' \in Nat
            BY <2>1
        <3>3. offset' \in [Sources -> Nat] /\ got' \in Seq(Text)
            BY <1>1, <2>1, <2>2 DEF ReaderTypes
        <3>4. status' \in [Sources -> {"registered", "active", "degraded", "disabled"}]
            BY <1>1, <2>1 DEF ReaderTypes
        <3> QED
            BY <3>1, <3>2, <3>3, <3>4 DEF ReaderTypes
    <2>5. FeederTypes'
        <3>1. handle \in 0..Len(files[Head(todo)]) /\ handle \in Nat
            BY <1>5, <2>1, <2>2, LenProperties
        <3> QED
            BY <1>1, <2>1, <3>1 DEF FeederTypes, feeder
    <2> QED
        BY <1>2, <1>4, <2>1, <2>4, <2>5 DEF sink
<1>18. CASE HandleEvent
    <2> DEFINE s == Head(todo)
               text == Head(got)
    <2>1. /\ UNCHANGED <<feeder, adapter, status, published, polls>> /\ stage = "handle"
          /\ total' = total + 1 /\ Admit(s, text) /\ handled' = [handled EXCEPT ![s] = @ \cup {text}]
          /\ got' = <<>> \/ got' = Tail(got)
          /\ NextSource \/ (stage' = stage /\ todo' = todo)
        BY <1>18 DEF HandleEvent
    <2>2. todo # <<>> /\ todo \in Seq(Sources) /\ s \in Sources
        <3>1. todo # <<>> /\ todo \in Seq(Sources)
            BY <1>1, <2>1 DEF ReaderTypes
        <3> QED
            BY <3>1, HeadTailProperties
    <2>3. text \in Text /\ Tail(got) \in Seq(Text)
        <3>1. got # <<>> /\ got \in Seq(Text)
            BY <1>1, <2>1 DEF Results, ReaderTypes
        <3> QED
            BY <3>1, HeadTailProperties
    <2> HIDE DEF s, text
    <2>4. /\ buffer' \in Seq(Sources \X Text) /\ Len(buffer') <= Capacity
          /\ recent' \in Seq(Keys) /\ Len(recent') <= Window
        BY <1>1, <2>1, <2>2, <2>3, AdmitTypes
    <2>5. SinkTypes'
        <3>1. handled' \in [Sources -> SUBSET Text]
            BY <1>1, <2>1, <2>2, <2>3 DEF SinkTypes
        <3>2. total' \in Nat
            BY <1>1, <2>1 DEF SinkTypes
        <3> QED
            BY <1>1, <2>1, <2>4, <3>1, <3>2 DEF SinkTypes
    <2>6. ReaderTypes'
        <3>1. NextSource => /\ todo' \in Seq(Sources) /\ stage' \in {"size", "publish"}
                            /\ stage' = "size" => todo' # <<>>
            BY <2>2, GoOn
        <3>2. todo' \in Seq(Sources) /\ stage' \in {"size", "publish", "handle"}
              /\ (stage' \in {"size", "handle"} => todo' # <<>>)
            BY <2>1, <2>2, <3>1
        <3>3. got' \in Seq(Text)
            <4>1. <<>> \in Seq(Text)
                OBVIOUS
            <4> QED
                BY <2>1, <2>3, <4>1
        <3>4. UNCHANGED <<handle, cursor, nread, offset, status>>
            BY <2>1 DEF adapter
        <3> QED
            BY <1>1, <3>2, <3>3, <3>4 DEF ReaderTypes
    <2> QED
        BY <1>2, <1>3, <2>1, <2>5, <2>6 DEF adapter
<1>19. CASE Publish
    <2>1. \E n \in Nat :
             /\ n <= Len(buffer) /\ published' = published \o SubSeq(buffer, 1, n)
             /\ buffer' = SubSeq(buffer, n + 1, Len(buffer))
        BY <1>1, <1>19, PublishesSome
    <2>2. /\ UNCHANGED <<feeder, adapter, total, recent, handled, todo, got, status, polls>>
          /\ stage' = "idle"
        BY <1>19 DEF Publish
    <2>3. PICK n \in Nat :
             /\ n <= Len(buffer) /\ published' = published \o SubSeq(buffer, 1, n)
             /\ buffer' = SubSeq(buffer, n + 1, Len(buffer))
        BY <2>1
    <2>4. /\ buffer \in Seq(Sources \X Text) /\ published \in Seq(Sources \X Text)
          /\ Len(buffer) \in Nat /\ Len(buffer) <= Capacity /\ Capacity \in Nat
        BY <1>1, Constants, LenProperties DEF SinkTypes
    <2>5. SubSeq(buffer, 1, n) \in Seq(Sources \X Text)
        BY <2>3, <2>4, PartOf
    <2>6. /\ SubSeq(buffer, n + 1, Len(buffer)) \in Seq(Sources \X Text)
          /\ Len(SubSeq(buffer, n + 1, Len(buffer))) = IF n + 1 <= Len(buffer) THEN Len(buffer) - (n + 1) + 1 ELSE 0
        <3>1. n + 1 \in Nat \ {0} /\ Len(buffer) \in 0..Len(buffer)
            BY <2>3, <2>4
        <3> QED
            BY <2>4, <3>1, PartOf
    <2>7. buffer' \in Seq(Sources \X Text) /\ Len(buffer') <= Capacity /\ published' \in Seq(Sources \X Text)
        <3>1. Len(buffer') <= Capacity
            BY <2>3, <2>4, <2>6
        <3>2. published \o SubSeq(buffer, 1, n) \in Seq(Sources \X Text)
            BY <2>4, <2>5, ConcatProperties
        <3> QED
            BY <2>3, <2>6, <3>1, <3>2
    <2>8. SinkTypes'
        BY <1>1, <2>2, <2>7 DEF SinkTypes
    <2>9. ReaderTypes'
        BY <1>1, <2>2 DEF ReaderTypes, adapter
    <2> QED
        BY <1>2, <1>3, <2>2, <2>8, <2>9 DEF adapter
<1>20. CASE UNCHANGED vars
    <2>1. UNCHANGED <<feeder, adapter, sink, stage, todo, got, status, published, polls>>
        BY <1>20 DEF vars
    <2>2. ReaderTypes'
        BY <1>1, <2>1 DEF ReaderTypes, feeder, adapter
    <2> QED
        BY <1>2, <1>3, <1>4, <2>1, <2>2 DEF adapter, sink
<1> QED
    BY <1>10, <1>11, <1>12, <1>13, <1>14, <1>15, <1>16, <1>17, <1>18, <1>19, <1>20 DEF Next, Poll

\* The file being read is never older than the one last read.
LEMMA ResultsStep == Types /\ Results /\ [Next]_vars => Results'
<1> SUFFICES ASSUME Types, Results, [Next]_vars PROVE Results'
    OBVIOUS
<1>1. FeederTypes /\ ReaderTypes /\ SinkTypes
    BY TypesParts
<1>2. ASSUME UNCHANGED <<stage, todo, got, from, handle>> PROVE Results'
    BY <1>2 DEF Results
<1>3. CASE StartPoll
    BY <1>3 DEF StartPoll, Results
<1>4. CASE SkipDisabled \/ Missing
    <2>1. got' = got /\ stage \notin {"lines", "handle"} /\ NextSource
        BY <1>4 DEF SkipDisabled, Missing
    <2> QED
        BY <2>1 DEF Results, NextSource
<1>5. CASE TakeSize
    BY <1>5 DEF TakeSize, Results
<1>6. CASE OpenFile
    <2>1. /\ stage = "open" /\ stage' = "lines" /\ got' = got /\ from' = from /\ todo' = todo
          /\ handle' = live[Head(todo)] /\ live[Head(todo)] # 0
        BY <1>6 DEF OpenFile
    <2>2. Head(todo) \in Sources
        <3>1. todo # <<>> /\ todo \in Seq(Sources)
            BY <1>1, <2>1 DEF ReaderTypes
        <3> QED
            BY <3>1, HeadTailProperties
    <2>3. live[Head(todo)] = Len(files[Head(todo)]) /\ from[Head(todo)] <= live[Head(todo)]
        BY <1>1, <2>1, <2>2 DEF FeederTypes
    <2> QED
        BY <2>1, <2>3 DEF Results
<1>7. ASSUME stage = "lines", NEW k \in 1..Len(Rest), ReadLine(k) PROVE Results'
    BY <1>7 DEF ReadLine, Results
<1>8. CASE CloseFile
    <2>1. /\ got' = got /\ stage' # "lines"
          /\ IF got = <<>> THEN stage' # "handle" ELSE stage' = "handle"
        BY <1>8 DEF CloseFile, NextSource
    <2> QED
        BY <2>1 DEF Results
<1>9. CASE HandleEvent
    <2>1. stage = "handle" /\ (IF got' = <<>> THEN NextSource ELSE UNCHANGED <<stage, todo>>)
        BY <1>9 DEF HandleEvent
    <2> QED
        BY <2>1 DEF Results, NextSource
<1>10. CASE Publish
    BY <1>10 DEF Publish, Results
<1>11. ASSUME NEW s \in Sources, Feed(s) \/ Disable(s) PROVE Results'
    BY <1>2, <1>11 DEF Feed, Rotate, Write, Disable, adapter
<1>12. CASE UNCHANGED vars
    BY <1>2, <1>12 DEF vars, adapter
<1> QED
    BY <1>3, <1>4, <1>5, <1>6, <1>7, <1>8, <1>9, <1>10, <1>11, <1>12 DEF Next, Poll

-----------------------------------------------------------------------------
(* The order of the lines in the files. *)

\* A byte of a file is an envelope and a position.
LEMMA ByteOf ==
    ASSUME FeederTypes, NEW s \in Sources, NEW l \in 1..Len(files[s]), NEW q \in 1..Len(files[s][l])
    PROVE  /\ l \in Nat /\ q \in Nat /\ Len(files[s]) \in Nat /\ Len(files[s][l]) \in Nat
           /\ files[s][l] \in Seq(Byte)
           /\ files[s][l][q] \in Byte /\ files[s][l][q][1] \in Envelopes /\ files[s][l][q][2] \in Nat
           /\ files[s][l][q][1] \in Nat
<1>1. files[s] \in Seq(Seq(Byte))
    BY DEF FeederTypes
<1>2. files[s][l] \in Seq(Byte)
    BY <1>1, ElementOfSeq
<1>3. files[s][l][q] \in Byte
    BY <1>2, ElementOfSeq
<1>4. Len(files[s]) \in Nat /\ Len(files[s][l]) \in Nat
    BY <1>1, <1>2, LenProperties
<1>5. MaxWrites \in Nat
    BY Constants
<1>6. files[s][l][q][1] \in Envelopes /\ files[s][l][q][2] \in Nat
    BY <1>3 DEF Byte
<1>7. files[s][l][q][1] \in Nat
    BY <1>5, <1>6 DEF Envelopes
<1> QED
    BY <1>2, <1>3, <1>4, <1>6, <1>7

\* An envelope that is begun stays so; those of the other feeders are as before.
LEMMA StaysBegun ==
    ASSUME Types, NEW s \in Sources, NEW k \in 1..Width[next[s]], next[s] \in Envelopes, Write(s, k)
    PROVE  /\ \A r \in Sources, n \in Nat : Begun(r, n) => BegunAfter(r, n)
           /\ sent[s] = 0 => BegunAfter(s, next[s]) /\ \A n \in Nat : Begun(s, n) => n < next[s]
<1>1. /\ next \in [Sources -> 1..(MaxWrites + 1)] /\ sent \in [Sources -> Nat]
      /\ MaxWrites \in Nat /\ k \in Nat /\ sent[s] < k
    <2>1. Width[next[s]] \in Nat /\ MaxWrites \in Nat
        BY Constants
    <2>2. next \in [Sources -> 1..(MaxWrites + 1)] /\ sent \in [Sources -> Nat]
        BY DEF Types, TypeOK
    <2> QED
        BY <2>1, <2>2 DEF Write
<1>2. /\ \A r \in Sources \ {s} : next'[r] = next[r] /\ sent'[r] = sent[r]
      /\ next'[s] = next[s] + 1 \/ (next'[s] = next[s] /\ sent'[s] = k)
    <2>1. CASE k = Width[next[s]]
        <3>1. next' = [next EXCEPT ![s] = @ + 1] /\ sent' = [sent EXCEPT ![s] = 0]
            BY <2>1 DEF Write
        <3> QED
            BY <1>1, <3>1
    <2>2. CASE k # Width[next[s]]
        <3>1. sent' = [sent EXCEPT ![s] = k] /\ next' = next
            BY <2>2 DEF Write
        <3> QED
            BY <1>1, <3>1
    <2> QED
        BY <2>1, <2>2
<1>3. ASSUME NEW r \in Sources, NEW n \in Nat, Begun(r, n) PROVE BegunAfter(r, n)
    <2>1. CASE r = s
        <3>1. next[s] \in Nat /\ sent[s] \in Nat
            BY <1>1
        <3>2. n < next[s] \/ n = next[s]
            BY <1>3, <2>1 DEF Begun
        <3> QED
            BY <1>1, <1>2, <2>1, <3>1, <3>2 DEF BegunAfter
    <2>2. CASE r # s
        BY <1>2, <1>3, <2>2 DEF Begun, BegunAfter
    <2> QED
        BY <2>1, <2>2
<1>4. ASSUME sent[s] = 0 PROVE BegunAfter(s, next[s]) /\ \A n \in Nat : Begun(s, n) => n < next[s]
    <2>1. next[s] \in Nat /\ k > 0
        BY <1>1, <1>4
    <2>2. next[s] < next'[s] \/ (next[s] = next'[s] /\ sent'[s] > 0)
        BY <1>2, <2>1
    <2> QED
        BY <1>4, <2>1, <2>2 DEF Begun, BegunAfter
<1> QED
    BY <1>3, <1>4

\* The first byte of a line in the files after a write was there, or is the
\* one that the write begins, behind all the others.
LEMMA FirstBytes ==
    ASSUME Types, NEW s \in Sources, NEW k \in 1..Width[next[s]], next[s] \in Envelopes, Write(s, k),
           NEW l \in 1..Len(files'[s]), NEW q \in 1..Len(files'[s][l]), files'[s][l][q][2] = 1
    PROVE  \/ /\ l \in 1..Len(files[s]) /\ q \in 1..Len(files[s][l])
              /\ files'[s][l][q] = files[s][l][q]
           \/ /\ sent[s] = 0 /\ files'[s][l][q][1] = next[s]
              /\ \A j \in 1..Len(files'[s]) : \A p \in 1..Len(files'[s][j]) :
                    Later(l, q, j, p) => files'[s][j][p][2] # 1
<1> DEFINE base == IF live[s] = 0 THEN 0 ELSE Len(files[s][live[s]])
           top == live'[s]
<1>1. /\ \A i \in 1..Len(files[s]) :
            /\ i # live[s] => files'[s][i] = files[s][i]
            /\ \A p \in 1..Len(files[s][i]) : files'[s][i][p] = files[s][i][p]
      /\ \A p \in 1..Len(files'[s][top]) : p > base => files'[s][top][p] = <<next[s], sent[s] + p - base>>
      /\ top = Len(files'[s]) /\ top \in Nat
      /\ Len(files'[s]) = IF live[s] = 0 THEN Len(files[s]) + 1 ELSE Len(files[s])
    BY Writing
<1>2. /\ live[s] \in {0, Len(files[s])} /\ Len(files[s]) \in Nat /\ sent[s] \in Nat
      /\ \A i \in 1..Len(files[s]) : Len(files[s][i]) \in Nat
      /\ files'[s] \in Seq(Seq(Byte))
    <2>1. files[s] \in Seq(Seq(Byte)) /\ live[s] \in {0, Len(files[s])} /\ sent[s] \in Nat
        BY DEF Types, TypeOK
    <2>2. files' \in [Sources -> Seq(Seq(Byte))]
        BY Writing
    <2> QED
        BY <2>1, <2>2, ElementOfSeq, LenProperties
<1>3. base \in Nat
    BY SMTT(30), <1>2
<1>4. \A j \in 1..Len(files'[s]) : Len(files'[s][j]) \in Nat
    BY <1>2, ElementOfSeq, LenProperties
<1>5. CASE l \in 1..Len(files[s]) /\ q \in 1..Len(files[s][l])
    BY <1>1, <1>5
<1>6. CASE ~(l \in 1..Len(files[s]) /\ q \in 1..Len(files[s][l]))
    <2>0. l \in Nat /\ q \in Nat /\ q > 0 /\ l \in 1..top
        BY <1>1, <1>4
    <2>1. l = top /\ q > base
        <3>1. CASE live[s] = 0
            <4>1. ASSUME l # top PROVE FALSE
                <5>1. l \in 1..Len(files[s]) /\ l # live[s]
                    BY <1>1, <1>2, <2>0, <3>1, <4>1
                <5>2. files'[s][l] = files[s][l]
                    BY <1>1, <5>1
                <5> QED
                    BY <1>6, <5>1, <5>2
            <4> QED
                BY <2>0, <3>1, <4>1
        <3>2. CASE live[s] # 0
            <4>1. l \in 1..Len(files[s]) /\ live[s] = Len(files[s]) /\ top = live[s]
                BY <1>1, <1>2, <2>0, <3>2
            <4>2. l = live[s]
                <5>1. l # live[s] => files'[s][l] = files[s][l]
                    BY <1>1, <4>1
                <5> QED
                    BY <1>6, <4>1, <5>1
            <4>3. q \notin 1..Len(files[s][l]) /\ Len(files[s][l]) \in Nat
                BY <1>2, <1>6, <4>1
            <4>4. base = Len(files[s][l])
                BY <3>2, <4>2
            <4> QED
                BY <2>0, <4>1, <4>2, <4>3, <4>4
        <3> QED
            BY <3>1, <3>2
    <2>2. files'[s][l][q] = <<next[s], sent[s] + q - base>>
        BY <1>1, <2>1
    <2>3. sent[s] + q - base = 1
        BY <2>2
    <2> HIDE DEF base
    <2>4. sent[s] = 0 /\ q = base + 1
        <3>1. sent[s] \in Nat /\ base \in Nat /\ q \in Nat /\ q > base
            BY <1>2, <1>3, <2>0, <2>1
        <3>2. \A a, b, c \in Nat : c > b /\ a + c - b = 1 => a = 0 /\ c = b + 1
            OBVIOUS
        <3> QED
            BY <2>3, <3>1, <3>2
    <2>5. ASSUME NEW j \in 1..Len(files'[s]), NEW p \in 1..Len(files'[s][j]), Later(l, q, j, p)
          PROVE  files'[s][j][p][2] # 1
        <3>1. j \in Nat /\ p \in Nat /\ j <= top
            BY <1>1, <1>4
        <3>2. j = top /\ p > q
            BY <1>1, <2>1, <2>5, <3>1 DEF Later
        <3>3. p > base
            BY <1>3, <2>0, <2>1, <3>1, <3>2
        <3>4. files'[s][j][p] = <<next[s], sent[s] + p - base>>
            BY <1>1, <3>2, <3>3
        <3>5. sent[s] + p - base # 1
            BY <1>2, <1>3, <2>0, <2>4, <3>1, <3>2
        <3> QED
            BY <3>4, <3>5
    <2>6. files'[s][l][q][1] = next[s]
        BY <2>2
    <2>7. \A j \in 1..Len(files'[s]) : \A p \in 1..Len(files'[s][j]) :
             Later(l, q, j, p) => files'[s][j][p][2] # 1
        BY <2>5
    <2> QED
        BY <2>4, <2>6, <2>7
<1> QED
    BY <1>5, <1>6

\* Only a write adds first bytes, and only at the end, of the next envelope.
LEMMA WrittenInOrderStep == Types /\ Types' /\ WrittenInOrder /\ [Next]_vars => WrittenInOrder'
<1> SUFFICES ASSUME Types, Types', WrittenInOrder, [Next]_vars PROVE WrittenInOrder'
    OBVIOUS
<1>1. ASSUME UNCHANGED <<files, next, sent>> PROVE WrittenInOrder'
    <2>1. \A s \in Sources : \A n : Begun(s, n) <=> BegunAfter(s, n)
        BY <1>1 DEF Begun, BegunAfter
    <2>2. files' = files
        BY <1>1
    <2>3. \A s \in Sources : \A j \in 1..Len(files'[s]) : \A p \in 1..Len(files'[s][j]) :
             files'[s][j][p][2] = 1 =>
                /\ BegunAfter(s, files'[s][j][p][1])
                /\ \A l \in 1..Len(files'[s]) : \A q \in 1..Len(files'[s][l]) :
                       Later(j, p, l, q) /\ files'[s][l][q][2] = 1 =>
                           files'[s][j][p][1] < files'[s][l][q][1]
        <3>1. \A s \in Sources : \A j \in 1..Len(files[s]) : \A p \in 1..Len(files[s][j]) :
                 files[s][j][p][2] = 1 =>
                    /\ BegunAfter(s, files[s][j][p][1])
                    /\ \A l \in 1..Len(files[s]) : \A q \in 1..Len(files[s][l]) :
                           Later(j, p, l, q) /\ files[s][l][q][2] = 1 =>
                               files[s][j][p][1] < files[s][l][q][1]
            BY <2>1 DEF WrittenInOrder
        <3> SUFFICES ASSUME NEW s \in Sources, NEW j \in 1..Len(files'[s]), NEW p \in 1..Len(files'[s][j]),
                            files'[s][j][p][2] = 1
                     PROVE  /\ BegunAfter(s, files'[s][j][p][1])
                            /\ \A l \in 1..Len(files'[s]) : \A q \in 1..Len(files'[s][l]) :
                                  Later(j, p, l, q) /\ files'[s][l][q][2] = 1 =>
                                      files'[s][j][p][1] < files'[s][l][q][1]
            OBVIOUS
        <3>2. j \in 1..Len(files[s]) /\ p \in 1..Len(files[s][j]) /\ files[s][j][p][2] = 1 /\ files'[s] = files[s]
            BY <2>2
        <3> QED
            BY <3>1, <3>2
    <2> QED
        BY <2>3 DEF WrittenInOrder, Begun, BegunAfter
<1>2. ASSUME NEW s \in Sources, NEW n \in Envelopes, n = next[s], NEW k \in 1..Width[n], Write(s, k)
      PROVE  WrittenInOrder'
    <2>1. FeederTypes /\ FeederTypes'
        <3>1. FeederTypes
            BY TypesParts
        <3>2. FeederTypes'
            BY <1>2, WriteTypes
        <3> QED
            BY <3>1, <3>2
    <2>2. /\ \A r \in Sources \ {s} : files'[r] = files[r]
          /\ \A r \in Sources, i \in Nat : Begun(r, i) => BegunAfter(r, i)
          /\ sent[s] = 0 => BegunAfter(s, next[s]) /\ \A i \in Nat : Begun(s, i) => i < next[s]
        BY <1>2, Writing, StaysBegun
    <2>3. ASSUME NEW r \in Sources, NEW j \in 1..Len(files'[r]), NEW p \in 1..Len(files'[r][j]),
                 files'[r][j][p][2] = 1
          PROVE  /\ BegunAfter(r, files'[r][j][p][1])
                 /\ \A l \in 1..Len(files'[r]) : \A q \in 1..Len(files'[r][l]) :
                       Later(j, p, l, q) /\ files'[r][l][q][2] = 1 =>
                           files'[r][j][p][1] < files'[r][l][q][1]
        <3>1. CASE r # s
            <4>1. files'[r] = files[r]
                BY <2>2, <3>1
            <4>2. /\ Begun(r, files[r][j][p][1])
                  /\ \A l \in 1..Len(files[r]) : \A q \in 1..Len(files[r][l]) :
                       Later(j, p, l, q) /\ files[r][l][q][2] = 1 => files[r][j][p][1] < files[r][l][q][1]
                BY <2>3, <4>1 DEF WrittenInOrder
            <4>3. files[r][j][p][1] \in Nat
                BY <2>1, <2>3, <4>1, ByteOf
            <4> QED
                BY <2>2, <4>1, <4>2, <4>3
        <3>2. CASE r = s
            <4>1. CASE j \in 1..Len(files[s]) /\ p \in 1..Len(files[s][j]) /\ files'[s][j][p] = files[s][j][p]
                <5>1. /\ Begun(s, files[s][j][p][1])
                      /\ \A l \in 1..Len(files[s]) : \A q \in 1..Len(files[s][l]) :
                           Later(j, p, l, q) /\ files[s][l][q][2] = 1 => files[s][j][p][1] < files[s][l][q][1]
                    BY <2>3, <3>2, <4>1 DEF WrittenInOrder
                <5>2. files[s][j][p][1] \in Nat
                    BY <2>1, <4>1, ByteOf
                <5>3. ASSUME NEW l \in 1..Len(files'[s]), NEW q \in 1..Len(files'[s][l]),
                             Later(j, p, l, q), files'[s][l][q][2] = 1
                      PROVE  files[s][j][p][1] < files'[s][l][q][1]
                    <6>1. \/ /\ l \in 1..Len(files[s]) /\ q \in 1..Len(files[s][l])
                             /\ files'[s][l][q] = files[s][l][q]
                          \/ sent[s] = 0 /\ files'[s][l][q][1] = next[s]
                        BY <1>2, <5>3, FirstBytes
                    <6> QED
                        BY <2>2, <5>1, <5>2, <5>3, <6>1
                <5> QED
                    BY <2>2, <3>2, <4>1, <5>1, <5>2, <5>3
            <4>2. CASE /\ sent[s] = 0 /\ files'[s][j][p][1] = next[s]
                       /\ \A l \in 1..Len(files'[s]) : \A q \in 1..Len(files'[s][l]) :
                             Later(j, p, l, q) => files'[s][l][q][2] # 1
                BY <2>2, <3>2, <4>2
            <4>3. j \in 1..Len(files'[s]) /\ p \in 1..Len(files'[s][j]) /\ files'[s][j][p][2] = 1
                BY <2>3, <3>2
            <4>4. \/ j \in 1..Len(files[s]) /\ p \in 1..Len(files[s][j]) /\ files'[s][j][p] = files[s][j][p]
                  \/ /\ sent[s] = 0 /\ files'[s][j][p][1] = next[s]
                     /\ \A l \in 1..Len(files'[s]) : \A q \in 1..Len(files'[s][l]) :
                           Later(j, p, l, q) => files'[s][l][q][2] # 1
                BY <1>2, <4>3, FirstBytes
            <4> QED
                BY <4>1, <4>2, <4>4
        <3> QED
            BY <3>1, <3>2
    <2> QED
        BY <2>3 DEF WrittenInOrder, Begun, BegunAfter
<1>3. ASSUME NEW s \in Sources, Feed(s) PROVE WrittenInOrder'
    BY <1>1, <1>2, <1>3 DEF Feed, Rotate
<1>4. ASSUME ~\E s \in Sources : Feed(s) PROVE UNCHANGED feeder
    <2>1. CASE Poll
        BY <2>1 DEF Poll, StartPoll, SkipDisabled, Missing, TakeSize, OpenFile, ReadLine, CloseFile,
                    HandleEvent, Publish
    <2>2. CASE \E s \in Sources : Disable(s)
        BY <2>2 DEF Disable
    <2>3. CASE UNCHANGED vars
        BY <2>3 DEF vars
    <2> QED
        BY <1>4, <2>1, <2>2, <2>3 DEF Next
<1> QED
    BY <1>1, <1>3, <1>4 DEF feeder

-----------------------------------------------------------------------------
(* What may still be read becomes less, but for what is written anew. *)

\* A line that may be read after the step could be before, or is one that the
\* step began.
Narrowing ==
    \A s \in Sources : \A l \in 1..Len(files'[s]) : \A q \in 1..Len(files'[s][l]) :
        Unread(s, l, q)' /\ files'[s][l][q][2] = 1 =>
            \/ /\ l \in 1..Len(files[s]) /\ q \in 1..Len(files[s][l])
               /\ files'[s][l][q] = files[s][l][q] /\ Unread(s, l, q)
            \/ \A n \in Nat : Begun(s, n) => n < files'[s][l][q][1]

\* A stimulus stays before all that may be read, if that narrows.
LEMMA StillPrecedes ==
    ASSUME Narrowing, \A s \in Sources, n \in Nat : Begun(s, n) => BegunAfter(s, n),
           NEW e \in Sources \X Text, Precedes(e)
    PROVE  Precedes(e)'
<1>1. e[1] \in Sources /\ e[2][1] \in Byte
    BY DEF Precedes
<1>2. e[2][1][1] \in Nat
    <2>1. MaxWrites \in Nat
        BY Constants
    <2> QED
        BY <1>1, <2>1 DEF Byte, Envelopes
<1>3. ASSUME Parsed(e[2])
      PROVE  /\ BegunAfter(e[1], e[2][1][1])
             /\ \A l \in 1..Len(files'[e[1]]) : \A q \in 1..Len(files'[e[1]][l]) :
                   Unread(e[1], l, q)' /\ files'[e[1]][l][q][2] = 1 =>
                       e[2][1][1] < files'[e[1]][l][q][1]
    <2>1. /\ Begun(e[1], e[2][1][1])
          /\ \A l \in 1..Len(files[e[1]]) : \A q \in 1..Len(files[e[1]][l]) :
                Unread(e[1], l, q) /\ files[e[1]][l][q][2] = 1 => e[2][1][1] < files[e[1]][l][q][1]
        BY <1>3 DEF Precedes
    <2>2. BegunAfter(e[1], e[2][1][1])
        BY <1>1, <1>2, <2>1
    <2>3. ASSUME NEW l \in 1..Len(files'[e[1]]), NEW q \in 1..Len(files'[e[1]][l]),
                 Unread(e[1], l, q)', files'[e[1]][l][q][2] = 1
          PROVE  e[2][1][1] < files'[e[1]][l][q][1]
        <3>1. \/ /\ l \in 1..Len(files[e[1]]) /\ q \in 1..Len(files[e[1]][l])
                 /\ files'[e[1]][l][q] = files[e[1]][l][q] /\ Unread(e[1], l, q)
              \/ \A n \in Nat : Begun(e[1], n) => n < files'[e[1]][l][q][1]
            BY <1>1, <2>3 DEF Narrowing
        <3>2. CASE /\ l \in 1..Len(files[e[1]]) /\ q \in 1..Len(files[e[1]][l])
                   /\ files'[e[1]][l][q] = files[e[1]][l][q] /\ Unread(e[1], l, q)
            BY <2>1, <2>3, <3>2
        <3>3. CASE \A n \in Nat : Begun(e[1], n) => n < files'[e[1]][l][q][1]
            BY <1>2, <2>1, <3>3
        <3> QED
            BY <3>1, <3>2, <3>3
    <2> QED
        BY <2>2, <2>3
<1> QED
    BY <1>1, <1>3 DEF Precedes, Begun, BegunAfter

\* The membrane's steps: files and lines as before.
LEMMA NarrowingOf ==
    ASSUME UNCHANGED files,
           \A s \in Sources : \A l \in 1..Len(files[s]) : \A q \in 1..Len(files[s][l]) :
               Unread(s, l, q)' => Unread(s, l, q)
    PROVE  Narrowing
<1> SUFFICES ASSUME NEW s \in Sources, NEW l \in 1..Len(files'[s]), NEW q \in 1..Len(files'[s][l]),
                    Unread(s, l, q)'
             PROVE  /\ l \in 1..Len(files[s]) /\ q \in 1..Len(files[s][l])
                    /\ files'[s][l][q] = files[s][l][q] /\ Unread(s, l, q)
    BY DEF Narrowing
<1>1. files'[s] = files[s]
    OBVIOUS
<1>2. l \in 1..Len(files[s]) /\ q \in 1..Len(files[s][l])
    BY <1>1
<1> QED
    BY <1>1, <1>2

\* A feeder's write: what is new belongs to envelopes not begun before.
LEMMA WriteNarrows ==
    ASSUME Types, NEW s \in Sources, NEW k \in 1..Width[next[s]], next[s] \in Envelopes, Write(s, k)
    PROVE  Narrowing
<1>1. /\ \A r \in Sources \ {s} : files'[r] = files[r] /\ live'[r] = live[r]
      /\ live'[s] = Len(files'[s])
      /\ Len(files'[s]) = IF live[s] = 0 THEN Len(files[s]) + 1 ELSE Len(files[s])
      /\ \A l \in 1..Len(files[s]) : Len(files'[s][l]) >= Len(files[s][l])
      /\ files' \in [Sources -> Seq(Seq(Byte))]
    BY Writing
<1>2. UNCHANGED <<handle, cursor, offset, from, stage, todo>>
    BY DEF Write, adapter
<1>3. FeederTypes /\ cursor \in Nat /\ offset \in [Sources -> Nat]
    BY TypesParts DEF ReaderTypes
<1>4. ASSUME NEW l \in 1..Len(files[s]), NEW q \in 1..Len(files[s][l]), Unread(s, l, q)'
      PROVE  Unread(s, l, q)
    <2>1. /\ l \in Nat /\ q \in Nat /\ Len(files[s]) \in Nat /\ Len(files[s][l]) \in Nat
          /\ live[s] \in {0, Len(files[s])} /\ cursor \in Nat /\ offset[s] \in Nat
        BY <1>3, <1>4, ByteOf DEF FeederTypes
    <2>2. Len(files'[s][l]) \in Nat /\ Len(files'[s][l]) >= Len(files[s][l])
        <3>1. files'[s] \in Seq(Seq(Byte)) /\ l \in 1..Len(files'[s])
            BY <1>1, <2>1
        <3>2. files'[s][l] \in Seq(Byte)
            BY <3>1, ElementOfSeq
        <3> QED
            BY <1>1, <3>2, LenProperties
    <2>3. \A c \in Nat : Beyond(files'[s][l], c, q) => Beyond(files[s][l], c, q)
        BY <2>1, <2>2 DEF Beyond
    <2>4. l = live'[s] => l = live[s]
        BY <1>1, <2>1
    <2>5. CASE Reading(s)
        <3>1. l > handle \/ (l = handle /\ Beyond(files'[s][l], cursor, q))
            BY <1>2, <1>4, <2>5 DEF Unread, Reading
        <3> QED
            BY <2>1, <2>3, <2>5, <3>1 DEF Unread
    <2>6. CASE ~Reading(s)
        <3>1. l > from[s] \/ (l = from[s] /\ l = live'[s] /\ Beyond(files'[s][l], offset[s], q))
            BY <1>2, <1>4, <2>6 DEF Unread, Reading
        <3> QED
            BY <2>1, <2>3, <2>4, <2>6, <3>1 DEF Unread
    <2> QED
        BY <2>5, <2>6
<1>5. ASSUME NEW r \in Sources, r # s, NEW l, NEW q, Unread(r, l, q)'
      PROVE  Unread(r, l, q)
    <2>1. files'[r] = files[r] /\ live'[r] = live[r]
        BY <1>1, <1>5
    <2> QED
        BY <1>2, <1>5, <2>1 DEF Unread, Reading
<1> SUFFICES ASSUME NEW r \in Sources, NEW l \in 1..Len(files'[r]), NEW q \in 1..Len(files'[r][l]),
                    Unread(r, l, q)', files'[r][l][q][2] = 1
             PROVE  \/ /\ l \in 1..Len(files[r]) /\ q \in 1..Len(files[r][l])
                       /\ files'[r][l][q] = files[r][l][q] /\ Unread(r, l, q)
                    \/ \A n \in Nat : Begun(r, n) => n < files'[r][l][q][1]
    BY DEF Narrowing
<1>6. CASE r = s
    <2>1. l \in 1..Len(files'[s]) /\ q \in 1..Len(files'[s][l]) /\ files'[s][l][q][2] = 1 /\ Unread(s, l, q)'
        BY <1>6
    <2>2. \/ /\ l \in 1..Len(files[s]) /\ q \in 1..Len(files[s][l])
             /\ files'[s][l][q] = files[s][l][q]
          \/ sent[s] = 0 /\ files'[s][l][q][1] = next[s]
        BY <2>1, FirstBytes
    <2>3. sent[s] = 0 => \A n \in Nat : Begun(s, n) => n < next[s]
        BY StaysBegun
    <2> QED
        BY <1>4, <1>6, <2>1, <2>2, <2>3
<1>7. CASE r # s
    <2>1. files'[r] = files[r]
        BY <1>1, <1>7
    <2>2. l \in 1..Len(files[r]) /\ q \in 1..Len(files[r][l])
        BY <2>1
    <2> QED
        BY <1>5, <1>7, <2>1, <2>2
<1> QED
    BY <1>6, <1>7

\* The open file is the newest, so that what is beyond the offset in it is all.
LEMMA OpenNarrows ==
    ASSUME Types, Results, OpenFile
    PROVE  Narrowing
<1>1. /\ UNCHANGED <<files, live, offset, from, todo>> /\ stage = "open" /\ stage' = "lines"
      /\ live[Head(todo)] # 0 /\ handle' = live[Head(todo)] /\ cursor' = offset[Head(todo)]
    BY DEF OpenFile, feeder
<1>2. FeederTypes
    BY TypesParts
<1> SUFFICES ASSUME NEW s \in Sources, NEW l \in 1..Len(files[s]), NEW q \in 1..Len(files[s][l]),
                    Unread(s, l, q)'
             PROVE  Unread(s, l, q)
    BY <1>1, NarrowingOf
<1>3. ~Reading(s)
    BY <1>1 DEF Reading
<1>4. /\ l \in Nat /\ Len(files[s]) \in Nat /\ l <= Len(files[s])
      /\ live[s] \in {0, Len(files[s])} /\ from[s] \in 0..Len(files[s])
    BY <1>2, ByteOf DEF FeederTypes
<1>5. CASE s = Head(todo)
    <2>1. l > live[s] \/ (l = live[s] /\ Beyond(files[s][l], offset[s], q))
        BY <1>1, <1>5 DEF Unread, Reading
    <2>2. live[s] = Len(files[s])
        BY <1>1, <1>4, <1>5
    <2>3. l = live[s] /\ Beyond(files[s][l], offset[s], q)
        BY <1>4, <2>1, <2>2
    <2>4. l > from[s] \/ l = from[s]
        BY <1>4, <2>2, <2>3
    <2> QED
        BY <1>3, <2>3, <2>4 DEF Unread
<1>6. CASE s # Head(todo)
    <2>1. ~Reading(s)'
        BY <1>1, <1>6 DEF Reading
    <2> QED
        BY <1>1, <1>3, <2>1 DEF Unread
<1> QED
    BY <1>5, <1>6

\* Starting a file over: none of it was read, its size says.
LEMMA SizeNarrows ==
    ASSUME Types, Results, TakeSize
    PROVE  Narrowing
<1>1. /\ UNCHANGED <<files, live, from, todo>> /\ stage = "size" /\ stage' = "open"
      /\ offset' = IF Len(files[Head(todo)][live[Head(todo)]]) < offset[Head(todo)]
                   THEN [offset EXCEPT ![Head(todo)] = 0] ELSE offset
    BY DEF TakeSize, feeder
<1>2. FeederTypes /\ offset \in [Sources -> Nat]
    BY TypesParts DEF ReaderTypes
<1> SUFFICES ASSUME NEW s \in Sources, NEW l \in 1..Len(files[s]), NEW q \in 1..Len(files[s][l]),
                    Unread(s, l, q)'
             PROVE  Unread(s, l, q)
    BY <1>1, NarrowingOf
<1>3. ~Reading(s) /\ ~Reading(s)'
    BY <1>1 DEF Reading
<1>4. l > from[s] \/ (l = from[s] /\ l = live[s] /\ Beyond(files[s][l], offset'[s], q))
    BY <1>1, <1>3 DEF Unread
<1>5. CASE offset'[s] = offset[s]
    BY <1>3, <1>4, <1>5 DEF Unread
<1>6. CASE offset'[s] # offset[s]
    <2>1. s = Head(todo) /\ Len(files[s][live[s]]) < offset[s]
        BY <1>1, <1>2, <1>6
    <2>2. Len(files[s][l]) \in Nat /\ offset[s] \in Nat
        BY <1>2, ByteOf
    <2>3. l = live[s] => Beyond(files[s][l], offset[s], q)
        BY <2>1, <2>2 DEF Beyond
    <2> QED
        BY <1>3, <1>4, <2>3 DEF Unread
<1> QED
    BY <1>5, <1>6

\* Reading moves the cursor within the file.
LEMMA ReadNarrows ==
    ASSUME Types, Results, NEW k \in 1..Len(Rest), ReadLine(k)
    PROVE  Narrowing
<1>1. UNCHANGED <<files, live, offset, from, todo, stage, handle>>
    BY DEF ReadLine, feeder
<1>2. FeederTypes /\ cursor \in Nat
    BY TypesParts DEF ReaderTypes
<1>3. cursor' = cursor + k /\ k \in Nat \ {0} /\ cursor + k <= Len(files[Head(todo)][handle])
    BY LineOf
<1> SUFFICES ASSUME NEW s \in Sources, NEW l \in 1..Len(files[s]), NEW q \in 1..Len(files[s][l]),
                    Unread(s, l, q)'
             PROVE  Unread(s, l, q)
    BY <1>1, NarrowingOf
<1>4. CASE Reading(s)
    <2>1. s = Head(todo) /\ (l > handle \/ (l = handle /\ Beyond(files[s][l], cursor', q)))
        BY <1>1, <1>4 DEF Unread, Reading
    <2>2. q \in Nat /\ Len(files[s][l]) \in Nat
        BY <1>2, ByteOf
    <2>3. l = handle /\ Beyond(files[s][l], cursor', q) => Beyond(files[s][l], cursor, q)
        BY <1>2, <1>3, <2>1, <2>2 DEF Beyond
    <2> QED
        BY <1>4, <2>1, <2>3 DEF Unread
<1>5. CASE ~Reading(s)
    BY <1>1, <1>5 DEF Unread, Reading
<1> QED
    BY <1>4, <1>5

\* The offset takes over where the cursor was.
LEMMA CloseNarrows ==
    ASSUME Types, Results, CloseFile
    PROVE  Narrowing
<1>1. /\ UNCHANGED <<files, live>> /\ stage = "lines" /\ stage' # "lines"
      /\ offset' = [offset EXCEPT ![Head(todo)] = cursor]
      /\ from' = [from EXCEPT ![Head(todo)] = handle]
    BY DEF CloseFile, NextSource, feeder
<1>2. from \in [Sources -> Nat] /\ offset \in [Sources -> Nat]
    BY TypesParts DEF FeederTypes, ReaderTypes
<1> SUFFICES ASSUME NEW s \in Sources, NEW l \in 1..Len(files[s]), NEW q \in 1..Len(files[s][l]),
                    Unread(s, l, q)'
             PROVE  Unread(s, l, q)
    BY <1>1, NarrowingOf
<1>3. l > from'[s] \/ (l = from'[s] /\ l = live[s] /\ Beyond(files[s][l], offset'[s], q))
    BY <1>1 DEF Unread, Reading
<1>4. CASE s = Head(todo)
    <2>1. from'[s] = handle /\ offset'[s] = cursor /\ Reading(s)
        BY <1>1, <1>2, <1>4 DEF Reading
    <2> QED
        BY <1>3, <2>1 DEF Unread
<1>5. CASE s # Head(todo)
    <2>1. from'[s] = from[s] /\ offset'[s] = offset[s] /\ ~Reading(s)
        BY <1>1, <1>2, <1>5 DEF Reading
    <2> QED
        BY <1>3, <2>1 DEF Unread
<1> QED
    BY <1>4, <1>5

\* So every step narrows what may still be read.
LEMMA StepNarrows ==
    ASSUME Types, Results, [Next]_vars
    PROVE  Narrowing /\ \A s \in Sources, n \in Nat : Begun(s, n) => BegunAfter(s, n)
<1>1. ASSUME UNCHANGED feeder PROVE \A s \in Sources, n \in Nat : Begun(s, n) => BegunAfter(s, n)
    BY <1>1 DEF feeder, Begun, BegunAfter
<1>2. ASSUME UNCHANGED <<feeder, handle, cursor, offset, from>>,
             UNCHANGED <<stage, todo>> \/ (stage # "lines" /\ stage' # "lines")
      PROVE  Narrowing
    <2>1. \A s \in Sources : \A l, q : Unread(s, l, q)' => Unread(s, l, q)
        BY <1>2 DEF Unread, Reading, feeder
    <2> QED
        BY <1>2, <2>1, NarrowingOf DEF feeder
<1>3. CASE StartPoll \/ SkipDisabled \/ Missing \/ HandleEvent \/ Publish
    <2>1. /\ UNCHANGED <<feeder, handle, cursor, offset, from>>
          /\ stage # "lines"
        BY <1>3 DEF StartPoll, SkipDisabled, Missing, HandleEvent, Publish, adapter
    <2>2. stage' # "lines" \/ UNCHANGED <<stage, todo>>
        BY <1>3 DEF StartPoll, SkipDisabled, Missing, HandleEvent, Publish, NextSource
    <2> QED
        BY <1>1, <1>2, <2>1, <2>2
<1>4. CASE TakeSize \/ OpenFile \/ CloseFile
    <2>1. UNCHANGED feeder
        BY <1>4 DEF TakeSize, OpenFile, CloseFile
    <2> QED
        BY <1>1, <1>4, <2>1, SizeNarrows, OpenNarrows, CloseNarrows
<1>5. ASSUME NEW k \in 1..Len(Rest), ReadLine(k)
      PROVE  Narrowing /\ \A s \in Sources, n \in Nat : Begun(s, n) => BegunAfter(s, n)
    <2>1. UNCHANGED feeder
        BY <1>5 DEF ReadLine
    <2> QED
        BY <1>1, <1>5, <2>1, ReadNarrows
<1>6. ASSUME NEW s \in Sources, Disable(s)
      PROVE  Narrowing /\ \A r \in Sources, n \in Nat : Begun(r, n) => BegunAfter(r, n)
    <2>1. UNCHANGED <<feeder, handle, cursor, offset, from, stage, todo>>
        BY <1>6 DEF Disable, adapter
    <2> QED
        BY <1>1, <1>2, <2>1
<1>7. ASSUME NEW s \in Sources, Rotate(s)
      PROVE  Narrowing /\ \A r \in Sources, n \in Nat : Begun(r, n) => BegunAfter(r, n)
    <2>1. /\ UNCHANGED <<files, next, sent, handle, cursor, offset, from, stage, todo>>
          /\ live' = [live EXCEPT ![s] = 0]
        BY <1>7 DEF Rotate, adapter
    <2>2. ASSUME NEW r \in Sources, NEW l \in 1..Len(files[r]), NEW q \in 1..Len(files[r][l]),
                 Unread(r, l, q)'
          PROVE  Unread(r, l, q)
        <3>1. live \in [Sources -> Nat] /\ l # 0
            <4>1. FeederTypes
                BY TypesParts
            <4>2. Len(files[r]) \in Nat
                BY <2>2, <4>1, ByteOf
            <4> QED
                BY SMTT(30), <4>1, <4>2 DEF FeederTypes
        <3>2. live'[r] = live[r] \/ live'[r] = 0
            BY <2>1, <3>1
        <3> QED
            BY <2>1, <2>2, <3>1, <3>2 DEF Unread, Reading
    <2> QED
        BY <2>1, <2>2, NarrowingOf DEF Begun, BegunAfter
<1>8. ASSUME NEW s \in Sources, NEW n \in Envelopes, n = next[s], NEW k \in 1..Width[n], Write(s, k)
      PROVE  Narrowing /\ \A r \in Sources, i \in Nat : Begun(r, i) => BegunAfter(r, i)
    BY <1>8, WriteNarrows, StaysBegun
<1>9. CASE UNCHANGED vars
    <2>1. UNCHANGED <<feeder, handle, cursor, offset, from, stage, todo>>
        BY <1>9 DEF vars, adapter
    <2> QED
        BY <1>1, <1>2, <2>1
<1> QED
    BY <1>3, <1>4, <1>5, <1>6, <1>7, <1>8, <1>9 DEF Next, Poll, Feed

-----------------------------------------------------------------------------
(* The order of the stimuli. *)

\* What the three parts of Stimuli hold.
Pending == [i \in 1..Len(got) |-> <<Head(todo), got[i]>>]
Place(i) ==
    IF i <= Len(published) THEN published[i]
    ELSE IF i <= Len(published) + Len(buffer) THEN buffer[i - Len(published)]
    ELSE <<Head(todo), got[i - Len(published) - Len(buffer)]>>

StimuliParts ==
    /\ Len(published) \in Nat /\ Len(buffer) \in Nat /\ Len(got) \in Nat
    /\ Stimuli \in Seq(Sources \X Text)
    /\ Len(Stimuli) = Len(published) + Len(buffer) + Len(got)
    /\ \A i \in 1..Len(Stimuli) : Stimuli[i] = Place(i)

\* Stimuli, place by place.
LEMMA StimuliAre == Types /\ Results => StimuliParts
<1> SUFFICES ASSUME Types, Results PROVE StimuliParts
    OBVIOUS
<1>1. /\ published \in Seq(Sources \X Text) /\ buffer \in Seq(Sources \X Text) /\ got \in Seq(Text)
      /\ Len(published) \in Nat /\ Len(buffer) \in Nat /\ Len(got) \in Nat
    BY TypesParts, LenProperties DEF SinkTypes, ReaderTypes
<1>2. ASSUME NEW i \in 1..Len(got) PROVE <<Head(todo), got[i]>> \in Sources \X Text
    <2>1. got # <<>>
        BY <1>1, <1>2
    <2>2. stage \in {"lines", "handle"}
        BY <2>1 DEF Results
    <2>3. todo \in Seq(Sources) /\ todo # <<>>
        BY <2>2, TypesParts DEF ReaderTypes
    <2>4. Head(todo) \in Sources
        BY <2>3, HeadTailProperties
    <2>5. got[i] \in Text
        BY <1>1, <1>2, ElementOfSeq
    <2> QED
        BY <2>4, <2>5
<1>3. /\ Pending \in Seq(Sources \X Text) /\ Len(Pending) = Len(got)
      /\ \A i \in 1..Len(got) : Pending[i] = <<Head(todo), got[i]>>
    BY <1>1, <1>2 DEF Pending
<1>4. /\ published \o buffer \in Seq(Sources \X Text)
      /\ Len(published \o buffer) = Len(published) + Len(buffer)
      /\ \A i \in 1..(Len(published) + Len(buffer)) :
            (published \o buffer)[i] = IF i <= Len(published) THEN published[i] ELSE buffer[i - Len(published)]
    BY <1>1, ConcatProperties
<1> DEFINE front == published \o buffer
<1>5. Stimuli = front \o Pending /\ front \in Seq(Sources \X Text)
    BY <1>4 DEF Stimuli, Pending
<1> HIDE DEF front
<1>6. /\ Stimuli \in Seq(Sources \X Text)
      /\ Len(Stimuli) = Len(front) + Len(Pending)
      /\ \A i \in 1..(Len(front) + Len(Pending)) :
            Stimuli[i] = IF i <= Len(front) THEN front[i] ELSE Pending[i - Len(front)]
    <2>1. /\ front \o Pending \in Seq(Sources \X Text)
          /\ Len(front \o Pending) = Len(front) + Len(Pending)
          /\ \A i \in 1..(Len(front) + Len(Pending)) :
                (front \o Pending)[i] = IF i <= Len(front) THEN front[i] ELSE Pending[i - Len(front)]
        BY ZenonT(30), <1>3, <1>5, ConcatProperties
    <2> QED
        BY <1>5, <2>1
<1>7. ASSUME NEW i \in 1..Len(Stimuli) PROVE Stimuli[i] = Place(i)
    <2>1. Len(front) = Len(published) + Len(buffer) /\ Len(Pending) = Len(got)
        BY <1>3, <1>4 DEF front
    <2>2. Stimuli[i] = IF i <= Len(front) THEN front[i] ELSE Pending[i - Len(front)]
        BY <1>6, <1>7
    <2>3. CASE i <= Len(front)
        <3>1. i \in 1..(Len(published) + Len(buffer))
            BY <1>1, <1>6, <1>7, <2>1, <2>3
        <3>2. front[i] = IF i <= Len(published) THEN published[i] ELSE buffer[i - Len(published)]
            BY <1>4, <3>1 DEF front
        <3> QED
            BY <1>1, <2>1, <2>2, <2>3, <3>1, <3>2 DEF Place
    <2>4. CASE ~(i <= Len(front))
        <3>1. i - Len(front) \in 1..Len(got) /\ i - Len(front) = i - Len(published) - Len(buffer)
            BY <1>1, <1>6, <1>7, <2>1, <2>4
        <3>2. ~(i <= Len(published)) /\ ~(i <= Len(published) + Len(buffer))
            BY <1>1, <1>6, <1>7, <2>1, <2>4
        <3> QED
            BY <1>3, <2>2, <2>4, <3>1, <3>2 DEF Place
    <2> QED
        BY <2>3, <2>4
<1> QED
    BY <1>1, <1>3, <1>4, <1>6, <1>7 DEF front, StimuliParts

\* The same after a step.
LEMMA StimuliAreAfter == Types' /\ Results' => StimuliParts'
BY StimuliAre, PTL

\* Sequence r is q without one element at most, cut off perhaps.
Skip(d, i) == IF i < d THEN i ELSE i + 1
Thinned(r, q, d) == \A i \in 1..Len(r) : Skip(d, i) \in 1..Len(q) /\ r[i] = q[Skip(d, i)]

\* Steps that do not touch the stimuli.
LEMMA KeptThins ==
    ASSUME Types, Results, Types', Results',
           published' = published /\ buffer' = buffer /\ got' = got /\ (got = <<>> \/ todo' = todo)
    PROVE  \E d \in Nat : Thinned(Stimuli', Stimuli, d)
<1>1. /\ Len(Stimuli) = Len(published) + Len(buffer) + Len(got)
      /\ Len(Stimuli') = Len(Stimuli) /\ Len(Stimuli) \in Nat
      /\ Len(published) \in Nat /\ Len(buffer) \in Nat /\ Len(got) \in Nat
      /\ \A i \in 1..Len(Stimuli) : Stimuli[i] = Place(i) /\ Stimuli'[i] = Place(i)'
    BY StimuliAre, StimuliAreAfter DEF StimuliParts
<1>2. ASSUME NEW i \in 1..Len(Stimuli) PROVE Place(i)' = Place(i)
    <2>1. CASE todo' = todo
        BY <2>1 DEF Place
    <2>2. CASE got = <<>>
        <3>1. i <= Len(published) + Len(buffer)
            BY <1>1, <2>2
        <3> QED
            BY <3>1 DEF Place
    <2> QED
        BY <2>1, <2>2
<1>3. Thinned(Stimuli', Stimuli, Len(Stimuli) + 1)
    BY <1>1, <1>2 DEF Thinned, Skip
<1> QED
    BY <1>1, <1>3

\* An event handled goes to the buffer's end, or is a duplicate, or drives out
\* the buffer's oldest; at the total the other results are dropped.
LEMMA HandleThins ==
    ASSUME Types, Results, Types', Results', HandleEvent
    PROVE  \E d \in Nat : Thinned(Stimuli', Stimuli, d)
<1> DEFINE P == Len(published)
           B == Len(buffer)
           G == Len(got)
           e == <<Head(todo), Head(got)>>
<1>1. /\ Len(Stimuli) = P + B + G /\ P \in Nat /\ B \in Nat /\ G \in Nat
      /\ Len(Stimuli') = Len(published') + Len(buffer') + Len(got')
      /\ Len(buffer') \in Nat /\ Len(got') \in Nat /\ Len(Stimuli') \in Nat
      /\ \A i \in 1..Len(Stimuli) : Stimuli[i] = Place(i)
      /\ \A i \in 1..Len(Stimuli') : Stimuli'[i] = Place(i)'
    BY StimuliAre, StimuliAreAfter DEF StimuliParts
<1>2. /\ published' = published /\ stage = "handle" /\ Admit(Head(todo), Head(got))
      /\ (got' = <<>> /\ NextSource) \/ (got' = Tail(got) /\ (got' = <<>> \/ todo' = todo))
    BY DEF HandleEvent
<1>3. /\ todo \in Seq(Sources) /\ todo # <<>> /\ got \in Seq(Text) /\ got # <<>> /\ SinkTypes
      /\ buffer \in Seq(Sources \X Text)
    BY <1>2, TypesParts DEF ReaderTypes, Results, SinkTypes
<1>4. /\ G > 0 /\ Tail(got) \in Seq(Text) /\ Len(Tail(got)) = G - 1
      /\ \A i \in 1..(G - 1) : Tail(got)[i] = got[i + 1]
      /\ Head(got) = got[1] /\ Head(got) \in Text /\ Head(todo) \in Sources
    <2>1. G > 0 /\ Head(todo) \in Sources
        BY <1>1, <1>3, EmptySeq, HeadTailProperties
    <2> QED
        BY <1>3, <2>1, TailOf
<1>5. \/ buffer' = buffer
      \/ buffer' = Append(buffer, e)
      \/ Len(buffer) > 0 /\ buffer' = Append(Tail(buffer), e)
    BY <1>2, <1>3, <1>4, AdmitTypes
<1>6. /\ Len(got') <= G - 1
      /\ \A i \in 1..Len(got') : todo' = todo /\ got'[i] = got[i + 1] /\ i + 1 \in 1..G
    <2>1. CASE got' = <<>>
        BY <1>1, <1>4, <2>1
    <2>2. CASE got' # <<>>
        BY SMTT(30), <1>1, <1>2, <1>4, <2>2
    <2> QED
        BY <2>1, <2>2
<1>7. e \in Sources \X Text /\ Place(P + B + 1) = e /\ P + B + 1 \in 1..Len(Stimuli)
    <2>1. ~(P + B + 1 <= P) /\ ~(P + B + 1 <= P + B) /\ P + B + 1 - P - B = 1
        BY <1>1
    <2> QED
        BY <1>1, <1>4, <2>1 DEF Place
\* Behind the buffer the results follow, without the first.
<1>8. ASSUME NEW i \in 1..Len(Stimuli'), i > P + Len(buffer')
      PROVE  LET j == i - P - Len(buffer') IN
             /\ Stimuli'[i] = Place(P + B + 1 + j) /\ P + B + 1 + j \in 1..Len(Stimuli)
    <2> DEFINE j == i - P - Len(buffer')
    <2>1. j \in 1..Len(got') /\ ~(i <= P) /\ ~(i <= P + Len(buffer'))
        BY <1>1, <1>2, <1>8
    <2>2. Stimuli'[i] = <<Head(todo'), got'[j]>>
        BY <1>1, <1>2, <1>8, <2>1 DEF Place
    <2>3. Stimuli'[i] = <<Head(todo), got[j + 1]>>
        BY <1>6, <2>1, <2>2
    <2>4. /\ P + B + 1 + j \in 1..Len(Stimuli) /\ ~(P + B + 1 + j <= P) /\ ~(P + B + 1 + j <= P + B)
          /\ P + B + 1 + j - P - B = j + 1
        BY <1>1, <1>6, <2>1
    <2> QED
        BY <2>3, <2>4 DEF Place
<1>9. ASSUME NEW i \in 1..Len(Stimuli'), i <= P
      PROVE  Stimuli'[i] = Place(i) /\ i \in 1..Len(Stimuli)
    <2>1. i \in Nat /\ i <= Len(published')
        BY <1>1, <1>2, <1>9
    <2>2. Stimuli'[i] = published[i] /\ Place(i) = published[i]
        BY <1>1, <1>2, <1>9, <2>1 DEF Place
    <2> QED
        BY <1>1, <1>9, <2>1, <2>2
<1>10. ASSUME NEW i \in 1..Len(Stimuli'), i > P, i <= P + Len(buffer')
       PROVE  Stimuli'[i] = buffer'[i - P] /\ i - P \in 1..Len(buffer')
    <2>1. i \in Nat /\ ~(i <= Len(published')) /\ i <= Len(published') + Len(buffer') /\ i - P \in 1..Len(buffer')
        BY <1>1, <1>2, <1>10
    <2> QED
        BY <1>1, <1>2, <1>10, <2>1 DEF Place
<1>11. ASSUME NEW i \in Nat, i > P, i <= P + B PROVE Place(i) = buffer[i - P] /\ i - P \in 1..B
    BY <1>1, <1>11 DEF Place
<1> HIDE DEF P, B, G, e
<1>12. P \in Nat /\ B \in Nat /\ G \in Nat /\ Len(Stimuli) = P + B + G /\ Len(Stimuli') \in Nat
       /\ Len(Stimuli') = P + Len(buffer') + Len(got') /\ Len(buffer') \in Nat /\ Len(got') \in Nat
       /\ Len(got') <= G - 1
    BY <1>1, <1>2, <1>6 DEF P, B, G
<1>13. \A i \in 1..Len(Stimuli) : Stimuli[i] = Place(i)
    BY <1>1
<1>14. CASE buffer' = buffer
    <2>1. ASSUME NEW i \in 1..Len(Stimuli')
          PROVE  Skip(P + B + 1, i) \in 1..Len(Stimuli) /\ Stimuli'[i] = Place(Skip(P + B + 1, i))
        <3>0. Len(buffer') = B /\ i \in Nat
            BY <1>12, <1>14, <2>1 DEF B
        <3>1. CASE i <= P
            BY <1>9, <1>12, <2>1, <3>0, <3>1 DEF Skip
        <3>2. CASE i > P /\ i <= P + B
            <4>1. Stimuli'[i] = buffer[i - P]
                BY <1>10, <1>14, <3>0, <3>2
            <4>2. Skip(P + B + 1, i) = i /\ i \in 1..Len(Stimuli)
                BY <1>12, <3>0, <3>2 DEF Skip
            <4> QED
                BY <1>11, <3>0, <3>2, <4>1, <4>2
        <3>3. CASE i > P + B
            <4>1. P + B + 1 + (i - P - Len(buffer')) = i + 1 /\ Skip(P + B + 1, i) = i + 1
                BY <1>12, <3>0, <3>3 DEF Skip
            <4> QED
                BY <1>8, <3>0, <3>3, <4>1
        <3> QED
            BY <1>12, <3>0, <3>1, <3>2, <3>3
    <2>2. Thinned(Stimuli', Stimuli, P + B + 1)
        BY <1>13, <2>1 DEF Thinned
    <2> QED
        BY <1>12, <2>2
<1>15. CASE buffer' = Append(buffer, e)
    <2>0. Len(buffer') = B + 1 /\ buffer'[B + 1] = e /\ \A i \in 1..B : buffer'[i] = buffer[i]
        BY <1>3, <1>7, <1>15, AppendProperties DEF B
    <2>1. ASSUME NEW i \in 1..Len(Stimuli')
          PROVE  i \in 1..Len(Stimuli) /\ Stimuli'[i] = Place(i)
        <3>0. i \in Nat
            BY <1>12, <2>1
        <3>1. CASE i <= P
            BY <1>9, <2>1, <3>1
        <3>2. CASE i > P /\ i <= P + B
            <4>1. Stimuli'[i] = buffer'[i - P] /\ i - P \in 1..B /\ Place(i) = buffer[i - P]
                BY SMTT(30), <1>10, <1>11, <1>12, <2>0, <3>0, <3>2
            <4>2. i \in 1..Len(Stimuli)
                BY <1>12, <3>0, <3>2
            <4> QED
                BY <2>0, <4>1, <4>2
        <3>3. CASE i = P + B + 1
            <4>1. Stimuli'[i] = buffer'[i - P]
                BY SMTT(30), <1>10, <1>12, <2>0, <3>0, <3>3
            <4>2. i - P = B + 1
                BY <1>12, <3>0, <3>3
            <4>3. Stimuli'[i] = buffer'[B + 1]
                BY <4>1, <4>2
            <4>4. Stimuli'[i] = e
                BY <2>0, <4>3
            <4> QED
                BY <1>7, <3>3, <4>4
        <3>4. CASE i > P + B + 1
            <4>1. P + B + 1 + (i - P - Len(buffer')) = i /\ i > P + Len(buffer')
                BY <1>12, <2>0, <3>0, <3>4
            <4> QED
                BY <1>8, <4>1
        <3> QED
            BY <1>12, <3>0, <3>1, <3>2, <3>3, <3>4
    <2>2. \A i \in 1..Len(Stimuli') : Skip(Len(Stimuli) + 1, i) = i
        BY <1>12, <2>0 DEF Skip
    <2>3. Thinned(Stimuli', Stimuli, Len(Stimuli) + 1)
        BY <1>13, <2>1, <2>2 DEF Thinned
    <2> QED
        BY <1>12, <2>3
<1>16. CASE Len(buffer) > 0 /\ buffer' = Append(Tail(buffer), e)
    <2>0. /\ Len(buffer') = B /\ buffer'[B] = e /\ B > 0
          /\ \A i \in 1..(B - 1) : buffer'[i] = buffer[i + 1]
        <3>1. /\ Tail(buffer) \in Seq(Sources \X Text) /\ Len(Tail(buffer)) = B - 1
              /\ \A i \in 1..(B - 1) : Tail(buffer)[i] = buffer[i + 1]
            BY <1>3, <1>16, TailOf DEF B
        <3>2. /\ Len(buffer') = (B - 1) + 1 /\ buffer'[(B - 1) + 1] = e
              /\ \A i \in 1..(B - 1) : buffer'[i] = Tail(buffer)[i]
            BY <1>7, <1>16, <3>1, AppendProperties
        <3> QED
            BY <1>12, <1>16, <3>1, <3>2 DEF B
    <2>1. ASSUME NEW i \in 1..Len(Stimuli')
          PROVE  Skip(P + 1, i) \in 1..Len(Stimuli) /\ Stimuli'[i] = Place(Skip(P + 1, i))
        <3>0. i \in Nat /\ (i > P => Skip(P + 1, i) = i + 1) /\ (i <= P => Skip(P + 1, i) = i)
            BY <1>12, <2>1 DEF Skip
        <3>1. CASE i <= P
            BY <1>9, <2>1, <3>0, <3>1
        <3>2. CASE i > P /\ i < P + B
            <4>1. Stimuli'[i] = buffer'[i - P] /\ i - P \in 1..(B - 1)
                BY <1>10, <1>12, <2>0, <3>0, <3>2
            <4>2. Place(i + 1) = buffer[(i + 1) - P] /\ i + 1 \in 1..Len(Stimuli) /\ (i + 1) - P = (i - P) + 1
                BY <1>11, <1>12, <3>0, <3>2
            <4>3. Stimuli'[i] = buffer[(i - P) + 1]
                BY <2>0, <4>1
            <4>4. Skip(P + 1, i) = i + 1
                BY <3>0, <3>2
            <4> QED
                BY <4>2, <4>3, <4>4
        <3>3. CASE i = P + B
            <4>1. Stimuli'[i] = buffer'[i - P]
                BY <1>10, <1>12, <2>0, <3>0, <3>3
            <4>2. Skip(P + 1, i) = P + B + 1
                BY <1>12, <2>0, <3>0, <3>3
            <4>3. i - P = B
                BY <1>12, <3>0, <3>3
            <4>4. Stimuli'[i] = buffer'[B]
                BY <4>1, <4>3
            <4>5. Stimuli'[i] = e
                BY <2>0, <4>4
            <4> QED
                BY <1>7, <4>2, <4>5
        <3>4. CASE i > P + B
            <4>1. P + B + 1 + (i - P - Len(buffer')) = i + 1 /\ i > P + Len(buffer') /\ i > P
                BY <1>12, <2>0, <3>0, <3>4
            <4> QED
                BY <1>8, <3>0, <4>1
        <3> QED
            BY <1>12, <3>0, <3>1, <3>2, <3>3, <3>4
    <2>2. Thinned(Stimuli', Stimuli, P + 1)
        BY <1>13, <2>1 DEF Thinned
    <2> QED
        BY <1>12, <2>2
<1> QED
    BY <1>5, <1>14, <1>15, <1>16

\* A batch only moves from one part of Stimuli to another.
LEMMA PublishThins ==
    ASSUME Types, Results, Types', Results', Publish
    PROVE  \E d \in Nat : Thinned(Stimuli', Stimuli, d)
<1>1. SinkTypes
    BY TypesParts
<1>2. PICK n \in Nat :
         /\ n <= Len(buffer) /\ published' = published \o SubSeq(buffer, 1, n)
         /\ buffer' = SubSeq(buffer, n + 1, Len(buffer))
    BY <1>1, PublishesSome
<1>3. /\ Len(Stimuli) = Len(published) + Len(buffer) + Len(got)
      /\ Len(published) \in Nat /\ Len(buffer) \in Nat /\ Len(got) \in Nat
      /\ Len(Stimuli') = Len(published') + Len(buffer') + Len(got')
      /\ \A i \in 1..Len(Stimuli) : Stimuli[i] = Place(i)
      /\ \A i \in 1..Len(Stimuli') : Stimuli'[i] = Place(i)'
    BY StimuliAre, StimuliAreAfter DEF StimuliParts
<1>4. got' = got /\ got = <<>>
    <2>1. stage = "publish" /\ got' = got
        BY DEF Publish
    <2> QED
        BY <2>1 DEF Results
<1>5. published \in Seq(Sources \X Text) /\ buffer \in Seq(Sources \X Text)
    BY <1>1 DEF SinkTypes
<1>6. /\ SubSeq(buffer, 1, n) \in Seq(Sources \X Text) /\ Len(SubSeq(buffer, 1, n)) = n
      /\ \A i \in 1..n : SubSeq(buffer, 1, n)[i] = buffer[i]
    <2>1. n \in 0..Len(buffer)
        BY <1>2, <1>3
    <2>2. /\ SubSeq(buffer, 1, n) \in Seq(Sources \X Text)
          /\ Len(SubSeq(buffer, 1, n)) = IF 1 <= n THEN n - 1 + 1 ELSE 0
          /\ \A i \in 1..Len(SubSeq(buffer, 1, n)) : SubSeq(buffer, 1, n)[i] = buffer[1 + i - 1]
        BY <1>5, <2>1, PartOf
    <2>3. Len(SubSeq(buffer, 1, n)) = n
        BY <1>2, <2>2
    <2>4. \A i \in 1..n : 1 + i - 1 = i
        BY <1>2
    <2> QED
        BY <2>2, <2>3, <2>4
<1>7. /\ Len(buffer') = Len(buffer) - n
      /\ \A i \in 1..(Len(buffer) - n) : buffer'[i] = buffer[n + i]
    <2>1. n + 1 \in Nat \ {0} /\ Len(buffer) \in 0..Len(buffer)
        BY <1>2, <1>3
    <2>2. /\ Len(buffer') = IF n + 1 <= Len(buffer) THEN Len(buffer) - (n + 1) + 1 ELSE 0
          /\ \A i \in 1..Len(buffer') : buffer'[i] = buffer[(n + 1) + i - 1]
        BY <1>2, <1>5, <2>1, PartOf
    <2>3. Len(buffer') = Len(buffer) - n
        BY <1>2, <1>3, <2>2
    <2>4. \A i \in 1..(Len(buffer) - n) : (n + 1) + i - 1 = n + i
        BY <1>2, <1>3
    <2> QED
        BY <2>2, <2>3, <2>4
<1>8. /\ Len(published') = Len(published) + n
      /\ \A i \in 1..(Len(published) + n) :
            published'[i] = IF i <= Len(published) THEN published[i] ELSE buffer[i - Len(published)]
    <2>1. /\ Len(published') = Len(published) + n
          /\ \A i \in 1..(Len(published) + n) :
                published'[i] = IF i <= Len(published) THEN published[i]
                                ELSE SubSeq(buffer, 1, n)[i - Len(published)]
        BY <1>2, <1>5, <1>6, ConcatProperties
    <2>2. \A i \in 1..(Len(published) + n) : ~(i <= Len(published)) => i - Len(published) \in 1..n
        BY <1>2, <1>3
    <2> QED
        BY <1>6, <2>1, <2>2
<1>9. Len(Stimuli') = Len(Stimuli) /\ Len(Stimuli) = Len(published) + Len(buffer)
    <2>1. Len(got') = Len(got) /\ Len(got) = 0
        BY <1>4
    <2>2. Len(published') = Len(published) + n /\ Len(buffer') = Len(buffer) - n
        BY <1>7, <1>8
    <2> QED
        BY <1>3, <2>1, <2>2
<1>10. ASSUME NEW i \in 1..Len(Stimuli') PROVE Place(i)' = Place(i)
    <2>0. i \in Nat /\ i <= Len(published) + Len(buffer) /\ i > 0
        BY <1>3, <1>9
    <2>1. CASE i <= Len(published) + n
        <3>1. i \in 1..(Len(published) + n)
            BY <1>2, <1>3, <2>0, <2>1
        <3>2. Place(i)' = published'[i]
            BY <1>8, <2>1 DEF Place
        <3> QED
            BY <1>8, <2>0, <3>1, <3>2 DEF Place
    <2>2. CASE ~(i <= Len(published) + n)
        <3>1. Place(i)' = buffer'[i - (Len(published) + n)]
            <4>1. Len(published') = Len(published) + n /\ Len(buffer') = Len(buffer) - n
                BY <1>7, <1>8
            <4>2. ~(i <= Len(published')) /\ i <= Len(published') + Len(buffer')
                BY <1>3, <2>0, <2>2, <4>1
            <4> QED
                BY <4>1, <4>2 DEF Place
        <3>2. i - (Len(published) + n) \in 1..(Len(buffer) - n) /\ n + (i - (Len(published) + n)) = i - Len(published)
            BY <1>2, <1>3, <2>0, <2>2
        <3>3. Place(i)' = buffer[i - Len(published)]
            BY <1>7, <3>1, <3>2
        <3>4. ~(i <= Len(published))
            BY <1>2, <1>3, <2>0, <2>2
        <3> QED
            BY <2>0, <3>3, <3>4 DEF Place
    <2> QED
        BY <2>1, <2>2
<1>11. \A i \in 1..Len(Stimuli') : Skip(Len(Stimuli) + 1, i) = i
    BY <1>3, <1>9 DEF Skip
<1>12. Thinned(Stimuli', Stimuli, Len(Stimuli) + 1)
    BY <1>3, <1>9, <1>10, <1>11 DEF Thinned
<1> QED
    BY <1>3, <1>9, <1>12

\* Every step but a line read drops one stimulus at most, with all behind it
\* perhaps, and keeps the order of the others.
LEMMA StepThins ==
    ASSUME Types, Results, Types', Results', [Next]_vars
    PROVE  \/ \E d \in Nat : Thinned(Stimuli', Stimuli, d)
           \/ \E k \in 1..Len(Rest) :
                 /\ ReadLine(k) /\ Strip(SubSeq(Rest, 1, k)) # <<>>
<1>1. CASE UNCHANGED <<published, buffer, got, todo>>
    BY <1>1, KeptThins
<1>2. CASE StartPoll \/ SkipDisabled \/ Missing
    <2>1. got = <<>>
        BY <1>2 DEF StartPoll, SkipDisabled, Missing, Results
    <2> QED
        BY <1>2, <2>1, KeptThins DEF StartPoll, SkipDisabled, Missing, sink
<1>3. CASE TakeSize \/ OpenFile
    BY <1>1, <1>3 DEF TakeSize, OpenFile, sink
<1>4. ASSUME NEW k \in 1..Len(Rest), ReadLine(k), Strip(SubSeq(Rest, 1, k)) = <<>>
      PROVE  UNCHANGED <<published, buffer, got, todo>>
    BY <1>4 DEF ReadLine, sink
<1>5. CASE CloseFile
    <2>1. UNCHANGED <<published, buffer, got>> /\ (got = <<>> \/ todo' = todo)
        BY <1>5 DEF CloseFile, sink
    <2> QED
        BY <2>1, KeptThins
<1>6. CASE \E s \in Sources : Feed(s) \/ Disable(s)
    BY <1>1, <1>6 DEF Feed, Rotate, Write, Disable, sink
<1>7. CASE UNCHANGED vars
    BY <1>1, <1>7 DEF vars, sink
<1> QED
    BY <1>1, <1>2, <1>3, <1>4, <1>5, <1>6, <1>7, HandleThins, PublishThins DEF Next, Poll

\* What is left of stimuli in order is in order, and no later than it was.
LEMMA ThinnedInOrder ==
    ASSUME Types, Results, Types', Results', InOrderOnce, NEW d \in Nat, Thinned(Stimuli', Stimuli, d)
    PROVE  InOrderOnce'
<1>1. Len(Stimuli') \in Nat /\ Len(Stimuli) \in Nat
    BY StimuliAre, StimuliAreAfter, LenProperties DEF StimuliParts
<1>2. ASSUME NEW i \in 1..Len(Stimuli'), NEW j \in 1..Len(Stimuli'), i < j
      PROVE  InOrder(Stimuli'[i], Stimuli'[j])
    <2>1. /\ Skip(d, i) \in 1..Len(Stimuli) /\ Stimuli'[i] = Stimuli[Skip(d, i)]
          /\ Skip(d, j) \in 1..Len(Stimuli) /\ Stimuli'[j] = Stimuli[Skip(d, j)]
        BY <1>2 DEF Thinned
    <2>2. Skip(d, i) < Skip(d, j)
        BY <1>1, <1>2 DEF Skip
    <2>3. InOrder(Stimuli[Skip(d, i)], Stimuli[Skip(d, j)])
        BY <2>1, <2>2 DEF InOrderOnce
    <2> QED
        BY <2>1, <2>3
<1> QED
    BY <1>2 DEF InOrderOnce, InOrder, Parsed

\* What is left is still before all that may be read.
LEMMA ThinnedFresh ==
    ASSUME Types, Results, Types', Results', Fresh, [Next]_vars, NEW d \in Nat, Thinned(Stimuli', Stimuli, d)
    PROVE  Fresh'
<1>1. Narrowing /\ \A s \in Sources, n \in Nat : Begun(s, n) => BegunAfter(s, n)
    BY StepNarrows
<1>2. Stimuli \in Seq(Sources \X Text)
    BY StimuliAre DEF StimuliParts
<1>3. \A e \in Sources \X Text : Precedes(e) => Precedes(e)'
    BY <1>1, StillPrecedes
<1> DEFINE after == Stimuli'
<1>4. ASSUME NEW e, NEW i \in 1..Len(after), e = after[i] PROVE Precedes(e)'
    <2>1. Skip(d, i) \in 1..Len(Stimuli) /\ e = Stimuli[Skip(d, i)]
        BY <1>4 DEF Thinned
    <2>2. e \in Sources \X Text /\ Precedes(e)
        BY <1>2, <2>1, ElementOfSeq DEF Fresh
    <2> QED
        BY <1>3, <2>2
<1> QED
    BY <1>4 DEF Fresh

\* A line read comes after all there is, and before all that may be read.
LEMMA ReadAdds ==
    ASSUME Types, Results, Types', Results',
           NEW k \in 1..Len(Rest), ReadLine(k), Strip(SubSeq(Rest, 1, k)) # <<>>
    PROVE  LET text == Strip(SubSeq(Rest, 1, k)) IN
           /\ Len(Stimuli') = Len(Stimuli) + 1
           /\ \A i \in 1..Len(Stimuli) : Stimuli'[i] = Stimuli[i]
           /\ Stimuli'[Len(Stimuli) + 1] = <<Head(todo), text>>
<1> DEFINE text == Strip(SubSeq(Rest, 1, k))
<1>1. /\ Len(Stimuli) = Len(published) + Len(buffer) + Len(got)
      /\ Len(published) \in Nat /\ Len(buffer) \in Nat /\ Len(got) \in Nat
      /\ Len(Stimuli') = Len(published') + Len(buffer') + Len(got')
      /\ \A i \in 1..Len(Stimuli) : Stimuli[i] = Place(i)
      /\ \A i \in 1..Len(Stimuli') : Stimuli'[i] = Place(i)'
    BY StimuliAre, StimuliAreAfter DEF StimuliParts
<1>2. UNCHANGED <<published, buffer, todo>> /\ got' = Append(got, text) /\ text \in Text
    BY LineOf DEF ReadLine, sink
<1> HIDE DEF text
<1>3. got \in Seq(Text)
    BY TypesParts DEF ReaderTypes
<1>4. Len(got') = Len(got) + 1 /\ got'[Len(got) + 1] = text /\ \A i \in 1..Len(got) : got'[i] = got[i]
    BY <1>2, <1>3, AppendProperties
<1>5. Len(Stimuli') = Len(Stimuli) + 1
    BY <1>1, <1>2, <1>4
<1>6. ASSUME NEW i \in 1..Len(Stimuli) PROVE Stimuli'[i] = Stimuli[i]
    <2>1. i \in Nat /\ i \in 1..Len(Stimuli')
        BY <1>1, <1>5
    <2>2. CASE i <= Len(published) + Len(buffer)
        BY <1>1, <1>2, <2>1, <2>2 DEF Place
    <2>3. CASE ~(i <= Len(published) + Len(buffer))
        <3>1. i - Len(published) - Len(buffer) \in 1..Len(got) /\ ~(i <= Len(published))
            BY <1>1, <2>1, <2>3
        <3>2. Place(i)' = <<Head(todo), got'[i - Len(published) - Len(buffer)]>>
            BY <1>2, <2>3, <3>1 DEF Place
        <3>3. Place(i) = <<Head(todo), got[i - Len(published) - Len(buffer)]>>
            BY <2>3, <3>1 DEF Place
        <3> QED
            BY <1>1, <1>4, <2>1, <3>1, <3>2, <3>3
    <2> QED
        BY <2>2, <2>3
<1>7. Stimuli'[Len(Stimuli) + 1] = <<Head(todo), text>>
    <2>0. PICK last : last = Len(Stimuli) + 1
        OBVIOUS
    <2>1. last \in 1..Len(Stimuli') /\ ~(last <= Len(published)) /\ ~(last <= Len(published) + Len(buffer))
          /\ last - Len(published) - Len(buffer) = Len(got) + 1
        BY <1>1, <1>5, <2>0
    <2>2. Place(last)' = <<Head(todo), got'[last - Len(published) - Len(buffer)]>>
        BY <1>2, <2>1 DEF Place
    <2>3. Stimuli'[last] = <<Head(todo), text>>
        BY <1>1, <1>4, <2>1, <2>2
    <2> QED
        BY <2>0, <2>3
<1> QED
    BY <1>5, <1>6, <1>7 DEF text

\* The first byte of a line read was unread.
LEMMA FirstByteRead ==
    ASSUME Types, NEW k \in 1..Len(Rest), ReadLine(k), Strip(SubSeq(Rest, 1, k)) # <<>>
    PROVE  LET s == Head(todo)
               text == Strip(SubSeq(Rest, 1, k))
           IN  /\ s \in Sources /\ text \in Text /\ handle \in 1..Len(files[s])
               /\ cursor + 1 \in 1..Len(files[s][handle])
               /\ text[1] = files[s][handle][cursor + 1] /\ text[1] \in Byte
               /\ Unread(s, handle, cursor + 1)
               /\ Reading(s)
<1> DEFINE s == Head(todo)
           text == Strip(SubSeq(Rest, 1, k))
<1>1. /\ stage = "lines" /\ s \in Sources /\ handle \in 1..Len(files[s])
      /\ k \in Nat \ {0} /\ cursor + k <= Len(files[s][handle])
      /\ text \in Text
      /\ \A i \in 1..Len(text) : text[i] = files[s][handle][cursor + i]
      /\ files[s][handle] \in Seq(Byte)
    BY LineOf
<1>2. text # <<>>
    OBVIOUS
<1> HIDE DEF text
<1>3. Len(text) \in Nat /\ Len(text) > 0
    BY <1>1, <1>2, EmptySeq DEF Text
<1>4. cursor \in Nat /\ Len(files[s][handle]) \in Nat
    BY <1>1, TypesParts, LenProperties DEF ReaderTypes
<1>5. cursor + 1 \in 1..Len(files[s][handle]) /\ text[1] = files[s][handle][cursor + 1]
    BY SMTT(30), <1>1, <1>3, <1>4
<1>6. text[1] \in Byte
    BY <1>1, <1>5, ElementOfSeq
<1>7. Reading(s) /\ Unread(s, handle, cursor + 1)
    BY <1>1, <1>4 DEF Reading, Unread, Beyond
<1> QED
    BY <1>1, <1>5, <1>6, <1>7 DEF text

\* The line read is later than every stimulus, which was fresh, and earlier
\* than what is beyond it.
LEMMA ReadInOrder ==
    ASSUME Types, Results, Types', Results', WrittenInOrder, Fresh, InOrderOnce, [Next]_vars,
           NEW k \in 1..Len(Rest), ReadLine(k), Strip(SubSeq(Rest, 1, k)) # <<>>
    PROVE  InOrderOnce' /\ Fresh'
<1>0. PICK s : s = Head(todo)
    OBVIOUS
<1> DEFINE text == Strip(SubSeq(Rest, 1, k))
           last == Len(Stimuli) + 1
           after == Stimuli'
<1>1. /\ Len(after) = last /\ after[last] = <<s, text>>
      /\ \A i \in 1..Len(Stimuli) : after[i] = Stimuli[i]
    BY <1>0, ReadAdds
<1>2. /\ s \in Sources /\ text \in Text /\ handle \in 1..Len(files[s])
      /\ cursor + 1 \in 1..Len(files[s][handle])
      /\ text[1] = files[s][handle][cursor + 1] /\ text[1] \in Byte
      /\ Unread(s, handle, cursor + 1) /\ Reading(s)
    BY <1>0, FirstByteRead
<1>3. Stimuli \in Seq(Sources \X Text) /\ Len(Stimuli) \in Nat
    BY StimuliAre, LenProperties DEF StimuliParts
<1>4. /\ UNCHANGED <<files, live, handle, stage, todo, next, sent>>
      /\ cursor' = cursor + k /\ k \in Nat \ {0} /\ cursor + k <= Len(files[s][handle])
    BY <1>0, LineOf DEF ReadLine, feeder
<1>5. FeederTypes /\ cursor \in Nat
    BY TypesParts DEF ReaderTypes
<1> HIDE DEF text, after, last
<1>6. \A i \in 1..last : i \in 1..Len(Stimuli) \/ i = last
    BY <1>3 DEF last
<1>7. ASSUME NEW i \in 1..Len(after), NEW j \in 1..Len(after), i < j
      PROVE  InOrder(after[i], after[j])
    <2>1. CASE j \in 1..Len(Stimuli)
        <3>1. i \in 1..Len(Stimuli)
            BY <1>1, <1>3, <1>7, <2>1
        <3> QED
            BY <1>1, <1>7, <2>1, <3>1 DEF InOrderOnce
    <2>2. CASE j = last
        <3>1. i \in 1..Len(Stimuli) /\ after[i] = Stimuli[i]
            BY <1>1, <1>3, <1>7, <2>2 DEF last
        <3>2. Precedes(Stimuli[i])
            BY <3>1 DEF Fresh
        <3>3. ASSUME Stimuli[i][1] = s, Parsed(Stimuli[i][2]), Parsed(text)
              PROVE  Stimuli[i][2][1][1] < text[1][1]
            <4>1. files[s][handle][cursor + 1][2] = 1
                BY <1>2, <3>3 DEF Parsed
            <4> QED
                BY <1>2, <3>2, <3>3, <4>1 DEF Precedes
        <3>4. after[j][1] = s /\ after[j][2] = text
            BY <1>1, <2>2
        <3> QED
            BY <3>1, <3>3, <3>4 DEF InOrder
    <2> QED
        BY <1>1, <1>6, <1>7, <2>1, <2>2
<1>8. Narrowing /\ \A r \in Sources, n \in Nat : Begun(r, n) => BegunAfter(r, n)
    BY StepNarrows
<1>9. ASSUME NEW e, e = <<s, text>> PROVE Precedes(e)'
    <2>0. e[1] = s /\ e[2] = text
        BY <1>9
    <2>1. CASE Parsed(text)
        <3>1. files[s][handle][cursor + 1][2] = 1
            BY <1>2, <2>1 DEF Parsed
        <3>2. /\ Begun(s, text[1][1])
              /\ \A l \in 1..Len(files[s]) : \A q \in 1..Len(files[s][l]) :
                    Later(handle, cursor + 1, l, q) /\ files[s][l][q][2] = 1 =>
                        text[1][1] < files[s][l][q][1]
            BY <1>2, <3>1 DEF WrittenInOrder
        <3>3. ASSUME NEW l \in 1..Len(files[s]), NEW q \in 1..Len(files[s][l]), Unread(s, l, q)'
              PROVE  Later(handle, cursor + 1, l, q)
            <4>1. l > handle \/ (l = handle /\ Beyond(files[s][l], cursor', q))
                BY <1>2, <1>4, <3>3 DEF Unread, Reading
            <4>2. l \in Nat /\ q \in Nat /\ Len(files[s][l]) \in Nat /\ handle \in Nat
                BY <1>2, <1>5, ByteOf
            <4>3. l = handle => q > cursor + k
                BY <1>4, <1>5, <4>1, <4>2 DEF Beyond
            <4> QED
                BY <1>4, <1>5, <4>1, <4>2, <4>3 DEF Later
        <3>4. \A l \in 1..Len(files[s]) : \A q \in 1..Len(files[s][l]) :
                 Unread(s, l, q)' /\ files[s][l][q][2] = 1 => text[1][1] < files[s][l][q][1]
            BY <3>2, <3>3
        <3>5. Begun(s, text[1][1]) /\ next' = next /\ sent' = sent /\ files' = files
            BY <1>4, <3>2
        <3>6. BegunAfter(e[1], e[2][1][1])
            BY <2>0, <3>5 DEF Begun, BegunAfter
        <3>7. \A l \in 1..Len(files'[e[1]]) : \A q \in 1..Len(files'[e[1]][l]) :
                 Unread(e[1], l, q)' /\ files'[e[1]][l][q][2] = 1 => e[2][1][1] < files'[e[1]][l][q][1]
            BY <2>0, <3>4, <3>5
        <3> QED
            BY <1>2, <2>0, <3>6, <3>7 DEF Precedes, Begun, BegunAfter
    <2>2. CASE ~Parsed(text)
        BY <1>2, <2>0, <2>2 DEF Precedes
    <2> QED
        BY <2>1, <2>2
<1>10. ASSUME NEW i \in 1..Len(after), NEW e, e = after[i] PROVE Precedes(e)'
    <2>1. CASE i \in 1..Len(Stimuli)
        <3>1. e = Stimuli[i] /\ e \in Sources \X Text /\ Precedes(e)
            BY <1>1, <1>3, <1>10, <2>1, ElementOfSeq DEF Fresh
        <3> QED
            BY <1>8, <3>1, StillPrecedes
    <2>2. CASE i = last
        BY <1>1, <1>9, <1>10, <2>2
    <2> QED
        BY <1>1, <1>6, <1>10, <2>1, <2>2
<1>11. InOrderOnce'
    BY <1>7 DEF InOrderOnce, InOrder, Parsed, after
<1>12. Fresh'
    BY <1>10 DEF Fresh, after
<1> QED
    BY <1>11, <1>12

-----------------------------------------------------------------------------
(* Nothing is skipped. *)

\* What was read up to a position stays so as files and texts grow.
LEMMA Widens ==
    ASSUME NEW f, NEW g, NEW c \in Nat, NEW T, NEW U,
           Len(f) \in Nat, Len(g) \in Nat, Len(f) <= Len(g),
           \A p \in 1..Len(f) : g[p] = f[p], T \subseteq U, ReadUpTo(f, c, T)
    PROVE  ReadUpTo(g, c, U)
<1>1. c <= Len(f) /\ \A p \in 1..c : IsNewline(f[p]) \/ \E t \in T : \E i \in 1..Len(t) : t[i] = f[p]
    BY DEF ReadUpTo
<1>2. \A p \in 1..c : p \in 1..Len(f)
    BY <1>1
<1>3. \A p \in 1..c : g[p] = f[p]
    BY <1>2
<1>4. \A p \in 1..c : IsNewline(g[p]) \/ \E t \in U : \E i \in 1..Len(t) : t[i] = g[p]
    BY <1>1, <1>3
<1> QED
    BY <1>1, <1>4 DEF ReadUpTo

\* What first files hold stays in them.
FirstFilesKept ==
    \A s \in Sources : Len(files[s]) > 0 =>
        /\ Len(files[s][1]) \in Nat /\ Len(files'[s][1]) \in Nat
        /\ Len(files[s][1]) <= Len(files'[s][1])
        /\ \A p \in 1..Len(files[s][1]) : files'[s][1][p] = files[s][1][p]

\* No step changes or removes a byte of a first file.
LEMMA FirstFiles ==
    ASSUME Types, [Next]_vars
    PROVE  FirstFilesKept
<1>1. FeederTypes
    BY TypesParts
<1>2. ASSUME NEW s \in Sources, Len(files[s]) > 0
      PROVE  1 \in 1..Len(files[s]) /\ Len(files[s][1]) \in Nat
    <2>1. files[s] \in Seq(Seq(Byte)) /\ Len(files[s]) \in Nat
        BY <1>1, LenProperties DEF FeederTypes
    <2>2. 1 \in 1..Len(files[s])
        BY <1>2, <2>1
    <2>3. files[s][1] \in Seq(Byte)
        BY <2>1, <2>2, ElementOfSeq
    <2> QED
        BY <2>2, <2>3, LenProperties
<1>3. CASE UNCHANGED files
    BY <1>2, <1>3 DEF FirstFilesKept
<1>4. ASSUME NEW s \in Sources, NEW n \in Envelopes, n = next[s], NEW k \in 1..Width[n], Write(s, k)
      PROVE  FirstFilesKept
    <2> SUFFICES ASSUME NEW r \in Sources, Len(files[r]) > 0
                 PROVE  /\ Len(files[r][1]) \in Nat /\ Len(files'[r][1]) \in Nat
                        /\ Len(files[r][1]) <= Len(files'[r][1])
                        /\ \A p \in 1..Len(files[r][1]) : files'[r][1][p] = files[r][1][p]
        BY DEF FirstFilesKept
    <2>1. /\ files' \in [Sources -> Seq(Seq(Byte))]
          /\ r # s => files'[r] = files[r]
          /\ Len(files'[s]) = IF live[s] = 0 THEN Len(files[s]) + 1 ELSE Len(files[s])
          /\ \A l \in 1..Len(files[s]) :
                /\ Len(files'[s][l]) >= Len(files[s][l])
                /\ \A p \in 1..Len(files[s][l]) : files'[s][l][p] = files[s][l][p]
        BY <1>4, Writing
    <2>2. 1 \in 1..Len(files[r]) /\ Len(files[r][1]) \in Nat
        BY <1>2
    <2>3. CASE r = s
        <3>1. Len(files[s]) \in Nat /\ files'[s] \in Seq(Seq(Byte))
            BY <1>1, <2>1, LenProperties DEF FeederTypes
        <3>2. 1 \in 1..Len(files'[s])
            BY <2>1, <2>2, <2>3, <3>1
        <3>3. Len(files'[s][1]) \in Nat
            BY <3>1, <3>2, ElementOfSeq, LenProperties
        <3>4. /\ Len(files'[s][1]) >= Len(files[s][1])
              /\ \A p \in 1..Len(files[s][1]) : files'[s][1][p] = files[s][1][p]
            BY <2>1, <2>2, <2>3
        <3> QED
            BY <2>2, <2>3, <3>3, <3>4
    <2>4. CASE r # s
        BY <2>1, <2>2, <2>4
    <2> QED
        BY <2>3, <2>4
<1>5. ASSUME ~\E s \in Sources : Feed(s) PROVE UNCHANGED files
    <2>1. CASE Poll
        BY <2>1 DEF Poll, StartPoll, SkipDisabled, Missing, TakeSize, OpenFile, ReadLine, CloseFile,
                    HandleEvent, Publish, feeder
    <2>2. CASE \E s \in Sources : Disable(s)
        BY <2>2 DEF Disable, feeder
    <2>3. CASE UNCHANGED vars
        BY <2>3 DEF vars, feeder
    <2> QED
        BY <1>5, <2>1, <2>2, <2>3 DEF Next
<1>6. ASSUME NEW s \in Sources, Feed(s) PROVE FirstFilesKept
    BY <1>3, <1>4, <1>6 DEF Feed, Rotate
<1> QED
    BY <1>3, <1>5, <1>6

\* Steps that leave positions alone, or set one to the beginning, and take no
\* text away.
LEMMA GapStays ==
    ASSUME Types, [Next]_vars, GapFree, UNCHANGED from, total' < MaxTotal => total < MaxTotal,
           \A s \in Sources : offset'[s] \in {0, offset[s]} /\ GivenTexts(s) \subseteq GivenTexts(s)',
           stage' = "lines" => UNCHANGED <<stage, todo, handle, cursor, handled, got>>
    PROVE  GapFree'
<1> SUFFICES ASSUME total' < MaxTotal, total < MaxTotal
             PROVE  /\ \A s \in Sources :
                          /\ from'[s] = 0 => offset'[s] = 0
                          /\ from'[s] = 1 => ReadUpTo(files'[s][1], offset'[s], GivenTexts(s)')
                    /\ stage' = "lines" /\ handle' = 1 =>
                          ReadUpTo(files'[Head(todo')][1], cursor', handled'[Head(todo')] \cup GotTexts')
    BY DEF GapFree
<1>1. FirstFilesKept /\ FeederTypes /\ ReaderTypes
    BY FirstFiles, TypesParts
<1>2. ASSUME NEW s \in Sources, from[s] = 1
      PROVE  ReadUpTo(files'[s][1], offset'[s], GivenTexts(s)')
    <2>1. Len(files[s]) > 0 /\ offset[s] \in Nat
        <3>1. from[s] \in 0..Len(files[s]) /\ files[s] \in Seq(Seq(Byte)) /\ offset[s] \in Nat
            BY <1>1 DEF FeederTypes, ReaderTypes
        <3>2. Len(files[s]) \in Nat
            BY <3>1, LenProperties
        <3> QED
            BY <1>2, <3>1, <3>2
    <2>2. /\ Len(files[s][1]) \in Nat /\ Len(files'[s][1]) \in Nat
          /\ Len(files[s][1]) <= Len(files'[s][1])
          /\ \A p \in 1..Len(files[s][1]) : files'[s][1][p] = files[s][1][p]
        BY <1>1, <2>1 DEF FirstFilesKept
    <2>3. CASE offset'[s] = 0
        BY <2>2, <2>3 DEF ReadUpTo
    <2>4. CASE offset'[s] = offset[s]
        <3>1. ReadUpTo(files[s][1], offset[s], GivenTexts(s))
            BY <1>2 DEF GapFree
        <3>2. ReadUpTo(files'[s][1], offset[s], GivenTexts(s)')
            BY <2>1, <2>2, <3>1, Widens
        <3> QED
            BY <2>4, <3>2
    <2> QED
        BY <2>3, <2>4
<1>3. ASSUME stage' = "lines", handle' = 1
      PROVE  ReadUpTo(files'[Head(todo')][1], cursor', handled'[Head(todo')] \cup GotTexts')
    <2>1. UNCHANGED <<stage, todo, handle, cursor, handled, got>>
        BY <1>3
    <2>2. stage = "lines" /\ handle = 1 /\ GotTexts' = GotTexts
        BY <1>3, <2>1 DEF GotTexts
    <2>3. PICK s : s = Head(todo)
        OBVIOUS
    <2>4. s \in Sources /\ Len(files[s]) > 0 /\ cursor \in Nat
        <3>1. todo \in Seq(Sources) /\ todo # <<>> /\ cursor \in Nat /\ 1 \in 1..Len(files[s])
            BY <1>1, <2>2, <2>3 DEF ReaderTypes
        <3>2. s \in Sources
            BY <2>3, <3>1, HeadTailProperties
        <3>3. Len(files[s]) \in Nat
            BY <1>1, <3>2, LenProperties DEF FeederTypes
        <3> QED
            BY <3>1, <3>2, <3>3
    <2>5. /\ Len(files[s][1]) \in Nat /\ Len(files'[s][1]) \in Nat
          /\ Len(files[s][1]) <= Len(files'[s][1])
          /\ \A p \in 1..Len(files[s][1]) : files'[s][1][p] = files[s][1][p]
        BY <1>1, <2>4 DEF FirstFilesKept
    <2>6. ReadUpTo(files[s][1], cursor, handled[s] \cup GotTexts)
        BY <2>2, <2>3 DEF GapFree
    <2>7. ReadUpTo(files'[s][1], cursor, handled[s] \cup GotTexts)
        BY <2>4, <2>5, <2>6, Widens
    <2> QED
        BY <2>1, <2>2, <2>3, <2>7
<1>4. ASSUME NEW s \in Sources, from'[s] = 0 PROVE offset'[s] = 0
    BY <1>4 DEF GapFree
<1> QED
    BY <1>2, <1>3, <1>4

\* The cursor of a first file starts where its offset is, or at the beginning.
LEMMA OpenGapFree ==
    ASSUME Types, Results, GapFree, OpenFile
    PROVE  GapFree'
<1>0. PICK s : s = Head(todo)
    OBVIOUS
<1>1. /\ UNCHANGED <<files, offset, from, handled, total, todo, got>> /\ stage = "open" /\ stage' = "lines"
      /\ live[s] # 0 /\ handle' = live[s] /\ cursor' = offset[s]
    BY <1>0 DEF OpenFile, feeder, sink
<1>2. s \in Sources
    <2>1. todo \in Seq(Sources) /\ todo # <<>>
        BY <1>1, TypesParts DEF ReaderTypes
    <2> QED
        BY <1>0, <2>1, HeadTailProperties
<1> SUFFICES ASSUME total < MaxTotal
             PROVE  /\ \A r \in Sources :
                          /\ from[r] = 0 => offset[r] = 0
                          /\ from[r] = 1 => ReadUpTo(files[r][1], offset[r], GivenTexts(r)')
                    /\ handle' = 1 => ReadUpTo(files[s][1], offset[s], handled[s] \cup GotTexts')
    BY <1>0, <1>1 DEF GapFree
<1>3. /\ \A r \in Sources : GivenTexts(r) = handled[r] /\ GivenTexts(r)' = handled[r]
    BY <1>1 DEF GivenTexts
<1>4. ASSUME handle' = 1 PROVE ReadUpTo(files[s][1], offset[s], handled[s] \cup GotTexts')
    <2>1. /\ live[s] = 1 /\ live[s] \in {0, Len(files[s])} /\ from[s] \in 0..Len(files[s])
          /\ files[s] \in Seq(Seq(Byte))
        BY <1>1, <1>2, <1>4, TypesParts DEF FeederTypes
    <2>2. from[s] \in {0, 1} /\ 1 \in 1..Len(files[s])
        <3>1. Len(files[s]) = 1
            BY <2>1
        <3>2. from[s] \in 0..1
            BY <2>1, <3>1
        <3> QED
            BY <3>1, <3>2
    <2>3. CASE from[s] = 0
        <3>1. offset[s] = 0
            BY <1>2, <2>3 DEF GapFree
        <3>2. files[s][1] \in Seq(Byte)
            BY <2>1, <2>2, ElementOfSeq
        <3>3. Len(files[s][1]) \in Nat
            BY <3>2, LenProperties
        <3> QED
            BY <3>1, <3>3 DEF ReadUpTo
    <2>4. CASE from[s] = 1
        <3>1. ReadUpTo(files[s][1], offset[s], handled[s])
            BY <1>2, <1>3, <2>4 DEF GapFree
        <3> QED
            BY <3>1 DEF ReadUpTo
    <2> QED
        BY <2>2, <2>3, <2>4
<1>5. \A r \in Sources :
         /\ from[r] = 0 => offset[r] = 0
         /\ from[r] = 1 => ReadUpTo(files[r][1], offset[r], GivenTexts(r)')
    BY <1>3 DEF GapFree
<1> QED
    BY <1>4, <1>5

\* The bytes the cursor passes are a newline, or go to the results.
LEMMA ReadGapFree ==
    ASSUME Types, Results, GapFree, NEW k \in 1..Len(Rest), ReadLine(k)
    PROVE  GapFree'
<1>0. PICK s : s = Head(todo)
    OBVIOUS
<1> DEFINE text == Strip(SubSeq(Rest, 1, k))
<1>1. /\ UNCHANGED <<files, offset, from, handled, total, todo, stage, handle>>
      /\ stage = "lines" /\ s \in Sources
      /\ cursor' = cursor + k /\ k \in Nat \ {0} /\ cursor + k <= Len(files[s][handle])
      /\ text \in Text
      /\ \A i \in 1..Len(text) : text[i] = files[s][handle][cursor + i]
      /\ \A i \in 1..k : IsNewline(files[s][handle][cursor + i]) \/ i <= Len(text)
      /\ IF text = <<>> THEN got' = got ELSE got' = Append(got, text)
    BY <1>0, LineOf DEF ReadLine, feeder, sink
<1> HIDE DEF text
<1>2. got \in Seq(Text) /\ cursor \in Nat
    BY TypesParts DEF ReaderTypes
<1>3. GotTexts \subseteq GotTexts' /\ (text # <<>> => text \in GotTexts')
    <2>1. CASE text = <<>>
        BY <1>1, <2>1 DEF GotTexts
    <2>2. CASE text # <<>>
        <3>1. /\ Len(got') = Len(got) + 1 /\ got'[Len(got) + 1] = text
              /\ \A i \in 1..Len(got) : got'[i] = got[i]
            BY <1>1, <1>2, <2>2, AppendProperties
        <3>2. Len(got) \in Nat
            BY <1>2, LenProperties
        <3>3. Len(got) + 1 \in 1..Len(got') /\ \A i \in 1..Len(got) : i \in 1..Len(got')
            BY <3>1, <3>2
        <3> QED
            BY <3>1, <3>3 DEF GotTexts
    <2> QED
        BY <2>1, <2>2
<1> SUFFICES ASSUME total < MaxTotal
             PROVE  /\ \A r \in Sources :
                          /\ from[r] = 0 => offset[r] = 0
                          /\ from[r] = 1 => ReadUpTo(files[r][1], offset[r], GivenTexts(r)')
                    /\ handle = 1 => ReadUpTo(files[s][1], cursor', handled[s] \cup GotTexts')
    BY <1>0, <1>1 DEF GapFree
<1>4. ASSUME handle = 1 PROVE ReadUpTo(files[s][1], cursor', handled[s] \cup GotTexts')
    <2>1. ReadUpTo(files[s][1], cursor, handled[s] \cup GotTexts)
        BY <1>0, <1>1, <1>4 DEF GapFree
    <2>2. ASSUME NEW p \in 1..(cursor + k), ~IsNewline(files[s][1][p])
          PROVE  \E t \in handled[s] \cup GotTexts' : \E i \in 1..Len(t) : t[i] = files[s][1][p]
        <3>1. CASE p <= cursor
            <4>1. p \in 1..cursor
                BY <1>2, <3>1
            <4>2. \E t \in handled[s] \cup GotTexts : \E i \in 1..Len(t) : t[i] = files[s][1][p]
                BY <2>1, <2>2, <4>1 DEF ReadUpTo
            <4> QED
                BY <1>3, <4>2
        <3>2. CASE ~(p <= cursor)
            <4>1. p - cursor \in 1..k /\ cursor + (p - cursor) = p
                BY <1>1, <1>2, <3>2
            <4>2. p - cursor <= Len(text)
                BY <1>1, <1>4, <2>2, <4>1
            <4>3. Len(text) \in Nat
                BY <1>1, LenProperties DEF Text
            <4>4. p - cursor \in 1..Len(text) /\ text[p - cursor] = files[s][1][p]
                BY <1>1, <1>4, <4>1, <4>2, <4>3
            <4>5. text # <<>>
                BY <4>4
            <4> QED
                BY <1>3, <4>4, <4>5
        <3> QED
            BY <1>2, <3>1, <3>2
    <2> QED
        BY <1>1, <1>4, <2>2 DEF ReadUpTo
<1>5. \A r \in Sources :
         /\ from[r] = 0 => offset[r] = 0
         /\ from[r] = 1 => ReadUpTo(files[r][1], offset[r], GivenTexts(r)')
    <2>1. \A r \in Sources : GivenTexts(r)' = GivenTexts(r)
        BY <1>1 DEF GivenTexts
    <2> QED
        BY <2>1 DEF GapFree
<1> QED
    BY <1>4, <1>5

\* The offset is where the cursor was, and the results are to be handled.
LEMMA CloseGapFree ==
    ASSUME Types, Results, GapFree, CloseFile
    PROVE  GapFree'
<1>0. PICK s : s = Head(todo)
    OBVIOUS
<1>1. /\ UNCHANGED <<files, handled, total, got>> /\ stage = "lines"
      /\ offset' = [offset EXCEPT ![s] = cursor] /\ from' = [from EXCEPT ![s] = handle]
      /\ IF got = <<>> THEN stage' \in {"size", "publish"} ELSE stage' = "handle" /\ todo' = todo
    BY <1>0 DEF CloseFile, feeder, sink, NextSource
<1>2. /\ offset \in [Sources -> Nat] /\ from \in [Sources -> Nat] /\ s \in Sources
      /\ handle \in Nat /\ handle # 0
    <2>1. /\ todo \in Seq(Sources) /\ todo # <<>> /\ handle \in 1..Len(files[s])
          /\ handle \in Nat /\ offset \in [Sources -> Nat] /\ from \in [Sources -> Nat]
        BY <1>0, <1>1, TypesParts DEF FeederTypes, ReaderTypes
    <2>2. s \in Sources
        BY <1>0, <2>1, HeadTailProperties
    <2>3. Len(files[s]) \in Nat
        BY <2>2, TypesParts, LenProperties DEF FeederTypes
    <2> QED
        BY <2>1, <2>2, <2>3
<1>3. GotTexts' = GotTexts /\ (got = <<>> => GotTexts = {})
    BY <1>1 DEF GotTexts
<1>4. ASSUME NEW r \in Sources
      PROVE  GivenTexts(r) = handled[r]
             /\ GivenTexts(r)' = IF r = s THEN handled[s] \cup GotTexts ELSE handled[r]
    <2>1. GivenTexts(r) = handled[r]
        BY <1>1 DEF GivenTexts
    <2>2. CASE got = <<>>
        BY <1>1, <1>3, <2>1, <2>2 DEF GivenTexts
    <2>3. CASE got # <<>>
        BY <1>0, <1>1, <1>3, <2>1, <2>3 DEF GivenTexts
    <2> QED
        BY <2>1, <2>2, <2>3
<1> SUFFICES ASSUME total < MaxTotal, NEW r \in Sources
             PROVE  /\ from'[r] = 0 => offset'[r] = 0
                    /\ from'[r] = 1 => ReadUpTo(files[r][1], offset'[r], GivenTexts(r)')
    <2>1. stage' # "lines" /\ total' = total /\ files' = files
        BY <1>1
    <2> QED
        BY <2>1 DEF GapFree
<1>5. CASE r = s
    <2>1. from'[s] = handle /\ offset'[s] = cursor
        BY <1>1, <1>2
    <2>2. handle = 1 => ReadUpTo(files[s][1], cursor, handled[s] \cup GotTexts)
        BY <1>0, <1>1 DEF GapFree
    <2> QED
        BY <1>2, <1>4, <1>5, <2>1, <2>2
<1>6. CASE r # s
    <2>1. from'[r] = from[r] /\ offset'[r] = offset[r]
        BY <1>1, <1>2, <1>6
    <2>2. GivenTexts(r)' = GivenTexts(r)
        BY <1>4, <1>6
    <2> QED
        BY <2>1, <2>2 DEF GapFree
<1> QED
    BY <1>5, <1>6

\* The text of an event handled is given; at the total nothing is promised.
LEMMA HandleGapFree ==
    ASSUME Types, Results, GapFree, HandleEvent
    PROVE  GapFree'
<1>0. PICK s : s = Head(todo)
    OBVIOUS
<1>1. /\ UNCHANGED <<feeder, handle, cursor, offset, from>> /\ stage = "handle" /\ total' = total + 1
      /\ handled' = [handled EXCEPT ![s] = @ \cup {Head(got)}]
      /\ got' = IF total + 1 >= MaxTotal THEN <<>> ELSE Tail(got)
      /\ IF got' = <<>> THEN stage' \in {"size", "publish"} ELSE stage' = stage /\ todo' = todo
    BY <1>0 DEF HandleEvent, adapter, NextSource
<1>2. /\ got \in Seq(Text) /\ got # <<>> /\ s \in Sources /\ total \in Nat /\ MaxTotal \in Nat
      /\ handled \in [Sources -> SUBSET Text]
    <2>1. /\ todo \in Seq(Sources) /\ todo # <<>> /\ got \in Seq(Text) /\ got # <<>> /\ total \in Nat
          /\ handled \in [Sources -> SUBSET Text]
        BY <1>1, TypesParts DEF ReaderTypes, SinkTypes, Results
    <2> QED
        BY <1>0, <2>1, HeadTailProperties, Constants
<1> SUFFICES ASSUME total + 1 < MaxTotal PROVE GapFree'
    BY <1>1 DEF GapFree
<1>3. got' = Tail(got) /\ total < MaxTotal
    BY <1>1, <1>2
<1>4. GotTexts \subseteq {Head(got)} \cup GotTexts'
    <2>1. Len(got) \in Nat /\ Len(got) > 0
        BY <1>2, EmptySeq, LenProperties
    <2>2. /\ Len(Tail(got)) = Len(got) - 1 /\ Head(got) = got[1]
          /\ \A i \in 1..Len(Tail(got)) : Tail(got)[i] = got[i + 1]
        BY <1>2, <2>1, TailOf
    <2>3. ASSUME NEW i \in 1..Len(got) PROVE got[i] \in {Head(got)} \cup GotTexts'
        <3>1. CASE i = 1
            BY <2>2, <3>1
        <3>2. CASE i # 1
            <4>1. i - 1 \in 1..Len(got') /\ got'[i - 1] = got[(i - 1) + 1] /\ (i - 1) + 1 = i
                BY <1>3, <2>1, <2>2, <3>2
            <4> QED
                BY <4>1 DEF GotTexts
        <3> QED
            BY <3>1, <3>2
    <2> QED
        BY <2>3 DEF GotTexts
<1>5. ASSUME NEW r \in Sources PROVE GivenTexts(r) \subseteq GivenTexts(r)'
    <2>1. CASE r = s
        <3>1. handled'[s] = handled[s] \cup {Head(got)} /\ GivenTexts(s) = handled[s] \cup GotTexts
            BY <1>0, <1>1, <1>2 DEF GivenTexts
        <3>2. CASE got' = <<>>
            <4>1. GotTexts' = {}
                BY <3>2 DEF GotTexts
            <4> QED
                BY <1>4, <2>1, <3>1, <4>1 DEF GivenTexts
        <3>3. CASE got' # <<>>
            <4>1. stage' = "handle" /\ Head(todo') = s
                BY <1>0, <1>1, <3>3
            <4>2. GivenTexts(s)' = handled'[s] \cup GotTexts'
                BY <4>1 DEF GivenTexts
            <4> QED
                BY <1>4, <2>1, <3>1, <4>2
        <3> QED
            BY <3>2, <3>3
    <2>2. CASE r # s
        <3>1. handled'[r] = handled[r] /\ GivenTexts(r) = handled[r]
            BY <1>0, <1>1, <1>2, <2>2 DEF GivenTexts
        <3> QED
            BY <3>1 DEF GivenTexts
    <2> QED
        BY <2>1, <2>2
<1>6. stage' # "lines"
    BY <1>1
<1>7. [Next]_vars
    BY DEF Next, Poll
<1> QED
    BY <1>1, <1>3, <1>5, <1>6, <1>7, GapStays

\* The other steps leave positions and texts, or start a file over.
LEMMA GapFreeStep == Types /\ Results /\ GapFree /\ [Next]_vars => GapFree'
<1> SUFFICES ASSUME Types, Results, GapFree, [Next]_vars PROVE GapFree'
    OBVIOUS
<1>1. ASSUME UNCHANGED <<offset, from, total, handled, got, handle, cursor>>,
             UNCHANGED <<stage, todo>> \/ (stage \notin {"lines", "handle"} /\ stage' # "lines")
      PROVE  GapFree'
    <2>1. \A s \in Sources : GivenTexts(s) \subseteq GivenTexts(s)'
        BY <1>1 DEF GivenTexts, GotTexts
    <2>2. stage' = "lines" => UNCHANGED <<stage, todo, handle, cursor, handled, got>>
        BY <1>1
    <2> QED
        BY <1>1, <2>1, <2>2, GapStays
<1>2. CASE StartPoll \/ SkipDisabled \/ Missing \/ Publish
    <2>1. /\ UNCHANGED <<offset, from, total, handled, got, handle, cursor>>
          /\ stage \notin {"lines", "handle"}
        BY <1>2 DEF StartPoll, SkipDisabled, Missing, Publish, adapter, sink
    <2>2. stage' # "lines"
        BY <1>2 DEF StartPoll, SkipDisabled, Missing, Publish, NextSource
    <2> QED
        BY <1>1, <2>1, <2>2
<1>3. CASE TakeSize
    <2>1. /\ UNCHANGED <<from, total, handled, got>> /\ stage = "size" /\ stage' = "open"
          /\ offset' = offset \/ offset' = [offset EXCEPT ![Head(todo)] = 0]
        BY <1>3 DEF TakeSize, sink
    <2>2. \A s \in Sources : offset'[s] \in {0, offset[s]}
        <3>1. offset \in [Sources -> Nat]
            BY TypesParts DEF ReaderTypes
        <3> QED
            BY <2>1, <3>1
    <2>3. \A s \in Sources : GivenTexts(s) \subseteq GivenTexts(s)'
        BY <2>1 DEF GivenTexts
    <2> QED
        BY <2>1, <2>2, <2>3, GapStays
<1>4. CASE \E s \in Sources : Feed(s) \/ Disable(s)
    <2>1. UNCHANGED <<offset, from, total, handled, got, handle, cursor, stage, todo>>
        BY <1>4 DEF Feed, Rotate, Write, Disable, adapter, sink
    <2> QED
        BY <1>1, <2>1
<1>5. CASE UNCHANGED vars
    <2>1. UNCHANGED <<offset, from, total, handled, got, handle, cursor, stage, todo>>
        BY <1>5 DEF vars, adapter, sink
    <2> QED
        BY <1>1, <2>1
<1> QED
    BY <1>2, <1>3, <1>4, <1>5, OpenGapFree, ReadGapFree, CloseGapFree, HandleGapFree DEF Next, Poll

-----------------------------------------------------------------------------
(* The invariant and what it shows. *)

IntakeInv == Types /\ Results /\ WrittenInOrder /\ Fresh /\ InOrderOnce /\ GapFree

\* The invariant holds at the beginning.
LEMMA IntakeInit == Init => IntakeInv
<1> SUFFICES ASSUME Init PROVE IntakeInv
    OBVIOUS
<1>1. MaxInFile \in Nat /\ MaxWrites \in Nat \ {0} /\ Capacity \in Nat /\ Window \in Nat /\ MaxPolls \in Nat
    BY Constants
<1>2. FeederTypes
    <2>1. /\ files = [s \in Sources |-> <<>>] /\ live = [s \in Sources |-> 0]
          /\ from = [s \in Sources |-> 0] /\ inFile = [s \in Sources |-> 0]
          /\ next = [s \in Sources |-> 1] /\ sent = [s \in Sources |-> 0]
        BY DEF Init
    <2>2. files \in [Sources -> Seq(Seq(Byte))]
        BY <2>1
    <2>3. \A s \in Sources : live[s] \in {0, Len(files[s])} /\ from[s] \in 0..Len(files[s]) /\ ~(sent[s] > 0)
        BY <2>1
    <2> QED
        BY <1>1, <2>1, <2>2, <2>3 DEF FeederTypes
<1>3. ReaderTypes
    BY DEF Init, ReaderTypes
<1>4. SinkTypes
    BY <1>1 DEF Init, SinkTypes
<1>5. Types
    BY <1>2, <1>3, <1>4, TypesParts
<1>6. Results
    BY DEF Init, Results
<1>7. WrittenInOrder
    BY DEF Init, WrittenInOrder
<1>8. Len(Stimuli) = 0
    <2>1. Len(Stimuli) = Len(published) + Len(buffer) + Len(got)
        BY <1>5, <1>6, StimuliAre DEF StimuliParts
    <2> QED
        BY <2>1 DEF Init
<1>9. Fresh /\ InOrderOnce
    BY <1>8 DEF Fresh, InOrderOnce
<1>10. GapFree
    BY DEF Init, GapFree
<1> QED
    BY <1>5, <1>6, <1>7, <1>9, <1>10 DEF IntakeInv

\* Every step keeps it.
LEMMA IntakeStep == IntakeInv /\ [Next]_vars => IntakeInv'
<1> SUFFICES ASSUME IntakeInv, [Next]_vars PROVE IntakeInv'
    OBVIOUS
<1>1. Types /\ Results /\ WrittenInOrder /\ Fresh /\ InOrderOnce /\ GapFree
    BY DEF IntakeInv
<1>2. Types' /\ Results'
    BY <1>1, TypesStep, ResultsStep
<1>3. WrittenInOrder'
    BY <1>1, <1>2, WrittenInOrderStep
<1>4. InOrderOnce' /\ Fresh'
    <2>1. ASSUME NEW d \in Nat, Thinned(Stimuli', Stimuli, d) PROVE InOrderOnce' /\ Fresh'
        BY <1>1, <1>2, <2>1, ThinnedInOrder, ThinnedFresh
    <2>2. ASSUME NEW k \in 1..Len(Rest), ReadLine(k), Strip(SubSeq(Rest, 1, k)) # <<>>
          PROVE  InOrderOnce' /\ Fresh'
        BY <1>1, <1>2, <2>2, ReadInOrder
    <2> QED
        BY <1>1, <1>2, <2>1, <2>2, StepThins
<1>5. GapFree'
    BY <1>1, GapFreeStep
<1> QED
    BY <1>2, <1>3, <1>4, <1>5 DEF IntakeInv

\* A file that is not replaced is read whole: what the offset passed was given.
LEMMA PassedIsGiven == IntakeInv => NothingSkipped
<1> SUFFICES ASSUME IntakeInv, NEW s \in Sources, from[s] = 1, total < MaxTotal,
                    NEW b \in Passed(s)
             PROVE  b \in Given(s)
    BY DEF NothingSkipped
<1>1. ReadUpTo(files[s][1], offset[s], GivenTexts(s)) /\ offset[s] \in Nat
    BY TypesParts DEF IntakeInv, GapFree, ReaderTypes
<1>2. PICK p \in 1..Len(files[s][1]) : p <= offset[s] /\ ~IsNewline(files[s][1][p]) /\ b = files[s][1][p]
    BY DEF Passed
<1>3. p \in 1..offset[s]
    <2>1. s \in Sources /\ files[s] \in Seq(Seq(Byte)) /\ from[s] \in 0..Len(files[s])
        BY TypesParts DEF IntakeInv, FeederTypes
    <2>2. Len(files[s]) \in Nat
        BY <2>1, LenProperties
    <2>3. 1 \in 1..Len(files[s])
        BY <2>1, <2>2
    <2>4. Len(files[s][1]) \in Nat
        BY <2>1, <2>3, ElementOfSeq, LenProperties
    <2> QED
        BY <1>1, <1>2, <2>4
<1>4. PICK t \in GivenTexts(s) : \E i \in 1..Len(t) : t[i] = b
    BY <1>1, <1>2, <1>3 DEF ReadUpTo
<1>5. t \in handled[s] \cup IF stage = "handle" /\ Head(todo) = s THEN {got[i] : i \in 1..Len(got)} ELSE {}
    BY <1>4 DEF GivenTexts, GotTexts
<1> QED
    BY <1>4, <1>5 DEF Given

\* Every variable keeps its type: the file that _poll reads is one the feeder
\* made, whatever was renamed since, and buffer and window keep to their bounds.
THEOREM TypeCorrect == Spec => []TypeOK
<1>1. IntakeInv => TypeOK
    BY DEF IntakeInv, Types
<1> QED
    BY <1>1, IntakeInit, IntakeStep, PTL DEF Spec

\* However feeders write, tear their lines and rotate between the membrane's
\* steps, no envelope becomes a stimulus twice and the stimuli of a source are
\* in the order in which it wrote them.
THEOREM StimuliInOrder == Spec => []InOrderOnce
<1>1. IntakeInv => InOrderOnce
    BY DEF IntakeInv
<1> QED
    BY <1>1, IntakeInit, IntakeStep, PTL DEF Spec

\* Of a file that was not replaced the offset never passes a byte that the
\* membrane was not given, as long as the total is not reached.
THEOREM NothingIsSkipped == Spec => []NothingSkipped
BY PassedIsGiven, IntakeInit, IntakeStep, PTL DEF Spec

-----------------------------------------------------------------------------
(* The total. *)

Polling == {"size", "open", "lines", "handle"}

\* Of the sources that poll_once has still to poll none has added to the
\* total, and each one before them has passed it by one event at most.
Passing ==
    /\ total \in Nat
    /\ todo \in Seq(Sources)
    /\ Len(todo) <= Len(Order)
    /\ stage \in Polling => Len(todo) > 0
    /\ total <= MaxTotal - 1 + Len(Order) - (IF stage = "idle" THEN 0 ELSE Len(todo))

\* Going on to the next source leaves one less to poll.
LEMMA OneLess ==
    ASSUME todo \in Seq(Sources), Len(todo) > 0, NextSource
    PROVE  /\ todo' \in Seq(Sources)
           /\ Len(todo') = Len(todo) - 1
           /\ stage' \in Polling => Len(todo') > 0
           /\ stage' # "idle"
BY DEF NextSource, Polling

\* Every step keeps the count per source.
LEMMA PassingStep == Passing /\ [Next]_vars => Passing'
<1> SUFFICES ASSUME Passing, [Next]_vars PROVE Passing'
    OBVIOUS
<1>0. /\ total \in Nat /\ todo \in Seq(Sources) /\ Len(todo) \in Nat
      /\ Order \in Seq(Sources) /\ Len(Order) \in Nat /\ Len(Order) > 0 /\ MaxTotal \in Nat
    BY Constants DEF Passing
<1>1. CASE UNCHANGED <<total, todo, stage>>
    BY <1>1 DEF Passing
<1>2. CASE StartPoll
    <2>1. total' = total /\ todo' = Order /\ stage' = "size" /\ total < MaxTotal
        BY <1>2 DEF StartPoll, sink
    <2> QED
        BY <1>0, <2>1 DEF Passing, Polling
<1>3. CASE SkipDisabled \/ Missing
    <2>1. NextSource /\ total' = total /\ stage \in Polling
        BY <1>3 DEF SkipDisabled, Missing, sink, Polling
    <2>2. Len(todo) > 0 /\ stage # "idle"
        BY <2>1 DEF Passing, Polling
    <2> QED
        BY <1>0, <2>1, <2>2, OneLess DEF Passing
<1>4. CASE TakeSize \/ OpenFile \/ \E k \in 1..Len(Rest) : ReadLine(k)
    <2>1. /\ total' = total /\ todo' = todo /\ stage \in Polling /\ stage' \in Polling
        BY <1>4 DEF TakeSize, OpenFile, ReadLine, sink, Polling
    <2> QED
        BY <2>1 DEF Passing, Polling
<1>5. CASE CloseFile
    <2>1. /\ total' = total /\ stage \in Polling
          /\ NextSource \/ (stage' = "handle" /\ todo' = todo)
        BY <1>5 DEF CloseFile, sink, Polling
    <2>2. Len(todo) > 0 /\ stage # "idle"
        BY <2>1 DEF Passing, Polling
    <2> QED
        BY <1>0, <2>1, <2>2, OneLess DEF Passing, Polling
<1>6. CASE HandleEvent
    <2>1. total' = total + 1 /\ stage = "handle"
        BY <1>6 DEF HandleEvent
    <2>2. NextSource \/ (total + 1 < MaxTotal /\ UNCHANGED <<stage, todo>>)
        <3>1. CASE total + 1 >= MaxTotal
            BY <1>6, <3>1 DEF HandleEvent
        <3>2. CASE total + 1 < MaxTotal
            <4>1. NextSource \/ UNCHANGED <<stage, todo>>
                BY <1>6 DEF HandleEvent
            <4> QED
                BY <3>2, <4>1
        <3> QED
            BY <1>0, <3>1, <3>2
    <2>3. Len(todo) > 0
        BY <2>1 DEF Passing, Polling
    <2>4. total <= MaxTotal - 1 + Len(Order) - Len(todo) /\ Len(todo) <= Len(Order)
        BY <2>1 DEF Passing
    <2>5. CASE NextSource
        <3>1. /\ todo' \in Seq(Sources) /\ Len(todo') = Len(todo) - 1
              /\ stage' \in Polling => Len(todo') > 0
              /\ stage' # "idle"
            BY <1>0, <2>3, <2>5, OneLess
        <3> QED
            BY <1>0, <2>1, <2>4, <3>1 DEF Passing
    <2>6. CASE total + 1 < MaxTotal /\ UNCHANGED <<stage, todo>>
        BY <1>0, <2>1, <2>3, <2>4, <2>6 DEF Passing
    <2> QED
        BY <2>2, <2>5, <2>6
<1>7. CASE Publish
    BY <1>0, <1>7 DEF Publish, Passing, Polling
<1>8. CASE \E s \in Sources : Feed(s) \/ Disable(s)
    <2>1. UNCHANGED <<total, todo, stage>>
        BY <1>8 DEF Feed, Rotate, Write, Disable, sink
    <2> QED
        BY <1>1, <2>1
<1>9. CASE UNCHANGED vars
    BY <1>1, <1>9 DEF vars, sink
<1> QED
    BY <1>2, <1>3, <1>4, <1>5, <1>6, <1>7, <1>8, <1>9 DEF Next, Poll

\* The total is passed by at most one event for every source but the first.
THEOREM TotalIsBounded == Spec => []TotalBounded
<1>1. Init => Passing
    BY Constants DEF Init, Passing, Polling
<1>2. Passing => TotalBounded
    <2>1. MaxTotal \in Nat /\ Len(Order) \in Nat
        BY Constants
    <2>2. ASSUME Passing PROVE total \in Nat /\ Len(todo) \in Nat
        BY <2>2, LenProperties DEF Passing
    <2>3. ASSUME Passing PROVE total <= MaxTotal - 1 + Len(Order)
        BY <2>1, <2>2, <2>3 DEF Passing
    <2>4. ASSUME Passing PROVE TotalBounded
        BY <2>1, <2>2, <2>3, <2>4 DEF TotalBounded
    <2> QED
        BY <2>4
<1> QED
    BY <1>1, <1>2, PassingStep, PTL DEF Spec
=============================================================================
