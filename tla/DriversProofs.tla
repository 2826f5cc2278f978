----------------------------- MODULE DriversProofs ------------------------------
(***************************************************************************)
(* Proofs about the drivers: SeqFile, for every number of nodes, length of *)
(* the texts, size of the buffer and sizes of the reads, and Uart, for any *)
(* number of processes.                                                    *)
(***************************************************************************)
EXTENDS Uart, SeqFile, SequenceTheorems, TLAPS

\* A sequence is empty when its length is 0.
LEMMA EmptyIs ==
  ASSUME NEW S, NEW s \in Seq(S)
  PROVE  Len(s) \in Nat /\ (s = <<>> <=> Len(s) = 0)
BY EmptySeq, LenProperties

-----------------------------------------------------------------------------
(* SeqFile: the reader of the list.                                        *)

\* The last byte of node n's text; before the first node nothing was read.
End(n) == IF n = 0 THEN None ELSE <<n, Width[n]>>

\* The bytes of a buffer follow each other.
Chain(b) == \A i \in 1..Len(b) - 1 : Follows(b[i], b[i + 1])

\* What is buffered goes on where the reader is.
Joined == seq.buf # <<>> => Follows(last, seq.buf[1]) /\ Chain(seq.buf)

\* Between the calls the reader has nodes 1..index, or the buffer ends with the node
\* after them; inside a read the iterator is on the buffer's last node.
Stands ==
  /\ seq.pc \in {"closed", "start", "eof"} => seq.buf = <<>>
  /\ seq.pc \in {"open", "start", "eof"} /\ seq.buf = <<>> =>
       last = End(seq.index) /\ seq.index <= loaded
  /\ seq.pc = "open" /\ seq.buf # <<>> =>
       seq.index < loaded /\ seq.buf[Len(seq.buf)] = End(seq.index + 1)
  /\ seq.pc \in {"fill", "copy"} =>
       /\ seq.buf # <<>> /\ seq.p = seq.pos + 1 /\ seq.p <= loaded
       /\ seq.buf[Len(seq.buf)] = End(seq.p)

\* If the list was complete when the last read began, a reader at its end has had it all.
ToldAll ==
  /\ seq.full => loaded = Nodes
  /\ seq.full /\ seq.pc = "eof" => seq.index = Nodes

\* Nodes are freed once nobody reads, and nobody begins to read then.
Freeing ==
  /\ freed > 0 => module \in {"exit", "gone"} /\ seq.pc = "closed"
  /\ module = "exit" => seq.pc = "closed"

\* The entry comes before the cache, and the nodes after both.
Loading ==
  /\ module = "init" => ~entry
  /\ module \in {"init", "cache"} => loaded = 0
  /\ module = "cache" => cache

\* The inductive invariant.
SeqInv ==
  /\ SeqTypeOK
  /\ Joined /\ Stands /\ ToldAll
  /\ Freeing /\ Loading /\ EntryServed
  /\ ordered

\* The texts: bytes that follow each other, from the first to the last.
LEMMA TextIs ==
  ASSUME NEW n \in 1..Nodes
  PROVE  /\ Text(n) \in Seq(Byte) /\ Len(Text(n)) = Width[n] /\ Width[n] \in Nat \ {0}
         /\ Text(n)[1] = <<n, 1>> /\ Text(n)[Width[n]] = End(n)
         /\ Chain(Text(n))
<1>1. Width[n] \in Nat \ {0} /\ n \in Nat /\ n > 0
  BY SeqFileAssumption
<1>2. Text(n) \in [1..Width[n] -> Byte]
  BY <1>1 DEF Text, Byte
<1>3. Text(n) \in Seq(Byte) /\ Len(Text(n)) = Width[n]
  BY <1>1, <1>2, SeqDef
<1>4. \A i \in 1..Width[n] : Text(n)[i] = <<n, i>>
  BY DEF Text
<1>5. Text(n)[1] = <<n, 1>> /\ Text(n)[Width[n]] = End(n)
  BY <1>1, <1>4 DEF End
<1>6. ASSUME NEW i \in 1..Width[n] - 1 PROVE Follows(Text(n)[i], Text(n)[i + 1])
  <2>1. i \in 1..Width[n] /\ i + 1 \in 1..Width[n] /\ i < Width[n]
    BY <1>1
  <2>2. Text(n)[i] = <<n, i>> /\ Text(n)[i + 1] = <<n, i + 1>>
    BY <1>4, <2>1
  <2>. QED BY <1>1, <2>1, <2>2 DEF Follows
<1>. QED BY <1>1, <1>3, <1>5, <1>6 DEF Chain

\* After the last byte of a node comes the first of the next one.
LEMMA EndFollows ==
  ASSUME NEW n \in 0..Nodes
  PROVE  Follows(End(n), <<n + 1, 1>>)
<1>1. CASE n = 0
  BY <1>1 DEF End, None, Follows
<1>2. CASE n > 0
  BY <1>2, SeqFileAssumption DEF End, Follows
<1>. QED BY <1>1, <1>2, SeqFileAssumption

\* What is left of a chain is a chain.
LEMMA RestIs ==
  ASSUME NEW b \in Seq(Byte), NEW n \in 0..Len(b), Chain(b),
         NEW rest, rest = SubSeq(b, n + 1, Len(b))
  PROVE  /\ rest \in Seq(Byte) /\ Len(rest) = Len(b) - n
         /\ rest = <<>> <=> n = Len(b)
         /\ rest # <<>> => rest[1] = b[n + 1] /\ rest[Len(rest)] = b[Len(b)]
         /\ Chain(rest)
<1>1. Len(b) \in Nat /\ n \in Nat /\ n + 1 \in Int /\ Len(b) \in Int
  BY LenProperties
<1>2. \A i \in n + 1..Len(b) : b[i] \in Byte
  BY <1>1, ElementOfSeq
<1>3. /\ rest \in Seq(Byte)
      /\ Len(rest) = IF n + 1 <= Len(b) THEN Len(b) - (n + 1) + 1 ELSE 0
      /\ \A i \in 1..Len(b) - (n + 1) + 1 : rest[i] = b[n + 1 + i - 1]
  BY <1>1, <1>2, SubSeqProperties
<1>4. Len(rest) = Len(b) - n /\ \A i \in 1..Len(b) - n : rest[i] = b[n + i]
  BY <1>1, <1>3
<1>5. rest = <<>> <=> n = Len(b)
  <2>1. rest = <<>> <=> Len(rest) = 0
    BY <1>3, EmptyIs
  <2>. QED BY <1>1, <1>4, <2>1
<1>6. rest # <<>> => rest[1] = b[n + 1] /\ rest[Len(rest)] = b[Len(b)]
  <2>1. HAVE rest # <<>>
  <2>2. 1 \in 1..Len(b) - n /\ Len(b) - n \in 1..Len(b) - n /\ n + (Len(b) - n) = Len(b)
    BY <1>1, <1>5, <2>1
  <2>. QED BY <1>4, <2>2, Zenon
<1>7. ASSUME NEW i \in 1..Len(rest) - 1 PROVE Follows(rest[i], rest[i + 1])
  <2>1. i \in 1..Len(b) - n /\ i + 1 \in 1..Len(b) - n /\ n + i \in 1..Len(b) - 1
        /\ n + (i + 1) = (n + i) + 1
    BY <1>1, <1>4
  <2>. QED BY <1>4, <2>1 DEF Chain
<1>. QED BY <1>3, <1>4, <1>5, <1>6, <1>7 DEF Chain

\* The next node's text goes on where the buffer ends.
LEMMA TextGoesOn ==
  ASSUME NEW b \in Seq(Byte), b # <<>>, Chain(b), NEW n \in 1..Nodes,
         b[Len(b)] = End(n - 1)
  PROVE  /\ b \o Text(n) \in Seq(Byte) /\ b \o Text(n) # <<>>
         /\ Len(b \o Text(n)) = Len(b) + Width[n]
         /\ (b \o Text(n))[1] = b[1]
         /\ (b \o Text(n))[Len(b) + Width[n]] = End(n)
         /\ Chain(b \o Text(n))
<1> DEFINE t == Text(n)
           c == b \o t
<1>1. /\ t \in Seq(Byte) /\ Len(t) = Width[n] /\ Width[n] \in Nat \ {0}
      /\ t[1] = <<n, 1>> /\ t[Width[n]] = End(n) /\ Chain(t)
  BY TextIs
<1>2. Len(b) \in Nat \ {0}
  BY EmptySeq
<1>3. Follows(b[Len(b)], t[1])
  <2>1. n - 1 \in 0..Nodes /\ (n - 1) + 1 = n
    BY SeqFileAssumption
  <2>. QED BY <1>1, <2>1, EndFollows
<1> HIDE DEF t
<1>4. /\ c \in Seq(Byte) /\ Len(c) = Len(b) + Len(t)
      /\ \A i \in 1..Len(b) + Len(t) : c[i] = IF i <= Len(b) THEN b[i] ELSE t[i - Len(b)]
  BY <1>1, ConcatProperties
<1> HIDE DEF c
<1>5. c # <<>>
  BY <1>1, <1>2, <1>4, EmptySeq
<1> DEFINE k == Len(b)
           m == Len(t)
<1>0. k \in Nat /\ k > 0 /\ m \in Nat /\ m > 0 /\ m = Width[n] /\ Len(c) = k + m
      /\ t[m] = End(n) /\ t[1] = <<n, 1>>
      /\ \A i \in 1..k + m : c[i] = IF i <= k THEN b[i] ELSE t[i - k]
  BY <1>1, <1>2, <1>4
<1> HIDE DEF k, m
<1>6. c[1] = b[1] /\ c[k + m] = End(n)
  <2>1. 1 \in 1..k + m /\ k + m \in 1..k + m /\ 1 <= k /\ ~(k + m <= k) /\ (k + m) - k = m
    BY <1>0
  <2>. QED BY <1>0, <2>1
<1>7. ASSUME NEW i \in 1..Len(c) - 1 PROVE Follows(c[i], c[i + 1])
  <2>0. i \in 1..k + m /\ i + 1 \in 1..k + m /\ i \in Int /\ k \in Int
    <3>1. i \in 1..(k + m) - 1 /\ k \in Int /\ m \in Int
      BY <1>0
    <3>. QED BY ONLY <3>1
  <2>1. CASE i < k
    <3>1. i <= k /\ i + 1 <= k /\ i \in 1..k - 1
      BY ONLY <2>0, <2>1
    <3>2. \A h \in 1..k + m : h <= k => c[h] = b[h]
      BY <1>0
    <3>3. c[i] = b[i] /\ c[i + 1] = b[i + 1]
      BY ONLY <2>0, <3>1, <3>2
    <3>. QED BY <3>1, <3>3 DEF Chain, k
  <2>2. CASE i = k
    <3>1. i <= k /\ ~(i + 1 <= k) /\ (i + 1) - k = 1
      BY ONLY <2>0, <2>2
    <3>2. c[i] = b[i] /\ c[i + 1] = t[(i + 1) - k]
      BY <1>0, <2>0, <3>1
    <3>3. c[i + 1] = t[1]
      BY <3>1, <3>2
    <3>. QED BY <1>3, <2>2, <3>2, <3>3 DEF k
  <2>3. CASE i > k
    <3> DEFINE j == i - k
    <3>1. j \in 1..m - 1 /\ (i + 1) - k = j + 1 /\ ~(i <= k) /\ ~(i + 1 <= k)
      <4>1. m \in Int
        BY <1>0
      <4>. QED BY ONLY <2>0, <2>3, <4>1
    <3>2. c[i] = t[i - k] /\ c[i + 1] = t[(i + 1) - k]
      <4>1. \A h \in 1..k + m : ~(h <= k) => c[h] = t[h - k]
        BY <1>0
      <4>. QED BY <2>0, <3>1, <4>1
    <3>3. c[i] = t[j] /\ c[i + 1] = t[j + 1]
      BY <3>1, <3>2
    <3>. QED BY <1>1, <3>1, <3>3 DEF Chain, m
  <2>. QED BY <1>0, <2>0, <2>1, <2>2, <2>3
<1>8. Chain(c)
  BY <1>7 DEF Chain
<1>. QED BY <1>0, <1>4, <1>5, <1>6, <1>8 DEF c, t, k, m

\* The reader gets the first n bytes of the buffer, in order, and the rest goes on
\* where they end.
LEMMA GotIs ==
  ASSUME SeqInv, NEW n \in 0..Len(seq.buf), Got(n),
         NEW rest, rest = SubSeq(seq.buf, n + 1, Len(seq.buf))
  PROVE  /\ ordered'
         /\ last' \in Byte \cup {None}
         /\ rest \in Seq(Byte) /\ Len(rest) = Len(seq.buf) - n
         /\ rest = <<>> <=> n = Len(seq.buf)
         /\ rest # <<>> => /\ Follows(last', rest[1]) /\ Chain(rest)
                           /\ rest[Len(rest)] = seq.buf[Len(seq.buf)]
         /\ n = Len(seq.buf) /\ n > 0 => last' = seq.buf[Len(seq.buf)]
         /\ n = 0 => last' = last
<1> DEFINE b == seq.buf
<1>0. b \in Seq(Byte) /\ Len(b) \in Nat /\ (b = <<>> <=> Len(b) = 0)
  BY EmptyIs DEF SeqInv, SeqTypeOK, SeqRecord
<1>1. last \in Byte \cup {None} /\ ordered
  BY DEF SeqInv, SeqTypeOK
<1>2. b # <<>> => Follows(last, b[1]) /\ Chain(b)
  BY DEF SeqInv, Joined
<1>3. Chain(b)
  BY <1>0, <1>2 DEF Chain
<1>4. /\ last' = IF n = 0 THEN last ELSE b[n]
      /\ ordered' = (ordered /\ \A i \in 1..n : Follows(IF i = 1 THEN last ELSE b[i - 1], b[i]))
  BY DEF Got
<1> HIDE DEF b
<1>5. /\ rest \in Seq(Byte) /\ Len(rest) = Len(b) - n
      /\ rest = <<>> <=> n = Len(b)
      /\ rest # <<>> => rest[1] = b[n + 1] /\ rest[Len(rest)] = b[Len(b)]
      /\ Chain(rest)
  <2>1. n \in 0..Len(b) /\ rest = SubSeq(b, n + 1, Len(b))
    BY DEF b
  <2>. QED BY <1>0, <1>3, <2>1, RestIs
<1>6. ASSUME NEW i \in 1..n PROVE Follows(IF i = 1 THEN last ELSE b[i - 1], b[i])
  <2>1. i \in Nat /\ i > 0 /\ i <= Len(b) /\ b # <<>>
    BY <1>0 DEF b
  <2>2. CASE i = 1
    BY <1>2, <2>1, <2>2
  <2>3. CASE i # 1
    <3>1. i - 1 \in 1..Len(b) - 1 /\ (i - 1) + 1 = i
      BY <1>0, <2>1, <2>3
    <3>. QED BY <1>3, <2>3, <3>1 DEF Chain
  <2>. QED BY <2>2, <2>3
<1>7. ordered'
  BY <1>1, <1>4, <1>6
<1>8. last' \in Byte \cup {None}
  BY <1>0, <1>1, <1>4, ElementOfSeq DEF b
<1>9. rest # <<>> => Follows(last', rest[1])
  <2>1. HAVE rest # <<>>
  <2>2. n \in Nat /\ n < Len(b) /\ b # <<>>
    BY <1>0, <1>5, <2>1 DEF b
  <2>3. CASE n = 0
    BY <1>2, <1>4, <1>5, <2>1, <2>2, <2>3
  <2>4. CASE n # 0
    <3>1. n \in 1..Len(b) - 1
      BY <1>0, <2>2, <2>4
    <3>. QED BY <1>3, <1>4, <1>5, <2>1, <2>4, <3>1 DEF Chain
  <2>. QED BY <2>3, <2>4
<1>10. n = Len(b) /\ n > 0 => last' = b[Len(b)]
  BY <1>0, <1>4
<1>. QED BY <1>0, <1>4, <1>5, <1>7, <1>8, <1>9, <1>10 DEF b

\* Nothing is loaded and nobody reads at first.
LEMMA SeqInitInv == SeqInit => SeqInv
<1> SUFFICES ASSUME SeqInit PROVE SeqInv
  OBVIOUS
<1> USE DEF SeqInit, ClosedSeq
<1>1. SeqTypeOK
  <2>1. seq \in SeqRecord /\ Len(seq.buf) = 0
    BY SeqFileAssumption, EmptySeq DEF SeqRecord, NULL
  <2>2. 0 < Page
    <3>1. 1 \in 1..Nodes /\ Page \in Nat /\ Width[1] \in Nat /\ Width[1] < Page
      BY SeqFileAssumption
    <3>. QED BY <3>1
  <2>3. loaded \in 0..Nodes /\ freed \in 0..loaded
    BY SeqFileAssumption
  <2>4. /\ cache \in BOOLEAN /\ entry \in BOOLEAN /\ ordered \in BOOLEAN /\ last = None
        /\ module = "init"
    OBVIOUS
  <2> HIDE DEF SeqInit
  <2>. QED BY <2>1, <2>2, <2>3, <2>4 DEF SeqTypeOK
<1>. QED BY <1>1, SeqFileAssumption DEF SeqInv, Joined, Stands, ToldAll, Freeing, Loading,
    EntryServed

\* The module's steps: they add nodes, free them, and remove the entry.
LEMMA ModuleKeeps == SeqInv /\ ModuleStep => SeqInv'
<1> SUFFICES ASSUME SeqInv, ModuleStep PROVE SeqInv'
  OBVIOUS
<1>0. /\ SeqTypeOK /\ loaded \in Nat /\ freed \in Nat /\ Nodes \in Nat
      /\ seq' = seq /\ last' = last /\ ordered' = ordered /\ cache' = cache
  <2>1. SeqTypeOK /\ loaded \in Nat /\ freed \in Nat /\ Nodes \in Nat
    BY SeqFileAssumption DEF SeqInv, SeqTypeOK
  <2>2. seq' = seq /\ last' = last /\ ordered' = ordered /\ cache' = cache
    BY DEF ModuleStep, CreateEntry, CreateCache, AddNode, Exit, FreeNode, ExitEnds, readVars
  <2>. QED BY <2>1, <2>2
<1>1. SeqTypeOK'
  <2>1. loaded' \in 0..Nodes /\ freed' \in 0..loaded'
    BY <1>0 DEF SeqTypeOK, ModuleStep, CreateEntry, CreateCache, AddNode, Exit, FreeNode,
        ExitEnds
  <2>2. entry' \in BOOLEAN
    BY <1>0 DEF SeqTypeOK, ModuleStep, CreateEntry, CreateCache, AddNode, Exit, FreeNode,
        ExitEnds,
       RemoveEntry
  <2>3. module' \in {"init", "cache", "fill", "oops", "live", "exit", "gone"}
    BY <1>0 DEF SeqTypeOK, ModuleStep, CreateEntry, CreateCache, AddNode, Exit, FreeNode,
        ExitEnds
  <2>. QED BY <1>0, <2>1, <2>2, <2>3 DEF SeqTypeOK
<1>2. loaded' >= loaded /\ (loaded = Nodes => loaded' = loaded)
  BY <1>0 DEF ModuleStep, CreateEntry, CreateCache, AddNode, Exit, FreeNode, ExitEnds
<1>3. Joined'
  BY <1>0 DEF SeqInv, Joined, Chain, Follows
<1>4. Stands'
  <2>1. seq.index \in Nat /\ seq.p \in Nat /\ loaded' \in Nat
    BY <1>0, <1>1 DEF SeqTypeOK, SeqRecord
  <2>. QED BY <1>0, <1>2, <2>1 DEF SeqInv, Stands, End
<1>5. ToldAll'
  BY <1>0, <1>2 DEF SeqInv, ToldAll
<1>6. Freeing'
  BY <1>0 DEF SeqInv, Freeing, ModuleStep, CreateEntry, CreateCache, AddNode, Exit, FreeNode,
     ExitEnds, Unused
<1>7. Loading' /\ EntryServed'
  BY <1>0 DEF SeqInv, Loading, EntryServed, ModuleStep, CreateEntry, CreateCache, AddNode, Exit,
     FreeNode, ExitEnds, RemoveEntry
<1>. QED BY <1>0, <1>1, <1>3, <1>4, <1>5, <1>6, <1>7 DEF SeqInv

\* Opening and closing the file.
LEMMA OpenKeeps == SeqInv /\ (Open \/ ReleaseSeq) => SeqInv'
<1> SUFFICES ASSUME SeqInv, Open \/ ReleaseSeq PROVE SeqInv'
  OBVIOUS
<1>0. SeqTypeOK /\ UNCHANGED moduleVars
  BY DEF SeqInv, Open, ReleaseSeq
<1>1. /\ seq' \in SeqRecord /\ seq'.buf = <<>> /\ seq'.index = 0 /\ ~seq'.full
      /\ seq'.pc = "closed" \/ (seq'.pc = "open" /\ last' = None)
      /\ Len(seq'.buf) = 0 /\ ordered' /\ ordered' \in BOOLEAN /\ last' \in Byte \cup {None}
  <2> DEFINE opened == [ClosedSeq EXCEPT !.pc = "open"]
  <2>0. <<>> \in Seq(Byte) /\ Len(<<>>) = 0 /\ 0 \in 0..Nodes /\ 0 \in Nat
    BY SeqFileAssumption, EmptySeq
  <2>1. /\ ClosedSeq \in SeqRecord /\ ClosedSeq.buf = <<>> /\ ClosedSeq.index = 0
        /\ ClosedSeq.pc = "closed" /\ ~ClosedSeq.full /\ Len(ClosedSeq.buf) = 0
    BY <2>0 DEF ClosedSeq, SeqRecord, NULL
  <2>2. /\ opened \in SeqRecord /\ opened.buf = <<>> /\ opened.index = 0
        /\ opened.pc = "open" /\ ~opened.full /\ Len(opened.buf) = 0
    BY <2>0 DEF ClosedSeq, SeqRecord, NULL
  <2> HIDE DEF opened
  <2>3. CASE Open
    BY <2>2, <2>3 DEF Open, opened
  <2>4. CASE ReleaseSeq
    BY <1>0, <2>1, <2>4 DEF ReleaseSeq, readVars, SeqInv, SeqTypeOK
  <2>. QED BY <2>3, <2>4
<1>2. SeqTypeOK'
  BY <1>0, <1>1, SeqFileAssumption DEF SeqTypeOK, moduleVars
<1>3. Joined' /\ ToldAll'
  BY <1>1 DEF Joined, ToldAll
<1>4. Stands'
  BY <1>0, <1>1 DEF Stands, End, SeqTypeOK, moduleVars
<1>5. Freeing'
  BY <1>0, <1>1 DEF SeqInv, Freeing, Open, ReleaseSeq, moduleVars, SeqTypeOK
<1>6. Loading' /\ EntryServed'
  BY <1>0 DEF SeqInv, Loading, EntryServed, moduleVars
<1>. QED BY <1>1, <1>2, <1>3, <1>4, <1>5, <1>6 DEF SeqInv

\* A step of a read leaves the module alone, and the file stays open.
LEMMA ReadingKeeps ==
  ASSUME SeqInv, UNCHANGED moduleVars, seq.pc # "closed", seq' \in SeqRecord,
         Len(seq'.buf) < Page, last' \in Byte \cup {None}, ordered', ordered' \in BOOLEAN,
         seq'.pc # "closed", Joined', Stands', ToldAll'
  PROVE  SeqInv'
<1>1. SeqTypeOK'
  BY DEF SeqInv, SeqTypeOK, moduleVars
<1>2. Freeing' /\ Loading' /\ EntryServed'
  BY DEF SeqInv, Freeing, Loading, EntryServed, moduleVars
<1>. QED BY <1>1, <1>2 DEF SeqInv

\* read: what is left in the buffer goes first.
LEMMA ReadKeeps == ASSUME SeqInv, NEW size \in Sizes, Read(size) PROVE SeqInv'
<1> DEFINE b == seq.buf
           n == Least(Len(b), size)
           rest == SubSeq(b, n + 1, Len(b))
<1>1. /\ seq.pc = "open" /\ Got(n) /\ UNCHANGED moduleVars
      /\ seq' = [seq EXCEPT !.buf = rest, !.size = size - n, !.copied = n > 0,
                            !.full = loaded = Nodes,
                            !.index = IF n > 0 /\ rest = <<>> THEN @ + 1 ELSE @,
                            !.pc = IF n = size THEN "open" ELSE "start"]
  BY DEF Read
<1>2. /\ seq \in SeqRecord /\ b \in Seq(Byte) /\ Len(b) \in Nat /\ Len(b) < Page /\ Page \in Nat
      /\ seq.index \in Nat /\ loaded \in Nat /\ loaded <= Nodes /\ Nodes \in Nat /\ size \in Nat
      /\ size > 0 /\ (b = <<>> <=> Len(b) = 0)
  <2>1. seq \in SeqRecord /\ b \in Seq(Byte) /\ Len(b) < Page /\ loaded \in 0..Nodes
    BY DEF SeqInv, SeqTypeOK, SeqRecord
  <2>2. seq.index \in 0..Nodes
    BY <2>1 DEF SeqRecord
  <2>. QED BY <2>1, <2>2, EmptyIs, SeqFileAssumption
<1>3. n \in 0..Len(b) /\ n <= size /\ (n # size => n = Len(b)) /\ size - n \in Nat
  BY <1>2 DEF Least
<1> HIDE DEF n
<1>4. /\ ordered' /\ last' \in Byte \cup {None}
      /\ rest \in Seq(Byte) /\ Len(rest) = Len(b) - n /\ (rest = <<>> <=> n = Len(b))
      /\ rest # <<>> => /\ Follows(last', rest[1]) /\ Chain(rest) /\ rest[Len(rest)] = b[Len(b)]
      /\ n = Len(b) /\ n > 0 => last' = b[Len(b)]
      /\ n = 0 => last' = last
  <2>1. n \in 0..Len(seq.buf) /\ Got(n) /\ rest = SubSeq(seq.buf, n + 1, Len(seq.buf))
    BY <1>1, <1>3
  <2> HIDE DEF rest
  <2>2. ordered' /\ last' \in Byte \cup {None}
    BY <2>1, GotIs
  <2>3. rest \in Seq(Byte) /\ Len(rest) = Len(b) - n
    BY <2>1, GotIs
  <2>4. rest = <<>> <=> n = Len(b)
    BY <1>2, <1>3, <2>3, EmptyIs
  <2>5. rest # <<>> => /\ Follows(last', rest[1]) /\ Chain(rest) /\ rest[Len(rest)] = b[Len(b)]
    BY <2>1, GotIs
  <2>6. (n = Len(b) /\ n > 0 => last' = b[Len(b)]) /\ (n = 0 => last' = last)
    BY <2>1, GotIs
  <2>. QED BY <2>2, <2>3, <2>4, <2>5, <2>6
<1> HIDE DEF rest
<1>5. /\ seq'.buf = rest /\ (seq'.full <=> loaded = Nodes)
      /\ seq'.pc = (IF n = size THEN "open" ELSE "start")
      /\ seq'.index = IF n > 0 /\ rest = <<>> THEN seq.index + 1 ELSE seq.index
  BY <1>1, <1>2 DEF SeqRecord
<1>6. b = <<>> => last = End(seq.index) /\ seq.index <= loaded
  BY <1>1 DEF SeqInv, Stands
<1>7. b # <<>> => seq.index < loaded /\ b[Len(b)] = End(seq.index + 1)
  BY <1>1 DEF SeqInv, Stands
<1> HIDE DEF b
<1>8. rest = <<>> => last' = End(seq'.index) /\ seq'.index <= loaded
  BY <1>2, <1>3, <1>4, <1>5, <1>6, <1>7
<1>9. rest # <<>> => seq'.index < loaded /\ rest[Len(rest)] = End(seq'.index + 1)
  BY <1>2, <1>3, <1>4, <1>5, <1>6, <1>7
<1>10. seq' \in SeqRecord
  <2>1. seq'.index \in 0..Nodes
    BY <1>2, <1>3, <1>4, <1>5, <1>6, <1>7
  <2>2. /\ rest \in Seq(Byte) /\ size - n \in Nat /\ (n > 0) \in BOOLEAN
        /\ (loaded = Nodes) \in BOOLEAN
    BY <1>3, <1>4
  <2>3. /\ seq' = [seq EXCEPT !.buf = rest, !.size = size - n, !.copied = n > 0,
                              !.full = loaded = Nodes, !.index = seq'.index, !.pc = seq'.pc]
        /\ seq'.pc \in {"open", "start"}
    BY <1>1, <1>2, <1>5 DEF SeqRecord
  <2>. QED BY <1>2, <2>1, <2>2, <2>3 DEF SeqRecord
<1>11. n # size => rest = <<>>
  BY <1>3, <1>4
<1>12. Stands'
  BY <1>1, <1>5, <1>8, <1>9, <1>11 DEF Stands, End, moduleVars
<1>13. Joined' /\ ToldAll'
  <2>1. Joined'
    BY <1>4, <1>5 DEF Joined, Chain, Follows
  <2>2. ToldAll'
    BY <1>1, <1>5 DEF ToldAll, moduleVars
  <2>. QED BY <2>1, <2>2
<1>14. Len(seq'.buf) < Page
  BY <1>2, <1>3, <1>4, <1>5
<1>. QED BY <1>1, <1>4, <1>5, <1>10, <1>12, <1>13, <1>14, ReadingKeeps

\* start and the first show; at the end of the list, the end.
LEMMA ReadStartKeeps == SeqInv /\ ReadStart => SeqInv'
<1> SUFFICES ASSUME SeqInv, ReadStart PROVE SeqInv'
  OBVIOUS
<1> DEFINE p == SeqStart(seq.index)
<1>1. /\ seq \in SeqRecord /\ seq.index \in Nat /\ loaded \in Nat /\ loaded <= Nodes
      /\ Nodes \in Nat /\ Page \in Nat
  <2>1. seq \in SeqRecord /\ loaded \in 0..Nodes
    BY DEF SeqInv, SeqTypeOK
  <2>2. seq.index \in 0..Nodes
    BY <2>1 DEF SeqRecord
  <2>. QED BY <2>1, <2>2, SeqFileAssumption
<1>2. /\ seq.pc = "start" /\ UNCHANGED <<moduleVars, readVars>>
      /\ seq.buf = <<>> /\ last = End(seq.index) /\ seq.index <= loaded
  BY DEF ReadStart, SeqInv, Stands
<1>3. ordered' /\ ordered' \in BOOLEAN /\ last' \in Byte \cup {None}
  BY <1>2 DEF SeqInv, SeqTypeOK, readVars
<1>4. CASE p # NULL /\ seq' = [seq EXCEPT !.pc = "fill", !.pos = seq.index, !.p = p, !.buf = Text(p)]
  <2>1. p = seq.index + 1 /\ p <= loaded /\ p \in 1..Nodes /\ p - 1 = seq.index
    BY <1>1, <1>4 DEF SeqStart, NULL
  <2> HIDE DEF p
  <2>2. /\ Text(p) \in Seq(Byte) /\ Len(Text(p)) = Width[p] /\ Width[p] \in Nat \ {0}
        /\ Text(p)[1] = <<p, 1>> /\ Text(p)[Width[p]] = End(p) /\ Chain(Text(p))
    BY <2>1, TextIs
  <2>3. Text(p) # <<>>
    BY <2>2, EmptyIs
  <2>4. /\ seq'.pc = "fill" /\ seq'.pos = seq.index /\ seq'.p = p /\ seq'.buf = Text(p)
        /\ seq'.full = seq.full
    BY <1>1, <1>4 DEF SeqRecord
  <2>5. seq' \in SeqRecord
    <3>1. p \in 0..Nodes /\ Text(p) \in Seq(Byte)
      BY <1>1, <2>1, <2>2
    <3>2. seq' = [seq EXCEPT !.pc = "fill", !.pos = seq.index, !.p = p, !.buf = Text(p)]
      BY <1>4
    <3>. QED BY <1>1, <3>1, <3>2 DEF SeqRecord
  <2>6. Len(seq'.buf) < Page
    BY <2>1, <2>2, <2>4, SeqFileAssumption
  <2>7. Follows(last, Text(p)[1])
    <3>1. seq.index \in 0..Nodes /\ Follows(End(seq.index), <<seq.index + 1, 1>>)
      BY <1>1, <2>1, EndFollows
    <3>. QED BY <1>2, <2>1, <2>2, <3>1
  <2>8. Joined'
    BY <1>2, <2>2, <2>4, <2>7 DEF Joined, Chain, Follows, readVars
  <2>9. Stands'
    BY <1>2, <2>1, <2>2, <2>3, <2>4 DEF Stands, End, moduleVars
  <2>10. ToldAll'
    BY <1>2, <2>4 DEF SeqInv, ToldAll, moduleVars
  <2>. QED BY <1>2, <1>3, <2>4, <2>5, <2>6, <2>8, <2>9, <2>10, ReadingKeeps
<1>5. CASE p = NULL /\ seq' = [seq EXCEPT !.pc = IF seq.copied THEN "open" ELSE "eof", !.p = NULL]
  <2>1. seq.index = loaded
    BY <1>1, <1>2, <1>5 DEF SeqStart, NULL
  <2>2. /\ seq'.pc \in {"open", "eof"} /\ seq'.buf = <<>> /\ seq'.index = seq.index
        /\ seq'.full = seq.full /\ seq' \in SeqRecord
    <3> DEFINE to == IF seq.copied THEN "open" ELSE "eof"
    <3>1. to \in {"open", "eof"}
      OBVIOUS
    <3>2. seq' = [seq EXCEPT !.pc = to, !.p = NULL] /\ NULL \in 0..Nodes
      BY <1>1, <1>5 DEF NULL
    <3> HIDE DEF to
    <3>. QED BY <1>1, <1>2, <3>1, <3>2 DEF SeqRecord
  <2>3. Len(seq'.buf) < Page
    BY <1>2, <2>2 DEF SeqInv, SeqTypeOK
  <2>4. Joined'
    BY <2>2 DEF Joined
  <2>5. Stands'
    BY <1>2, <2>2 DEF Stands, End, moduleVars, readVars
  <2>6. ToldAll'
    BY <1>2, <2>1, <2>2 DEF SeqInv, ToldAll, moduleVars
  <2>. QED BY <1>2, <1>3, <2>2, <2>3, <2>4, <2>5, <2>6, ReadingKeeps
<1>. QED BY <1>4, <1>5 DEF ReadStart

\* next and show, or enough.
LEMMA ReadNextKeeps == SeqInv /\ ReadNext => SeqInv'
<1> SUFFICES ASSUME SeqInv, ReadNext PROVE SeqInv'
  OBVIOUS
<1> DEFINE b == seq.buf
           p == NextNode(seq.p)
           more == Len(b) < seq.size /\ p # NULL /\ Fits(Len(b) + Width[p])
<1>1. /\ seq \in SeqRecord /\ b \in Seq(Byte) /\ Len(b) \in Nat /\ Len(b) < Page
      /\ loaded \in Nat /\ loaded <= Nodes /\ Nodes \in Nat /\ seq.p \in Nat /\ seq.pos \in Nat
  <2>1. seq \in SeqRecord /\ loaded \in 0..Nodes /\ Len(b) < Page
    BY DEF SeqInv, SeqTypeOK
  <2>2. b \in Seq(Byte) /\ seq.p \in 0..Nodes /\ seq.pos \in Nat
    BY <2>1 DEF SeqRecord
  <2>. QED BY <2>1, <2>2, EmptyIs, SeqFileAssumption
<1>2. /\ seq.pc = "fill" /\ UNCHANGED <<moduleVars, readVars>>
      /\ b # <<>> /\ seq.p = seq.pos + 1 /\ seq.p <= loaded /\ b[Len(b)] = End(seq.p)
      /\ Follows(last, b[1]) /\ Chain(b)
  BY DEF ReadNext, SeqInv, Stands, Joined
<1>3. ordered' /\ ordered' \in BOOLEAN /\ last' \in Byte \cup {None}
  BY <1>2 DEF SeqInv, SeqTypeOK, readVars
<1>4. CASE more /\ seq' = [seq EXCEPT !.p = p, !.buf = @ \o Text(p), !.pos = Advanced(@)]
  <2>1. p = seq.p + 1 /\ p <= loaded /\ p \in 1..Nodes /\ p - 1 = seq.p
    BY <1>1, <1>4 DEF NextNode, NULL
  <2>2. Len(b) + Width[p] < Page
    BY <1>4 DEF Fits
  <2> HIDE DEF p, more
  <2>3. /\ b \o Text(p) \in Seq(Byte) /\ b \o Text(p) # <<>>
        /\ Len(b \o Text(p)) = Len(b) + Width[p]
        /\ (b \o Text(p))[1] = b[1]
        /\ (b \o Text(p))[Len(b) + Width[p]] = End(p)
        /\ Chain(b \o Text(p))
    BY <1>1, <1>2, <2>1, TextGoesOn
  <2>4. /\ seq'.pc = "fill" /\ seq'.pos = seq.pos + 1 /\ seq'.p = p /\ seq'.buf = b \o Text(p)
        /\ seq'.full = seq.full
    BY <1>1, <1>2, <1>4 DEF SeqRecord, Advanced
  <2>5. seq' \in SeqRecord
    <3>1. p \in 0..Nodes /\ b \o Text(p) \in Seq(Byte) /\ Advanced(seq.pos) \in Nat
      BY <1>1, <2>1, <2>3 DEF Advanced
    <3>2. seq' = [seq EXCEPT !.p = p, !.buf = b \o Text(p), !.pos = Advanced(seq.pos)]
      BY <1>4
    <3>. QED BY <1>1, <3>1, <3>2 DEF SeqRecord
  <2>6. Len(seq'.buf) < Page
    BY <2>2, <2>3, <2>4
  <2> DEFINE c == b \o Text(p)
  <2>7. seq'.buf = c /\ Follows(last, c[1]) /\ Chain(c) /\ c # <<>> /\ c[Len(c)] = End(p)
    BY <1>2, <2>3, <2>4
  <2> HIDE DEF c
  <2>8. Joined'
    BY <1>2, <2>7 DEF Joined, Chain, Follows, readVars
  <2>9. Stands'
    BY <1>1, <1>2, <2>1, <2>4, <2>7 DEF Stands, End, moduleVars
  <2>10. ToldAll'
    BY <1>2, <2>4 DEF SeqInv, ToldAll, moduleVars
  <2>. QED BY <1>2, <1>3, <2>4, <2>5, <2>6, <2>8, <2>9, <2>10, ReadingKeeps
<1>5. CASE seq' = [seq EXCEPT !.pc = "copy"]
  <2>1. /\ seq'.pc = "copy" /\ seq'.buf = b /\ seq'.pos = seq.pos /\ seq'.p = seq.p
        /\ seq'.full = seq.full /\ seq' \in SeqRecord
    BY <1>1, <1>5 DEF SeqRecord
  <2>2. Joined'
    BY <1>2, <2>1 DEF Joined, Chain, Follows, readVars
  <2>3. Stands'
    BY <1>2, <2>1 DEF Stands, End, moduleVars
  <2>4. ToldAll'
    BY <1>2, <2>1 DEF SeqInv, ToldAll, moduleVars
  <2>. QED BY <1>1, <1>2, <1>3, <2>1, <2>2, <2>3, <2>4, ReadingKeeps
<1>. QED BY <1>4, <1>5 DEF ReadNext

\* stop: as much as fits goes to the caller.
LEMMA ReadCopyKeeps == SeqInv /\ ReadCopy => SeqInv'
<1> SUFFICES ASSUME SeqInv, ReadCopy PROVE SeqInv'
  OBVIOUS
<1> DEFINE b == seq.buf
           n == Least(Len(b), seq.size)
           rest == SubSeq(b, n + 1, Len(b))
           to == IF rest = <<>> THEN seq.pos + 1 ELSE seq.pos
<1>1. /\ seq.pc = "copy" /\ Got(n) /\ UNCHANGED moduleVars
      /\ seq' = [seq EXCEPT !.pc = "open", !.buf = rest, !.p = NULL, !.index = to]
  BY DEF ReadCopy
<1>2. /\ seq \in SeqRecord /\ b \in Seq(Byte) /\ Len(b) \in Nat /\ Len(b) < Page /\ Page \in Nat
      /\ seq.pos \in Nat /\ loaded \in Nat /\ loaded <= Nodes /\ Nodes \in Nat
      /\ seq.size \in Nat
  <2>1. seq \in SeqRecord /\ loaded \in 0..Nodes /\ Len(b) < Page
    BY DEF SeqInv, SeqTypeOK
  <2>2. b \in Seq(Byte) /\ seq.pos \in Nat /\ seq.size \in Nat
    BY <2>1 DEF SeqRecord
  <2>. QED BY <2>1, <2>2, EmptyIs, SeqFileAssumption
<1>3. b # <<>> /\ seq.p = seq.pos + 1 /\ seq.p <= loaded /\ b[Len(b)] = End(seq.p)
  BY <1>1 DEF SeqInv, Stands
<1>4. Len(b) > 0 /\ n \in 0..Len(b)
  BY <1>2, <1>3, EmptyIs DEF Least
<1> HIDE DEF n
<1>5. /\ ordered' /\ last' \in Byte \cup {None}
      /\ rest \in Seq(Byte) /\ Len(rest) = Len(b) - n
      /\ rest # <<>> => /\ Follows(last', rest[1]) /\ Chain(rest) /\ rest[Len(rest)] = b[Len(b)]
      /\ n = Len(b) /\ n > 0 => last' = b[Len(b)]
  <2>1. n \in 0..Len(seq.buf) /\ Got(n) /\ rest = SubSeq(seq.buf, n + 1, Len(seq.buf))
    BY <1>1, <1>4
  <2> HIDE DEF rest
  <2>2. ordered' /\ last' \in Byte \cup {None}
    BY <2>1, GotIs
  <2>3. rest \in Seq(Byte) /\ Len(rest) = Len(b) - n
    BY <2>1, GotIs
  <2>4. rest # <<>> => /\ Follows(last', rest[1]) /\ Chain(rest) /\ rest[Len(rest)] = b[Len(b)]
    BY <2>1, GotIs
  <2>5. n = Len(b) /\ n > 0 => last' = b[Len(b)]
    BY <2>1, GotIs
  <2>. QED BY <2>2, <2>3, <2>4, <2>5
<1> HIDE DEF rest
<1>6. rest = <<>> <=> n = Len(b)
  BY <1>2, <1>4, <1>5, EmptyIs
<1>7. to \in 0..Nodes /\ (rest = <<>> => to = seq.pos + 1) /\ (rest # <<>> => to = seq.pos)
  BY <1>2, <1>3
<1> HIDE DEF to, b
<1>8. /\ seq'.pc = "open" /\ seq'.buf = rest /\ seq'.index = to /\ seq'.full = seq.full
      /\ seq' \in SeqRecord
  <2>1. seq' = [seq EXCEPT !.pc = "open", !.buf = rest, !.p = NULL, !.index = to]
        /\ rest \in Seq(Byte) /\ NULL \in 0..Nodes
    BY <1>1, <1>2, <1>5 DEF NULL
  <2>. QED BY <1>2, <1>7, <2>1 DEF SeqRecord
<1>9. rest = <<>> => last' = End(to) /\ to <= loaded
  BY <1>2, <1>3, <1>4, <1>5, <1>6, <1>7
<1>10. rest # <<>> => to < loaded /\ rest[Len(rest)] = End(to + 1)
  BY <1>2, <1>3, <1>5, <1>7
<1>11. Stands'
  BY <1>1, <1>8, <1>9, <1>10 DEF Stands, End, moduleVars
<1>12. Joined'
  BY <1>5, <1>8 DEF Joined, Chain, Follows
<1>13. ToldAll'
  BY <1>1, <1>8 DEF SeqInv, ToldAll, moduleVars
<1>14. Len(seq'.buf) < Page
  BY <1>2, <1>4, <1>5, <1>8
<1>. QED BY <1>1, <1>5, <1>8, <1>11, <1>12, <1>13, <1>14, ReadingKeeps

\* Every step keeps the invariant.
LEMMA SeqStepKeeps == SeqInv /\ [SeqNext]_seqVars => SeqInv'
<1> SUFFICES ASSUME SeqInv, [SeqNext]_seqVars PROVE SeqInv'
  OBVIOUS
<1>1. CASE UNCHANGED seqVars
  <2>1. /\ SeqTypeOK' <=> SeqTypeOK
        /\ Joined' <=> Joined
        /\ Stands' <=> Stands
        /\ ToldAll' <=> ToldAll
        /\ Freeing' <=> Freeing
        /\ Loading' <=> Loading
        /\ EntryServed' <=> EntryServed
    BY <1>1 DEF seqVars, moduleVars, readVars, SeqTypeOK, Joined, Chain, Follows, Stands, End,
       ToldAll, Freeing, Loading, EntryServed
  <2>. QED BY <1>1, <2>1 DEF SeqInv, seqVars, readVars
<1>2. CASE SeqNext
  BY <1>2, ModuleKeeps, OpenKeeps, ReadKeeps, ReadStartKeeps, ReadNextKeeps, ReadCopyKeeps
     DEF SeqNext, Reading
<1>. QED BY <1>1, <1>2

\* Every step of the drivers and of the reader keeps it.
LEMMA SeqInvariance == SeqSpec => []SeqInv
BY SeqInitInv, SeqStepKeeps, PTL DEF SeqSpec

\* The seq_file keeps its types, and the buffer never runs over.
THEOREM SeqTypeCorrect == SeqSpec => []SeqTypeOK
<1>1. SeqInv => SeqTypeOK
  BY DEF SeqInv
<1>. QED BY <1>1, SeqInvariance, PTL

\* A reader gets every byte of every text once and in order, whatever the sizes of its
\* reads and however many nodes are added meanwhile.
THEOREM TextsShownInOrder == SeqSpec => []ShownInOrder
<1>1. SeqInv => ShownInOrder
  BY DEF SeqInv, ShownInOrder
<1>. QED BY <1>1, SeqInvariance, PTL

\* Who is told the end of the filled list has all of it.
THEOREM EndIsComplete == SeqSpec => []CompleteAtEnd
<1>1. SeqInv => CompleteAtEnd
  <2> SUFFICES ASSUME SeqInv, seq.pc = "eof", seq.full PROVE last = <<Nodes, Width[Nodes]>>
    BY DEF CompleteAtEnd
  <2>1. seq.index = Nodes /\ last = End(seq.index)
    BY DEF SeqInv, ToldAll, Stands
  <2>. QED BY <2>1, SeqFileAssumption DEF End
<1>. QED BY <1>1, SeqInvariance, PTL

\* The iterator never stands on a freed node.
THEOREM NoFreedNodeShown == SeqSpec => []NoFreedNode
<1>1. SeqInv => NoFreedNode
  <2> SUFFICES ASSUME SeqInv, seq.pc \in {"fill", "copy"} PROVE seq.p > freed
    BY DEF NoFreedNode
  <2>1. freed \in Nat /\ ~(freed > 0)
    BY SeqFileAssumption DEF SeqInv, SeqTypeOK, Freeing
  <2>2. seq.pos \in Nat /\ seq.p = seq.pos + 1
    BY DEF SeqInv, SeqTypeOK, SeqRecord, Stands
  <2>. QED BY <2>1, <2>2
<1>. QED BY <1>1, SeqInvariance, PTL

\* The entry outlives the module only when the slab cache could not be created.
THEOREM EntryAlwaysServed == SeqSpec => []EntryServed
<1>1. SeqInv => EntryServed
  BY DEF SeqInv
<1>. QED BY <1>1, SeqInvariance, PTL

-----------------------------------------------------------------------------
(* Uart: the steps of probe and what undoes them.                          *)

Step == {"enable", "region0", "region1", "diag1", "diag2", "chrdev", "wr1", "rd1", "wfifo1",
         "rfifo1", "wr2", "rd2", "wfifo2", "rfifo2", "irq1", "irq2", "cdev1", "cdev2"}

\* The place of a step among the eighteen.
Place(s) ==
  CASE s = "enable" -> 1 [] s = "region0" -> 2 [] s = "region1" -> 3 [] s = "diag1" -> 4
    [] s = "diag2" -> 5 [] s = "chrdev" -> 6 [] s = "wr1" -> 7 [] s = "rd1" -> 8
    [] s = "wfifo1" -> 9 [] s = "rfifo1" -> 10 [] s = "wr2" -> 11 [] s = "rd2" -> 12
    [] s = "wfifo2" -> 13 [] s = "rfifo2" -> 14 [] s = "irq1" -> 15 [] s = "irq2" -> 16
    [] s = "cdev1" -> 17 [] s = "cdev2" -> 18

\* The steps, one by one.
LEMMA StepsAre ==
  /\ Len(Steps) = 18 /\ DOMAIN Steps = 1..18
  /\ Steps[1] = "enable" /\ Steps[2] = "region0" /\ Steps[3] = "region1"
  /\ Steps[4] = "diag1" /\ Steps[5] = "diag2" /\ Steps[6] = "chrdev"
  /\ Steps[7] = "wr1" /\ Steps[8] = "rd1" /\ Steps[9] = "wfifo1" /\ Steps[10] = "rfifo1"
  /\ Steps[11] = "wr2" /\ Steps[12] = "rd2" /\ Steps[13] = "wfifo2" /\ Steps[14] = "rfifo2"
  /\ Steps[15] = "irq1" /\ Steps[16] = "irq2" /\ Steps[17] = "cdev1" /\ Steps[18] = "cdev2"
<1>1. Steps = <<"enable", "region0", "region1", "diag1", "diag2", "chrdev">>
              \o <<"wr1", "rd1", "wfifo1", "rfifo1">> \o <<"wr2", "rd2", "wfifo2", "rfifo2">>
              \o <<"irq1", "irq2", "cdev1", "cdev2">>
  BY DEF Steps, DevInit
<1>. QED BY <1>1

\* No step comes twice.
LEMMA PlaceIs == \A i \in 1..18 : Place(Steps[i]) = i
<1>1. \A i \in 1..18 : i \in {1, 2, 3, 4, 5, 6, 7, 8, 9, 10, 11, 12, 13, 14, 15, 16, 17, 18}
  OBVIOUS
<1>. QED BY <1>1, StepsAre DEF Place

\* The steps are named once each; all but the two diagnoses hold something.
LEMMA StepIs ==
  /\ Range(Steps) = Step
  /\ Resource = Step \ {"diag1", "diag2"}
  /\ Head(Steps) = "enable"
<1>1. \A i \in 1..18 : Steps[i] \in Step
  BY StepsAre DEF Step
<1>2. \A s \in Step : \E i \in 1..18 : Steps[i] = s
  BY StepsAre DEF Step
<1>3. Range(Steps) = Step
  BY <1>1, <1>2, StepsAre DEF Range
<1>4. Head(Steps) = Steps[1]
  <2>1. Steps \in Seq(Step)
    <3>1. Steps = <<"enable", "region0", "region1", "diag1", "diag2", "chrdev">>
                  \o <<"wr1", "rd1", "wfifo1", "rfifo1">> \o <<"wr2", "rd2", "wfifo2", "rfifo2">>
                  \o <<"irq1", "irq2", "cdev1", "cdev2">>
      BY DEF Steps, DevInit
    <3>. QED BY <3>1 DEF Step
  <2>. QED BY <2>1
<1>. QED BY <1>3, <1>4, StepsAre DEF Resource

\* What device_init allocates for each of the two devices.
LEMMA BuffersAre ==
  /\ Buffers(1) = {"wr1", "rd1", "wfifo1", "rfifo1"}
  /\ Buffers(2) = {"wr2", "rd2", "wfifo2", "rfifo2"}
BY DEF Buffers, DevInit, Range

\* The step after each.
LEMMA AfterIs ==
  /\ After("enable") = "region0" /\ After("region0") = "region1" /\ After("region1") = "diag1"
  /\ After("diag1") = "diag2" /\ After("diag2") = "chrdev" /\ After("chrdev") = "wr1"
  /\ After("wr1") = "rd1" /\ After("rd1") = "wfifo1" /\ After("wfifo1") = "rfifo1"
  /\ After("rfifo1") = "wr2" /\ After("wr2") = "rd2" /\ After("rd2") = "wfifo2"
  /\ After("wfifo2") = "rfifo2" /\ After("rfifo2") = "irq1" /\ After("irq1") = "irq2"
  /\ After("irq2") = "cdev1" /\ After("cdev1") = "cdev2" /\ After("cdev2") = "bound"
<1>1. ASSUME NEW i \in 1..18
      PROVE  After(Steps[i]) = IF i = 18 THEN "bound" ELSE Steps[i + 1]
  <2>1. (CHOOSE k \in DOMAIN Steps : Steps[k] = Steps[i]) = i
    BY StepsAre, PlaceIs
  <2>. QED BY <2>1, StepsAre DEF After
<1>. QED BY <1>1, StepsAre

\* What probe holds besides the buffers when it comes to a step.
Owned(step) ==
  LET cards == {"enable", "region0", "region1"}
  IN CASE step = "enable" -> {}
       [] step = "region0" -> {"enable"}
       [] step = "region1" -> {"enable", "region0"}
       [] step \in {"diag1", "diag2", "chrdev"} -> cards
       [] step \in Buffers(1) \cup Buffers(2) \cup {"irq1"} -> cards \cup {"chrdev"}
       [] step = "irq2" -> cards \cup {"chrdev", "irq1"}
       [] step = "cdev1" -> cards \cup {"chrdev", "irq1", "irq2"}
       [] step = "cdev2" -> cards \cup {"chrdev", "irq1", "irq2", "cdev1"}
       [] step = "bound" -> cards \cup {"chrdev", "irq1", "irq2", "cdev1", "cdev2"}

\* What pci_dev_init has allocated when it comes to a step.
Allocated(step) ==
  CASE step = "rd1" -> {"wr1"}
    [] step = "rd2" -> {"wr2"}
    [] step = "wfifo1" -> {"wr1", "rd1"}
    [] step = "wfifo2" -> {"wr2", "rd2"}
    [] step = "rfifo1" -> {"wr1", "rd1", "wfifo1"}
    [] step = "rfifo2" -> {"wr2", "rd2", "wfifo2"}
    [] OTHER -> {}

Distinct(s) == \A i, j \in DOMAIN s : s[i] = s[j] => i = j

\* Putting sequences together.
LEMMA ConcatIs ==
  ASSUME NEW S, NEW s \in Seq(S), NEW t \in Seq(S)
  PROVE  /\ s \o t \in Seq(S)
         /\ Range(s \o t) = Range(s) \cup Range(t)
         /\ Distinct(s) /\ Distinct(t) /\ Range(s) \cap Range(t) = {} => Distinct(s \o t)
<1> DEFINE c == s \o t
           m == Len(s)
           n == Len(t)
<1>1. /\ m \in Nat /\ n \in Nat /\ DOMAIN s = 1..m /\ DOMAIN t = 1..n
      /\ c \in Seq(S) /\ Len(c) = m + n
      /\ \A i \in 1..m + n : c[i] = IF i <= m THEN s[i] ELSE t[i - m]
  BY LenProperties, ConcatProperties
<1>2. DOMAIN c = 1..m + n
  BY <1>1, LenProperties
<1> HIDE DEF c, m, n
<1>3. ASSUME NEW x \in Range(s) PROVE x \in Range(c)
  BY <1>1, <1>2, <1>3 DEF Range
<1>4. ASSUME NEW x \in Range(t) PROVE x \in Range(c)
  <2>1. PICK i \in 1..n : t[i] = x
    BY <1>1, <1>4 DEF Range
  <2>2. i + m \in 1..m + n /\ ~(i + m <= m) /\ (i + m) - m = i
    BY <1>1, <2>1
  <2>3. c[i + m] = t[(i + m) - m]
    BY <1>1, <2>2
  <2>4. c[i + m] = x
    BY <2>1, <2>2, <2>3
  <2>. QED BY <1>2, <2>2, <2>4 DEF Range
<1>5. ASSUME NEW x \in Range(c) PROVE x \in Range(s) \cup Range(t)
  <2>1. PICK i \in 1..m + n : c[i] = x
    BY <1>1, <1>2, <1>5 DEF Range
  <2>2. CASE i <= m
    <3>1. i \in 1..m /\ x = s[i]
      BY <1>1, <2>1, <2>2
    <3>. QED BY <1>1, <3>1 DEF Range
  <2>3. CASE ~(i <= m)
    <3>1. i - m \in 1..n /\ x = t[i - m]
      BY <1>1, <2>1, <2>3
    <3>. QED BY <1>1, <3>1 DEF Range
  <2>. QED BY <2>2, <2>3
<1>6. ASSUME Distinct(s), Distinct(t), Range(s) \cap Range(t) = {},
             NEW i \in 1..m + n, NEW j \in 1..m + n, c[i] = c[j]
      PROVE  i = j
  <2>1. CASE i <= m /\ j <= m
    <3>1. i \in 1..m /\ j \in 1..m /\ s[i] = s[j]
      BY <1>1, <1>6, <2>1
    <3>. QED BY <1>1, <1>6, <3>1 DEF Distinct
  <2>2. CASE ~(i <= m) /\ ~(j <= m)
    <3>1. i - m \in 1..n /\ j - m \in 1..n /\ t[i - m] = t[j - m]
      BY <1>1, <1>6, <2>2
    <3>2. i - m = j - m
      BY <1>1, <1>6, <3>1 DEF Distinct
    <3>. QED BY <1>1, <3>2
  <2>3. CASE i <= m /\ ~(j <= m)
    <3>1. i \in 1..m /\ j - m \in 1..n /\ s[i] = t[j - m]
      BY <1>1, <1>6, <2>3
    <3>. QED BY <1>1, <1>6, <3>1 DEF Range
  <2>4. CASE ~(i <= m) /\ j <= m
    <3>1. j \in 1..m /\ i - m \in 1..n /\ s[j] = t[i - m]
      BY <1>1, <1>6, <2>4
    <3>. QED BY <1>1, <1>6, <3>1 DEF Range
  <2>. QED BY <2>1, <2>2, <2>3, <2>4
<1>7. Range(c) = Range(s) \cup Range(t)
  BY <1>3, <1>4, <1>5
<1>8. Distinct(s) /\ Distinct(t) /\ Range(s) \cap Range(t) = {} => Distinct(c)
  BY <1>2, <1>6 DEF Distinct
<1>. QED BY <1>1, <1>7, <1>8 DEF c
\* The short sequences that the ways back are made of.
LEMMA ShortAre ==
  /\ \A a \in Resource :
       <<a>> \in Seq(Resource) /\ Range(<<a>>) = {a} /\ Distinct(<<a>>)
  /\ \A a, b \in Resource : a # b =>
       <<a, b>> \in Seq(Resource) /\ Range(<<a, b>>) = {a, b} /\ Distinct(<<a, b>>)
  /\ \A a, b, c \in Resource : a # b /\ a # c /\ b # c =>
       /\ <<a, b, c>> \in Seq(Resource) /\ Range(<<a, b, c>>) = {a, b, c}
       /\ Distinct(<<a, b, c>>)
  /\ <<>> \in Seq(Resource) /\ Range(<<>>) = {} /\ Distinct(<<>>)
BY DEF Range, Distinct

\* What probe undoes is what it holds, each thing once; region 0 stays when region 1 is
\* busy.
LEMMA RollbackIs ==
  ASSUME NEW step \in Step
  PROVE  /\ Rollback(step) \in Seq(Resource) /\ Distinct(Rollback(step))
         /\ Range(Rollback(step)) = Allocated(step)
              \cup (Owned(step) \ IF step = "region1" THEN {"region0"} ELSE {})
<1> DEFINE Undoes(s, set) == s \in Seq(Resource) /\ Distinct(s) /\ Range(s) = set
<1>1. {"enable", "region0", "region1", "chrdev", "irq1", "irq2", "cdev1", "wr1", "rd1", "wfifo1",
       "wr2", "rd2", "wfifo2"} \subseteq Resource
  BY StepIs DEF Step
<1>2. ASSUME NEW s, NEW t, NEW x, NEW y, Undoes(s, x), Undoes(t, y), x \cap y = {}
      PROVE  Undoes(s \o t, x \cup y)
  BY <1>2, ConcatIs
<1>3. Undoes(Regions, {"region0", "region1", "enable"}) /\ Undoes(<<>>, {})
  BY <1>1, ShortAre DEF Regions
<1>4. CASE step \in {"enable", "region0", "region1"}
  <2>1. Rollback(step) = IF step = "enable" THEN <<>> ELSE <<"enable">>
    BY <1>4, BuffersAre DEF Rollback
  <2>2. Allocated(step) = {}
    BY <1>4 DEF Allocated
  <2>3. Owned(step) \ (IF step = "region1" THEN {"region0"} ELSE {})
          = IF step = "enable" THEN {} ELSE {"enable"}
    BY <1>4, BuffersAre DEF Owned
  <2>. QED BY <1>1, <1>4, <2>1, <2>2, <2>3, ShortAre
<1>5. CASE step \in {"diag1", "diag2", "chrdev"}
  <2>1. Rollback(step) = Regions /\ Allocated(step) = {}
        /\ Owned(step) = {"region0", "region1", "enable"}
    BY <1>5, BuffersAre DEF Rollback, Allocated, Owned
  <2>. QED BY <1>3, <1>5, <2>1
<1>6. CASE step \in Buffers(1) \cup Buffers(2) \cup {"irq1"}
  <2>1. Rollback(step) = UndoInit(step) \o <<"chrdev">> \o Regions
    BY <1>6, BuffersAre DEF Rollback
  <2>2. Owned(step) = {"chrdev", "region0", "region1", "enable"}
    BY <1>6, BuffersAre DEF Owned
  <2>3. Undoes(UndoInit(step), Allocated(step))
    <3>1. CASE step \in {"wr1", "wr2", "irq1"}
      BY <1>3, <3>1 DEF UndoInit, Allocated
    <3>2. CASE step = "rd1"
      BY <1>1, <3>2, ShortAre DEF UndoInit, Allocated
    <3>3. CASE step = "rd2"
      BY <1>1, <3>3, ShortAre DEF UndoInit, Allocated
    <3>4. CASE step = "wfifo1"
      BY <1>1, <3>4, ShortAre DEF UndoInit, Allocated
    <3>5. CASE step = "wfifo2"
      BY <1>1, <3>5, ShortAre DEF UndoInit, Allocated
    <3>6. CASE step = "rfifo1"
      <4>1. UndoInit(step) = <<"wfifo1", "wr1", "rd1">> /\ Allocated(step) = {"wfifo1", "wr1", "rd1"}
        BY <3>6 DEF UndoInit, Allocated
      <4>. QED BY <1>1, <4>1, ShortAre
    <3>7. CASE step = "rfifo2"
      <4>1. UndoInit(step) = <<"wfifo2", "wr2", "rd2">> /\ Allocated(step) = {"wfifo2", "wr2", "rd2"}
        BY <3>7 DEF UndoInit, Allocated
      <4>. QED BY <1>1, <4>1, ShortAre
    <3>. QED BY <1>6, <3>1, <3>2, <3>3, <3>4, <3>5, <3>6, <3>7, BuffersAre
  <2>4. Allocated(step) \subseteq Buffers(1) \cup Buffers(2)
    BY <1>6, BuffersAre DEF Allocated
  <2>5. Undoes(UndoInit(step) \o <<"chrdev">>, Allocated(step) \cup {"chrdev"})
    <3>1. Undoes(<<"chrdev">>, {"chrdev"})
      BY <1>1, ShortAre
    <3>2. Allocated(step) \cap {"chrdev"} = {}
      BY <2>4, BuffersAre
    <3> HIDE DEF Undoes
    <3>. QED BY <1>2, <2>3, <3>1, <3>2
  <2>6. Undoes(UndoInit(step) \o <<"chrdev">> \o Regions,
               Allocated(step) \cup {"chrdev"} \cup {"region0", "region1", "enable"})
    <3>1. (Allocated(step) \cup {"chrdev"}) \cap {"region0", "region1", "enable"} = {}
      BY <2>4, BuffersAre
    <3> HIDE DEF Undoes
    <3>. QED BY <1>2, <1>3, <2>5, <3>1
  <2>7. /\ Undoes(Rollback(step), Allocated(step) \cup {"chrdev"} \cup {"region0", "region1", "enable"})
        /\ step # "region1"
    BY <1>6, <2>1, <2>6, BuffersAre
  <2>. QED BY <2>2, <2>7
<1>7. ASSUME NEW s, NEW x, Undoes(s, x), x \cap {"region0", "region1", "enable"} = {},
             Rollback(step) = s \o Regions, Allocated(step) = {}, step # "region1",
             Owned(step) = x \cup {"region0", "region1", "enable"}
      PROVE  /\ Rollback(step) \in Seq(Resource) /\ Distinct(Rollback(step))
             /\ Range(Rollback(step)) = Allocated(step)
                  \cup (Owned(step) \ IF step = "region1" THEN {"region0"} ELSE {})
  <2>1. Undoes(s \o Regions, x \cup {"region0", "region1", "enable"})
    <3> HIDE DEF Undoes
    <3>. QED BY <1>2, <1>3, <1>7
  <2>. QED BY <1>7, <2>1
<1>8. CASE step = "irq2"
  <2>1. Undoes(<<"irq1", "chrdev">>, {"irq1", "chrdev"})
    BY <1>1, ShortAre
  <2>2. /\ Rollback(step) = <<"irq1", "chrdev">> \o Regions /\ Allocated(step) = {}
        /\ Owned(step) = {"irq1", "chrdev"} \cup {"region0", "region1", "enable"}
    BY <1>8, BuffersAre DEF Rollback, Allocated, Owned
  <2> HIDE DEF Undoes
  <2>. QED BY <1>7, <1>8, <2>1, <2>2
<1>9. CASE step = "cdev1"
  <2>1. Undoes(<<"irq1", "irq2", "chrdev">>, {"irq1", "irq2", "chrdev"})
    BY <1>1, ShortAre
  <2>2. /\ Rollback(step) = <<"irq1", "irq2", "chrdev">> \o Regions /\ Allocated(step) = {}
        /\ Owned(step) = {"irq1", "irq2", "chrdev"} \cup {"region0", "region1", "enable"}
    BY <1>9, BuffersAre DEF Rollback, Allocated, Owned
  <2> HIDE DEF Undoes
  <2>. QED BY <1>7, <1>9, <2>1, <2>2
<1>10. CASE step = "cdev2"
  <2>1. Undoes(<<"irq1", "irq2", "chrdev", "cdev1">>, {"irq1", "irq2", "chrdev", "cdev1"})
    BY <1>1 DEF Range, Distinct
  <2>2. /\ Rollback(step) = <<"irq1", "irq2", "chrdev", "cdev1">> \o Regions
        /\ Allocated(step) = {}
        /\ Owned(step) = {"irq1", "irq2", "chrdev", "cdev1"} \cup {"region0", "region1", "enable"}
    BY <1>10, BuffersAre DEF Rollback, Allocated, Owned
  <2> HIDE DEF Undoes
  <2>3. {"irq1", "irq2", "chrdev", "cdev1"} \cap {"region0", "region1", "enable"} = {}
    OBVIOUS
  <2>. QED BY <1>7, <1>10, <2>1, <2>2, <2>3
<1>. QED BY <1>4, <1>5, <1>6, <1>8, <1>9, <1>10, BuffersAre DEF Step

\* remove gives back what a bound device holds, but the buffers.
LEMMA RemoveIs ==
  /\ RemoveAll \in Seq(Resource) /\ Distinct(RemoveAll)
  /\ Range(RemoveAll) = Owned("bound")
<1> DEFINE s == <<"irq1", "irq2", "chrdev", "cdev1", "cdev2">>
<1>1. s \in Seq(Resource) /\ Range(s) = {"irq1", "irq2", "chrdev", "cdev1", "cdev2"} /\ Distinct(s)
  BY StepIs DEF Step, Range, Distinct
<1>2. /\ Regions \in Seq(Resource) /\ Range(Regions) = {"region0", "region1", "enable"}
      /\ Distinct(Regions)
  BY StepIs, ShortAre DEF Regions, Step
<1>3. RemoveAll = s \o Regions
  BY DEF RemoveAll
<1>4. Owned("bound") = {"irq1", "irq2", "chrdev", "cdev1", "cdev2", "region0", "region1", "enable"}
  BY BuffersAre DEF Owned
<1>5. Range(s) \cap Range(Regions) = {}
  BY <1>1, <1>2
<1> HIDE DEF s
<1>6. s \o Regions \in Seq(Resource) /\ Range(s \o Regions) = Range(s) \cup Range(Regions)
      /\ Distinct(s \o Regions)
  BY <1>1, <1>2, <1>5, ConcatIs
<1>. QED BY <1>1, <1>2, <1>3, <1>4, <1>6

-----------------------------------------------------------------------------
(* Uart: what probe holds, at every step and on every way back.            *)

\* All of a device's buffers, or none.
Whole(H, d) == Buffers(d) \subseteq H \/ Buffers(d) \cap H = {}

\* What the driver may be left with.
Left(H) ==
  /\ H \ (Buffers(1) \cup Buffers(2)) = IF failed = "region1" THEN {"region0"} ELSE {}
  /\ \A d \in Device : Whole(H, d)

\* The types of what the probe uses.
ProbeTypes ==
  /\ driver \in BOOLEAN
  /\ probe \in Step \cup {"none", "undo", "remove", "bound"}
  /\ undo \in Seq(Resource)
  /\ held \subseteq Resource
  /\ failed \in Step \cup {"no"}
  /\ diag \in -1..Bytes - 1

\* At a step it has what the steps before have acquired, and buffers of an earlier
\* binding or all of a device's; inside pci_dev_init a part of them.
Acquired ==
  probe \in Step \cup {"bound"} =>
    /\ held \ (Buffers(1) \cup Buffers(2)) = Owned(probe)
    /\ \A d \in Device :
         IF probe \in Buffers(d) /\ probe \notin {"wr1", "wr2"}
         THEN held \cap Buffers(d) = Allocated(probe)
         ELSE Whole(held, d)
    /\ probe \in Buffers(2) \cup {"irq1", "irq2", "cdev1", "cdev2", "bound"} => Buffers(1) \subseteq held
    /\ probe \in {"irq1", "irq2", "cdev1", "cdev2", "bound"} => Buffers(2) \subseteq held

\* On the way back everything to be released is held, once, and the rest may stay; a
\* live device keeps its buffers.
Undoing ==
  /\ probe \in {"undo", "remove"} =>
       /\ Range(undo) \subseteq held /\ Distinct(undo) /\ Left(held \ Range(undo))
       /\ \A d \in Device : Cdev(d) \in held =>
            Buffers(d) \subseteq held /\ Buffers(d) \cap Range(undo) = {}
  /\ probe \notin {"undo", "remove"} => undo = <<>>

\* A failed probe is undone, and the driver is unregistered after it.
Outcome ==
  /\ probe = "none" => Left(held)
  /\ failed # "no" => probe = "undo" \/ (probe = "none" /\ ~driver)
  /\ probe = "undo" => failed # "no"

\* The inductive invariant of the probe,
ProbeInv == ProbeTypes /\ Acquired /\ Undoing /\ Outcome

\* What an acquired step adds.
LEMMA AcquiredAdds ==
  ASSUME NEW s \in Resource
  PROVE  /\ s \in Step /\ After(s) \in Step \cup {"bound"}
         /\ s \notin Buffers(1) \cup Buffers(2) =>
              /\ Owned(After(s)) = Owned(s) \cup {s}
              /\ After(s) \notin (Buffers(1) \cup Buffers(2)) \ {"wr1"}
         /\ s \in Buffers(1) \cup Buffers(2) => Owned(After(s)) = Owned(s)
<1> USE StepIs, BuffersAre, AfterIs
<1>1. s \in Step
  BY DEF Step
<1>2. After(s) \in Step \cup {"bound"}
  BY <1>1 DEF Step
<1>3. CASE s \in {"enable", "region0", "region1"}
  BY <1>1, <1>2, <1>3 DEF Owned
<1>4. CASE s \in {"chrdev"}
  BY <1>1, <1>2, <1>4 DEF Owned
<1>5. CASE s \in {"irq1", "irq2", "cdev1", "cdev2"}
  BY <1>1, <1>2, <1>5 DEF Owned
<1>6. CASE s \in Buffers(1) \cup Buffers(2)
  BY <1>1, <1>2, <1>6 DEF Owned
<1>. QED BY <1>1, <1>3, <1>4, <1>5, <1>6 DEF Step

\* A step of probe succeeds.
LEMMA AcquireKeeps == ProbeInv /\ Acquire => ProbeInv'
<1> SUFFICES ASSUME ProbeInv, Acquire PROVE ProbeInv'
  OBVIOUS
<1> DEFINE all == Buffers(1) \cup Buffers(2)
<1>1. /\ probe \in Resource /\ probe \in Step /\ probe' = After(probe)
      /\ probe' \in Step \cup {"bound"}
      /\ held' = Kept(probe) \cup {probe} /\ diag' = -1
      /\ driver' = driver /\ undo' = undo /\ failed' = failed
  BY AcquiredAdds DEF Acquire
<1>2. ProbeTypes'
  <2>1. held' \subseteq Resource
    BY <1>1 DEF Kept, ProbeInv, ProbeTypes
  <2>2. diag' \in -1..Bytes - 1
    BY <1>1, UartAssumption
  <2>. QED BY <1>1, <2>1, <2>2 DEF ProbeInv, ProbeTypes
<1>3. /\ held \ all = Owned(probe)
      /\ \A d \in Device :
           IF probe \in Buffers(d) /\ probe \notin {"wr1", "wr2"}
           THEN held \cap Buffers(d) = Allocated(probe)
           ELSE Whole(held, d)
      /\ probe \in Buffers(2) \cup {"irq1", "irq2", "cdev1", "cdev2", "bound"} => Buffers(1) \subseteq held
      /\ probe \in {"irq1", "irq2", "cdev1", "cdev2", "bound"} => Buffers(2) \subseteq held
  BY <1>1 DEF ProbeInv, Acquired
<1>4. held' \ all = Owned(probe')
  <2>1. CASE probe \in all
    BY <1>1, <1>3, <2>1, AcquiredAdds DEF Kept
  <2>2. CASE probe \notin all
    BY <1>1, <1>3, <2>2, AcquiredAdds, BuffersAre DEF Kept
  <2>. QED BY <2>1, <2>2
<1>5. CASE probe \notin all
  <2>1. held' = held \cup {probe}
    BY <1>1, <1>5, BuffersAre DEF Kept
  <2>2. \A d \in Device : Whole(held, d) /\ Whole(held', d)
    BY <1>3, <1>5, <2>1 DEF Device, Whole
  <2>3. probe' \notin all \ {"wr1"}
    BY <1>1, <1>5, AcquiredAdds
  <2>4. probe' \in {"irq1", "irq2", "cdev1", "cdev2", "bound"} =>
          probe \in {"irq1", "irq2", "cdev1", "cdev2"}
    BY <1>1, <1>5, StepIs, BuffersAre, AfterIs DEF Step
  <2>5. \A d \in Device : ~(probe' \in Buffers(d) /\ probe' \notin {"wr1", "wr2"})
    BY <2>3 DEF Device
  <2>6. Acquired'
    BY <1>3, <1>4, <2>1, <2>2, <2>3, <2>4, <2>5, BuffersAre DEF Acquired
  <2>. QED BY <1>1, <1>2, <2>6 DEF ProbeInv, Undoing, Outcome, Step
<1>6. CASE probe \in Buffers(1)
  <2>1. held' \cap Buffers(2) = held \cap Buffers(2) /\ Whole(held', 2)
    BY <1>1, <1>3, <1>6, BuffersAre DEF Kept, Whole, Device
  <2>2. Kept(probe) \cap Buffers(1) = Allocated(probe)
    <3>1. CASE probe = "wr1"
      BY <3>1 DEF Kept, Allocated
    <3>2. CASE probe # "wr1"
      BY <1>3, <1>6, <3>2, BuffersAre DEF Kept, Device
    <3>. QED BY <3>1, <3>2
  <2>3. held' \cap Buffers(1) = Allocated(probe) \cup {probe}
    BY <1>1, <1>6, <2>2
  <2>4. CASE probe = "rfifo1"
    <3>1. probe' = "wr2" /\ Buffers(1) \subseteq held'
      BY <1>1, <2>3, <2>4, AfterIs, BuffersAre DEF Allocated
    <3>2. Acquired'
      BY <1>4, <2>1, <3>1, BuffersAre DEF Acquired, Whole, Device
    <3>. QED BY <1>1, <1>2, <3>1, <3>2 DEF ProbeInv, Undoing, Outcome, Step
  <2>5. CASE probe # "rfifo1"
    <3>1. probe' \in Buffers(1) \ {"wr1"} /\ held' \cap Buffers(1) = Allocated(probe')
      BY <1>1, <1>6, <2>3, <2>5, AfterIs, BuffersAre DEF Allocated
    <3>2. Acquired'
      BY <1>4, <2>1, <3>1, BuffersAre DEF Acquired, Device
    <3>. QED BY <1>1, <1>2, <3>1, <3>2 DEF ProbeInv, Undoing, Outcome, Step
  <2>. QED BY <2>4, <2>5
<1>7. CASE probe \in Buffers(2)
  <2>1. held' \cap Buffers(1) = held \cap Buffers(1) /\ Buffers(1) \subseteq held'
    BY <1>1, <1>3, <1>7, BuffersAre DEF Kept, Whole, Device
  <2>2. Kept(probe) \cap Buffers(2) = Allocated(probe)
    <3>1. CASE probe = "wr2"
      BY <3>1 DEF Kept, Allocated
    <3>2. CASE probe # "wr2"
      BY <1>3, <1>7, <3>2, BuffersAre DEF Kept, Device
    <3>. QED BY <3>1, <3>2
  <2>3. held' \cap Buffers(2) = Allocated(probe) \cup {probe}
    BY <1>1, <1>7, <2>2
  <2>4. CASE probe = "rfifo2"
    <3>1. probe' = "irq1" /\ Buffers(2) \subseteq held'
      BY <1>1, <2>3, <2>4, AfterIs, BuffersAre DEF Allocated
    <3>2. Acquired'
      BY <1>4, <2>1, <3>1, BuffersAre DEF Acquired, Whole, Device
    <3>. QED BY <1>1, <1>2, <3>1, <3>2 DEF ProbeInv, Undoing, Outcome, Step
  <2>5. CASE probe # "rfifo2"
    <3>1. probe' \in Buffers(2) \ {"wr2"} /\ held' \cap Buffers(2) = Allocated(probe')
      BY <1>1, <1>7, <2>3, <2>5, AfterIs, BuffersAre DEF Allocated
    <3>2. Acquired'
      BY <1>4, <2>1, <3>1, BuffersAre DEF Acquired, Device, Whole
    <3>. QED BY <1>1, <1>2, <3>1, <3>2 DEF ProbeInv, Undoing, Outcome, Step
  <2>. QED BY <2>4, <2>5
<1>. QED BY <1>5, <1>6, <1>7

\* A step of probe fails: what it undoes is held, and what stays may stay.
LEMMA FailsKeeps == ProbeInv /\ probe \in Step /\ Fails => ProbeInv'
<1> SUFFICES ASSUME ProbeInv, probe \in Step, Fails PROVE ProbeInv'
  OBVIOUS
<1> DEFINE all == Buffers(1) \cup Buffers(2)
           gone == Range(undo')
<1>1. /\ probe' = "undo" /\ failed' = probe /\ undo' = Rollback(probe) /\ held' = Kept(probe)
      /\ driver' = driver /\ diag' = diag
  BY DEF Fails
<1>2. /\ undo' \in Seq(Resource) /\ Distinct(undo')
      /\ gone = Allocated(probe) \cup (Owned(probe) \ IF probe = "region1" THEN {"region0"} ELSE {})
  BY <1>1, RollbackIs
<1>3. ProbeTypes'
  <2>1. held' \subseteq Resource
    BY <1>1 DEF Kept, ProbeInv, ProbeTypes
  <2>. QED BY <1>1, <1>2, <2>1 DEF ProbeInv, ProbeTypes
<1>4. /\ held \ all = Owned(probe)
      /\ \A d \in Device :
           IF probe \in Buffers(d) /\ probe \notin {"wr1", "wr2"}
           THEN held \cap Buffers(d) = Allocated(probe)
           ELSE Whole(held, d)
      /\ probe = "cdev2" => Buffers(1) \subseteq held
  BY DEF ProbeInv, Acquired
<1>5. held' \ all = Owned(probe)
  BY <1>1, <1>4 DEF Kept
<1>6. Allocated(probe) \subseteq all /\ Owned(probe) \cap all = {}
  BY <1>4, BuffersAre DEF Allocated
<1>7. (held' \ gone) \ all = IF failed' = "region1" THEN {"region0"} ELSE {}
  <2>1. (held' \ gone) \ all = Owned(probe) \ gone
    BY <1>5
  <2>2. Owned(probe) \ gone = Owned(probe) \cap IF probe = "region1" THEN {"region0"} ELSE {}
    BY <1>2, <1>6
  <2>3. probe = "region1" => Owned(probe) = {"enable", "region0"}
    BY BuffersAre DEF Owned
  <2>. QED BY <1>1, <2>1, <2>2, <2>3
<1>8. ASSUME NEW d \in Device
      PROVE  gone \cap Buffers(d) \subseteq held' /\ Whole(held' \ gone, d)
  <2>1. CASE probe \notin Buffers(d)
    <3>1. Whole(held, d) /\ held' \cap Buffers(d) = held \cap Buffers(d)
      BY <1>1, <1>4, <2>1, BuffersAre DEF Kept, Device
    <3>2. gone \cap Buffers(d) = {}
      <4>1. Allocated(probe) \cap Buffers(d) = {}
        BY <2>1, BuffersAre DEF Allocated, Device
      <4>. QED BY <1>2, <1>6, <4>1 DEF Device
    <3>. QED BY <3>1, <3>2 DEF Whole
  <2>2. CASE probe \in Buffers(d)
    <3>1. held' \cap Buffers(d) = Allocated(probe)
      <4>1. CASE probe \in {"wr1", "wr2"}
        BY <1>1, <2>2, <4>1, BuffersAre DEF Kept, Allocated, Device
      <4>2. CASE probe \notin {"wr1", "wr2"}
        BY <1>1, <1>4, <2>2, <4>2 DEF Kept
      <4>. QED BY <4>1, <4>2
    <3>2. gone \cap Buffers(d) = Allocated(probe)
      <4>1. Allocated(probe) \subseteq Buffers(d)
        BY <2>2, BuffersAre DEF Allocated, Device
      <4>. QED BY <1>2, <1>6, <4>1 DEF Device
    <3>. QED BY <3>1, <3>2 DEF Whole
  <2>. QED BY <2>1, <2>2
<1>9. gone \subseteq held'
  <2>1. gone \ all \subseteq held'
    BY <1>2, <1>5, <1>6
  <2>. QED BY <1>8, <2>1 DEF Device
<1>10. ASSUME NEW d \in Device, Cdev(d) \in held'
       PROVE  Buffers(d) \subseteq held' /\ Buffers(d) \cap gone = {}
  <2>1. Cdev(d) \in Owned(probe) /\ Cdev(d) \in {"cdev1", "cdev2"}
    BY <1>5, <1>10, BuffersAre DEF Cdev, Device
  <2>2. probe = "cdev2" /\ d = 1
    BY <2>1, BuffersAre DEF Owned, Step, Cdev, Device
  <2>3. held' = held
    BY <1>1, <2>2 DEF Kept
  <2>4. Allocated(probe) = {}
    BY <2>2 DEF Allocated
  <2>. QED BY <1>2, <1>4, <1>6, <2>2, <2>3, <2>4
<1>11. Undoing'
  <2>1. Left(held \ Range(undo))'
    BY <1>7, <1>8 DEF Left
  <2>. QED BY <1>1, <1>2, <1>9, <1>10, <2>1 DEF Undoing
<1>12. Acquired' /\ Outcome'
  BY <1>1 DEF Acquired, Outcome, Step
<1>. QED BY <1>3, <1>11, <1>12 DEF ProbeInv

\* The diagnosis reads a byte, or is over.
LEMMA ReadyKeeps == ProbeInv /\ Ready => ProbeInv'
<1> SUFFICES ASSUME ProbeInv, Ready PROVE ProbeInv'
  OBVIOUS
<1>1. /\ probe \in {"diag1", "diag2"} /\ probe \in Step
      /\ driver' = driver /\ undo' = undo /\ held' = held /\ failed' = failed
  BY DEF Ready, Diagnosing, Step
<1>2. \/ diag' = -1 /\ probe' = After(probe) /\ probe' \in {"diag2", "chrdev"}
      \/ diag + 1 # Bytes /\ diag' = diag + 1 /\ probe' = probe
  BY <1>1, AfterIs DEF Ready, ByteCounted
<1>3. diag' \in -1..Bytes - 1
  BY <1>2, UartAssumption DEF ProbeInv, ProbeTypes
<1>4. ProbeTypes'
  BY <1>1, <1>2, <1>3 DEF ProbeInv, ProbeTypes, Step
<1>5. Owned(probe') = Owned(probe)
  BY <1>1, <1>2, BuffersAre DEF Owned
<1>6. Acquired'
  BY <1>1, <1>2, <1>5, BuffersAre DEF ProbeInv, Acquired, Device, Whole, Step
<1>7. Undoing' /\ Outcome'
  BY <1>1, <1>2 DEF ProbeInv, Undoing, Outcome, Step
<1>. QED BY <1>4, <1>6, <1>7 DEF ProbeInv

\* One thing is released.
LEMMA ReleaseKeeps == ProbeInv /\ Release => ProbeInv'
<1> SUFFICES ASSUME ProbeInv, Release PROVE ProbeInv'
  OBVIOUS
<1>1. /\ probe \in {"undo", "remove"} /\ undo # <<>>
      /\ held' = held \ {Head(undo)} /\ undo' = Tail(undo)
      /\ driver' = driver /\ probe' = probe /\ failed' = failed /\ diag' = diag
  BY DEF Release
<1>2. /\ Range(undo) \subseteq held /\ Distinct(undo) /\ Left(held \ Range(undo))
      /\ \A d \in Device : Cdev(d) \in held =>
           Buffers(d) \subseteq held /\ Buffers(d) \cap Range(undo) = {}
  BY <1>1 DEF ProbeInv, Undoing
<1>3. undo \in Seq(Resource)
  BY DEF ProbeInv, ProbeTypes
<1>4. /\ Tail(undo) \in Seq(Resource) /\ Len(undo) \in Nat \ {0}
      /\ DOMAIN undo = 1..Len(undo) /\ DOMAIN Tail(undo) = 1..Len(undo) - 1
      /\ \A i \in 1..Len(undo) - 1 : Tail(undo)[i] = undo[i + 1]
      /\ Head(undo) = undo[1]
  BY <1>1, <1>3, HeadTailProperties, LenProperties, EmptySeq
<1>5. Range(undo) = Range(undo') \cup {Head(undo)}
  <2>1. ASSUME NEW x \in Range(undo') PROVE x \in Range(undo)
    <3>1. PICK i \in 1..Len(undo) - 1 : undo[i + 1] = x
      BY <1>1, <1>4, <2>1 DEF Range
    <3>2. i + 1 \in 1..Len(undo)
      BY <1>4
    <3>. QED BY <1>4, <3>1, <3>2 DEF Range
  <2>2. ASSUME NEW x \in Range(undo), x # Head(undo) PROVE x \in Range(undo')
    <3>1. PICK i \in 1..Len(undo) : undo[i] = x
      BY <1>4 DEF Range
    <3>2. i - 1 \in 1..Len(undo) - 1 /\ (i - 1) + 1 = i
      BY <1>4, <2>2, <3>1
    <3>3. Tail(undo)[i - 1] = x
      BY <1>4, <3>1, <3>2
    <3>. QED BY <1>1, <1>4, <3>2, <3>3 DEF Range
  <2>3. Head(undo) \in Range(undo)
    BY <1>4 DEF Range
  <2>. QED BY <2>1, <2>2, <2>3
<1>6. Head(undo) \notin Range(undo')
  <2> SUFFICES ASSUME NEW i \in 1..Len(undo) - 1, Tail(undo)[i] = Head(undo) PROVE FALSE
    BY <1>1, <1>4 DEF Range
  <2>1. i + 1 \in 1..Len(undo) /\ 1 \in 1..Len(undo) /\ undo[i + 1] = undo[1] /\ i + 1 # 1
    BY <1>4
  <2>. QED BY <1>2, <1>4, <2>1 DEF Distinct
<1>7. Distinct(undo')
  <2> SUFFICES ASSUME NEW i \in 1..Len(undo) - 1, NEW j \in 1..Len(undo) - 1,
                      Tail(undo)[i] = Tail(undo)[j]
               PROVE  i = j
    BY <1>1, <1>4 DEF Distinct
  <2>1. i + 1 \in 1..Len(undo) /\ j + 1 \in 1..Len(undo) /\ undo[i + 1] = undo[j + 1]
    BY <1>4
  <2>2. i + 1 = j + 1
    BY <1>2, <1>4, <2>1 DEF Distinct
  <2>. QED BY <1>4, <2>2
<1>8. Range(undo') \subseteq held' /\ held' \ Range(undo') = held \ Range(undo)
  BY <1>1, <1>2, <1>5, <1>6
<1>9. Left(held' \ Range(undo'))
  BY <1>2, <1>8
<1>10. Left(held \ Range(undo))'
  BY <1>1, <1>9 DEF Left, Whole
<1>11. \A d \in Device : Cdev(d) \in held' =>
         Buffers(d) \subseteq held' /\ Buffers(d) \cap Range(undo') = {}
  BY <1>1, <1>2, <1>5
<1>12. Undoing'
  BY <1>1, <1>7, <1>8, <1>10, <1>11 DEF Undoing
<1>13. ProbeTypes'
  BY <1>1, <1>4 DEF ProbeInv, ProbeTypes
<1>14. Acquired' /\ Outcome'
  BY <1>1 DEF ProbeInv, Acquired, Outcome, Step
<1>. QED BY <1>12, <1>13, <1>14 DEF ProbeInv

\* The way back ends.
LEMMA ReleaseEndsKeeps == ProbeInv /\ ReleaseEnds => ProbeInv'
<1> SUFFICES ASSUME ProbeInv, ReleaseEnds PROVE ProbeInv'
  OBVIOUS
<1>1. /\ probe \in {"undo", "remove"} /\ undo = <<>> /\ probe' = "none" /\ diag' = -1
      /\ driver' = (driver /\ probe = "remove")
      /\ undo' = undo /\ held' = held /\ failed' = failed
  BY DEF ReleaseEnds
<1>2. ProbeTypes'
  <2>1. driver' \in BOOLEAN
    BY <1>1
  <2>2. diag' \in -1..Bytes - 1
    BY <1>1, UartAssumption
  <2>. QED BY <1>1, <2>1, <2>2 DEF ProbeInv, ProbeTypes
<1>3. Range(undo) = {}
  BY <1>1 DEF Range
<1>4. Left(held)
  <2>1. Left(held \ Range(undo))
    BY <1>1 DEF ProbeInv, Undoing
  <2>2. held \ Range(undo) = held
    BY <1>3
  <2>. QED BY <2>1, <2>2
<1>5. Left(held)'
  BY <1>1, <1>4 DEF Left, Whole
<1>6. Acquired' /\ Undoing'
  BY <1>1 DEF Acquired, Undoing, Step
<1>7. failed # "no" => ~driver'
  BY <1>1 DEF ProbeInv, Outcome
<1>8. Outcome'
  BY <1>1, <1>5, <1>7 DEF Outcome
<1>. QED BY <1>2, <1>6, <1>8 DEF ProbeInv

\* The card or the module is taken out: what a bound driver holds is given back.
LEMMA RemoveKeeps ==
  ASSUME ProbeInv, probe = "bound", probe' = "remove", undo' = RemoveAll, driver' \in BOOLEAN,
         UNCHANGED <<held, failed, diag>>
  PROVE  ProbeInv'
<1> DEFINE all == Buffers(1) \cup Buffers(2)
<1>1. /\ undo' \in Seq(Resource) /\ Distinct(undo') /\ Range(undo') = Owned("bound")
  BY RemoveIs
<1>2. /\ held \ all = Owned("bound") /\ Buffers(1) \subseteq held /\ Buffers(2) \subseteq held
      /\ failed = "no"
  BY DEF ProbeInv, Acquired, Outcome
<1>3. (held' \ Range(undo')) \ all = {}
  BY <1>1, <1>2
<1>4. \A d \in Device : Buffers(d) \subseteq held' /\ Buffers(d) \cap Range(undo') = {}
  BY <1>1, <1>2 DEF Device
<1>5. Left(held \ Range(undo))'
  BY <1>2, <1>3, <1>4 DEF Left, Whole
<1>6. Undoing'
  BY <1>1, <1>2, <1>4, <1>5 DEF Undoing
<1>7. ProbeTypes' /\ Acquired' /\ Outcome'
  BY <1>1, <1>2 DEF ProbeInv, ProbeTypes, Acquired, Outcome, Step
<1>. QED BY <1>6, <1>7 DEF ProbeInv

\* Every step of the driver.
LEMMA ProbeStepKeeps == ProbeInv /\ DriverStep => ProbeInv'
<1> SUFFICES ASSUME ProbeInv, DriverStep PROVE ProbeInv'
  OBVIOUS
<1>1. CASE InitPci
  <2>1. /\ probe = "none" /\ probe' = "none" /\ failed = "no" /\ failed' = "no" /\ held' = {}
        /\ driver' = TRUE /\ undo' = undo /\ diag' = diag
    BY <1>1 DEF InitPci
  <2>2. Left(held)'
    BY <2>1 DEF Left, Whole
  <2>. QED BY <2>1, <2>2 DEF ProbeInv, ProbeTypes, Acquired, Undoing, Outcome, Step
<1>2. CASE PciProbe
  <2>1. /\ probe = "none" /\ probe' = "enable" /\ failed = "no" /\ failed' = "no" /\ held' = held
        /\ driver' = driver /\ undo' = undo /\ diag' = diag
    BY <1>2, StepIs DEF PciProbe, ProbeInv, Outcome
  <2>2. Left(held)
    BY <2>1 DEF ProbeInv, Outcome
  <2>3. Owned("enable") = {}
    BY BuffersAre DEF Owned
  <2>4. Acquired'
    BY <2>1, <2>2, <2>3, BuffersAre DEF Acquired, Left, Whole, Device
  <2>. QED BY <2>1, <2>4 DEF ProbeInv, ProbeTypes, Undoing, Outcome, Step
<1>3. CASE AcquireFails
  BY <1>3, FailsKeeps, StepIs DEF AcquireFails
<1>4. CASE LineError
  BY <1>4, FailsKeeps DEF LineError, Diagnosing, Step
<1>5. CASE PciRemove
  BY <1>5, RemoveKeeps DEF PciRemove, ProbeInv, ProbeTypes
<1>6. CASE ExitPci
  <2>1. driver' = FALSE /\ UNCHANGED <<held, failed, diag>>
    BY <1>6 DEF ExitPci
  <2>2. CASE probe = "bound"
    BY <1>6, <2>1, <2>2, RemoveKeeps DEF ExitPci
  <2>3. CASE probe # "bound"
    <3>1. probe = "none" /\ probe' = probe /\ undo' = undo
      BY <1>6, <2>3 DEF ExitPci
    <3>. QED BY <2>1, <3>1 DEF ProbeInv, ProbeTypes, Acquired, Undoing, Outcome, Left, Whole,
        Step
  <2>. QED BY <2>2, <2>3
<1>. QED BY <1>1, <1>2, <1>3, <1>4, <1>5, <1>6, AcquireKeeps, ReadyKeeps, ReleaseKeeps,
            ReleaseEndsKeeps DEF DriverStep

-----------------------------------------------------------------------------
(* Uart: the processes that open a device.                                 *)

OpenOps == {"test", "inc"} \X Counter

FileRecord == [pc : {"closed", "opening", "open"}, dev : Device, mode : Mode, todo : Seq(OpenOps),
               late : BOOLEAN, old : BOOLEAN]

\* Opening ends with the writers' counter; who is through with it has raised it since
\* the device was initialised; who came late finds it raised, and has still to test it.
FileOk(f) ==
  /\ f.pc = "opening" /\ f.todo # <<>> => f.todo[Len(f.todo)] = <<"inc", "w">>
  /\ f.mode # "rdonly" /\ ~f.old /\ (f.pc = "open" \/ (f.pc = "opening" /\ f.todo = <<>>)) =>
       count[f.dev]["w"] > 0
  /\ f.late =>
       /\ f.pc # "closed" /\ count[f.dev]["w"] > 0
       /\ f.mode # "rdonly" =>
            f.pc = "opening" /\ \E i \in 1..Len(f.todo) : f.todo[i] = <<"test", "w">>

\* and of the openers.
OpenInv ==
  /\ file \in [Opener -> FileRecord]
  /\ count \in [Device -> [Counter -> Nat]]
  /\ \A p \in Opener : FileOk(file[p])
  /\ ~driver /\ failed = "no" => \A p \in Opener : file[p].pc = "closed"

\* A closed file is as it should be, in this state and the next.
LEMMA ClosedIs ==
  /\ Closed \in FileRecord /\ FileOk(Closed) /\ FileOk(Closed)'
  /\ Closed.pc = "closed" /\ Closed.dev = 1 /\ ~Closed.late
<1>1. Closed \in FileRecord
  <2>1. <<>> \in Seq(OpenOps)
    BY EmptySeq
  <2>. QED BY <2>1 DEF Closed, FileRecord, Device, Mode
<1>. QED BY <1>1 DEF Closed, FileOk

\* A process whose file changes while no counter falls.
LEMMA FileKeeps ==
  ASSUME OpenInv, UNCHANGED driverVars, count' \in [Device -> [Counter -> Nat]],
         \A d \in Device : count'[d]["w"] >= count[d]["w"],
         NEW p \in Opener, NEW f \in FileRecord, file' = [file EXCEPT ![p] = f],
         FileOk(f)', ~driver /\ failed = "no" => f.pc = "closed"
  PROVE  OpenInv'
<1>1. file' \in [Opener -> FileRecord]
  BY DEF OpenInv
<1>2. ASSUME NEW q \in Opener PROVE FileOk(file[q])'
  <2>1. CASE q = p
    <3>1. file'[q] = f
      BY <2>1 DEF OpenInv
    <3>. QED BY <3>1 DEF FileOk
  <2>2. CASE q # p
    <3>1. file'[q] = file[q] /\ FileOk(file[q]) /\ file[q] \in FileRecord
      BY <2>2 DEF OpenInv
    <3>2. file[q].dev \in Device /\ count[file[q].dev]["w"] \in Nat
          /\ count'[file[q].dev]["w"] \in Nat /\ count'[file[q].dev]["w"] >= count[file[q].dev]["w"]
      BY <3>1 DEF FileRecord, OpenInv, Counter
    <3>3. count[file[q].dev]["w"] > 0 => count'[file[q].dev]["w"] > 0
      BY ONLY <3>2
    <3>. QED BY ONLY <3>1, <3>3 DEF FileOk
  <2>. QED BY <2>1, <2>2
<1>3. ~driver' /\ failed' = "no" => \A q \in Opener : file'[q].pc = "closed"
  BY DEF OpenInv, driverVars
<1>. QED BY <1>1, <1>2, <1>3 DEF OpenInv

\* A device is initialised again.
LEMMA ResetKeeps ==
  ASSUME OpenInv, NEW d \in Device, Reset(d)
  PROVE  /\ file' \in [Opener -> FileRecord]
         /\ count' \in [Device -> [Counter -> Nat]]
         /\ \A p \in Opener : FileOk(file[p])'
         /\ \A p \in Opener : file[p].pc = "closed" => file'[p].pc = "closed"
<1>1. /\ count' = [count EXCEPT ![d] = [c \in Counter |-> 0]]
      /\ \A p \in Opener :
           file'[p] = IF file[p].dev # d THEN file[p]
                      ELSE IF file[p].pc # "opening" THEN Closed
                      ELSE [file[p] EXCEPT !.late = FALSE, !.old = TRUE]
      /\ DOMAIN file' = Opener /\ file' = [p \in Opener |-> file'[p]]
  BY DEF Reset
<1>2. count' \in [Device -> [Counter -> Nat]]
  BY <1>1 DEF OpenInv
<1>3. ASSUME NEW p \in Opener
      PROVE  /\ file'[p] \in FileRecord /\ FileOk(file[p])'
             /\ file[p].pc = "closed" => file'[p].pc = "closed"
  <2>1. file[p] \in FileRecord /\ FileOk(file[p]) /\ file[p].dev \in Device
    BY DEF OpenInv, FileRecord
  <2>2. CASE file[p].dev # d
    <3>1. file'[p] = file[p] /\ count'[file[p].dev] = count[file[p].dev]
      BY <1>1, <2>1, <2>2 DEF OpenInv
    <3>. QED BY <2>1, <3>1 DEF FileOk
  <2>3. CASE file[p].dev = d /\ file[p].pc # "opening"
    <3>1. file'[p] = Closed
      BY <1>1, <2>3
    <3>2. FileOk(Closed)'
      BY ClosedIs
    <3>. QED BY <3>1, <3>2, ClosedIs DEF FileOk
  <2>4. CASE file[p].dev = d /\ file[p].pc = "opening"
    <3>1. file'[p] = [file[p] EXCEPT !.late = FALSE, !.old = TRUE]
      BY <1>1, <2>4
    <3>2. /\ file'[p] \in FileRecord /\ ~file'[p].late /\ file'[p].old
          /\ file'[p].pc = "opening" /\ file'[p].todo = file[p].todo
      BY <2>1, <2>4, <3>1 DEF FileRecord
    <3>. QED BY <2>1, <2>4, <3>2 DEF FileOk
  <2>. QED BY <2>2, <2>3, <2>4
<1>. QED BY <1>1, <1>2, <1>3

\* What the driver does to the counters and the files.
LEMMA DriverKeepsFiles == ProbeInv /\ OpenInv /\ DriverStep => OpenInv'
<1> SUFFICES ASSUME ProbeInv, OpenInv, DriverStep PROVE OpenInv'
  OBVIOUS
<1>1. CASE InitPci
  <2>1. /\ ~driver /\ failed = "no" /\ driver' = TRUE /\ file' = file
        /\ count' = [d \in Device |-> [c \in Counter |-> 0]]
    BY <1>1 DEF InitPci
  <2>2. \A p \in Opener : file[p].pc = "closed" /\ FileOk(file[p])
    BY <2>1 DEF OpenInv
  <2>3. ASSUME NEW p \in Opener PROVE FileOk(file[p])'
    BY <2>1, <2>2 DEF FileOk
  <2>4. count' \in [Device -> [Counter -> Nat]]
    BY <2>1
  <2>. QED BY <2>1, <2>3, <2>4 DEF OpenInv
<1>2. ASSUME ~driver' /\ failed' = "no" => \A p \in Opener : file[p].pc = "closed",
             UNCHANGED <<count, file>>
      PROVE  OpenInv'
  BY <1>2 DEF OpenInv, FileOk
<1>3. ASSUME ~driver' /\ failed' = "no" => \A p \in Opener : file[p].pc = "closed",
             NEW step, ResetsAt(step)
      PROVE  OpenInv'
  <2>1. CASE step = "wr1"
    <3>1. Reset(1)
      BY <1>3, <2>1 DEF ResetsAt
    <3>. QED BY <1>3, <3>1, ResetKeeps DEF OpenInv, Device
  <2>2. CASE step = "wr2"
    <3>1. Reset(2)
      BY <1>3, <2>2 DEF ResetsAt
    <3>. QED BY <1>3, <3>1, ResetKeeps DEF OpenInv, Device
  <2>3. CASE step \notin {"wr1", "wr2"}
    BY <1>2, <1>3, <2>3 DEF ResetsAt
  <2>. QED BY <2>1, <2>2, <2>3
<1>4. CASE Acquire
  BY <1>3, <1>4 DEF Acquire, OpenInv
<1>5. CASE AcquireFails
  BY <1>3, <1>5, StepIs DEF AcquireFails, Fails, Step
<1>6. CASE LineError
  BY <1>2, <1>6 DEF LineError, Fails, Diagnosing
<1>7. CASE ReleaseEnds
  <2>1. ~driver' /\ failed' = "no" => ~driver /\ failed = "no"
    BY <1>7 DEF ReleaseEnds, ProbeInv, Outcome
  <2>. QED BY <1>2, <1>7, <2>1 DEF ReleaseEnds, OpenInv
<1>8. CASE PciProbe \/ ExitPci
  BY <1>2, <1>8 DEF PciProbe, ExitPci
<1>9. CASE Ready \/ Release \/ PciRemove
  BY <1>2, <1>9 DEF Ready, Release, PciRemove, OpenInv
<1>. QED BY <1>1, <1>4, <1>5, <1>6, <1>7, <1>8, <1>9 DEF DriverStep

\* A process begins to open a device.
LEMMA UartOpenKeeps ==
  ASSUME OpenInv, NEW p \in Opener, NEW d \in Device, NEW mode \in Mode, UartOpen(p, d, mode)
  PROVE  OpenInv'
<1>0. PICK late \in BOOLEAN : late <=> Owners(d) # {}
  OBVIOUS
<1> DEFINE f == [pc |-> "opening", dev |-> d, mode |-> mode, todo |-> OpenSteps(mode),
                 late |-> late, old |-> FALSE]
<1>1. driver /\ file' = [file EXCEPT ![p] = f] /\ UNCHANGED <<driverVars, count>>
  <2>1. late = (Owners(d) # {})
    BY <1>0
  <2>. QED BY <2>1 DEF UartOpen
<1>2. /\ OpenSteps(mode) \in Seq(OpenOps)
      /\ mode # "rdonly" => /\ OpenSteps(mode) # <<>>
                            /\ OpenSteps(mode)[Len(OpenSteps(mode))] = <<"inc", "w">>
                            /\ \E i \in 1..Len(OpenSteps(mode)) : OpenSteps(mode)[i] = <<"test", "w">>
      /\ mode = "rdonly" => OpenSteps(mode) = <<>>
  <2>1. CASE mode = "rdwr"
    <3>1. OpenSteps(mode) = <<<<"test", "rw">>, <<"test", "r">>, <<"test", "w">>,
                              <<"inc", "rw">>, <<"inc", "r">>, <<"inc", "w">>>>
      BY <2>1 DEF OpenSteps
    <3>2. OpenSteps(mode)[3] = <<"test", "w">> /\ Len(OpenSteps(mode)) = 6
          /\ OpenSteps(mode)[6] = <<"inc", "w">>
      BY <3>1
    <3>3. /\ <<"test", "rw">> \in OpenOps /\ <<"test", "r">> \in OpenOps /\ <<"test", "w">> \in OpenOps
          /\ <<"inc", "rw">> \in OpenOps /\ <<"inc", "r">> \in OpenOps /\ <<"inc", "w">> \in OpenOps
      BY DEF OpenOps, Counter
    <3>4. OpenSteps(mode) \in Seq(OpenOps)
      <4> HIDE DEF OpenOps
      <4>. QED BY <3>1, <3>3
    <3>5. OpenSteps(mode) # <<>>
      BY <3>2, <3>4, EmptyIs
    <3>6. 3 \in 1..Len(OpenSteps(mode))
      BY <3>2
    <3>. QED BY <2>1, <3>2, <3>4, <3>5, <3>6
  <2>2. CASE mode = "wronly"
    <3>1. OpenSteps(mode) = <<<<"test", "w">>, <<"inc", "w">>>>
      BY <2>2 DEF OpenSteps
    <3>2. OpenSteps(mode)[1] = <<"test", "w">> /\ Len(OpenSteps(mode)) = 2
          /\ OpenSteps(mode)[2] = <<"inc", "w">>
      BY <3>1
    <3>3. <<"test", "w">> \in OpenOps /\ <<"inc", "w">> \in OpenOps
      BY DEF OpenOps, Counter
    <3>4. OpenSteps(mode) \in Seq(OpenOps)
      <4> HIDE DEF OpenOps
      <4>. QED BY <3>1, <3>3
    <3>5. OpenSteps(mode) # <<>>
      BY <3>2, <3>4, EmptyIs
    <3>6. 1 \in 1..Len(OpenSteps(mode))
      BY <3>2
    <3>. QED BY <2>2, <3>2, <3>4, <3>5, <3>6
  <2>3. CASE mode = "rdonly"
    BY <2>3, EmptySeq DEF OpenSteps
  <2>. QED BY <2>1, <2>2, <2>3 DEF Mode
<1>3. f \in FileRecord
  BY <1>2 DEF FileRecord
<1>4. Owners(d) # {} => count[d]["w"] > 0
  <2>1. HAVE Owners(d) # {}
  <2>2. PICK q \in Opener : /\ file[q].pc = "open" /\ file[q].dev = d /\ ~file[q].old
                            /\ file[q].mode # "rdonly"
    BY <2>1 DEF Owners
  <2>. QED BY <2>2 DEF OpenInv, FileOk
<1> DEFINE todo == OpenSteps(mode)
<1>5. /\ f.pc = "opening" /\ f.dev = d /\ f.mode = mode /\ f.todo = todo
      /\ (f.late <=> Owners(d) # {}) /\ count' = count
  BY <1>0, <1>1
<1> HIDE DEF todo, f
<1>6. FileOk(f)'
  <2>1. /\ mode # "rdonly" => /\ todo # <<>> /\ todo[Len(todo)] = <<"inc", "w">>
                              /\ \E i \in 1..Len(todo) : todo[i] = <<"test", "w">>
        /\ mode = "rdonly" => todo = <<>>
    BY <1>2 DEF todo
  <2>. QED BY <1>4, <1>5, <2>1 DEF FileOk
<1>7. \A e \in Device : count'[e]["w"] >= count[e]["w"]
  BY <1>1 DEF OpenInv, Counter
<1>8. count' \in [Device -> [Counter -> Nat]]
  BY <1>1 DEF OpenInv
<1>. QED BY <1>1, <1>3, <1>6, <1>7, <1>8, FileKeeps

\* A counter is tested or raised.
LEMMA OpenStepKeeps == ASSUME OpenInv, NEW p \in Opener, OpenStep(p) PROVE OpenInv'
<1> DEFINE g == file[p]
           op == Head(g.todo)[1]
           c == Head(g.todo)[2]
           rest == Tail(g.todo)
<1>1. /\ g \in FileRecord /\ FileOk(g) /\ g.pc = "opening" /\ g.todo # <<>>
      /\ UNCHANGED driverVars
  BY DEF OpenInv, OpenStep
<1>2. /\ g.todo \in Seq(OpenOps) /\ g.dev \in Device /\ g.mode \in Mode
      /\ g.late \in BOOLEAN /\ g.old \in BOOLEAN
  BY <1>1 DEF FileRecord
<1>3. /\ Head(g.todo) \in OpenOps /\ rest \in Seq(OpenOps) /\ Len(rest) = Len(g.todo) - 1
      /\ Len(g.todo) \in Nat /\ Len(g.todo) > 0 /\ (rest = <<>> <=> Len(g.todo) = 1)
      /\ \A i \in 1..Len(rest) : rest[i] = g.todo[i + 1]
      /\ Head(g.todo) = g.todo[1]
  <2>1. /\ Head(g.todo) \in OpenOps /\ rest \in Seq(OpenOps) /\ Len(rest) = Len(g.todo) - 1
        /\ \A i \in 1..Len(rest) : rest[i] = g.todo[i + 1]
    BY <1>1, <1>2, HeadTailProperties
  <2>2. Len(g.todo) \in Nat /\ Len(g.todo) > 0
    BY <1>1, <1>2, EmptyIs
  <2>3. rest = <<>> <=> Len(g.todo) = 1
    <3>1. rest \in Seq(OpenOps)
      BY <2>1
    <3> HIDE DEF rest
    <3>2. rest = <<>> <=> Len(rest) = 0
      BY <3>1, EmptyIs
    <3>. QED BY <2>1, <2>2, <3>2 DEF rest
  <2>4. Head(g.todo) = g.todo[1]
    BY <1>2, <2>2
  <2>. QED BY <2>1, <2>2, <2>3, <2>4
<1>4. op \in {"test", "inc"} /\ c \in Counter /\ Head(g.todo) = <<op, c>>
  BY <1>3 DEF OpenOps
<1>5. count \in [Device -> [Counter -> Nat]] /\ file \in [Opener -> FileRecord]
      /\ count[g.dev] \in [Counter -> Nat] /\ count[g.dev]["w"] \in Nat
  BY <1>2 DEF OpenInv, Counter
<1>6. g.todo[Len(g.todo)] = <<"inc", "w">>
  BY <1>1 DEF FileOk
<1>7. rest # <<>> => rest[Len(rest)] = <<"inc", "w">>
  <2>1. HAVE rest # <<>>
  <2>2. Len(rest) \in 1..Len(rest) /\ Len(rest) + 1 = Len(g.todo)
    BY <1>3, <2>1
  <2>. QED BY <1>3, <1>6, <2>2
<1>8. rest = <<>> => Head(g.todo) = <<"inc", "w">>
  BY <1>3, <1>6
<1>9. ~(~driver /\ failed = "no")
  BY <1>1 DEF OpenInv
<1>10. PICK f \in FileRecord : /\ f = [g EXCEPT !.todo = rest]
                               /\ f.todo = rest /\ f.pc = "opening" /\ f.dev = g.dev
                               /\ f.mode = g.mode /\ f.late = g.late /\ f.old = g.old
  <2> DEFINE f == [g EXCEPT !.todo = rest]
  <2>1. f \in FileRecord
    BY <1>1, <1>3 DEF FileRecord
  <2>2. /\ f.todo = rest /\ f.pc = "opening" /\ f.dev = g.dev
        /\ f.mode = g.mode /\ f.late = g.late /\ f.old = g.old
    BY <1>1 DEF FileRecord
  <2>. QED BY <2>1, <2>2
<1>11. CASE op = "test" /\ Test(c, g.dev) /\ file' = [file EXCEPT ![p].todo = Tail(@)] /\ count' = count
  <2>1. file' = [file EXCEPT ![p] = f]
    BY <1>10, <1>11
  <2>2. rest # <<>>
    BY <1>4, <1>8, <1>11
  <2>3. g.late /\ g.mode # "rdonly" => \E i \in 1..Len(rest) : rest[i] = <<"test", "w">>
    <3>1. HAVE g.late /\ g.mode # "rdonly"
    <3>2. PICK i \in 1..Len(g.todo) : g.todo[i] = <<"test", "w">>
      BY <1>1, <3>1 DEF FileOk
    <3>3. count[g.dev]["w"] > 0
      BY <1>1, <3>1 DEF FileOk
    <3>4. c # "w"
      BY <1>5, <1>11, <3>3 DEF Test
    <3>5. i # 1
      BY <1>3, <1>4, <3>2, <3>4
    <3>6. i - 1 \in 1..Len(rest) /\ (i - 1) + 1 = i
      BY <1>3, <3>5
    <3>7. rest[i - 1] = g.todo[(i - 1) + 1]
      BY <1>3, <3>6
    <3>. QED BY <3>2, <3>6, <3>7
  <2>4. FileOk(f)
    BY <1>1, <1>7, <1>10, <2>2, <2>3 DEF FileOk
  <2>5. FileOk(f)'
    BY <1>11, <2>4 DEF FileOk
  <2>6. \A d \in Device : count'[d]["w"] >= count[d]["w"]
    BY <1>5, <1>11 DEF Counter
  <2>. QED BY <1>1, <1>5, <1>9, <1>11, <2>1, <2>5, <2>6, FileKeeps
<1>12. CASE op = "test" /\ file' = [file EXCEPT ![p] = Closed] /\ count' = count
  <2>1. \A d \in Device : count'[d]["w"] >= count[d]["w"]
    BY <1>5, <1>12 DEF Counter
  <2>. QED BY <1>1, <1>5, <1>12, <2>1, ClosedIs, FileKeeps
<1>13. CASE /\ op = "inc" /\ file' = [file EXCEPT ![p].todo = Tail(@)]
            /\ count' = [count EXCEPT ![g.dev][c] = @ + 1]
  <2>1. file' = [file EXCEPT ![p] = f]
    BY <1>10, <1>13
  <2>2. /\ count' \in [Device -> [Counter -> Nat]]
        /\ \A d \in Device : count'[d]["w"] >= count[d]["w"]
        /\ c = "w" => count'[g.dev]["w"] > 0
    <3>1. count' = [count EXCEPT ![g.dev] = [count[g.dev] EXCEPT ![c] = count[g.dev][c] + 1]]
      BY <1>13
    <3> DEFINE more == [count[g.dev] EXCEPT ![c] = count[g.dev][c] + 1]
    <3>2. /\ more \in [Counter -> Nat] /\ more["w"] >= count[g.dev]["w"]
          /\ c = "w" => more["w"] > 0
      BY <1>4, <1>5 DEF Counter
    <3> HIDE DEF more
    <3>3. \A d \in Device : count'[d] = IF d = g.dev THEN more ELSE count[d]
      BY <1>5, <3>1 DEF more
    <3>4. count' \in [Device -> [Counter -> Nat]]
      BY <1>5, <3>1, <3>2 DEF more
    <3>5. ASSUME NEW d \in Device PROVE count'[d]["w"] >= count[d]["w"]
      <4>1. count[d]["w"] \in Nat
        BY <1>5 DEF Counter
      <4>. QED BY <3>2, <3>3, <4>1
    <3>. QED BY <1>2, <3>2, <3>3, <3>4, <3>5
  <2>3. g.late /\ g.mode # "rdonly" => \E i \in 1..Len(rest) : rest[i] = <<"test", "w">>
    <3>1. HAVE g.late /\ g.mode # "rdonly"
    <3>2. PICK i \in 1..Len(g.todo) : g.todo[i] = <<"test", "w">>
      BY <1>1, <3>1 DEF FileOk
    <3>3. i # 1
      BY <1>3, <1>4, <1>13, <3>2
    <3>4. i - 1 \in 1..Len(rest) /\ (i - 1) + 1 = i
      BY <1>3, <3>3
    <3>5. rest[i - 1] = g.todo[(i - 1) + 1]
      BY <1>3, <3>4
    <3>. QED BY <3>2, <3>4, <3>5
  <2>4. rest = <<>> => count'[g.dev]["w"] > 0
    BY <1>4, <1>8, <2>2
  <2>5. g.late => count'[g.dev]["w"] > 0
    <3>1. g.late => count[g.dev]["w"] > 0
      BY <1>1 DEF FileOk
    <3>2. count'[g.dev]["w"] \in Nat /\ count'[g.dev]["w"] >= count[g.dev]["w"]
      BY <1>2, <2>2 DEF Counter
    <3>. QED BY <1>5, <3>1, <3>2
  <2>6. FileOk(f)'
    BY <1>1, <1>7, <1>10, <2>3, <2>4, <2>5 DEF FileOk
  <2>. QED BY <1>1, <1>9, <2>1, <2>2, <2>6, FileKeeps
<1>. QED BY <1>11, <1>12, <1>13 DEF OpenStep

\* open returns.
LEMMA OpenReturnsKeeps == ASSUME OpenInv, NEW p \in Opener, OpenReturns(p) PROVE OpenInv'
<1> DEFINE g == file[p]
<1>1. /\ g \in FileRecord /\ FileOk(g) /\ g.pc = "opening" /\ g.todo = <<>>
      /\ UNCHANGED driverVars /\ count' = count /\ file \in [Opener -> FileRecord]
      /\ count \in [Device -> [Counter -> Nat]]
  BY DEF OpenInv, OpenReturns
<1>2. \A d \in Device : count'[d]["w"] >= count[d]["w"]
  BY <1>1 DEF Counter
<1>3. ~(~driver /\ failed = "no")
  BY <1>1 DEF OpenInv
<1>4. CASE file' = [file EXCEPT ![p] = Closed]
  BY <1>1, <1>2, <1>4, ClosedIs, FileKeeps
<1>5. CASE file' = [file EXCEPT ![p].pc = "open"]
  <2>1. PICK f \in FileRecord : /\ f = [g EXCEPT !.pc = "open"]
                                /\ f.todo = g.todo /\ f.pc = "open" /\ f.dev = g.dev
                                /\ f.mode = g.mode /\ f.late = g.late /\ f.old = g.old
    <3> DEFINE f == [g EXCEPT !.pc = "open"]
    <3>1. f \in FileRecord
      BY <1>1 DEF FileRecord
    <3>2. /\ f.todo = g.todo /\ f.pc = "open" /\ f.dev = g.dev
          /\ f.mode = g.mode /\ f.late = g.late /\ f.old = g.old
      BY <1>1 DEF FileRecord
    <3>. QED BY <3>1, <3>2
  <2>2. file' = [file EXCEPT ![p] = f]
    BY <1>5, <2>1
  <2>3. g.late => g.mode = "rdonly"
    <3>1. ~\E i \in 1..Len(g.todo) : g.todo[i] = <<"test", "w">>
      <4>1. Len(<<>>) = 0
        BY EmptySeq
      <4>. QED BY <1>1, <4>1
    <3>. QED BY <1>1, <3>1 DEF FileOk
  <2>4. FileOk(f)
    BY <1>1, <2>1, <2>3 DEF FileOk
  <2>5. FileOk(f)'
    BY <1>1, <2>4 DEF FileOk
  <2>. QED BY <1>1, <1>2, <1>3, <2>2, <2>5, FileKeeps
<1>. QED BY <1>4, <1>5 DEF OpenReturns

-----------------------------------------------------------------------------
(* Uart: the theorems.                                                     *)

\* The two invariants contain the type invariant.
LEMMA TypesAre == ProbeTypes /\ OpenInv => TypeOK
BY StepIs DEF ProbeTypes, OpenInv, TypeOK, FileRecord

\* No device is bound and no file is open at first.
LEMMA UartInitInv == Init => ProbeInv /\ OpenInv
<1> SUFFICES ASSUME Init PROVE ProbeInv /\ OpenInv
  OBVIOUS
<1>1. ProbeTypes
  <2>1. diag \in -1..Bytes - 1
    BY UartAssumption DEF Init
  <2>2. <<>> \in Seq(Resource)
    BY EmptySeq
  <2>. QED BY <2>1, <2>2 DEF Init, ProbeTypes
<1>2. Acquired /\ Undoing /\ Outcome
  BY DEF Init, Acquired, Undoing, Outcome, Left, Whole, Step
<1>3. OpenInv
  <2>1. file \in [Opener -> FileRecord] /\ \A p \in Opener : file[p] = Closed
    BY ClosedIs DEF Init
  <2>2. count \in [Device -> [Counter -> Nat]]
    BY DEF Init
  <2>. QED BY <2>1, <2>2, ClosedIs DEF OpenInv
<1>. QED BY <1>1, <1>2, <1>3 DEF ProbeInv

\* Every step keeps the invariant.
LEMMA UartStepKeeps == ProbeInv /\ OpenInv /\ [Next]_vars => (ProbeInv /\ OpenInv)'
<1> SUFFICES ASSUME ProbeInv, OpenInv, [Next]_vars PROVE ProbeInv' /\ OpenInv'
  OBVIOUS
<1>1. CASE DriverStep
  BY <1>1, ProbeStepKeeps, DriverKeepsFiles
<1>2. ASSUME UNCHANGED driverVars PROVE ProbeInv'
  <2>1. /\ ProbeTypes' <=> ProbeTypes
        /\ Acquired' <=> Acquired
        /\ Undoing' <=> Undoing
        /\ Outcome' <=> Outcome
    BY <1>2 DEF driverVars, ProbeTypes, Acquired, Undoing, Outcome, Left, Whole
  <2>. QED BY <2>1 DEF ProbeInv
<1>3. CASE OpenerStep
  <2>1. UNCHANGED driverVars
    BY <1>3 DEF OpenerStep, UartOpen, OpenStep, OpenReturns
  <2>2. OpenInv'
    BY <1>3, UartOpenKeeps, OpenStepKeeps, OpenReturnsKeeps DEF OpenerStep
  <2>. QED BY <1>2, <2>1, <2>2
<1>4. CASE UNCHANGED vars
  <2>1. UNCHANGED driverVars /\ file' = file /\ count' = count /\ driver' = driver /\ failed' = failed
    BY <1>4 DEF vars, driverVars
  <2>2. OpenInv'
    BY <2>1 DEF OpenInv, FileOk
  <2>. QED BY <1>2, <2>1, <2>2
<1>. QED BY <1>1, <1>3, <1>4 DEF Next

\* Every step of the driver and of the processes keeps both.
LEMMA UartInvariance == Spec => [](ProbeInv /\ OpenInv)
BY UartInitInv, UartStepKeeps, PTL DEF Spec

\* The driver's state keeps its types, and the diagnosis reads no byte too many.
THEOREM UartTypeCorrect == Spec => []TypeOK
<1>1. ProbeInv /\ OpenInv => TypeOK
  BY TypesAre DEF ProbeInv
<1>. QED BY <1>1, UartInvariance, PTL

\* None of the ways back releases what is not held.
THEOREM NothingIsReleasedTwice == Spec => []NothingReleasedTwice
<1>1. ProbeInv /\ OpenInv => NothingReleasedTwice
  <2> SUFFICES ASSUME ProbeInv, undo # <<>> PROVE Head(undo) \in held
    BY DEF NothingReleasedTwice
  <2>1. Range(undo) \subseteq held /\ undo \in Seq(Resource)
    BY DEF ProbeInv, ProbeTypes, Undoing
  <2>2. 1 \in DOMAIN undo /\ Head(undo) = undo[1]
    BY <2>1, EmptyIs, LenProperties
  <2>. QED BY <2>1, <2>2 DEF Range
<1>. QED BY <1>1, UartInvariance, PTL

\* A failed probe, or a remove, leaves nothing but region 0, when region 1 was busy, and
\* the buffers of a device, all or none.
THEOREM NothingElseLeftBehind == Spec => []LeftBehind
<1>1. ProbeInv /\ OpenInv => LeftBehind
  BY DEF ProbeInv, Outcome, Left, Whole, LeftBehind
<1>. QED BY <1>1, UartInvariance, PTL

\* A device that can be opened has its buffers, also on the way back.
THEOREM LiveAlwaysHasBuffers == Spec => []LiveHasBuffers
<1>1. ProbeInv /\ OpenInv => LiveHasBuffers
  <2> SUFFICES ASSUME ProbeInv, NEW d \in Device, Cdev(d) \in held PROVE Buffers(d) \subseteq held
    BY DEF LiveHasBuffers
  <2>1. Cdev(d) \in {"cdev1", "cdev2"} /\ Cdev(d) \notin Buffers(1) \cup Buffers(2)
    BY BuffersAre DEF Cdev
  <2>2. CASE probe \in {"undo", "remove"}
    BY <2>2 DEF ProbeInv, Undoing
  <2>3. CASE probe = "none"
    BY <2>1, <2>3 DEF ProbeInv, Outcome, Left
  <2>4. CASE probe \in Step \cup {"bound"}
    <3>1. Cdev(d) \in Owned(probe)
      BY <2>1, <2>4 DEF ProbeInv, Acquired
    <3>2. (probe = "cdev2" /\ d = 1) \/ probe = "bound"
      BY <2>4, <3>1, BuffersAre DEF Owned, Cdev, Device, Step
    <3>. QED BY <2>4, <3>2 DEF ProbeInv, Acquired, Device
  <2>. QED BY <2>2, <2>3, <2>4 DEF ProbeInv, ProbeTypes
<1>. QED BY <1>1, UartInvariance, PTL

\* Who begins to open a device that another process owns is refused, for any number of
\* processes and every order of the tests and increments.
THEOREM LateOpenersAlwaysRefused == Spec => []LateOpenersRefused
<1>1. ProbeInv /\ OpenInv => LateOpenersRefused
  BY DEF OpenInv, FileOk, LateOpenersRefused
<1>. QED BY <1>1, UartInvariance, PTL

=============================================================================
