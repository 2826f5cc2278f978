-------------------------------- MODULE SeqFile --------------------------------
(***************************************************************************)
(* KernelDrivers_March2011/proc_seq_example1.c and proc_seq_example3.c: a  *)
(* list shown through /proc/readme by a seq_file iterator.  The entry can  *)
(* be opened before the list is filled and is removed after the list is    *)
(* freed; a read of any size goes through start, next and show, and the    *)
(* rest of a record waits for the next read.                               *)
(***************************************************************************)
EXTENDS Integers, Sequences

CONSTANTS
  Nodes,    \* nodes of the list: 100
  Width,    \* bytes of each node's text: 11, 12 from the tenth node on
  Page,     \* the size of the seq_file's buffer
  Sizes     \* sizes of the reads

ASSUME SeqFileAssumption ==
  /\ Nodes \in Nat \ {0} /\ Page \in Nat
  /\ Sizes \subseteq Nat \ {0}
  /\ Width \in [1..Nodes -> Nat \ {0}]
  /\ \A n \in 1..Nodes : Width[n] < Page

VARIABLES
  cache,     \* the nodes come from a slab cache (example 3) or from kmalloc
  module,    \* what the module does
  entry,     \* /proc/readme exists
  loaded,    \* nodes 1..loaded are linked, in this order
  freed,     \* nodes 1..freed are freed, and still linked
  seq,       \* the seq_file of the open file, with the read under way
  last,      \* the last byte the reader got: <<node, place in its text>>
  ordered    \* every byte it got was the one after the byte before

moduleVars == <<cache, module, entry, loaded, freed>>
readVars == <<last, ordered>>
seqVars == <<moduleVars, seq, readVars>>

-----------------------------------------------------------------------------
Text(n) == [k \in 1..Width[n] |-> <<n, k>>]

NULL == 0

\* A slip: the last node is not found.
SeqStartShort(pos) == IF pos + 1 < loaded THEN pos + 1 ELSE NULL

\* mydrv_seq_start: the node at the position.
SeqStart(pos) == IF pos < loaded THEN pos + 1 ELSE NULL

\* mydrv_seq_next: the following node, and the position advances.  Slips: it does
\* not, or is set back to the start.
NextNode(p) == IF p < loaded THEN p + 1 ELSE NULL

NotAdvanced(pos) == pos
SetBack(pos) == 0

Advanced(pos) == pos + 1

\* Before the first byte.
None == <<0, 1>>

Follows(b, c) == IF b[1] > 0 /\ b[2] < Width[b[1]] THEN c = <<b[1], b[2] + 1>>
                 ELSE c = <<b[1] + 1, 1>>

ClosedSeq == [pc |-> "closed", index |-> 0, buf |-> <<>>, size |-> 0, pos |-> 0,
           p |-> NULL, copied |-> FALSE, full |-> FALSE]

SeqInit ==
  /\ cache \in BOOLEAN
  /\ module = "init" /\ entry = FALSE /\ loaded = 0 /\ freed = 0
  /\ seq = ClosedSeq /\ last = None /\ ordered = TRUE

-----------------------------------------------------------------------------
(* mydrv_init and mydrv_exit.                                              *)

CreateEntry ==
  /\ module = "init"
  /\ \/ module' = (IF cache THEN "cache" ELSE "fill") /\ entry' = TRUE
     \/ module' = "gone" /\ entry' = entry             \* -EINVAL
  /\ UNCHANGED <<cache, loaded, freed, seq, readVars>>

\* When there is no cache the module is thrown away, and the entry stays.
CreateCache ==
  /\ module = "cache"
  /\ module' \in {"fill", "gone"}
  /\ UNCHANGED <<cache, entry, loaded, freed, seq, readVars>>

\* No allocation is checked: the text is written through the null pointer.
AddNode ==
  /\ module = "fill"
  /\ \/ /\ loaded < Nodes
        /\ loaded' = loaded + 1
        /\ module' = module
     \/ /\ loaded < Nodes /\ module' = "oops" /\ UNCHANGED loaded
     \/ /\ loaded = Nodes /\ module' = "live" /\ UNCHANGED loaded
  /\ UNCHANGED <<cache, entry, freed, seq, readVars>>

\* The owner in mydrv_proc_fops: an open file keeps the module.  Slip: no owner.
NoOwner == TRUE

Unused == seq.pc = "closed"

Exit ==
  /\ module = "live" /\ Unused
  /\ module' = "exit"
  /\ UNCHANGED <<cache, entry, loaded, freed, seq, readVars>>

FreeNode ==
  /\ module = "exit" /\ freed < loaded
  /\ freed' = freed + 1
  /\ UNCHANGED <<cache, module, entry, loaded, seq, readVars>>

RemoveEntry == entry' = FALSE

ExitEnds ==
  /\ module = "exit" /\ freed = loaded
  /\ module' = "gone"
  /\ RemoveEntry
  /\ UNCHANGED <<cache, loaded, freed, seq, readVars>>

-----------------------------------------------------------------------------
(* The reader: open, seq_read, which calls the iterator, and release.      *)

Open ==
  /\ seq.pc = "closed" /\ entry /\ module \in {"cache", "fill", "oops", "live"}
  /\ seq' = [ClosedSeq EXCEPT !.pc = "open"]
  /\ last' = None /\ ordered' = TRUE
  /\ UNCHANGED moduleVars

\* The first n bytes of the buffer go to the reader.
Got(n) ==
  /\ last' = IF n = 0 THEN last ELSE seq.buf[n]
  /\ ordered' = /\ ordered
                /\ \A i \in 1..n : Follows(IF i = 1 THEN last ELSE seq.buf[i - 1], seq.buf[i])

Least(a, b) == IF a < b THEN a ELSE b

\* read is called: what is left in the buffer goes first.  `full` notes that the list
\* was filled by then.
Read(size) ==
  LET n == Least(Len(seq.buf), size)
      rest == SubSeq(seq.buf, n + 1, Len(seq.buf))
  IN /\ seq.pc = "open"
     /\ Got(n)
     /\ seq' = [seq EXCEPT !.buf = rest, !.size = size - n, !.copied = n > 0,
                           !.full = loaded = Nodes,
                           !.index = IF n > 0 /\ rest = <<>> THEN @ + 1 ELSE @,
                           !.pc = IF n = size THEN "open" ELSE "start"]
     /\ UNCHANGED moduleVars

\* start and the first show.  read returns 0 when nothing was copied.
ReadStart ==
  LET p == SeqStart(seq.index)
  IN /\ seq.pc = "start"
     /\ \/ /\ p # NULL
           /\ seq' = [seq EXCEPT !.pc = "fill", !.pos = seq.index, !.p = p,
                                 !.buf = Text(p)]
        \/ /\ p = NULL
           /\ seq' = [seq EXCEPT !.pc = IF seq.copied THEN "open" ELSE "eof", !.p = NULL]
     /\ UNCHANGED <<moduleVars, readVars>>

\* seq_printf keeps room for the terminating null.  Slip: it does not.
FitsAll(count) == count <= Page + 1

Fits(count) == count < Page

\* The read wants more: next and show, until it has enough, the list ends or the
\* buffer is full.
ReadNext ==
  LET p == NextNode(seq.p)
      more == Len(seq.buf) < seq.size /\ p # NULL /\ Fits(Len(seq.buf) + Width[p])
  IN /\ seq.pc = "fill"
     /\ seq' = IF more
               THEN [seq EXCEPT !.p = p, !.buf = @ \o Text(p), !.pos = Advanced(@)]
               ELSE [seq EXCEPT !.pc = "copy"]
     /\ UNCHANGED <<moduleVars, readVars>>

\* stop, and as much as fits goes to the caller.
ReadCopy ==
  LET n == Least(Len(seq.buf), seq.size)
      rest == SubSeq(seq.buf, n + 1, Len(seq.buf))
  IN /\ seq.pc = "copy"
     /\ Got(n)
     /\ seq' = [seq EXCEPT !.pc = "open", !.buf = rest, !.p = NULL,
                           !.index = IF rest = <<>> THEN seq.pos + 1 ELSE seq.pos]
     /\ UNCHANGED moduleVars

ReleaseSeq ==
  /\ seq.pc \in {"open", "eof"}
  /\ seq' = ClosedSeq
  /\ UNCHANGED <<moduleVars, readVars>>

ModuleStep == CreateEntry \/ CreateCache \/ AddNode \/ Exit \/ FreeNode \/ ExitEnds

Reading == (\E size \in Sizes : Read(size)) \/ ReadStart \/ ReadNext \/ ReadCopy

SeqNext == ModuleStep \/ Open \/ Reading \/ ReleaseSeq

SeqSpec == SeqInit /\ [][SeqNext]_seqVars

\* A process that reads goes on reading until it is told the end, as proc_seq_test does.
SeqFairSpec == SeqSpec /\ WF_seqVars(Reading)

-----------------------------------------------------------------------------
Byte == (1..Nodes) \X Nat

SeqRecord == [pc : {"closed", "open", "start", "fill", "copy", "eof"}, index : 0..Nodes,
              buf : Seq(Byte), size : Nat, pos : Nat, p : 0..Nodes,
              copied : BOOLEAN, full : BOOLEAN]

\* The buffer never runs over, also while nodes are added.
SeqTypeOK ==
  /\ cache \in BOOLEAN /\ entry \in BOOLEAN
  /\ module \in {"init", "cache", "fill", "oops", "live", "exit", "gone"}
  /\ loaded \in 0..Nodes /\ freed \in 0..loaded
  /\ seq \in SeqRecord /\ Len(seq.buf) < Page
  /\ last \in Byte \cup {None} /\ ordered \in BOOLEAN

\* Every byte of every text once, in order, whatever the sizes of the reads and however
\* many nodes are added meanwhile.
ShownInOrder == ordered

\* Who is told the end, in a read that began when the list was filled, has all of it.
CompleteAtEnd ==
  seq.pc = "eof" /\ seq.full => last = <<Nodes, Width[Nodes]>>

\* The iterator never stands on a freed node: the list is freed before the entry is
\* removed, and only the owner of the file operations keeps readers away.
NoFreedNode == seq.pc \in {"fill", "copy"} => seq.p > freed

\* The entry outlives the module only when the slab cache could not be created.
EntryServed == entry /\ module = "gone" => cache /\ loaded = 0

\* A reader that goes on reading is told the end.
ReadingEnds == seq.pc = "open" ~> seq.pc \in {"eof", "closed"}

=============================================================================
