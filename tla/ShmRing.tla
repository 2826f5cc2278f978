-------------------------------- MODULE ShmRing --------------------------------
(***************************************************************************)
(* Assignment/2_3/a1_p.c and a1_c.c: a producer and a consumer process     *)
(* share a ring of characters in a shared-memory segment.                  *)
(*                                                                         *)
(* Each of the two may be killed and started again; the segment, zero at   *)
(* first, survives both.  The characters themselves are left out: what     *)
(* matters is the indices and the count, each load and store of a field    *)
(* the other process may change being a step of its own.                   *)
(***************************************************************************)
EXTENDS Integers

CONSTANTS
  Size,       \* of the array: 50 in the source
  MaxChars,   \* bound: characters typed
  MaxRuns,    \* bound: times the producer is started, times the consumer is
  MaxDebt     \* bound: how far below 0 the count may go

ASSUME SizeAssumption == Size \in Nat \ {0}

VARIABLES
  in, out, count, size,   \* the segment; in is the consumer's index
  semval,                 \* the value of the one semaphore of the set
  ppc, preg,              \* the producer and its register
  cpc, creg,              \* the consumer and its register
  typed,                  \* characters typed
  pruns, cruns            \* starts of each

segment == <<in, out, count, size>>
producer == <<ppc, preg, pruns, typed>>
consumer == <<cpc, creg, cruns>>
vars == <<segment, semval, producer, consumer>>

\* The locations between the two semops of each loop.
PCritical == {"full?", "out", "count", "count+1", "V"}
CCritical == {"empty?", "in", "in+1", "count", "count-1", "V"}
PPCs == PCritical \cup {"off", "in=0", "out=0", "count=0", "size=50", "scanf", "P"}
CPCs == CCritical \cup {"off", "P"}

-----------------------------------------------------------------------------
(* The semaphore set.  It is created with one member, number 0; every      *)
(* semop names number 1 and fails with EFBIG, which nobody looks at.       *)

NSems == 1
SemNum == 1

SemOp(delta) ==
  IF SemNum < NSems
  THEN semval + delta >= 0 /\ semval' = semval + delta
  ELSE UNCHANGED semval

-----------------------------------------------------------------------------
(* The producer.                                                           *)

\* shmget, semget, shmat.  SETALL is given 1 for the address of an array and
\* fails too, leaving the semaphore as it is.
ProducerStart ==
  /\ ppc = "off"
  /\ pruns < MaxRuns
  /\ pruns' = pruns + 1
  /\ ppc' = "in=0"
  /\ UNCHANGED <<segment, semval, preg, typed, consumer>>

ProducerResetIn ==
  /\ ppc = "in=0"
  /\ in' = 0
  /\ ppc' = "out=0"
  /\ UNCHANGED <<out, count, size, semval, preg, pruns, typed, consumer>>

ProducerResetOut ==
  /\ ppc = "out=0"
  /\ out' = 0
  /\ ppc' = "count=0"
  /\ UNCHANGED <<in, count, size, semval, preg, pruns, typed, consumer>>

ProducerResetCount ==
  /\ ppc = "count=0"
  /\ count' = 0
  /\ ppc' = "size=50"
  /\ UNCHANGED <<in, out, size, semval, preg, pruns, typed, consumer>>

ProducerSetSize ==
  /\ ppc = "size=50"
  /\ size' = Size
  /\ ppc' = "scanf"
  /\ UNCHANGED <<in, out, count, semval, preg, pruns, typed, consumer>>

ProducerScanf ==
  /\ ppc = "scanf"
  /\ typed < MaxChars
  /\ typed' = typed + 1
  /\ ppc' = "P"
  /\ UNCHANGED <<segment, semval, preg, pruns, consumer>>

ProducerP ==
  /\ ppc = "P"
  /\ SemOp(-1)
  /\ ppc' = "full?"
  /\ UNCHANGED <<segment, preg, pruns, typed, consumer>>

\* When the ring is full the character is dropped, and the V with it.
ProducerTest ==
  /\ ppc = "full?"
  /\ ppc' = IF in = out /\ count = size THEN "scanf" ELSE "out"
  /\ UNCHANGED <<segment, semval, preg, pruns, typed, consumer>>

\* A slip: the index may point behind the array.
AdvanceTooFar(i) == (i + 1) % (size + 1)

Advance(i) == (i + 1) % size

\* a[out] = ret, and out moves on; only the producer writes out.
ProducerStore ==
  /\ ppc = "out"
  /\ out' = Advance(out)
  /\ ppc' = "count"
  /\ UNCHANGED <<in, count, size, semval, preg, pruns, typed, consumer>>

ProducerLoadCount ==
  /\ ppc = "count"
  /\ preg' = count
  /\ ppc' = "count+1"
  /\ UNCHANGED <<segment, semval, pruns, typed, consumer>>

ProducerStoreCount ==
  /\ ppc = "count+1"
  /\ count' = preg + 1
  /\ ppc' = "V"
  /\ UNCHANGED <<in, out, size, semval, preg, pruns, typed, consumer>>

ProducerV ==
  /\ ppc = "V"
  /\ SemOp(1)
  /\ ppc' = "scanf"
  /\ UNCHANGED <<segment, preg, pruns, typed, consumer>>

\* The loop ends by a signal only.
ProducerKilled ==
  /\ ppc # "off"
  /\ ppc' = "off"
  /\ UNCHANGED <<segment, semval, preg, pruns, typed, consumer>>

Producer ==
  \/ ProducerStart \/ ProducerResetIn \/ ProducerResetOut
  \/ ProducerResetCount \/ ProducerSetSize \/ ProducerScanf
  \/ ProducerP \/ ProducerTest \/ ProducerStore
  \/ ProducerLoadCount \/ ProducerStoreCount \/ ProducerV \/ ProducerKilled

-----------------------------------------------------------------------------
(* The consumer.                                                           *)

ConsumerStart ==
  /\ cpc = "off"
  /\ cruns < MaxRuns
  /\ cruns' = cruns + 1
  /\ cpc' = "P"
  /\ UNCHANGED <<segment, semval, creg, producer>>

ConsumerP ==
  /\ cpc = "P"
  /\ SemOp(-1)
  /\ cpc' = "empty?"
  /\ UNCHANGED <<segment, creg, cruns, producer>>

\* A slip: the test of the producer, for a full ring.
ConsumerTestsForFull ==
  /\ cpc = "empty?"
  /\ cpc' = IF count = size THEN "P" ELSE "in"
  /\ UNCHANGED <<segment, semval, creg, cruns, producer>>

\* An empty ring sends the consumer back to the P, past the V.
ConsumerTest ==
  /\ cpc = "empty?"
  /\ cpc' = IF count = 0 THEN "P" ELSE "in"
  /\ UNCHANGED <<segment, semval, creg, cruns, producer>>

\* a[in] is printed and in loaded.
ConsumerLoadIn ==
  /\ cpc = "in"
  /\ creg' = in
  /\ cpc' = "in+1"
  /\ UNCHANGED <<segment, semval, cruns, producer>>

ConsumerStoreIn ==
  /\ cpc = "in+1"
  /\ in' = Advance(creg)
  /\ cpc' = "count"
  /\ UNCHANGED <<out, count, size, semval, creg, cruns, producer>>

ConsumerLoadCount ==
  /\ cpc = "count"
  /\ creg' = count
  /\ cpc' = "count-1"
  /\ UNCHANGED <<segment, semval, cruns, producer>>

ConsumerStoreCount ==
  /\ cpc = "count-1"
  /\ creg > -MaxDebt
  /\ count' = creg - 1
  /\ cpc' = "V"
  /\ UNCHANGED <<in, out, size, semval, creg, cruns, producer>>

ConsumerV ==
  /\ cpc = "V"
  /\ SemOp(1)
  /\ cpc' = "P"
  /\ UNCHANGED <<segment, creg, cruns, producer>>

ConsumerKilled ==
  /\ cpc # "off"
  /\ cpc' = "off"
  /\ UNCHANGED <<segment, semval, creg, cruns, producer>>

Consumer ==
  \/ ConsumerStart \/ ConsumerP \/ ConsumerTest
  \/ ConsumerLoadIn \/ ConsumerStoreIn
  \/ ConsumerLoadCount \/ ConsumerStoreCount \/ ConsumerV \/ ConsumerKilled

-----------------------------------------------------------------------------
Init ==
  /\ in = 0 /\ out = 0 /\ count = 0 /\ size = 0
  /\ semval = 0
  /\ ppc = "off" /\ preg = 0 /\ pruns = 0 /\ typed = 0
  /\ cpc = "off" /\ creg = 0 /\ cruns = 0

Next == Producer \/ Consumer

Spec == Init /\ [][Next]_vars

-----------------------------------------------------------------------------
\* The values of the variables.
TypeOK ==
  /\ in \in Nat /\ out \in Nat /\ count \in Int /\ size \in {0, Size}
  /\ semval \in Nat
  /\ ppc \in PPCs /\ preg \in Int /\ pruns \in Nat /\ typed \in Nat
  /\ cpc \in CPCs /\ creg \in Int /\ cruns \in Nat

\* a[out] and a[in] are inside the array whenever they are accessed, in
\* spite of the races and of restarts between any two steps.
IndicesInArray == in < Size /\ out < Size

\* Neither % divides by the 0 that size is before the first producer has run,
\* though the consumer looks at the count and not at the size.
NoDivisionByZero == (ppc = "out" \/ cpc = "in+1") => size # 0

\* The count is not driven below 0, after which the consumer would print for
\* ever: it holds until the producer is started again.
CountNeverNegative == pruns <= 1 => count >= 0

\* InterProcessCommunication:319-320: semaphores ensure that critical sections
\* are executed atomically with respect to each other.
OneInCriticalSection == ~(ppc \in PCritical /\ cpc \in CCritical)
=============================================================================
