---------------------------------- MODULE Uart ---------------------------------
(***************************************************************************)
(* KernelDrivers_March2011/uart_pci_latest_March2011.c: a PCI driver for a *)
(* card with two UARTs.  probe acquires one thing after another and undoes *)
(* by hand what it has when a step fails; remove gives everything back;    *)
(* open admits one process by counters that are tested and then raised.    *)
(***************************************************************************)
EXTENDS Integers, SequencesExt

CONSTANTS
  Opener,   \* processes that open a device
  Bytes     \* bytes the diagnosis reads back from each UART: 16

ASSUME UartAssumption == Bytes \in Nat \ {0}

VARIABLES
  driver,    \* registered or not
  probe,     \* where probe is: a step, undo, remove, bound or none
  undo,      \* what probe or remove has still to release
  held,      \* what the driver holds
  failed,    \* the step the last probe failed at, "no" if it did not
  diag,      \* bytes the diagnosis has read, -1 before the transmitter is ready
  count,     \* rw_count, r_count and w_count of each device
  file       \* what each process is doing with its device

driverVars == <<driver, probe, undo, held, failed, diag>>
vars == <<driverVars, count, file>>

-----------------------------------------------------------------------------
(* The steps of probe, with the steps of pci_dev_init for each device.     *)

Device == {1, 2}

DevInit(d) == IF d = 1 THEN <<"wr1", "rd1", "wfifo1", "rfifo1">>
                       ELSE <<"wr2", "rd2", "wfifo2", "rfifo2">>

Buffers(d) == Range(DevInit(d))

Steps == <<"enable", "region0", "region1", "diag1", "diag2", "chrdev">>
         \o DevInit(1) \o DevInit(2) \o <<"irq1", "irq2", "cdev1", "cdev2">>

Cdev(d) == IF d = 1 THEN "cdev1" ELSE "cdev2"

Resource == Range(Steps) \ {"diag1", "diag2"}

After(step) ==
  LET i == CHOOSE k \in DOMAIN Steps : Steps[k] = step
  IN IF i = Len(Steps) THEN "bound" ELSE Steps[i + 1]

\* What pci_dev_init frees itself; kfifo_free frees the buffer with the fifo.
UndoInit(step) ==
  CASE step \in {"rd1"} -> <<"wr1">>
    [] step \in {"rd2"} -> <<"wr2">>
    [] step = "wfifo1" -> <<"wr1", "rd1">>
    [] step = "wfifo2" -> <<"wr2", "rd2">>
    [] step = "rfifo1" -> <<"wfifo1", "wr1", "rd1">>
    [] step = "rfifo2" -> <<"wfifo2", "wr2", "rd2">>
    [] OTHER -> <<>>

Regions == <<"region0", "region1", "enable">>

\* Slips: an interrupt is not freed, one is freed that was not requested, or the
\* buffers of a device that is still live are freed.
RollbackKeepsIrq(step) ==
  CASE step = "enable" -> <<>>
    [] step \in {"region0", "region1"} -> <<"enable">>
    [] step \in {"diag1", "diag2", "chrdev"} -> Regions
    [] step \in Buffers(1) \cup Buffers(2) \cup {"irq1", "irq2"} ->
         UndoInit(step) \o <<"chrdev">> \o Regions
    [] step = "cdev1" -> <<"irq1", "irq2", "chrdev">> \o Regions
    [] step = "cdev2" -> <<"irq1", "irq2", "chrdev", "cdev1">> \o Regions

RollbackFreesBoth(step) ==
  CASE step = "enable" -> <<>>
    [] step \in {"region0", "region1"} -> <<"enable">>
    [] step \in {"diag1", "diag2", "chrdev"} -> Regions
    [] step \in Buffers(1) \cup Buffers(2) \cup {"irq1"} ->
         UndoInit(step) \o <<"chrdev">> \o Regions
    [] step \in {"irq2", "cdev1"} -> <<"irq1", "irq2", "chrdev">> \o Regions
    [] step = "cdev2" -> <<"irq1", "irq2", "chrdev", "cdev1">> \o Regions

RollbackFreesBuffers(step) ==
  IF step = "cdev2" THEN <<"wr1", "rd1", "irq1", "irq2", "chrdev", "cdev1">> \o Regions
  ELSE RollbackFreesBoth(step)

\* What probe undoes when a step fails.  Region 0 stays when region 1 is busy, and
\* the buffers of a device once pci_dev_init has returned.
Rollback(step) ==
  CASE step = "enable" -> <<>>
    [] step \in {"region0", "region1"} -> <<"enable">>
    [] step \in {"diag1", "diag2", "chrdev"} -> Regions
    [] step \in Buffers(1) \cup Buffers(2) \cup {"irq1"} ->
         UndoInit(step) \o <<"chrdev">> \o Regions
    [] step = "irq2" -> <<"irq1", "chrdev">> \o Regions
    [] step = "cdev1" -> <<"irq1", "irq2", "chrdev">> \o Regions
    [] step = "cdev2" -> <<"irq1", "irq2", "chrdev", "cdev1">> \o Regions

RemoveAll == <<"irq1", "irq2", "chrdev", "cdev1", "cdev2">> \o Regions

-----------------------------------------------------------------------------
Counter == {"rw", "r", "w"}

\* What open does to the counters: tests, then increments, one at a time.  Opening
\* for reading only, flag 0, tests nothing and returns no defined value.
OpenSteps(mode) ==
  CASE mode = "rdwr" -> <<<<"test", "rw">>, <<"test", "r">>, <<"test", "w">>,
                          <<"inc", "rw">>, <<"inc", "r">>, <<"inc", "w">>>>
    [] mode = "wronly" -> <<<<"test", "w">>, <<"inc", "w">>>>
    [] mode = "rdonly" -> <<>>

Mode == {"rdwr", "wronly", "rdonly"}

Closed == [pc |-> "closed", dev |-> 1, mode |-> "rdonly", todo |-> <<>>,
           late |-> FALSE, old |-> FALSE]

\* The processes that hold a device by its counters: `old` ones began to open it
\* before it was initialised again.
Owners(d) == {p \in Opener : /\ file[p].pc = "open" /\ file[p].dev = d
                             /\ ~file[p].old
                             /\ file[p].mode # "rdonly"}

Init ==
  /\ driver = FALSE /\ probe = "none" /\ undo = <<>> /\ held = {} /\ failed = "no"
  /\ diag = -1
  /\ count = [d \in Device |-> [c \in Counter |-> 0]]
  /\ file = [p \in Opener |-> Closed]

\* The module is loaded, with fresh data.  After a failed probe, which unregisters the
\* driver, exit_pci would unregister it again: the model stops there.
InitPci ==
  /\ ~driver /\ probe = "none" /\ failed = "no"
  /\ driver' = TRUE
  /\ held' = {}
  /\ count' = [d \in Device |-> [c \in Counter |-> 0]]
  /\ UNCHANGED <<probe, undo, failed, diag, file>>

\* The card is found: probe begins.
PciProbe ==
  /\ driver /\ probe = "none"
  /\ probe' = Head(Steps)
  /\ failed' = "no"
  /\ UNCHANGED <<driver, undo, held, diag, count, file>>

\* pci_dev_init sets the counters to 0 before it allocates: the files opened under an
\* earlier binding are forgotten, and so are that binding's buffers, never freed.
Reset(d) ==
  /\ count' = [count EXCEPT ![d] = [c \in Counter |-> 0]]
  /\ file' = [p \in Opener |->
                IF file[p].dev # d THEN file[p]
                ELSE IF file[p].pc # "opening" THEN Closed
                ELSE [file[p] EXCEPT !.late = FALSE, !.old = TRUE]]

ResetsAt(step) ==
  CASE step = "wr1" -> Reset(1)
    [] step = "wr2" -> Reset(2)
    [] OTHER -> UNCHANGED <<count, file>>

Kept(step) ==
  CASE step = "wr1" -> held \ Buffers(1)
    [] step = "wr2" -> held \ Buffers(2)
    [] OTHER -> held

Acquire ==
  /\ probe \in Resource
  /\ held' = Kept(probe) \cup {probe}
  /\ probe' = After(probe)
  /\ diag' = -1
  /\ ResetsAt(probe)
  /\ UNCHANGED <<driver, undo, failed>>

\* A step returns an error.
Fails ==
  /\ probe' = "undo"
  /\ failed' = probe
  /\ undo' = Rollback(probe)
  /\ held' = Kept(probe)
  /\ UNCHANGED <<driver, diag>>

AcquireFails == probe \in Resource /\ Fails /\ ResetsAt(probe)

\* device_diagnos_start: waits for the transmitter, writes, and reads byte after byte.
Diagnosing == probe \in {"diag1", "diag2"}

\* Slips: the bytes read are not counted, or one too many is read.
NoByteCounted == UNCHANGED <<diag, probe>>

ByteTooMany ==
  IF diag = Bytes
  THEN diag' = -1 /\ probe' = After(probe)
  ELSE diag' = diag + 1 /\ probe' = probe

ByteCounted ==
  IF diag + 1 = Bytes
  THEN diag' = -1 /\ probe' = After(probe)
  ELSE diag' = diag + 1 /\ probe' = probe

Ready ==
  /\ Diagnosing
  /\ ByteCounted
  /\ UNCHANGED <<driver, undo, held, failed, count, file>>

LineError == Diagnosing /\ diag >= 0 /\ Fails /\ UNCHANGED <<count, file>>

\* The undo ends in pci_unregister_driver.
Release ==
  /\ probe \in {"undo", "remove"} /\ undo # <<>>
  /\ held' = held \ {Head(undo)}
  /\ undo' = Tail(undo)
  /\ UNCHANGED <<driver, probe, failed, diag, count, file>>

ReleaseEnds ==
  /\ probe \in {"undo", "remove"} /\ undo = <<>>
  /\ driver' = (driver /\ probe = "remove")
  /\ probe' = "none"
  /\ diag' = -1
  /\ UNCHANGED <<undo, held, failed, count, file>>

\* The card is taken out.
PciRemove ==
  /\ probe = "bound"
  /\ probe' = "remove"
  /\ undo' = RemoveAll
  /\ UNCHANGED <<driver, held, failed, diag, count, file>>

\* The module is unloaded; its open files keep it.
ExitPci ==
  /\ driver /\ probe \in {"none", "bound"}
  /\ \A p \in Opener : file[p].pc = "closed"
  /\ driver' = FALSE
  /\ IF probe = "bound" THEN probe' = "remove" /\ undo' = RemoveAll
                        ELSE UNCHANGED <<probe, undo>>
  /\ UNCHANGED <<held, failed, diag, count, file>>

-----------------------------------------------------------------------------
\* A module that is being unloaded (driver is FALSE) can no longer be opened.
UartOpen(p, d, mode) ==
  /\ file[p].pc = "closed" /\ Cdev(d) \in held /\ driver
  /\ file' = [file EXCEPT ![p] = [pc |-> "opening", dev |-> d, mode |-> mode,
                                  todo |-> OpenSteps(mode), late |-> Owners(d) # {},
                                  old |-> FALSE]]
  /\ UNCHANGED <<driverVars, count>>

\* A slip: the counters that are not raised later are not tested.
NoTest(c, d) == TRUE

Test(c, d) == count[d][c] = 0

OpenStep(p) ==
  LET d == file[p].dev
      op == Head(file[p].todo)[1]
      c == Head(file[p].todo)[2]
  IN /\ file[p].pc = "opening" /\ file[p].todo # <<>>
     /\ \/ /\ op = "test" /\ Test(c, d)
           /\ file' = [file EXCEPT ![p].todo = Tail(@)]
           /\ count' = count
        \/ /\ op = "test" /\ ~Test(c, d)            \* EBUSY
           /\ file' = [file EXCEPT ![p] = Closed]
           /\ count' = count
        \/ /\ op = "inc"
           /\ file' = [file EXCEPT ![p].todo = Tail(@)]
           /\ count' = [count EXCEPT ![d][c] = @ + 1]
     /\ UNCHANGED driverVars

\* open returns 0; for reading only it returns anything.
OpenReturns(p) ==
  /\ file[p].pc = "opening" /\ file[p].todo = <<>>
  /\ \/ file' = [file EXCEPT ![p].pc = "open"]
     \/ file[p].mode = "rdonly" /\ file' = [file EXCEPT ![p] = Closed]
  /\ UNCHANGED <<driverVars, count>>

DriverStep ==
  \/ InitPci \/ PciProbe \/ Acquire \/ AcquireFails \/ Ready \/ LineError
  \/ Release \/ ReleaseEnds \/ PciRemove \/ ExitPci

OpenerStep ==
  \E p \in Opener : \/ \E d \in Device, mode \in Mode : UartOpen(p, d, mode)
                    \/ OpenStep(p) \/ OpenReturns(p)

Next == DriverStep \/ OpenerStep

Spec == Init /\ [][Next]_vars

\* probe and remove run to their end, and the UART gets ready again and again.
FairSpec == /\ Spec
            /\ WF_vars(Acquire \/ AcquireFails \/ Release \/ ReleaseEnds)
            /\ WF_vars(Ready)

-----------------------------------------------------------------------------
TypeOK ==
  /\ driver \in BOOLEAN
  /\ probe \in Range(Steps) \cup {"none", "undo", "remove", "bound"}
  /\ undo \in Seq(Resource)
  /\ held \subseteq Resource
  /\ failed \in Range(Steps) \cup {"no"}
  /\ diag \in -1..Bytes - 1
  /\ \A p \in Opener : file[p].dev \in Device /\ file[p].mode \in Mode

\* Eleven hand-written ways back, and remove: none releases what is not held.
NothingReleasedTwice == undo # <<>> => Head(undo) \in held

\* What a probe that failed, or a remove, leaves: never an interrupt, a device number
\* or a live device; region 0 only if region 1 was busy; the buffers of a device all
\* or none.
LeftBehind ==
  probe = "none" =>
    /\ held \ (Buffers(1) \cup Buffers(2)) = IF failed = "region1" THEN {"region0"} ELSE {}
    /\ \A d \in Device : Buffers(d) \subseteq held \/ Buffers(d) \cap held = {}

\* A device that can be opened has its buffers and fifos, also while probe undoes
\* itself and while remove runs.
LiveHasBuffers == \A d \in Device : Cdev(d) \in held => Buffers(d) \subseteq held

\* Two opens that overlap may both succeed; one that starts when another process owns
\* the device never does, until the device is initialised again.
LateOpenersRefused ==
  \A p \in Opener : file[p].pc = "open" /\ file[p].mode # "rdonly" => ~file[p].late

\* probe comes to an end, bound or undone, if the UART gets ready often enough.
ProbeEnds == probe \in Range(Steps) ~> probe \in {"none", "bound"}

=============================================================================
