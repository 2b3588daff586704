------------------------------- MODULE Devices ------------------------------
(*****************************************************************************)
(* Drivers that share memory with a device, and the network task above them. *)
(*****************************************************************************)
EXTENDS Integers, Sequences, FiniteSets, SequencesExt

-----------------------------------------------------------------------------
(***************************************************************************)
(* The split virtqueue (kernel/drivers/src/virtio/queue.rs) under the block    *)
(* driver's requests (virtio/block.rs; the send path of virtio/net.rs has the  *)
(* same form): tasks that share one queue and one interrupt line, and a device *)
(* (external) that completes chains in any order.                              *)
(***************************************************************************)
CONSTANTS
    QueueSize,      \* descriptors
    IndexModulus,   \* the ring indices wrap here (2^16 in the code), a multiple of QueueSize
    ChainLen,       \* descriptors of one request (REQ_CHAIN_LEN)
    VqTasks, VqFrames,
    VqRequests      \* bound: requests

VARIABLES
    vqNext,     \* next of each descriptor
    vqMore,     \* whether it has VIRTQ_DESC_F_NEXT
    vqAddr,     \* the DMA frame it points to
    vqFreeHead, vqNumFree, vqLastUsed, vqAvailIdx,
    vqAvail,    \* the available ring
    vqUsed, vqUsedIdx,      \* the used ring, written by the device
    vqDevIdx,   \* device: the next entry of the available ring it takes
    vqTaken,    \* device: the chains it works on: [head, frame]
    vqOwner,    \* who has each DMA frame: a task, NoTask, or Leaked
    vqStatus,   \* the status byte in each frame: "pending" or "ok"
    vqPc, vqFrame,          \* each task: where it is, its frame
    vqWaiters,  \* tasks in the wait queue of the interrupt line
    vqLeft

vqVars == <<vqNext, vqMore, vqAddr, vqFreeHead, vqNumFree, vqLastUsed, vqAvailIdx, vqAvail, vqUsed, vqUsedIdx,
            vqDevIdx, vqTaken, vqOwner, vqStatus, vqPc, vqFrame, vqWaiters, vqLeft>>
driverRing == <<vqNext, vqMore, vqAddr, vqFreeHead, vqNumFree, vqLastUsed, vqAvailIdx, vqAvail>>
deviceRing == <<vqUsed, vqUsedIdx, vqDevIdx, vqTaken>>

Descriptors == 0..(QueueSize - 1)
NoTask == 0
Leaked == -1

VqInit ==
    /\ vqNext = [d \in Descriptors |-> IF d + 1 < QueueSize THEN d + 1 ELSE 0]
    /\ vqMore = [d \in Descriptors |-> FALSE]
    /\ vqAddr = [d \in Descriptors |-> 0]
    /\ vqFreeHead = 0 /\ vqNumFree = QueueSize /\ vqLastUsed = 0 /\ vqAvailIdx = 0
    /\ vqAvail = [s \in Descriptors |-> 0] /\ vqUsed = [s \in Descriptors |-> 0]
    /\ vqUsedIdx = 0 /\ vqDevIdx = 0 /\ vqTaken = {}
    /\ vqOwner = [f \in VqFrames |-> NoTask] /\ vqStatus = [f \in VqFrames |-> "pending"]
    /\ vqPc = [t \in VqTasks |-> "idle"] /\ vqFrame = [t \in VqTasks |-> 0]
    /\ vqWaiters = {} /\ vqLeft = VqRequests

-----------------------------------------------------------------------------
\* The first n descriptors of the list from d on.
Follow(next, d, n) == FoldLeft(LAMBDA s, k : Append(s, next[s[k]]), <<d>>, [k \in 1..(n - 1) |-> k])

\* add_buf with n descriptors for one frame: flags along the free list, the
\* head in the available ring, the index after it.
AddBuf(n, frame) ==
    LET chain == Follow(vqNext, vqFreeHead, n)
        used == {chain[k] : k \in 1..n}
    IN  /\ vqMore' = [d \in Descriptors |-> IF d \in used THEN d # chain[n] ELSE vqMore[d]]
        /\ vqAddr' = [d \in Descriptors |-> IF d \in used THEN frame ELSE vqAddr[d]]
        /\ vqFreeHead' = vqNext[chain[n]]
        /\ vqNumFree' = vqNumFree - n
        /\ vqAvail' = [vqAvail EXCEPT ![vqAvailIdx % QueueSize] = vqFreeHead]
        /\ vqAvailIdx' = (vqAvailIdx + 1) % IndexModulus

\* The chain that starts at a head: through the descriptors with the flag.
Chain(head) ==
    LET n == CHOOSE k \in 1..QueueSize :
                 /\ ~vqMore[Last(Follow(vqNext, head, k))]
                 /\ \A j \in 1..(k - 1) : vqMore[Last(Follow(vqNext, head, j))]
    IN  Follow(vqNext, head, n)

\* (mutant) The chain is put back without its tail being linked to the list.
FreeUnlinked(head) ==
    /\ vqFreeHead' = head
    /\ vqNumFree' = vqNumFree + Len(Chain(head))
    /\ UNCHANGED vqNext

\* free_chain: the chain goes in front of the free list.
FreeChain(head) ==
    LET chain == Chain(head)
    IN  /\ vqNext' = [vqNext EXCEPT ![Last(chain)] = vqFreeHead]
        /\ vqFreeHead' = head
        /\ vqNumFree' = vqNumFree + Len(chain)

\* poll_used.
PollUsed ==
    /\ vqLastUsed' = (vqLastUsed + 1) % IndexModulus
    /\ FreeChain(vqUsed[vqLastUsed % QueueSize])

-----------------------------------------------------------------------------
\* read_sector: a frame for the request; without one it fails at once.
Start(t) ==
    /\ vqPc[t] = "idle" /\ vqLeft > 0
    /\ vqLeft' = vqLeft - 1
    /\ \E f \in VqFrames :
          /\ vqOwner[f] = NoTask
          /\ vqOwner' = [vqOwner EXCEPT ![f] = t]
          /\ vqStatus' = [vqStatus EXCEPT ![f] = "pending"]
          /\ vqFrame' = [vqFrame EXCEPT ![t] = f]
    /\ vqPc' = [vqPc EXCEPT ![t] = "submit"]
    /\ UNCHANGED <<driverRing, deviceRing, vqWaiters>>

\* Under the queue's lock: the chain, and the device is notified.  With too few
\* descriptors the request fails and its frame is not given back.
Submit(t) ==
    /\ vqPc[t] = "submit"
    /\ IF ChainLen > vqNumFree
       THEN /\ vqOwner' = [vqOwner EXCEPT ![vqFrame[t]] = Leaked]
            /\ vqPc' = [vqPc EXCEPT ![t] = "idle"]
            /\ UNCHANGED driverRing
       ELSE /\ AddBuf(ChainLen, vqFrame[t])
            /\ vqPc' = [vqPc EXCEPT ![t] = "wait"]
            /\ UNCHANGED <<vqNext, vqLastUsed, vqOwner>>
    /\ UNCHANGED <<deviceRing, vqStatus, vqFrame, vqWaiters, vqLeft>>

\* irq.wait(): from here on, not before, an interrupt wakes the task.
VqWait(t) ==
    /\ vqPc[t] = "wait"
    /\ vqWaiters' = vqWaiters \cup {t}
    /\ vqPc' = [vqPc EXCEPT ![t] = "asleep"]
    /\ UNCHANGED <<driverRing, deviceRing, vqOwner, vqStatus, vqFrame, vqLeft>>

\* Woken: any completion in the used ring ends the wait, whoever's it is.
Look(t) ==
    /\ vqPc[t] = "look"
    /\ IF vqLastUsed # vqUsedIdx
       THEN /\ PollUsed
            /\ vqPc' = [vqPc EXCEPT ![t] = "finish"]
            /\ UNCHANGED <<vqMore, vqAddr, vqAvailIdx, vqAvail>>
       ELSE /\ vqPc' = [vqPc EXCEPT ![t] = "wait"]
            /\ UNCHANGED driverRing
    /\ UNCHANGED <<deviceRing, vqOwner, vqStatus, vqFrame, vqWaiters, vqLeft>>

\* The status byte decides between Ok and DeviceError; the frame is given back.
Finish(t) ==
    /\ vqPc[t] = "finish"
    /\ vqOwner' = [vqOwner EXCEPT ![vqFrame[t]] = NoTask]
    /\ vqFrame' = [vqFrame EXCEPT ![t] = 0]
    /\ vqPc' = [vqPc EXCEPT ![t] = "idle"]
    /\ UNCHANGED <<driverRing, deviceRing, vqStatus, vqWaiters, vqLeft>>

-----------------------------------------------------------------------------
\* The device takes the next chain, and completes any it has taken: it writes
\* the frame, then the used ring, then the index, and raises the interrupt,
\* which wakes the whole queue of the line (irq_wakeup_handler).
DeviceTake ==
    /\ vqDevIdx # vqAvailIdx
    /\ LET head == vqAvail[vqDevIdx % QueueSize]
       IN  vqTaken' = vqTaken \cup {[head |-> head, frame |-> vqAddr[head]]}
    /\ vqDevIdx' = (vqDevIdx + 1) % IndexModulus
    /\ UNCHANGED <<driverRing, vqUsed, vqUsedIdx, vqOwner, vqStatus, vqPc, vqFrame, vqWaiters, vqLeft>>

DeviceComplete ==
    /\ \E c \in vqTaken :
          /\ vqTaken' = vqTaken \ {c}
          /\ vqStatus' = [vqStatus EXCEPT ![c.frame] = "ok"]
          /\ vqUsed' = [vqUsed EXCEPT ![vqUsedIdx % QueueSize] = c.head]
    /\ vqUsedIdx' = (vqUsedIdx + 1) % IndexModulus
    /\ vqWaiters' = {}
    /\ vqPc' = [t \in VqTasks |-> IF t \in vqWaiters THEN "look" ELSE vqPc[t]]
    /\ UNCHANGED <<driverRing, vqDevIdx, vqOwner, vqFrame, vqLeft>>

VqNext ==
    \/ \E t \in VqTasks : Start(t) \/ Submit(t) \/ VqWait(t) \/ Look(t) \/ Finish(t)
    \/ DeviceTake \/ DeviceComplete

VqSpec == VqInit /\ [][VqNext]_vqVars

-----------------------------------------------------------------------------
FreeList == Follow(vqNext, vqFreeHead, vqNumFree)
\* The chains the device has or will take, and those in the used ring.
Between(a, b) == {k \in 0..(IndexModulus - 1) : (k - a) % IndexModulus < (b - a) % IndexModulus}
InFlight ==
    {c.head : c \in vqTaken}
        \cup {vqAvail[k % QueueSize] : k \in Between(vqDevIdx, vqAvailIdx)}
        \cup {vqUsed[k % QueueSize] : k \in Between(vqLastUsed, vqUsedIdx)}

\* Every descriptor is in the free list or in one chain that is in flight,
\* never in two, and num_free counts the free ones: add_buf cannot hand a
\* descriptor of a running request to another, in whatever order the chains
\* come back and the indices wrap.
RingSound ==
    /\ vqNumFree > 0 => IsInjective(FreeList)
    /\ LET free == IF vqNumFree > 0 THEN Range(FreeList) ELSE {}
       IN  /\ \A h \in InFlight : Range(Chain(h)) \cap free = {}
           /\ \A h, g \in InFlight : h # g => Range(Chain(h)) \cap Range(Chain(g)) = {}
           /\ free \cup UNION {Range(Chain(h)) : h \in InFlight} = Descriptors

-----------------------------------------------------------------------------
(***************************************************************************)
(* A SATA port (kernel/drivers/src/ahci/port.rs, ahci/mod.rs) that several     *)
(* tasks read sectors from: command slots taken by compare-and-swap, commands  *)
(* issued through the CI register, completion through the IS register that all *)
(* commands share, one interrupt line.  The controller is external.            *)
(***************************************************************************)
CONSTANTS
    AhTasks, AhSlots, AhFrames,
    AhEndings,      \* the bits of IS with which the device may end a command
    AhReads         \* bound: calls of read_sector

VARIABLES
    ahInUse,    \* slots_in_use
    ahTable,    \* the command tables: slot -> the DMA frame of the PRDT
    ahCi,       \* the CI register: slots the device has to do
    ahIs,       \* the IS register: a subset of {"DHRS", "PSS", "TFES"}
    ahPc, ahSeen, ahSlot, ahFrame,  \* each task: where it is, slots_in_use or IS as it read it, its slot and frame
    ahOwner,    \* each frame: a task, 0, or -1 (lost)
    ahWaiters,  \* tasks in the wait queue of the line
    ahResult,   \* each task's last result
    ahDone,     \* history: tasks whose command the device has carried out
    ahTwice,    \* history: slots taken from a task by the second free of an error
    ahStale,    \* history: slots still in CI though their read has failed
    ahLeft

ahVars == <<ahInUse, ahTable, ahCi, ahIs, ahPc, ahSeen, ahSlot, ahFrame, ahOwner, ahWaiters, ahResult, ahDone, ahTwice, ahStale, ahLeft>>
marks == <<ahTwice, ahStale>>
port == <<ahInUse, ahTable, ahCi, ahIs>>

AhInit ==
    /\ ahInUse = {} /\ ahTable = [s \in AhSlots |-> 0] /\ ahCi = {} /\ ahIs = {}
    /\ ahPc = [t \in AhTasks |-> "idle"] /\ ahSeen = [t \in AhTasks |-> {}]
    /\ ahSlot = [t \in AhTasks |-> -1] /\ ahFrame = [t \in AhTasks |-> 0]
    /\ ahOwner = [f \in AhFrames |-> 0]
    /\ ahWaiters = {} /\ ahResult = [t \in AhTasks |-> "none"] /\ ahDone = {} /\ ahTwice = {} /\ ahStale = {}
    /\ ahLeft = AhReads

At(t, pc) == ahPc' = [ahPc EXCEPT ![t] = pc]

-----------------------------------------------------------------------------
\* read_sector: the frame first.
TakeFrame(t) ==
    /\ ahPc[t] = "idle" /\ ahLeft > 0 /\ ahLeft' = ahLeft - 1
    /\ \E f \in AhFrames : ahOwner[f] = 0 /\ ahOwner' = [ahOwner EXCEPT ![f] = t] /\ ahFrame' = [ahFrame EXCEPT ![t] = f]
    /\ ahDone' = ahDone \ {t}
    /\ ahResult' = [ahResult EXCEPT ![t] = "none"]
    /\ At(t, "load")
    /\ UNCHANGED <<port, ahSeen, ahSlot, ahWaiters, marks>>

\* alloc_slot: the load; with every slot taken the read fails and its frame is
\* not given back.
LoadInUse(t) ==
    /\ ahPc[t] = "load"
    /\ IF AhSlots \ ahInUse = {}
       THEN /\ At(t, "idle") /\ UNCHANGED ahSeen /\ ahResult' = [ahResult EXCEPT ![t] = "NotReady"]
            /\ ahOwner' = [ahOwner EXCEPT ![ahFrame[t]] = -1]
       ELSE At(t, "cas") /\ ahSeen' = [ahSeen EXCEPT ![t] = ahInUse] /\ UNCHANGED <<ahResult, ahOwner>>
    /\ UNCHANGED <<port, ahSlot, ahFrame, ahWaiters, ahDone, ahLeft, marks>>

\* (mutant) The bit is set with a store instead of the compare-and-swap.
StoreInUse(t) ==
    /\ ahPc[t] = "cas"
    /\ LET s == CHOOSE x \in AhSlots \ ahSeen[t] : \A y \in AhSlots \ ahSeen[t] : x <= y
       IN  ahInUse' = ahSeen[t] \cup {s} /\ ahSlot' = [ahSlot EXCEPT ![t] = s] /\ At(t, "set_up")
    /\ ahSeen' = [ahSeen EXCEPT ![t] = {}]
    /\ UNCHANGED <<ahTable, ahCi, ahIs, ahFrame, ahOwner, ahWaiters, ahResult, ahDone, ahLeft, marks>>

\* alloc_slot: the lowest free slot, if nothing has changed (or the weak
\* exchange fails for no reason).
CasInUse(t) ==
    /\ ahPc[t] = "cas"
    /\ LET s == CHOOSE x \in AhSlots \ ahSeen[t] : \A y \in AhSlots \ ahSeen[t] : x <= y
       IN  \/ /\ ahInUse = ahSeen[t]
              /\ ahInUse' = ahInUse \cup {s} /\ ahSlot' = [ahSlot EXCEPT ![t] = s] /\ At(t, "set_up")
           \/ At(t, "load") /\ UNCHANGED <<ahInUse, ahSlot>>
    /\ ahSeen' = [ahSeen EXCEPT ![t] = {}]
    /\ UNCHANGED <<ahTable, ahCi, ahIs, ahFrame, ahOwner, ahWaiters, ahResult, ahDone, ahLeft, marks>>

\* setup_command.
SetUpCommand(t) ==
    /\ ahPc[t] = "set_up"
    /\ ahTable' = [ahTable EXCEPT ![ahSlot[t]] = ahFrame[t]]
    /\ ahStale' = ahStale \ {ahSlot[t]}
    /\ At(t, "clear_is")
    /\ UNCHANGED <<ahInUse, ahCi, ahIs, ahSeen, ahSlot, ahFrame, ahOwner, ahWaiters, ahResult, ahDone, ahLeft, ahTwice>>

\* issue_command_async: every pending bit of the port is cleared, also one that
\* another command waits for ...
ClearIs(t) ==
    /\ ahPc[t] = "clear_is"
    /\ ahIs' = {} /\ At(t, "issue")
    /\ UNCHANGED <<ahInUse, ahTable, ahCi, ahSeen, ahSlot, ahFrame, ahOwner, ahWaiters, ahResult, ahDone, ahLeft, marks>>

\* ... the command is issued; setting a CI bit leaves the others alone.
Issue(t) ==
    /\ ahPc[t] = "issue"
    /\ ahCi' = ahCi \cup {ahSlot[t]} /\ At(t, "wait")
    /\ UNCHANGED <<ahInUse, ahTable, ahIs, ahSeen, ahSlot, ahFrame, ahOwner, ahWaiters, ahResult, ahDone, ahLeft, marks>>

AhWait(t) ==
    /\ ahPc[t] = "wait"
    /\ ahWaiters' = ahWaiters \cup {t} /\ At(t, "asleep")
    /\ UNCHANGED <<port, ahSeen, ahSlot, ahFrame, ahOwner, ahResult, ahDone, ahLeft, marks>>

\* Woken: IS is read; an error, of whichever command, frees the slot here, and
\* read_sector frees it a second time.
ReadIs(t) ==
    /\ ahPc[t] = "read_is"
    /\ ahSeen' = [ahSeen EXCEPT ![t] = IF "TFES" \in ahIs THEN {} ELSE ahIs]
    /\ CASE "TFES" \in ahIs -> /\ ahInUse' = ahInUse \ {ahSlot[t]}
                               /\ ahStale' = ahStale \cup ({ahSlot[t]} \cap ahCi)
                               /\ ahResult' = [ahResult EXCEPT ![t] = "DeviceError"] /\ At(t, "free")
         [] "TFES" \notin ahIs /\ ahIs # {} -> At(t, "ack") /\ UNCHANGED <<ahInUse, ahResult, ahStale>>
         [] OTHER -> At(t, "wait") /\ UNCHANGED <<ahInUse, ahResult, ahStale>>
    /\ UNCHANGED <<ahTable, ahCi, ahIs, ahSlot, ahFrame, ahOwner, ahWaiters, ahDone, ahLeft, ahTwice>>

\* The bits that were read are cleared ...
Acknowledge(t) ==
    /\ ahPc[t] = "ack"
    /\ ahIs' = ahIs \ ahSeen[t] /\ ahSeen' = [ahSeen EXCEPT ![t] = {}] /\ At(t, "read_ci")
    /\ UNCHANGED <<ahInUse, ahTable, ahCi, ahSlot, ahFrame, ahOwner, ahWaiters, ahResult, ahDone, ahLeft, marks>>

CommandDone(t) == ahSlot[t] \notin ahCi

\* ... and the command is over when its CI bit is gone.
ReadCi(t) ==
    /\ ahPc[t] = "read_ci"
    /\ IF CommandDone(t) THEN At(t, "free") /\ ahResult' = [ahResult EXCEPT ![t] = "Ok"]
                         ELSE At(t, "wait") /\ UNCHANGED ahResult
    /\ UNCHANGED <<port, ahSeen, ahSlot, ahFrame, ahOwner, ahWaiters, ahDone, ahLeft, marks>>

\* A task has a slot until it is freed, by issue_command_async or by read_sector.
Holds(t) == ahSlot[t] # -1 /\ ~(ahPc[t] = "free" /\ ahResult[t] = "DeviceError")

\* read_sector: the slot, then the frame.  After an error the slot may have
\* another task by now.
FreeSlot(t) ==
    /\ ahPc[t] = "free"
    /\ ahInUse' = ahInUse \ {ahSlot[t]} /\ ahSlot' = [ahSlot EXCEPT ![t] = -1] /\ At(t, "copy")
    /\ ahTwice' = ahTwice \cup {ahSlot[u] : u \in {v \in AhTasks \ {t} : Holds(v) /\ ahSlot[v] = ahSlot[t]}}
    /\ UNCHANGED <<ahTable, ahCi, ahIs, ahSeen, ahFrame, ahOwner, ahWaiters, ahResult, ahDone, ahLeft, ahStale>>

FreeFrame(t) ==
    /\ ahPc[t] = "copy"
    /\ ahOwner' = [ahOwner EXCEPT ![ahFrame[t]] = 0] /\ ahFrame' = [ahFrame EXCEPT ![t] = 0] /\ At(t, "idle")
    /\ UNCHANGED <<port, ahSeen, ahSlot, ahWaiters, ahResult, ahDone, ahLeft, marks>>

-----------------------------------------------------------------------------
\* The device (external): a command is carried out, its CI bit goes and DHRS or
\* PSS comes; or TFES comes and the bit stays.  Either way the line's handler
\* wakes every waiter.
DeviceEnds(s, bit) ==
    /\ s \in ahCi
    /\ ahIs' = ahIs \cup {bit}
    /\ IF bit = "TFES" THEN UNCHANGED <<ahCi, ahDone>>
       ELSE ahCi' = ahCi \ {s} /\ ahDone' = ahDone \cup {t \in AhTasks : ahSlot[t] = s /\ ahFrame[t] = ahTable[s]}
    /\ ahWaiters' = {}
    /\ ahPc' = [t \in AhTasks |-> IF t \in ahWaiters THEN "read_is" ELSE ahPc[t]]
    /\ UNCHANGED <<ahInUse, ahTable, ahSeen, ahSlot, ahFrame, ahOwner, ahResult, ahLeft, marks>>

AhNext ==
    \/ \E t \in AhTasks : \/ TakeFrame(t) \/ LoadInUse(t) \/ CasInUse(t) \/ SetUpCommand(t) \/ ClearIs(t) \/ Issue(t)
                          \/ AhWait(t) \/ ReadIs(t) \/ Acknowledge(t) \/ ReadCi(t) \/ FreeSlot(t) \/ FreeFrame(t)
    \/ \E s \in AhSlots, bit \in AhEndings : DeviceEnds(s, bit)

AhSpec == AhInit /\ [][AhNext]_ahVars

-----------------------------------------------------------------------------
\* Two tasks never have the same slot, and a slot that is out is marked, as long
\* as the second free of a failed read has not taken it from its next task.
SlotsExclusive ==
    \A t \in AhTasks : Holds(t) /\ ahSlot[t] \notin ahTwice =>
        ahSlot[t] \in ahInUse /\ \A u \in AhTasks \ {t} : Holds(u) => ahSlot[u] # ahSlot[t]

\* A read that reports Ok was carried out into its own frame, and a frame is
\* given back only when no command in CI points to it; but for slots freed twice,
\* and, for the frame, commands that were left in CI by a failed read.
ReadsCarriedOut ==
    /\ \A t \in AhTasks : ahPc[t] = "free" /\ ahResult[t] = "Ok" /\ ahSlot[t] \notin ahTwice => t \in ahDone
    /\ \A s \in ahCi \ (ahTwice \cup ahStale) : ahOwner[ahTable[s]] \in AhTasks

-----------------------------------------------------------------------------
(***************************************************************************)
(* The descriptor rings of the e1000e driver (kernel/drivers/src/e1000e/       *)
(* mod.rs): packets the adapter (external) writes into the receive ring and    *)
(* recv takes out, one per interrupt; frames that several senders put into the *)
(* transmit ring and give back when the descriptor is done.                    *)
(***************************************************************************)
CONSTANTS RxRingSize, TxRingSize, EnSenders, EnFrames, EnPackets, EnSends

VARIABLES
    enRx,       \* receive descriptors: the packet with DD set, 0 for status 0
    enBad,      \* packets that arrive with an error bit
    enRxTail,   \* RDT, as the driver keeps it
    enRxHead,   \* RDH: the next descriptor the adapter writes
    enSent,     \* packets that came from the wire so far
    enGot,      \* the packets recv has returned
    enTx,       \* transmit descriptors: [frame, dd]
    enTxTail, enTxHead,     \* TDT and TDH
    enPc, enIdx, enFrame,   \* each sender
    enOwner,    \* each frame: a sender or 0
    enWaiters, enRecvPc, enLeft

enVars == <<enRx, enBad, enRxTail, enRxHead, enSent, enGot, enTx, enTxTail, enTxHead, enPc, enIdx, enFrame, enOwner,
            enWaiters, enRecvPc, enLeft>>
Receiver == 0
rxSide == <<enRx, enBad, enRxTail, enRxHead, enSent, enGot, enRecvPc>>
txSide == <<enTx, enTxTail, enTxHead, enPc, enIdx, enFrame, enOwner, enLeft>>

EnInit ==
    /\ enRx = [i \in 0..(RxRingSize - 1) |-> 0] /\ enBad \in SUBSET {1, 2}
    /\ enRxTail = RxRingSize - 1 /\ enRxHead = 0 /\ enSent = 0 /\ enGot = <<>>
    /\ enTx = [i \in 0..(TxRingSize - 1) |-> [frame |-> 0, dd |-> TRUE]]
    /\ enTxTail = 0 /\ enTxHead = 0
    /\ enPc = [s \in EnSenders |-> "idle"] /\ enIdx = [s \in EnSenders |-> 0] /\ enFrame = [s \in EnSenders |-> 0]
    /\ enOwner = [f \in EnFrames |-> 0]
    /\ enWaiters = {} /\ enRecvPc = "wait" /\ enLeft = EnSends

-----------------------------------------------------------------------------
\* recv: it waits for the next interrupt before every look.
RecvWait ==
    /\ enRecvPc = "wait"
    /\ enWaiters' = enWaiters \cup {Receiver} /\ enRecvPc' = "asleep"
    /\ UNCHANGED <<enRx, enBad, enRxTail, enRxHead, enSent, enGot, txSide>>

\* The descriptor is cleared and handed back through RDT.
HandBack(next) ==
    /\ enRx' = [enRx EXCEPT ![next] = 0]
    /\ enRxTail' = next

\* The descriptor after the tail: not done, bad, or a packet (a caller's buffer
\* that is too small loses the packet like a bad one).
RecvLook ==
    LET next == (enRxTail + 1) % RxRingSize
        packet == enRx[next]
    IN  /\ enRecvPc = "look"
        /\ enRecvPc' = "wait"
        /\ IF packet = 0 THEN UNCHANGED <<enRx, enRxTail, enGot>>
           ELSE /\ HandBack(next)
                /\ enGot' = IF packet \in enBad THEN enGot ELSE Append(enGot, packet)
        /\ UNCHANGED <<enBad, enRxHead, enSent, enWaiters, txSide>>

\* The adapter owns the descriptors from RDH up to RDT.
Receive ==
    /\ enRxHead # enRxTail /\ enSent < EnPackets
    /\ enSent' = enSent + 1
    /\ enRx' = [enRx EXCEPT ![enRxHead] = enSent + 1]
    /\ enRxHead' = (enRxHead + 1) % RxRingSize
    /\ UNCHANGED <<enBad, enRxTail, enGot, enRecvPc, txSide, enWaiters>>

-----------------------------------------------------------------------------
\* send: a frame, then under the lock the descriptor at the tail, if it is done.
SendStart(s) ==
    /\ enPc[s] = "idle" /\ enLeft > 0 /\ enLeft' = enLeft - 1
    /\ \E f \in EnFrames : /\ enOwner[f] = 0 /\ enOwner' = [enOwner EXCEPT ![f] = s]
                           /\ enFrame' = [enFrame EXCEPT ![s] = f]
    /\ enPc' = [enPc EXCEPT ![s] = "queue"]
    /\ UNCHANGED <<rxSide, enTx, enTxTail, enTxHead, enIdx, enWaiters>>

Room == enTx[enTxTail].dd

SendQueue(s) ==
    /\ enPc[s] = "queue"
    /\ IF Room
       THEN /\ enTx' = [enTx EXCEPT ![enTxTail] = [frame |-> enFrame[s], dd |-> FALSE]]
            /\ enIdx' = [enIdx EXCEPT ![s] = enTxTail]
            /\ enTxTail' = (enTxTail + 1) % TxRingSize
            /\ enPc' = [enPc EXCEPT ![s] = "wait"]
            /\ UNCHANGED <<enFrame, enOwner>>
       ELSE /\ enOwner' = [enOwner EXCEPT ![enFrame[s]] = 0]
            /\ enFrame' = [enFrame EXCEPT ![s] = 0]
            /\ enPc' = [enPc EXCEPT ![s] = "idle"]
            /\ UNCHANGED <<enTx, enTxTail, enIdx>>
    /\ UNCHANGED <<rxSide, enTxHead, enWaiters, enLeft>>

SendWait(s) ==
    /\ enPc[s] = "wait"
    /\ enWaiters' = enWaiters \cup {s} /\ enPc' = [enPc EXCEPT ![s] = "asleep"]
    /\ UNCHANGED <<rxSide, enTx, enTxTail, enTxHead, enIdx, enFrame, enOwner, enLeft>>

DescriptorDone(s) == enTx[enIdx[s]].dd

\* Woken: the descriptor it used is done (its own or a later frame), and the
\* frame goes back.
SendLook(s) ==
    /\ enPc[s] = "look"
    /\ IF DescriptorDone(s)
       THEN /\ enOwner' = [enOwner EXCEPT ![enFrame[s]] = 0]
            /\ enFrame' = [enFrame EXCEPT ![s] = 0]
            /\ enPc' = [enPc EXCEPT ![s] = "idle"]
       ELSE enPc' = [enPc EXCEPT ![s] = "wait"] /\ UNCHANGED <<enOwner, enFrame>>
    /\ UNCHANGED <<rxSide, enTx, enTxTail, enTxHead, enIdx, enWaiters, enLeft>>

\* The adapter sends the descriptors from TDH up to TDT in order.
Transmit ==
    /\ enTxHead # enTxTail
    /\ enTx' = [enTx EXCEPT ![enTxHead].dd = TRUE]
    /\ enTxHead' = (enTxHead + 1) % TxRingSize
    /\ UNCHANGED <<rxSide, enTxTail, enPc, enIdx, enFrame, enOwner, enLeft, enWaiters>>

\* The interrupt wakes the receiver and every sender that waits by now.
Interrupt ==
    /\ enWaiters # {} /\ enWaiters' = {}
    /\ enRecvPc' = IF Receiver \in enWaiters THEN "look" ELSE enRecvPc
    /\ enPc' = [s \in EnSenders |-> IF s \in enWaiters THEN "look" ELSE enPc[s]]
    /\ UNCHANGED <<enRx, enBad, enRxTail, enRxHead, enSent, enGot, enTx, enTxTail, enTxHead, enIdx, enFrame, enOwner, enLeft>>

EnNext ==
    \/ RecvWait \/ RecvLook \/ Receive \/ Transmit \/ Interrupt
    \/ \E s \in EnSenders : SendStart(s) \/ SendQueue(s) \/ SendWait(s) \/ SendLook(s)

EnSpec == EnInit /\ [][EnNext]_enVars

-----------------------------------------------------------------------------
\* recv returns the good packets in the order they came, each once, none left
\* out; what it has not returned yet is in the ring, in order from the tail on.
ReceivedInOrder ==
    LET good(n) == SelectSeq([i \in 1..n |-> i], LAMBDA p : p \notin enBad)
        waiting == {p \in 1..enSent : \E i \in DOMAIN enRx : enRx[i] = p}
    IN  \E n \in 0..enSent : enGot = good(n) /\ waiting = (n + 1)..enSent

\* A frame the adapter has still to send belongs to a sender that has not given
\* it back.
SentFromOwnFrame ==
    \A i \in DOMAIN enTx : ~enTx[i].dd =>
        \E s \in EnSenders : enOwner[enTx[i].frame] = s /\ enFrame[s] = enTx[i].frame

-----------------------------------------------------------------------------
(***************************************************************************)
(* The framebuffers (kernel/drivers/src/virtio/gpu.rs, display/bochs_vga.rs):  *)
(* drawing with its clipping, and the two commands with which the virtio GPU   *)
(* shows a rectangle.  CPUs draw and flush at any time; send_cmd writes the    *)
(* command buffer before it takes the queue's lock.                            *)
(***************************************************************************)
CONSTANTS
    GpWidth, GpHeight, GpColors,
    GpMaxSpan,      \* MAX_SPAN of fill_rect
    GpCpus, GpCalls,
    GpArgs          \* coordinates and extents that callers pass

VARIABLES
    gpRam,      \* the framebuffer memory: pixel index -> color, with a guard behind it
    gpWanted,   \* history: what the drawing calls should have made of it
    gpHost,     \* the host's copy of the resource
    gpBuf,      \* the command buffer
    gpLock,     \* the CPU in the queue's lock, 0 for none
    gpPc, gpCmd,    \* each CPU: where it is, the rectangle it flushes
    gpShown,    \* history: the last command each CPU's send_cmd had carried out
    gpProbe,    \* the next step of probe, "registered", or "failed"
    gpDisplay,  \* what the device has: a resource, its backing memory, the scanout
    gpLeft

gpVars == <<gpRam, gpWanted, gpHost, gpBuf, gpLock, gpPc, gpCmd, gpShown, gpProbe, gpDisplay, gpLeft>>

Pixels == 0..(GpWidth * GpHeight - 1)
Memory == 0..(GpWidth * GpHeight + GpWidth)
Smaller(a, b) == IF a < b THEN a ELSE b
NoCmd == [op |-> "none", x |-> 0, y |-> 0, w |-> 0, h |-> 0]

GpInit ==
    /\ gpRam = [p \in Memory |-> 0] /\ gpWanted = gpRam
    /\ gpHost = [p \in Pixels |-> 0]
    /\ gpBuf = NoCmd /\ gpLock = 0
    /\ gpPc = [c \in GpCpus |-> "idle"] /\ gpCmd = [c \in GpCpus |-> NoCmd] /\ gpShown = [c \in GpCpus |-> NoCmd]
    /\ gpProbe = "transport" /\ gpDisplay = {}
    /\ gpLeft = GpCalls

\* probe: bus mastering and the transport, the features, the control queue, frames
\* for the framebuffer and for the command buffer.  Whatever fails ends it, and the
\* frames it has are not given back.
GpSetUp(ok) ==
    /\ gpProbe \in {"transport", "features", "queue", "framebuffer", "buffer"}
    /\ gpProbe' = IF ~ok THEN "failed"
                  ELSE CASE gpProbe = "transport" -> "features" [] gpProbe = "features" -> "queue"
                         [] gpProbe = "queue" -> "framebuffer" [] gpProbe = "framebuffer" -> "buffer" [] gpProbe = "buffer" -> "create"
    /\ UNCHANGED gpDisplay

\* What the device needs for a command (external).
GpNeeds(cmd) == CASE cmd = "create" -> {} [] cmd = "attach" -> {"create"} [] cmd = "scanout" -> {"create", "attach"}

\* The three commands that make a display of the memory, each one carried out or
\* refused; then the framebuffer is registered.
GpCommand(ok) ==
    /\ gpProbe \in {"create", "attach", "scanout"}
    /\ ok => GpNeeds(gpProbe) \subseteq gpDisplay
    /\ gpDisplay' = IF ok THEN gpDisplay \cup {gpProbe} ELSE gpDisplay
    /\ gpProbe' = IF ~ok THEN "failed"
                  ELSE CASE gpProbe = "create" -> "attach" [] gpProbe = "attach" -> "scanout" [] gpProbe = "scanout" -> "registered"

gpFlushState == <<gpHost, gpBuf, gpLock, gpPc, gpCmd, gpShown>>
Called(c) == gpPc[c] = "idle" /\ gpLeft > 0 /\ gpLeft' = gpLeft - 1

\* What a rectangle of a color, cut to the screen, looks like.
Drawn(x, y, w, h, color) ==
    gpWanted' = [p \in Memory |->
        IF p \in Pixels /\ (p % GpWidth) \in x..(x + w - 1) /\ (p \div GpWidth) \in y..(y + h - 1)
        THEN color ELSE gpWanted[p]]

\* put_pixel.
PutPixel(c, x, y, color) ==
    /\ Called(c)
    /\ gpRam' = IF x >= GpWidth \/ y >= GpHeight THEN gpRam ELSE [gpRam EXCEPT ![y * GpWidth + x] = color]
    /\ Drawn(x, y, 1, 1, color)
    /\ UNCHANGED gpFlushState

ClampedCount(count, x) == Smaller(count, GpWidth - x)

\* write_scanline with count pixels.
WriteScanline(c, x, y, count, color) ==
    /\ Called(c)
    /\ gpRam' = IF count = 0 \/ x >= GpWidth \/ y >= GpHeight THEN gpRam
                ELSE [p \in Memory |->
                        IF p \in (y * GpWidth + x)..(y * GpWidth + x + ClampedCount(count, x) - 1) THEN color ELSE gpRam[p]]
    /\ Drawn(x, y, count, 1, color)
    /\ UNCHANGED gpFlushState

\* The pixels the chunks of a row cover: chunks of at most GpMaxSpan.
RowChunks(first, span) ==
    LET clamped == Smaller(span, GpMaxSpan)
    IN  UNION {(first + k * clamped)..(first + k * clamped + Smaller(span - k * clamped, clamped) - 1) :
                  k \in {n \in 0..span : n * clamped < span}}

\* fill_rect; the caller's x is at most the width (a larger one underflows).
FillRect(c, x, y, w, h, color) ==
    LET xEnd == Smaller(x + w, GpWidth)
        yEnd == Smaller(y + h, GpHeight)
    IN  /\ Called(c) /\ x <= GpWidth
        /\ gpRam' = IF xEnd - x = 0 \/ y >= yEnd THEN gpRam
                    ELSE [p \in Memory |->
                            IF \E row \in y..(yEnd - 1) : p \in RowChunks(row * GpWidth + x, xEnd - x) THEN color ELSE gpRam[p]]
        /\ Drawn(x, y, w, h, color)
        /\ UNCHANGED gpFlushState

-----------------------------------------------------------------------------
\* flush_rect: cut to the screen, nothing for an empty rectangle; the transfer
\* is copied into the command buffer.
FlushRect(c, x, y, w, h) ==
    LET xx == Smaller(x, GpWidth)
        yy == Smaller(y, GpHeight)
        cmd == [op |-> "transfer", x |-> xx, y |-> yy, w |-> Smaller(w, GpWidth - xx), h |-> Smaller(h, GpHeight - yy)]
    IN  /\ Called(c) /\ cmd.w # 0 /\ cmd.h # 0
        /\ gpCmd' = [gpCmd EXCEPT ![c] = cmd] /\ gpBuf' = cmd /\ gpPc' = [gpPc EXCEPT ![c] = "lock"]
        /\ UNCHANGED <<gpRam, gpWanted, gpHost, gpLock, gpShown>>

LockQueue(c) ==
    /\ gpPc[c] = "lock" /\ gpLock = 0
    /\ gpLock' = c /\ gpPc' = [gpPc EXCEPT ![c] = "spin"]
    /\ UNCHANGED <<gpRam, gpWanted, gpHost, gpBuf, gpCmd, gpShown, gpLeft>>

\* The device carries out the command it finds in the buffer; the transfer reads
\* the memory from offset 0 on, line by line (external).  poll_used ends the
\* spinning and the lock is released.
Complete(c) ==
    LET b == gpBuf
        inRect(p) == (p % GpWidth) \in b.x..(b.x + b.w - 1) /\ (p \div GpWidth) \in b.y..(b.y + b.h - 1)
    IN  /\ gpPc[c] = "spin"
        /\ gpHost' = IF b.op # "transfer" THEN gpHost
                     ELSE [p \in Pixels |-> IF inRect(p) THEN gpRam[p - b.y * GpWidth - b.x] ELSE gpHost[p]]
        /\ gpShown' = [gpShown EXCEPT ![c] = b]
        /\ gpLock' = 0
        /\ gpPc' = [gpPc EXCEPT ![c] = IF gpCmd[c].op = "transfer" THEN "next" ELSE "idle"]
        /\ UNCHANGED <<gpRam, gpWanted, gpBuf, gpCmd, gpLeft>>

\* The RESOURCE_FLUSH command of the same rectangle.
NextCommand(c) ==
    /\ gpPc[c] = "next"
    /\ gpCmd' = [gpCmd EXCEPT ![c].op = "flush"] /\ gpBuf' = gpCmd'[c]
    /\ gpPc' = [gpPc EXCEPT ![c] = "lock"]
    /\ UNCHANGED <<gpRam, gpWanted, gpHost, gpLock, gpShown, gpLeft>>

GpDraw ==
    \/ \E c \in GpCpus, x, y \in GpArgs, color \in GpColors :
          \/ PutPixel(c, x, y, color)
          \/ \E w \in GpArgs : \/ WriteScanline(c, x, y, w, color)
                               \/ \E h \in GpArgs : FillRect(c, x, y, w, h, color)
    \/ \E c \in GpCpus : \/ \E x, y, w, h \in GpArgs : FlushRect(c, x, y, w, h)
                         \/ LockQueue(c) \/ Complete(c) \/ NextCommand(c)

\* Nobody draws before the framebuffer is registered.
GpNext ==
    \/ \E ok \in BOOLEAN : (GpSetUp(ok) \/ GpCommand(ok)) /\ UNCHANGED <<gpRam, gpWanted, gpFlushState, gpLeft>>
    \/ gpProbe = "registered" /\ GpDraw /\ UNCHANGED <<gpProbe, gpDisplay>>

GpSpec == GpInit /\ [][GpNext]_gpVars

-----------------------------------------------------------------------------
\* Whatever the arguments, the drawing calls colour exactly the part of their
\* rectangle that is on the screen, and nothing behind the framebuffer.
DrawnExactly == gpRam = gpWanted

\* What is drawn can be seen: a framebuffer that is registered belongs to a resource
\* with this memory behind it that the scanout shows.
DisplayReady == gpProbe = "registered" => gpDisplay = {"create", "attach", "scanout"}

\* The queue's lock is held by one CPU, and with no other CPU flushing the
\* command carried out is the caller's own; a rectangle at the origin then shows
\* what was in memory.
FlushAlone ==
    /\ \A c \in GpCpus : gpPc[c] = "spin" <=> gpLock = c
    /\ \A c \in GpCpus : gpPc[c] = "next" /\ (\A d \in GpCpus \ {c} : gpPc[d] = "idle" /\ gpShown[d] = NoCmd) =>
          gpShown[c] = gpCmd[c]

-----------------------------------------------------------------------------
(***************************************************************************)
(* The network task (kernel/net/src): it receives frames, keeps the ARP table   *)
(* and answers ARP requests and pings.  A byte has NrByte values, so that the    *)
(* 16-bit words of the checksum are NrByte * NrByte.                             *)
(***************************************************************************)
CONSTANTS
    NrByte,         \* values of a byte
    NrIps, NrMacs,  \* the addresses of the others
    NrSize,         \* ARP_TABLE_SIZE
    NrIds,          \* identifier and sequence number of a ping: four bytes
    NrData,         \* payloads of a ping
    NrFrames        \* bound: frames received

VARIABLES
    nrEntries, nrNext,  \* the ArpTable
    nrFrame,    \* the frame handled last
    nrReply,    \* what was sent for it
    nrHeard,    \* history: the address each host announced last
    nrLeft

nrVars == <<nrEntries, nrNext, nrFrame, nrReply, nrHeard, nrLeft>>

OurIp == 0
OurMac == 0
NoEntry == [ip |-> -1, mac |-> -1]
NoReply == <<>>
NoFrame == [kind |-> "none"]

-----------------------------------------------------------------------------
Word == NrByte * NrByte

\* The big-endian words of the data; an odd last byte is the high byte.
WordAt(data, i) == data[2 * i - 1] * NrByte + (IF 2 * i <= Len(data) THEN data[2 * i] ELSE 0)
SumOf(data) == FoldLeft(LAMBDA acc, i : acc + WordAt(data, i), 0, [i \in 1..((Len(data) + 1) \div 2) |-> i])

Carried(s) == (s % Word) + (s \div Word)

\* The carries are added back until none is left.
FoldCarries[s \in Nat] == IF s >= Word THEN FoldCarries[Carried(s)] ELSE s

\* internet_checksum.
InternetChecksum(data) == Word - 1 - FoldCarries[SumOf(data)]

\* ICMP reply: type, code, checksum, identifier and sequence number, data.
EchoReply(f) ==
    LET zeroed == <<0, 0, 0, 0>> \o f.id \o f.data
        sum == InternetChecksum(zeroed)
    IN  [zeroed EXCEPT ![3] = sum \div NrByte, ![4] = sum % NrByte]

\* handle_icmp: only echo requests; to the addresses the request came from.
HandleIcmp(f) ==
    IF f.short \/ f.type # "request" THEN NoReply
    ELSE <<[kind |-> "echo", mac |-> f.mac, ip |-> f.src, body |-> EchoReply(f)]>>

-----------------------------------------------------------------------------
\* learn: the entry of the address, or the next one in turn.
Learn(ip, mac) ==
    LET known == {i \in 1..NrSize : nrEntries[i].ip = ip}
    IN  IF known # {}
        THEN /\ nrEntries' = [nrEntries EXCEPT ![CHOOSE i \in known : \A j \in known : i <= j].mac = mac]
             /\ UNCHANGED nrNext
        ELSE /\ nrEntries' = [nrEntries EXCEPT ![nrNext] = [ip |-> ip, mac |-> mac]]
             /\ nrNext' = (nrNext % NrSize) + 1

NrInit ==
    /\ nrEntries = [i \in 1..NrSize |-> NoEntry] /\ nrNext = 1
    /\ nrFrame = NoFrame /\ nrReply = NoReply
    /\ nrHeard = [i \in NrIps |-> -1]
    /\ nrLeft = NrFrames

Received(f) == nrLeft > 0 /\ nrLeft' = nrLeft - 1 /\ nrFrame' = f

\* handle_arp: whatever the packet asks, its sender is learned; a request for
\* our address is answered.
HandleArp(f) ==
    /\ Received(f)
    /\ IF f.short \/ ~f.ethernet THEN nrReply' = NoReply /\ UNCHANGED <<nrEntries, nrNext, nrHeard>>
       ELSE /\ Learn(f.spa, f.sha) /\ nrHeard' = [nrHeard EXCEPT ![f.spa] = f.sha]
            /\ nrReply' = IF f.oper # "request" \/ f.tpa # OurIp THEN NoReply
                          ELSE <<[kind |-> "arp", mac |-> f.sha, ip |-> f.spa, sha |-> OurMac, spa |-> OurIp]>>

\* The IPv4 branch: a header of another version or length, a packet with no
\* payload and one for somebody else are dropped.
HandleIpv4(f) ==
    /\ Received(f)
    /\ nrReply' = IF ~f.header \/ f.dst # OurIp \/ f.proto # "icmp" THEN NoReply ELSE HandleIcmp(f)
    /\ UNCHANGED <<nrEntries, nrNext, nrHeard>>

\* A short frame, an error of recv or another ethertype.
Ignored ==
    /\ Received([kind |-> "other"])
    /\ nrReply' = NoReply
    /\ UNCHANGED <<nrEntries, nrNext, nrHeard>>

ArpFrames == [kind : {"arp"}, short : {FALSE}, ethernet : {TRUE}, oper : {"request", "reply"},
              sha : NrMacs, spa : NrIps, tpa : {OurIp} \cup NrIps]
         \cup [kind : {"arp"}, short : BOOLEAN, ethernet : {FALSE}, oper : {"request"}, sha : NrMacs, spa : NrIps, tpa : {OurIp}]
IpFrames == [kind : {"ip"}, header : {TRUE}, src : {1}, dst : {OurIp}, proto : {"icmp"}, mac : NrMacs,
             short : {FALSE}, type : {"request"}, id : NrIds, data : NrData]
        \cup [kind : {"ip"}, header : BOOLEAN, src : {1}, dst : {OurIp, 2}, proto : {"icmp", "udp"}, mac : {1},
             short : BOOLEAN, type : {"request", "reply"}, id : {<<0, 0, 0, 0>>}, data : {<<>>}]

NrNext ==
    \/ \E f \in ArpFrames : HandleArp(f)
    \/ \E f \in IpFrames : HandleIpv4(f)
    \/ Ignored

NrSpec == NrInit /\ [][NrNext]_nrVars

-----------------------------------------------------------------------------
\* The table holds an address at most once, with the hardware address it
\* announced last, and forgets one only when the table is full.
TableFresh ==
    /\ \A i, j \in 1..NrSize : nrEntries[i].ip = nrEntries[j].ip /\ nrEntries[i].ip # -1 => i = j
    /\ \A i \in 1..NrSize : nrEntries[i].ip # -1 => nrEntries[i].mac = nrHeard[nrEntries[i].ip]
    /\ Cardinality({i \in 1..NrSize : nrEntries[i].ip # -1}) < NrSize =>
          \A ip \in NrIps : nrHeard[ip] # -1 => \E i \in 1..NrSize : nrEntries[i].ip = ip

\* Exactly the requests to our address are answered, to their sender; the reply
\* to a ping carries its identifier and data, and its words with the checksum
\* add up to all ones, as the receiver will test.
RepliesRight ==
    LET f == nrFrame
        asks == CASE f.kind = "arp" -> ~f.short /\ f.ethernet /\ f.oper = "request" /\ f.tpa = OurIp
                  [] f.kind = "ip" -> f.header /\ ~f.short /\ f.dst = OurIp /\ f.proto = "icmp" /\ f.type = "request"
                  [] OTHER -> FALSE
    IN  /\ (nrReply # NoReply) <=> asks
        /\ asks /\ f.kind = "arp" => nrReply[1].mac = f.sha /\ nrReply[1].ip = f.spa
        /\ asks /\ f.kind = "ip" =>
              /\ nrReply[1].mac = f.mac /\ nrReply[1].ip = f.src
              /\ SubSeq(nrReply[1].body, 5, Len(nrReply[1].body)) = f.id \o f.data
              /\ SumOf(nrReply[1].body) % (Word - 1) = 0
=============================================================================
