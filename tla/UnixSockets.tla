----------------------------- MODULE UnixSockets ----------------------------
(*****************************************************************************)
(* UNIX sockets: the life of a socket, and the stream of a connected pair.   *)
(*****************************************************************************)
EXTENDS Naturals, Sequences, SequencesExt, FiniteSets

-----------------------------------------------------------------------------
(***************************************************************************)
(* The naming and connection side of AF_UNIX sockets                         *)
(* (kernel/kernel/src/net/unix.rs): bind, listen, connect, accept, close.    *)
(* Threads share descriptors, so calls on one socket may overlap; each        *)
(* region under a lock is a step.  Pair n is the n-th ConnectedPair; its       *)
(* server-side socket is named by n too.                                      *)
(***************************************************************************)
CONSTANTS
    UnThreads, UnSockets, UnPaths,
    UnBacklog,     \* the backlog listen is called with
    UnPairs        \* bound: connections made

VARIABLES
    unState,       \* SocketState of each socket: kind, path, pair
    unOpen,        \* sockets with an open descriptor
    unGone,        \* sockets that have been dropped
    unQueue,       \* the accept queue of a listening socket
    unRegistry,    \* UNIX_REGISTRY: path -> socket, 0 for none
    unServer,      \* server side of each pair: none, queued, open, gone
    unClosed,      \* closed_a / closed_b of each pair
    unMade,        \* pairs made
    unCall,        \* the call each thread is in: point, socket, path, listener, pair
    unAsleep,      \* wakers in the wait queue of each socket: blocked accepts
    unReady,       \* threads whose waker was called
    unJammed,      \* UNIX_REGISTRY is locked by a drop that waits for it
    unClash,       \* history: paths two sockets were bound to
    unOverlap      \* history: sockets with two connects, or connect and bind, at once

unVars == <<unState, unOpen, unGone, unQueue, unRegistry, unServer, unClosed, unMade, unCall,
            unAsleep, unReady, unJammed, unClash, unOverlap>>

NoSocket == 0
NoPath == "-"
Unbound == [kind |-> "unbound", path |-> NoPath, pair |-> 0]
Idle == [at |-> "idle", sock |-> NoSocket, path |-> NoPath, peer |-> NoSocket, pair |-> 0]

UnInit ==
    /\ unState = [s \in UnSockets |-> Unbound]
    /\ unOpen = UnSockets /\ unGone = {}
    /\ unQueue = [s \in UnSockets |-> << >>]
    /\ unRegistry = [p \in UnPaths |-> NoSocket]
    /\ unServer = [n \in 1 .. UnPairs |-> "none"]
    /\ unClosed = [n \in 1 .. UnPairs |-> {}]
    /\ unMade = 0
    /\ unCall = [t \in UnThreads |-> Idle]
    /\ unAsleep = [s \in UnSockets |-> {}]
    /\ unReady = {} /\ unJammed = FALSE
    /\ unClash = {} /\ unOverlap = {}

Named(s) == unState[s].kind \in {"bound", "listening"}
Calling(t, s) == unCall[t] # Idle /\ unCall[t].sock = s
Enter(t, label, s, p) ==
    unCall' = [unCall EXCEPT ![t] = [Idle EXCEPT !.at = label, !.sock = s, !.path = p]]
Return(t) == unCall' = [unCall EXCEPT ![t] = Idle]
Free(t, s) == unCall[t] = Idle /\ s \in unOpen

\* A socket's state is overwritten; the server sides in its queue are dropped.
Replace(s, state) ==
    /\ unState' = [unState EXCEPT ![s] = state]
    /\ unQueue' = [unQueue EXCEPT ![s] = << >>]
    /\ unServer' = [n \in 1 .. UnPairs |->
                      IF Contains(unQueue[s], n) THEN "gone" ELSE unServer[n]]
    /\ unClosed' = [n \in 1 .. UnPairs |->
                      IF Contains(unQueue[s], n) THEN unClosed[n] \cup {"b"} ELSE unClosed[n]]

\* bind: nothing but the socket's own state.
Bind(t, s, p) ==
    /\ Free(t, s) /\ unState[s].kind = "unbound"
    /\ unState' = [unState EXCEPT ![s] = [@ EXCEPT !.kind = "bound", !.path = p]]
    /\ unClash' = unClash \cup { q \in {p} : \E r \in UnSockets : Named(r) /\ unState[r].path = p }
    /\ unOverlap' = unOverlap \cup { r \in {s} : \E u \in UnThreads : Calling(u, s) }
    /\ UNCHANGED <<unOpen, unGone, unQueue, unRegistry, unServer, unClosed, unMade, unCall,
                   unAsleep, unReady, unJammed>>

\* listen: the path is read under the lock ...
Listen(t, s) ==
    /\ Free(t, s) /\ unState[s].kind = "bound"
    /\ Enter(t, "listen", s, unState[s].path)
    /\ UNCHANGED <<unState, unOpen, unGone, unQueue, unRegistry, unServer, unClosed, unMade,
                   unAsleep, unReady, unJammed, unClash, unOverlap>>

\* ... the state is set under it again ...
SetListening(t) ==
    /\ unCall[t].at = "listen"
    /\ Replace(unCall[t].sock, [kind |-> "listening", path |-> unCall[t].path, pair |-> 0])
    /\ unCall' = [unCall EXCEPT ![t].at = "register"]
    /\ UNCHANGED <<unOpen, unGone, unRegistry, unMade, unAsleep, unReady, unJammed, unClash, unOverlap>>

\* (mutant) listen forgets the registry
RegisterNowhere(t) ==
    /\ unCall[t].at = "register"
    /\ Return(t)
    /\ UNCHANGED <<unState, unOpen, unGone, unQueue, unRegistry, unServer, unClosed, unMade,
                   unAsleep, unReady, unJammed, unClash, unOverlap>>

\* ... and registry_bind fails if the path is taken, with the state as it is.
RegistryBind(t) ==
    LET p == unCall[t].path IN
    /\ unCall[t].at = "register" /\ ~unJammed
    /\ unRegistry' = IF unRegistry[p] # NoSocket THEN unRegistry
                     ELSE [unRegistry EXCEPT ![p] = unCall[t].sock]
    /\ Return(t)
    /\ UNCHANGED <<unState, unOpen, unGone, unQueue, unServer, unClosed, unMade, unAsleep,
                   unReady, unJammed, unClash, unOverlap>>

\* connect: the caller must be Unbound ...
Connect(t, s, p) ==
    /\ Free(t, s) /\ unState[s].kind = "unbound"
    /\ Enter(t, "lookup", s, p)
    /\ unOverlap' = unOverlap \cup { r \in {s} : \E u \in UnThreads : Calling(u, s) }
    /\ UNCHANGED <<unState, unOpen, unGone, unQueue, unRegistry, unServer, unClosed, unMade,
                   unAsleep, unReady, unJammed, unClash>>

\* ... registry_lookup takes a reference to the listener ...
Lookup(t) ==
    LET l == unRegistry[unCall[t].path] IN
    /\ unCall[t].at = "lookup" /\ ~unJammed
    /\ IF l = NoSocket THEN Return(t)
       ELSE unCall' = [unCall EXCEPT ![t].at = "push", ![t].peer = l]
    /\ UNCHANGED <<unState, unOpen, unGone, unQueue, unRegistry, unServer, unClosed, unMade,
                   unAsleep, unReady, unJammed, unClash, unOverlap>>

\* ... the pair's server side goes into its queue, or is refused ...
PushServer(t) ==
    LET l == unCall[t].peer IN
    /\ unCall[t].at = "push" /\ unMade < UnPairs
    /\ IF unState[l].kind = "listening" /\ Len(unQueue[l]) < UnBacklog
         THEN /\ unMade' = unMade + 1
              /\ unQueue' = [unQueue EXCEPT ![l] = Append(@, unMade + 1)]
              /\ unServer' = [unServer EXCEPT ![unMade + 1] = "queued"]
              /\ unCall' = [unCall EXCEPT ![t].at = "wake", ![t].pair = unMade + 1]
         ELSE Return(t) /\ UNCHANGED <<unMade, unQueue, unServer>>
    /\ UNCHANGED <<unState, unOpen, unGone, unRegistry, unClosed, unAsleep, unReady, unJammed, unClash,
                   unOverlap>>

\* (mutant) connect does not wake the listener
WakeNobody(t) ==
    /\ unCall[t].at = "wake"
    /\ unCall' = [unCall EXCEPT ![t].at = "connected"]
    /\ UNCHANGED <<unState, unOpen, unGone, unQueue, unRegistry, unServer, unClosed, unMade,
                   unAsleep, unReady, unJammed, unClash, unOverlap>>

\* ... every blocked accept is woken ...
WakeAccepts(t) ==
    LET l == unCall[t].peer IN
    /\ unCall[t].at = "wake"
    /\ unReady' = unReady \cup unAsleep[l]
    /\ unAsleep' = [unAsleep EXCEPT ![l] = {}]
    /\ unCall' = [unCall EXCEPT ![t].at = "connected"]
    /\ UNCHANGED <<unState, unOpen, unGone, unQueue, unRegistry, unServer, unClosed, unMade,
                   unJammed, unClash, unOverlap>>

\* ... and only then the caller becomes Connected.
SetConnected(t) ==
    /\ unCall[t].at = "connected"
    /\ Replace(unCall[t].sock, [kind |-> "connected", path |-> NoPath, pair |-> unCall[t].pair])
    /\ Return(t)
    /\ UNCHANGED <<unOpen, unGone, unRegistry, unMade, unAsleep, unReady, unJammed, unClash, unOverlap>>

\* accept: one attempt, without a waker of its own ...
TryAccept(t, s) ==
    /\ Free(t, s)
    /\ unCall' = [unCall EXCEPT ![t] = [Idle EXCEPT !.sock = s, !.at =
                    IF unState[s].kind = "listening" /\ unQueue[s] = << >> THEN "trap" ELSE "pop"]]
    /\ UNCHANGED <<unState, unOpen, unGone, unQueue, unRegistry, unServer, unClosed, unMade,
                   unAsleep, unReady, unJammed, unClash, unOverlap>>

\* ... after which process_task looks the descriptor up again ...
TrapAccept(t) ==
    /\ unCall[t].at = "trap"
    /\ IF unCall[t].sock \in unOpen THEN unCall' = [unCall EXCEPT ![t].at = "poll"] ELSE Return(t)
    /\ UNCHANGED <<unState, unOpen, unGone, unQueue, unRegistry, unServer, unClosed, unMade,
                   unAsleep, unReady, unJammed, unClash, unOverlap>>

\* ... and every poll registers the waker first ...
PollAccept(t) ==
    LET s == unCall[t].sock IN
    /\ \/ unCall[t].at = "poll"
       \/ unCall[t].at = "asleep" /\ t \in unReady
    /\ unReady' = unReady \ {t}
    /\ unAsleep' = [unAsleep EXCEPT ![s] = @ \cup {t}]
    /\ unCall' = [unCall EXCEPT ![t].at = "check"]
    /\ UNCHANGED <<unState, unOpen, unGone, unQueue, unRegistry, unServer, unClosed, unMade,
                   unJammed, unClash, unOverlap>>

\* ... then looks at the queue.
CheckQueue(t) ==
    LET s == unCall[t].sock IN
    /\ unCall[t].at = "check"
    /\ unCall' = [unCall EXCEPT ![t].at =
                    IF unState[s].kind = "listening" /\ unQueue[s] = << >> THEN "asleep" ELSE "pop"]
    /\ UNCHANGED <<unState, unOpen, unGone, unQueue, unRegistry, unServer, unClosed, unMade,
                   unAsleep, unReady, unJammed, unClash, unOverlap>>

\* The server side gets a descriptor; an empty queue sends the call round again.
PopServer(t) ==
    LET s == unCall[t].sock IN
    /\ unCall[t].at = "pop"
    /\ IF unState[s].kind # "listening"
         THEN Return(t) /\ UNCHANGED <<unQueue, unServer>>
       ELSE IF unQueue[s] # << >>
         THEN /\ unServer' = [unServer EXCEPT ![Head(unQueue[s])] = "open"]
              /\ unQueue' = [unQueue EXCEPT ![s] = Tail(@)]
              /\ Return(t)
       ELSE /\ unCall' = [unCall EXCEPT ![t].at = "poll"]
            /\ UNCHANGED <<unQueue, unServer>>
    /\ UNCHANGED <<unState, unOpen, unGone, unRegistry, unClosed, unMade, unAsleep, unReady,
                   unJammed, unClash, unOverlap>>

\* The last descriptor is closed; the socket lives on while it is referenced.
Close(t, s) ==
    /\ Free(t, s)
    /\ unOpen' = unOpen \ {s}
    /\ UNCHANGED <<unState, unGone, unQueue, unRegistry, unServer, unClosed, unMade, unCall,
                   unAsleep, unReady, unJammed, unClash, unOverlap>>

\* Closing an accepted socket drops it: closed_b.
CloseServer(n) ==
    /\ unServer[n] = "open"
    /\ unServer' = [unServer EXCEPT ![n] = "gone"]
    /\ unClosed' = [unClosed EXCEPT ![n] = @ \cup {"b"}]
    /\ UNCHANGED <<unState, unOpen, unGone, unQueue, unRegistry, unMade, unCall, unAsleep,
                   unReady, unJammed, unClash, unOverlap>>

Held(s) ==
    \/ s \in unOpen
    \/ \E t \in UnThreads : unCall[t].at \notin {"idle", "trap"} /\ (unCall[t].sock = s \/ unCall[t].peer = s)
Referenced(s) == Held(s) \/ \E p \in UnPaths : unRegistry[p] = s

\* registry_unbind drops what it removes with the registry still locked.  When that
\* is the last reference to another socket with a name, its drop waits for the lock.
LastOfAnother(s) ==
    \E r \in UnSockets \ {s} : unRegistry[unState[s].path] = r /\ ~Held(r) /\ Named(r)

Unbind(s) ==
    unRegistry' = [p \in UnPaths |->
                     IF Named(s) /\ unState[s].path = p THEN NoSocket ELSE unRegistry[p]]

\* (mutant) the drop does not tell the peer
DropSilently(s) ==
    /\ s \notin unGone /\ ~Referenced(s) /\ (Named(s) => ~unJammed)
    /\ unGone' = unGone \cup {s}
    /\ Unbind(s)
    /\ UNCHANGED <<unState, unOpen, unQueue, unServer, unClosed, unMade, unCall, unAsleep,
                   unReady, unJammed, unClash, unOverlap>>

\* Drop for UnixSocket: the path is unbound, whoever holds it; the peer sees the
\* end; queued server sides go with their listener, unless the drop never returns.
DropSocket(s) ==
    LET jams == Named(s) /\ LastOfAnother(s) IN
    /\ s \notin unGone /\ ~Referenced(s) /\ (Named(s) => ~unJammed)
    /\ unGone' = unGone \cup {s}
    /\ Unbind(s)
    /\ unJammed' = (unJammed \/ jams)
    /\ unServer' = [n \in 1 .. UnPairs |->
                      IF ~jams /\ Contains(unQueue[s], n) THEN "gone" ELSE unServer[n]]
    /\ unClosed' = [n \in 1 .. UnPairs |->
                      CASE unState[s].pair = n -> unClosed[n] \cup {"a"}
                        [] unState[s].pair # n /\ ~jams /\ Contains(unQueue[s], n) ->
                             unClosed[n] \cup {"b"}
                        [] OTHER -> unClosed[n]]
    /\ UNCHANGED <<unState, unOpen, unQueue, unMade, unCall, unAsleep, unReady, unClash,
                   unOverlap>>

UnNext ==
    \/ \E t \in UnThreads, s \in UnSockets :
         \/ Listen(t, s) \/ TryAccept(t, s) \/ Close(t, s)
         \/ \E p \in UnPaths : Bind(t, s, p) \/ Connect(t, s, p)
    \/ \E t \in UnThreads :
         \/ SetListening(t) \/ RegistryBind(t) \/ Lookup(t) \/ PushServer(t) \/ WakeAccepts(t)
         \/ SetConnected(t) \/ TrapAccept(t) \/ PollAccept(t) \/ CheckQueue(t) \/ PopServer(t)
    \/ \E s \in UnSockets : DropSocket(s)
    \/ \E n \in 1 .. UnPairs : CloseServer(n)

UnSpec == UnInit /\ [][UnNext]_unVars

-----------------------------------------------------------------------------

InQueue(n) == { s \in UnSockets : Contains(unQueue[s], n) }

\* A listening socket is found under its path once listen has returned, as long as
\* no other socket was ever bound to that path: a second one takes the path away
\* when it is dropped.  No two calls on the socket may overlap that both found it
\* unbound: connect sets the state without a second look.
ListenersFindable ==
    \A s \in UnSockets :
        (/\ unState[s].kind = "listening" /\ unState[s].path \notin unClash
         /\ s \notin unGone /\ unOverlap = {}
         /\ ~\E t \in UnThreads : unCall[t].at \in {"listen", "register"} /\ Calling(t, s))
        => unRegistry[unState[s].path] = s

\* Neither end of a connection waits for a peer that is gone: a client's server
\* side is queued, accepted or marked closed, and an accepted socket's client is
\* there, about to be, or marked closed; two overlapping connects of one socket
\* are the exception, whose first pair nobody ever closes.
BothEndsAccounted ==
    \A n \in 1 .. unMade :
        LET client == { s \in UnSockets : unState[s].pair = n /\ s \notin unGone } IN
        /\ unServer[n] = "queued" => Cardinality(InQueue(n)) = 1
        /\ unServer[n] = "gone" => "b" \in unClosed[n]
        /\ unOverlap = {} =>
             \/ client # {} \/ "a" \in unClosed[n]
             \/ \E t \in UnThreads : unCall[t].pair = n

\* A thread blocked in accept is woken when a connection is queued: connect's
\* wake-up cannot fall between accept's look at the queue and its sleep.
NoSleepingAccept ==
    \A t \in UnThreads :
        (unCall[t].at = "asleep" /\ t \notin unReady /\ unQueue[unCall[t].sock] # << >>) =>
            \E u \in UnThreads : unCall[u].at = "wake" /\ unCall[u].peer = unCall[t].sock

-----------------------------------------------------------------------------
(***************************************************************************)
(* The data side of a connected AF_UNIX pair (kernel/kernel/src/net/unix.rs   *)
(* and syscall/net.rs): sendmsg, recvmsg with SCM_RIGHTS descriptors,          *)
(* shutdown and the drop of either end.  Tasks of both sides run on any CPU;   *)
(* each region under a lock, each flag access and each wake_all is a step.     *)
(* A byte is its position in the stream; a descriptor is the position of the   *)
(* byte it was sent with.                                                     *)
(***************************************************************************)
CONSTANTS
    UsTasks,             \* the tasks: pairs of a side, "a" or "b", and a number
    SOCK_BUF_CAPACITY, MAX_PENDING_FDS,
    UsChunk,             \* bytes in one call: a set
    UsOps,               \* bound: the calls each task makes
    UsRounds             \* bound: calls of each task, a function

VARIABLES
    usData,     \* data of the StreamBuffer each side writes
    usFds,      \* pending_fds of that buffer
    usWq,       \* wq_a, wq_b: tasks with a waker in the queue of their side
    usClosed,   \* sides whose closed flag is set
    usOpen,     \* sides with an open descriptor
    usPc, usReady, usLeft,
    usArg,      \* locals of the call: bytes, descriptors or room for them
    usSent, usGot,   \* history: bytes each side has sent; has read
    usEof,      \* history: sides that have read the end
    usLate,     \* history: sides that wrote during or after their shutdown
    usBehind    \* history: a descriptor was left behind its byte

usVars == <<usData, usFds, usWq, usClosed, usOpen, usPc, usReady, usLeft, usArg, usSent,
            usGot, usEof, usLate, usBehind>>

Sides == {"a", "b"}
Peer(s) == IF s = "a" THEN "b" ELSE "a"
Side(t) == t[1]
NoArg == [n |-> 0, fds |-> 0, took |-> 0]

UsInit ==
    /\ usData = [s \in Sides |-> << >>] /\ usFds = [s \in Sides |-> << >>]
    /\ usWq = [s \in Sides |-> {}]
    /\ usClosed = {} /\ usOpen = Sides
    /\ usPc = [t \in UsTasks |-> "idle"] /\ usReady = {}
    /\ usLeft = UsRounds
    /\ usArg = [t \in UsTasks |-> NoArg]
    /\ usSent = [s \in Sides |-> 0] /\ usGot = [s \in Sides |-> 0]
    /\ usEof = {} /\ usLate = {} /\ usBehind = FALSE

Go(t, label) == usPc' = [usPc EXCEPT ![t] = label]
Clear(t, label) == usArg' = IF label = "idle" THEN [usArg EXCEPT ![t] = NoArg] ELSE usArg
Writing(t) == usPc[t] \in {"peer", "wreg", "wlook", "wsleep", "wclosed", "write"}

\* A call begins, on a descriptor that is open.
Begin(t, call, label, arg) ==
    /\ call \in UsOps[t]
    /\ usPc[t] = "idle" /\ usLeft[t] > 0 /\ Side(t) \in usOpen
    /\ usLeft' = [usLeft EXCEPT ![t] = @ - 1]
    /\ usArg' = [usArg EXCEPT ![t] = arg]
    /\ Go(t, label)

\* process_send_ancillary: beyond the limit a descriptor is lost.
Ancillary(s, fds) ==
    usFds' = [usFds EXCEPT ![s] = IF fds = 0 \/ Len(@) >= MAX_PENDING_FDS THEN @
                                  ELSE Append(@, usSent[s] + 1)]

\* sys_sendmsg: the descriptors first, then the write.
Sendmsg(t, n, fds) ==
    /\ Begin(t, "send", "peer", [NoArg EXCEPT !.n = n])
    /\ Ancillary(Side(t), fds)
    /\ usLate' = usLate \cup (usClosed \cap {Side(t)})
    /\ UNCHANGED <<usData, usWq, usClosed, usOpen, usReady, usSent, usGot, usEof, usBehind>>

\* write: EPIPE if the peer has closed.
CheckPeer(t) ==
    /\ usPc[t] \in {"peer", "wclosed"}
    /\ Go(t, IF Peer(Side(t)) \in usClosed THEN "idle"
             ELSE IF usPc[t] = "peer" THEN "wreg" ELSE "write")
    /\ Clear(t, IF Peer(Side(t)) \in usClosed THEN "idle" ELSE "write")
    /\ UNCHANGED <<usData, usFds, usWq, usClosed, usOpen, usReady, usLeft, usSent, usGot, usEof,
                   usLate, usBehind>>

\* The poll_fn of read and of write registers the waker with its side's queue ...
Register(t) ==
    /\ \/ usPc[t] \in {"rreg", "wreg"}
       \/ usPc[t] \in {"rsleep", "wsleep"} /\ t \in usReady
    /\ usReady' = usReady \ {t}
    /\ usWq' = [usWq EXCEPT ![Side(t)] = @ \cup {t}]
    /\ Go(t, IF usPc[t] \in {"rreg", "rsleep"} THEN "rlook" ELSE "wlook")
    /\ UNCHANGED <<usData, usFds, usClosed, usOpen, usLeft, usArg, usSent, usGot, usEof, usLate,
                   usBehind>>

CanRead(s) == usData[Peer(s)] # << >> \/ Peer(s) \in usClosed
CanWrite(s) == Len(usData[s]) < SOCK_BUF_CAPACITY \/ Peer(s) \in usClosed

\* ... and then looks at the buffer and the peer's flag.
Look(t) ==
    /\ usPc[t] \in {"rlook", "wlook"}
    /\ IF usPc[t] = "rlook" THEN Go(t, IF CanRead(Side(t)) THEN "read" ELSE "rsleep")
                            ELSE Go(t, IF CanWrite(Side(t)) THEN "wclosed" ELSE "wsleep")
    /\ UNCHANGED <<usData, usFds, usWq, usClosed, usOpen, usReady, usLeft, usArg, usSent, usGot,
                   usEof, usLate, usBehind>>

\* (mutant) write pushes the whole chunk once there is some room
WriteAll(t) ==
    LET s == Side(t)
        n == usArg[t].n
    IN
    /\ usPc[t] = "write"
    /\ usData' = [usData EXCEPT ![s] = @ \o [i \in 1 .. n |-> usSent[s] + i]]
    /\ usSent' = [usSent EXCEPT ![s] = @ + n]
    /\ Go(t, IF n = 0 THEN "wreg" ELSE "wake")
    /\ UNCHANGED <<usFds, usWq, usClosed, usOpen, usReady, usLeft, usArg, usGot, usEof, usLate,
                   usBehind>>

\* StreamBuffer::write: as much as there is room for; nothing sends write round again.
Write(t) ==
    LET s == Side(t)
        n == Min({usArg[t].n, SOCK_BUF_CAPACITY - Len(usData[s])})
    IN
    /\ usPc[t] = "write"
    /\ usData' = [usData EXCEPT ![s] = @ \o [i \in 1 .. n |-> usSent[s] + i]]
    /\ usSent' = [usSent EXCEPT ![s] = @ + n]
    /\ Go(t, IF n = 0 THEN "wreg" ELSE "wake")
    /\ UNCHANGED <<usFds, usWq, usClosed, usOpen, usReady, usLeft, usArg, usGot, usEof, usLate,
                   usBehind>>

\* sys_recvmsg, with room for some descriptors.
Recvmsg(t, n, room) ==
    /\ Begin(t, "recv", "rreg", [NoArg EXCEPT !.n = n, !.fds = room])
    /\ UNCHANGED <<usData, usFds, usWq, usClosed, usOpen, usReady, usSent, usGot, usEof, usLate,
                   usBehind>>

\* (mutant) the end of the stream is looked for before the data
ReadEofFirst(t) ==
    LET s == Side(t)
        n == Min({usArg[t].n, Len(usData[Peer(s)])})
    IN
    /\ usPc[t] = "read"
    /\ IF Peer(s) \in usClosed
         THEN /\ usEof' = usEof \cup {s} /\ Go(t, "fds")
              /\ UNCHANGED <<usData, usGot, usArg>>
         ELSE /\ usData' = [usData EXCEPT ![Peer(s)] = SubSeq(@, n + 1, Len(@))]
              /\ usGot' = [usGot EXCEPT ![s] = @ + n]
              /\ usArg' = [usArg EXCEPT ![t].took = n]
              /\ Go(t, IF n > 0 THEN "wake" ELSE "rreg")
              /\ UNCHANGED usEof
    /\ UNCHANGED <<usFds, usWq, usClosed, usOpen, usReady, usLeft, usSent, usLate, usBehind>>

\* read, under the buffer's lock: data before the end; neither sends it round again.
Read(t) ==
    LET s == Side(t)
        n == Min({usArg[t].n, Len(usData[Peer(s)])})
    IN
    /\ usPc[t] = "read"
    /\ usData' = [usData EXCEPT ![Peer(s)] = SubSeq(@, n + 1, Len(@))]
    /\ usGot' = [usGot EXCEPT ![s] = @ + n]
    /\ usArg' = [usArg EXCEPT ![t].took = n]
    /\ usEof' = usEof \cup { x \in {s} : n = 0 /\ Peer(s) \in usClosed }
    /\ Go(t, IF n > 0 THEN "wake" ELSE IF Peer(s) \in usClosed THEN "fds" ELSE "rreg")
    /\ UNCHANGED <<usFds, usWq, usClosed, usOpen, usReady, usLeft, usSent, usLate, usBehind>>

\* (mutant) one waiter of the peer is woken
WakeOnePeer(t) ==
    LET p == Peer(Side(t)) IN
    /\ usPc[t] \in {"wake", "shut"}
    /\ \/ usWq[p] = {} /\ UNCHANGED <<usReady, usWq>>
       \/ \E u \in usWq[p] : /\ usReady' = usReady \cup {u}
                             /\ usWq' = [usWq EXCEPT ![p] = @ \ {u}]
    /\ Go(t, IF usArg[t].took > 0 THEN "fds" ELSE "idle")
    /\ Clear(t, IF usArg[t].took > 0 THEN "fds" ELSE "idle")
    /\ UNCHANGED <<usData, usFds, usClosed, usOpen, usLeft, usSent, usGot, usEof, usLate, usBehind>>

\* wake_all on the peer's queue, after a write, a read or a shutdown.
WakePeer(t) ==
    LET p == Peer(Side(t)) IN
    /\ usPc[t] \in {"wake", "shut"}
    /\ usReady' = usReady \cup usWq[p]
    /\ usWq' = [usWq EXCEPT ![p] = {}]
    /\ Go(t, IF usArg[t].took > 0 THEN "fds" ELSE "idle")
    /\ Clear(t, IF usArg[t].took > 0 THEN "fds" ELSE "idle")
    /\ UNCHANGED <<usData, usFds, usClosed, usOpen, usLeft, usSent, usGot, usEof, usLate, usBehind>>

\* (mutant) one descriptor too few is dequeued
DequeueFdsShort(t) ==
    LET q == Peer(Side(t))
        n == Min({usArg[t].fds, Len(usFds[q])}) - (IF usFds[q] # << >> /\ usArg[t].fds > 0 THEN 1 ELSE 0)
    IN
    /\ usPc[t] = "fds"
    /\ usFds' = [usFds EXCEPT ![q] = SubSeq(@, n + 1, Len(@))]
    /\ usBehind' = (usBehind \/ (n < usArg[t].fds /\ \E i \in n + 1 .. Len(usFds[q]) :
                                                       usFds[q][i] <= usGot[Side(t)]))
    /\ Go(t, "idle") /\ Clear(t, "idle")
    /\ UNCHANGED <<usData, usWq, usClosed, usOpen, usReady, usLeft, usSent, usGot, usEof, usLate>>

\* The descriptors that fit into the control buffer are dequeued.
DequeueFds(t) ==
    LET q == Peer(Side(t))
        n == Min({usArg[t].fds, Len(usFds[q])})
    IN
    /\ usPc[t] = "fds"
    /\ usFds' = [usFds EXCEPT ![q] = SubSeq(@, n + 1, Len(@))]
    /\ usBehind' = (usBehind \/ (n < usArg[t].fds /\ \E i \in n + 1 .. Len(usFds[q]) :
                                                       usFds[q][i] <= usGot[Side(t)]))
    /\ Go(t, "idle") /\ Clear(t, "idle")
    /\ UNCHANGED <<usData, usWq, usClosed, usOpen, usReady, usLeft, usSent, usGot, usEof, usLate>>

\* shutdown of the write half: the flag, then the peer is woken.
Shutdown(t) ==
    /\ Begin(t, "shutdown", "shut", NoArg)
    /\ usClosed' = usClosed \cup {Side(t)}
    /\ usLate' = usLate \cup { s \in {Side(t)} : \E u \in UsTasks : Side(u) = s /\ Writing(u) }
    /\ UNCHANGED <<usData, usFds, usWq, usOpen, usReady, usSent, usGot, usEof, usBehind>>

\* The last descriptor of a side is closed; calls in progress keep the socket.
CloseEnd(s) ==
    /\ s \in usOpen
    /\ usOpen' = usOpen \ {s}
    /\ UNCHANGED <<usData, usFds, usWq, usClosed, usPc, usReady, usLeft, usArg, usSent, usGot,
                   usEof, usLate, usBehind>>

\* Drop for UnixSocket: the flag, and the peer is woken.
DropEnd(s) ==
    /\ s \notin usOpen /\ \A t \in UsTasks : Side(t) = s => usPc[t] = "idle"
    /\ s \notin usClosed \/ usWq[Peer(s)] # {}
    /\ usClosed' = usClosed \cup {s}
    /\ usReady' = usReady \cup usWq[Peer(s)]
    /\ usWq' = [usWq EXCEPT ![Peer(s)] = {}]
    /\ UNCHANGED <<usData, usFds, usOpen, usPc, usLeft, usArg, usSent, usGot, usEof, usLate,
                   usBehind>>

UsNext ==
    \/ \E t \in UsTasks, n \in UsChunk, k \in 0 .. 1 : Sendmsg(t, n, k) \/ Recvmsg(t, n, k)
    \/ \E t \in UsTasks :
         \/ CheckPeer(t) \/ Register(t) \/ Look(t) \/ Write(t) \/ Read(t) \/ WakePeer(t)
         \/ DequeueFds(t) \/ Shutdown(t)
    \/ \E s \in Sides : CloseEnd(s) \/ DropEnd(s)

UsSpec == UsInit /\ [][UsNext]_usVars

-----------------------------------------------------------------------------

\* Each direction is a reliable bounded stream: what has not been read yet is the
\* run of bytes that follows the last one read, and never more than the capacity.
StreamsIntact ==
    \A s \in Sides :
        /\ usData[s] = [i \in 1 .. Len(usData[s]) |-> usGot[Peer(s)] + i]
        /\ usGot[Peer(s)] + Len(usData[s]) = usSent[s]
        /\ Len(usData[s]) <= SOCK_BUF_CAPACITY

\* The end of the stream comes after every byte: once a read has returned 0 there
\* is nothing left to read, unless the peer writes on while or after it shuts down.
EofIsLast ==
    \A s \in Sides : s \in usEof /\ Peer(s) \notin usLate => usData[Peer(s)] = << >>

\* No reader sleeps on data or on the end of the stream, no writer on room or on a
\* closed peer, except while the wake-up is on its way; both wait in one queue.
NoStuckEnd ==
    \A t \in UsTasks :
        LET s == Side(t) IN
        (/\ t \notin usReady
         /\ \/ usPc[t] = "rsleep" /\ CanRead(s)
            \/ usPc[t] = "wsleep" /\ CanWrite(s))
        => \E u \in UsTasks : Side(u) = Peer(s) /\ usPc[u] \in {"wake", "shut"}

\* A descriptor is not left behind: the reader of its byte gets it, given room.
FdsNotLeftBehind == ~usBehind
=============================================================================
