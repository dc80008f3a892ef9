----------------------------- MODULE LinuxPipe -----------------------------
(***************************************************************************)
(* A pipe of the linux shell: one thread that writes, one that reads, and  *)
(* between them                                                            *)
(*   - the queue stream that holds the data as a list of buffer nodes      *)
(*     (service/simple_stream/queue_stream/vsf_queue_stream.c),            *)
(*   - the handshake of the two terminals of a stream                      *)
(*     (service/simple_stream/vsf_simple_stream.c), and                    *)
(*   - the POLLIN and POLLOUT bits of the two file descriptors, with the   *)
(*     callback by which a blocked thread is woken                         *)
(*     (shell/sys/linux/kernel/fs/vsf_linux_fs.c).                         *)
(* Whatever the code does under vsf_protect_sched is one step; between two *)
(* such sections the thread of higher priority may come in.  Threads of    *)
(* one priority (the default) change only where one of them blocks or      *)
(* returns.  A byte has no value: nodes hold the numbers of unread bytes.  *)
(***************************************************************************)
EXTENDS Integers, Sequences, FiniteSetsExt

CONSTANTS
    MaxBufferSize,  \* max_buffer_size of the queue stream, in bytes
    WriteSizes,     \* the counts given to write()
    ReadSizes,      \* the counts given to read()
    ThreadPrios,    \* the settings: which thread has the higher priority, "none" for equal ones
    ClosePrios,     \* the settings in which the ends of the pipe are closed
    MaxFails        \* how often the heap may be exhausted

ASSUME PipeAssumption ==
    /\ MaxBufferSize \in Nat \ {0} /\ MaxFails \in Nat
    /\ WriteSizes \subseteq Nat \ {0} /\ ReadSizes \subseteq Nat \ {0}
    /\ ThreadPrios \subseteq {"tx", "rx", "none"} /\ ClosePrios \subseteq ThreadPrios

VARIABLES
    nodes,      \* the buffer queue: unread bytes of every node
    size,       \* queue_stream->size
    term,       \* the two terminals of the stream: ready and data_notified
    fd,         \* POLLOUT bits of the writing end, POLLIN bits of the reading end
    pc,         \* where the two threads are
    todo,       \* bytes the call still has to move
    done,       \* bytes the current vsf_stream_read or vsf_stream_write has moved
    avail,      \* the space the writer has seen
    closing,    \* whether the call is a close
    high, active, \* the thread of higher priority; the thread that runs
    fails       \* allocations that have failed

pipeVars == <<nodes, size, term, fd, pc, todo, done, avail, closing, high, active, fails>>

Ends == {"tx", "rx"}                    \* the writing and the reading end, and their threads
Other(e) == IF e = "tx" THEN "rx" ELSE "tx"

Notifying == {"clear", "test", "set", "call"}
Closing == {"detach", "disconnect", "leave"}
PcOf == [tx |-> {"idle", "check", "pend", "avail", "enqueue", "after", "closed"} \cup Notifying \cup Closing,
         rx |-> {"idle", "check", "pend", "node", "after", "poll", "pollpend", "closed"} \cup Notifying \cup Closing]

PipeTypeOK ==
    /\ size \in 0..MaxBufferSize
    /\ nodes \in Seq(1..MaxBufferSize)
    /\ term \in [Ends -> [ready: BOOLEAN, notified: BOOLEAN]]
    /\ fd \in [Ends -> [status: BOOLEAN, events: BOOLEAN, sticky: BOOLEAN, armed: BOOLEAN]]
    /\ \A e \in Ends : pc[e] \in PcOf[e]
    /\ todo \in [Ends -> Nat] /\ done \in [Ends -> Nat]
    /\ avail \in 0..MaxBufferSize /\ closing \in [Ends -> BOOLEAN]
    /\ high \in ThreadPrios /\ active \in Ends
    /\ fails \in 0..MaxFails

(***************************************************************************)
(* pipe() has connected both terminals; the pipe is empty and writable.    *)
(***************************************************************************)
PipeInit ==
    /\ nodes = <<>> /\ size = 0
    /\ term = [e \in Ends |-> [ready |-> TRUE, notified |-> FALSE]]
    /\ fd = [e \in Ends |-> [status |-> e = "tx", events |-> e = "tx", sticky |-> FALSE, armed |-> FALSE]]
    /\ pc = [e \in Ends |-> "idle"]
    /\ todo = [e \in Ends |-> 0] /\ done = [e \in Ends |-> 0]
    /\ avail = 0 /\ closing = [e \in Ends |-> FALSE]
    /\ high \in ThreadPrios /\ active \in Ends
    /\ fails = 0

------------------------------------------------------------------------------
(* Scheduling *)

\* a thread that is blocked, sleeps outside of the calls or has gone does not hold the processor
Running(e) ==
    /\ pc[e] \notin {"idle", "closed"}
    /\ ~(pc[e] \in {"pend", "pollpend"} /\ fd[e].armed)

MayGo(e) ==
    /\ Running(Other(e)) => high # Other(e)
    /\ (active # e /\ Running(active)) => high = e

At(e, p) == pc[e] = p /\ MayGo(e) /\ active' = e

Goto(e, p) == pc' = [pc EXCEPT ![e] = p]

------------------------------------------------------------------------------
(* File descriptor bits *)

\* vsf_linux_fd_set_events: a callback that is waiting takes the event and signals its thread
SetEvents(f) ==
    IF f.armed THEN [f EXCEPT !.events = f.sticky, !.armed = FALSE]
    ELSE [f EXCEPT !.events = TRUE]

\* vsf_linux_fd_set_status
SetStatus(f) ==
    IF f.status THEN f ELSE SetEvents([f EXCEPT !.status = TRUE])

\* vsf_linux_fd_clear_status
ClearStatus(f) ==
    [f EXCEPT !.status = FALSE, !.events = f.events /\ f.sticky]

\* vsf_linux_fd_pend_events: an event that is set is taken, else the callback is registered
PendEvents(f) ==
    IF f.events THEN [f EXCEPT !.events = f.sticky] ELSE [f EXCEPT !.armed = TRUE]

------------------------------------------------------------------------------
(* vsf_stream_read and vsf_stream_write: queue stream, then handshake *)

\* __vsf_queue_stream_read: one buffer node per round
ReadNode ==
    /\ At("rx", "node") /\ todo["rx"] > 0 /\ nodes # <<>>
    /\ LET n == Min({todo["rx"], Head(nodes)})
       IN  /\ todo' = [todo EXCEPT !["rx"] = @ - n]
           /\ done' = [done EXCEPT !["rx"] = @ + n]
           /\ size' = size - n
           /\ nodes' = IF n < Head(nodes) THEN <<Head(nodes) - n>> \o Tail(nodes) ELSE Tail(nodes)
    /\ UNCHANGED <<term, fd, pc, avail, closing, high, fails>>

ReadNodesEnd ==
    /\ At("rx", "node") /\ (todo["rx"] = 0 \/ nodes = <<>>)
    /\ Goto("rx", "clear")
    /\ UNCHANGED <<nodes, size, term, fd, todo, done, avail, closing, high, fails>>

\* __vsf_queue_stream_get_avail_length
WriteAvail ==
    /\ At("tx", "avail")
    /\ avail' = MaxBufferSize - size
    /\ done' = [done EXCEPT !["tx"] = 0]
    /\ Goto("tx", "enqueue")
    /\ UNCHANGED <<nodes, size, term, fd, todo, closing, high, fails>>

\* __vsf_queue_stream_write
WriteEnqueue ==
    /\ At("tx", "enqueue")
    /\ LET n == Min({avail, todo["tx"]})
       IN  \/ /\ n > 0
              /\ nodes' = Append(nodes, n) /\ size' = size + n
              /\ done' = [done EXCEPT !["tx"] = n]
              /\ UNCHANGED fails
           \/ /\ n = 0
              /\ UNCHANGED <<nodes, size, done, fails>>
           \/ /\ n > 0 /\ fails < MaxFails
              /\ fails' = fails + 1
              /\ UNCHANGED <<nodes, size, done>>
    /\ Goto("tx", "clear")
    /\ UNCHANGED <<term, fd, todo, avail, closing, high>>

Mut_NotifyClear(e) ==
    /\ At(e, "clear")
    /\ Goto(e, "test")
    /\ UNCHANGED <<nodes, size, term, fd, todo, done, avail, closing, high, fails>>

\* __vsf_stream_on_write and __vsf_stream_on_read (both thresholds are 0)
NotifyClear(e) ==
    /\ At(e, "clear")
    /\ term' = [term EXCEPT ![e].notified = FALSE]
    /\ Goto(e, "test")
    /\ UNCHANGED <<nodes, size, fd, todo, done, avail, closing, high, fails>>

NotifyTest(e) ==
    /\ At(e, "test")
    /\ Goto(e, IF term[Other(e)].ready /\ ~term[Other(e)].notified THEN "set"
               ELSE IF closing[e] THEN "detach" ELSE "after")
    /\ UNCHANGED <<nodes, size, term, fd, todo, done, avail, closing, high, fails>>

NotifySet(e) ==
    /\ At(e, "set")
    /\ term' = [term EXCEPT ![Other(e)].notified = TRUE]
    /\ Goto(e, "call")
    /\ UNCHANGED <<nodes, size, fd, todo, done, avail, closing, high, fails>>

\* __vsf_linux_stream_evthandler of the other end
NotifyCall(e) ==
    /\ At(e, "call")
    /\ fd' = [fd EXCEPT ![Other(e)] = SetStatus(@)]
    /\ Goto(e, IF closing[e] THEN "detach" ELSE "after")
    /\ UNCHANGED <<nodes, size, term, todo, done, avail, closing, high, fails>>

------------------------------------------------------------------------------
(* read(), write() and poll() *)

StartRead(n) ==
    /\ At("rx", "idle")
    /\ todo' = [todo EXCEPT !["rx"] = n] /\ done' = [done EXCEPT !["rx"] = 0]
    /\ Goto("rx", "check")
    /\ UNCHANGED <<nodes, size, term, fd, avail, closing, high, fails>>

\* __vsf_linux_stream_read up to vsf_stream_read: no data and no writer is the end of the file
ReadCheck ==
    /\ At("rx", "check")
    /\ IF fd["rx"].status \/ nodes # <<>>
       THEN Goto("rx", "node") /\ UNCHANGED fd
       ELSE IF ~term["tx"].ready
       THEN Goto("rx", "idle") /\ UNCHANGED fd
       ELSE /\ fd' = [fd EXCEPT !["rx"] = PendEvents(@)]
            /\ Goto("rx", IF fd["rx"].events THEN "node" ELSE "pend")
    /\ UNCHANGED <<nodes, size, term, todo, done, avail, closing, high, fails>>

Mut_ReadStale ==
    /\ At("rx", "after") /\ done["rx"] = 0
    /\ Goto("rx", "check")
    /\ UNCHANGED <<nodes, size, term, fd, todo, done, avail, closing, high, fails>>

\* POLLIN was set and nothing was read: the end of the file, or another round
ReadStale ==
    /\ At("rx", "after") /\ done["rx"] = 0
    /\ IF term["tx"].ready
       THEN Goto("rx", "check") /\ fd' = [fd EXCEPT !["rx"] = ClearStatus(@)]
       ELSE Goto("rx", "idle") /\ UNCHANGED fd
    /\ UNCHANGED <<nodes, size, term, todo, done, avail, closing, high, fails>>

\* __vsf_linux_stream_read after vsf_stream_read
ReadAfter ==
    /\ At("rx", "after") /\ done["rx"] > 0
    /\ fd' = [fd EXCEPT !["rx"] = IF size = 0 THEN ClearStatus(@) ELSE SetEvents(@)]
    /\ Goto("rx", "idle")
    /\ UNCHANGED <<nodes, size, term, todo, done, avail, closing, high, fails>>

\* a write to a pipe without reader fails with EPIPE and changes nothing
StartWrite(n) ==
    /\ At("tx", "idle") /\ term["rx"].ready
    /\ todo' = [todo EXCEPT !["tx"] = n]
    /\ Goto("tx", "check")
    /\ UNCHANGED <<nodes, size, term, fd, done, avail, closing, high, fails>>

\* __vsf_linux_stream_write up to vsf_stream_write
WriteCheck ==
    /\ At("tx", "check")
    /\ IF fd["tx"].status
       THEN Goto("tx", "avail") /\ UNCHANGED fd
       ELSE /\ fd' = [fd EXCEPT !["tx"] = PendEvents(@)]
            /\ Goto("tx", IF fd["tx"].events THEN "avail" ELSE "pend")
    /\ UNCHANGED <<nodes, size, term, todo, done, avail, closing, high, fails>>

Mut_WriteAfter ==
    /\ At("tx", "after")
    /\ todo' = [todo EXCEPT !["tx"] = @ - done["tx"]]
    /\ fd' = [fd EXCEPT !["tx"] = IF avail = done["tx"] THEN ClearStatus(@) ELSE SetEvents(@)]
    /\ Goto("tx", IF todo["tx"] = done["tx"] THEN "idle" ELSE "check")
    /\ UNCHANGED <<nodes, size, term, done, avail, closing, high, fails>>

\* __vsf_linux_stream_write after vsf_stream_write
WriteAfter ==
    /\ At("tx", "after")
    /\ todo' = [todo EXCEPT !["tx"] = @ - done["tx"]]
    /\ fd' = [fd EXCEPT !["tx"] = IF size = MaxBufferSize THEN ClearStatus(@) ELSE SetEvents(@)]
    /\ Goto("tx", IF todo["tx"] = done["tx"] THEN "idle" ELSE "check")
    /\ UNCHANGED <<nodes, size, term, done, avail, closing, high, fails>>

\* the callback has signalled the trigger of the thread
Wake(e) ==
    /\ At(e, "pend") /\ ~fd[e].armed
    /\ Goto(e, IF e = "tx" THEN "avail" ELSE "node")
    /\ UNCHANGED <<nodes, size, term, fd, todo, done, avail, closing, high, fails>>

StartPoll ==
    /\ At("rx", "idle")
    /\ Goto("rx", "poll")
    /\ UNCHANGED <<nodes, size, term, fd, todo, done, avail, closing, high, fails>>

\* __vsf_linux_poll_tick for POLLIN of the reading end, without timeout
PollCheck ==
    /\ At("rx", "poll")
    /\ LET f == fd["rx"]
       IN  fd' = [fd EXCEPT !["rx"] = IF f.events THEN [f EXCEPT !.events = f.sticky \/ f.status]
                                      ELSE [f EXCEPT !.armed = TRUE]]
    /\ Goto("rx", IF fd["rx"].events THEN "idle" ELSE "pollpend")
    /\ UNCHANGED <<nodes, size, term, todo, done, avail, closing, high, fails>>

PollWake ==
    /\ At("rx", "pollpend") /\ ~fd["rx"].armed
    /\ fd' = [fd EXCEPT !["rx"].events = TRUE]
    /\ Goto("rx", "poll")
    /\ UNCHANGED <<nodes, size, term, todo, done, avail, closing, high, fails>>

------------------------------------------------------------------------------
(* close() *)

Unlimited == 1073741824     \* the size 0xFFFFFFFF of the code: more than a pipe can hold

\* __vsf_linux_pipe_close: the reading end drops what is in the pipe
StartClose(e) ==
    /\ high \in ClosePrios
    /\ At(e, "idle")
    /\ closing' = [closing EXCEPT ![e] = TRUE]
    /\ todo' = [todo EXCEPT ![e] = IF e = "rx" THEN Unlimited ELSE 0]
    /\ Goto(e, IF e = "rx" THEN "node" ELSE "detach")
    /\ UNCHANGED <<nodes, size, term, fd, done, avail, high, fails>>

\* sticky_events of the other end is set to POLLIN, which only the reading end has
CloseDetach(e) ==
    /\ At(e, "detach")
    /\ fd' = IF e = "tx" /\ ~closing["rx"] THEN [fd EXCEPT !["rx"].sticky = TRUE] ELSE fd
    /\ Goto(e, "disconnect")
    /\ UNCHANGED <<nodes, size, term, todo, done, avail, closing, high, fails>>

\* __vsf_stream_disconnect_terminal: the other end is told first
Disconnect(e) ==
    /\ At(e, "disconnect")
    /\ fd' = IF term[e].ready /\ term[Other(e)].ready THEN [fd EXCEPT ![Other(e)] = SetStatus(@)] ELSE fd
    /\ Goto(e, "leave")
    /\ UNCHANGED <<nodes, size, term, todo, done, avail, closing, high, fails>>

Leave(e) ==
    /\ At(e, "leave")
    /\ term' = [term EXCEPT ![e].ready = FALSE]
    /\ Goto(e, "closed")
    /\ UNCHANGED <<nodes, size, fd, todo, done, avail, closing, high, fails>>

------------------------------------------------------------------------------
Notify(e) == NotifyClear(e) \/ NotifyTest(e) \/ NotifySet(e) \/ NotifyCall(e)

\* what a thread does once it is in a call
ReaderStep ==
    \/ ReadCheck \/ Wake("rx") \/ ReadNode \/ ReadNodesEnd \/ Notify("rx")
    \/ ReadStale \/ ReadAfter
    \/ PollCheck \/ PollWake
    \/ CloseDetach("rx") \/ Disconnect("rx") \/ Leave("rx")

WriterStep ==
    \/ WriteCheck \/ Wake("tx") \/ WriteAvail \/ WriteEnqueue \/ Notify("tx") \/ WriteAfter
    \/ CloseDetach("tx") \/ Disconnect("tx") \/ Leave("tx")

PipeNext ==
    \/ \E n \in ReadSizes : StartRead(n)
    \/ \E n \in WriteSizes : StartWrite(n)
    \/ StartPoll
    \/ \E e \in Ends : StartClose(e)
    \/ ReaderStep
    \/ WriterStep

PipeSpec == PipeInit /\ [][PipeNext]_pipeVars

\* a call goes on as long as its thread is not blocked, and the reader comes back to read
PipeFairSpec ==
    /\ PipeSpec
    /\ WF_pipeVars(ReaderStep) /\ WF_pipeVars(WriterStep)
    /\ SF_pipeVars(\E n \in ReadSizes : StartRead(n))

------------------------------------------------------------------------------
Blocked(e) == pc[e] \in {"pend", "pollpend"} /\ fd[e].armed

(***************************************************************************)
(* A reader that is blocked in read() or poll() although the pipe holds    *)
(* data is about to be woken by the writer: between data_notified, the     *)
(* POLLIN bits and the callback no wake-up is lost.                        *)
(***************************************************************************)
ReaderIsWoken == Blocked("rx") /\ nodes # <<>> => pc["tx"] \in Notifying

(***************************************************************************)
(* A writer that is blocked in write() although there is space is about to *)
(* be woken by the reader, who is still in its vsf_stream_read.            *)
(***************************************************************************)
WriterIsWoken == Blocked("tx") /\ size < MaxBufferSize => pc["rx"] \in {"node"} \cup Notifying

(***************************************************************************)
(* A read() does not stay blocked on a pipe whose writing end is closed,   *)
(* although the other end is told before ready is cleared.                 *)
(***************************************************************************)
EofIsSeen == pc["rx"] = "pend" /\ Blocked("rx") => term["tx"].ready

(***************************************************************************)
(* The handler of an end is not called after that end was closed and its   *)
(* private data freed.                                                     *)
(***************************************************************************)
ClosedIsNotCalled == \A e \in Ends : pc[e] = "call" => pc[Other(e)] # "closed"

(***************************************************************************)
(* Nobody is blocked on a pipe that has data, space or its end for him     *)
(* unless the other thread is about to wake him, and no closed end is      *)
(* woken.                                                                  *)
(***************************************************************************)
BlockedIsWoken ==
    PipeTypeOK /\ ReaderIsWoken /\ WriterIsWoken /\ EofIsSeen /\ ClosedIsNotCalled

(***************************************************************************)
(* A write() returns, however large, unless the reader closes its end: the *)
(* reader goes on calling read() and the two never wait for each other.    *)
(***************************************************************************)
WriteReturns == pc["tx"] = "check" ~> (pc["tx"] = "idle" \/ pc["rx"] = "closed")

(***************************************************************************)
(* After the writer has closed its end, a read() returns: with what is     *)
(* left in the pipe, or with the end of the file.                          *)
(***************************************************************************)
ReadReturnsAfterClose ==
    (pc["rx"] = "check" /\ pc["tx"] = "closed") ~> pc["rx"] = "idle"

(***************************************************************************)
(* A write to a pipe whose read end is gone ends, as the comment in        *)
(* __vsf_linux_stream_write promises (it fails with EPIPE). This fails for *)
(* a writer that is blocked when the read end goes, and no run lists it    *)
(* (README, Observations).                                                 *)
(***************************************************************************)
WriteEndsWithoutReader ==
    (pc["tx"] = "check" /\ pc["rx"] = "closed") ~> pc["tx"] = "idle"
=============================================================================
