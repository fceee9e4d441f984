---------------------------- MODULE VirtualAudio ----------------------------
(***************************************************************************)
(* VirtualAudio: init_audio, the thread that copies PCM data from the FIFO *)
(* in the rootfs to an AAudio stream, and stop, which closes both under    *)
(* the thread before it joins it.  aaudio_stream and audio_fifo_fd are     *)
(* plain members that the two threads share without the mutex the class    *)
(* declares.  The object is new at every init_audio.                       *)
(***************************************************************************)
EXTENDS Naturals

VARIABLES
    opc,         \* the owner: idle, up, or a step of init_audio or stop
    wpc,         \* the worker
    is_running,
    fifo_fd,     \* audio_fifo_fd: "none" (-1) or "fd"
    fd_open,     \* the descriptor is open
    stream,      \* aaudio_stream: "null", "open", or "closed" (dangling)
    late_reads,  \* reads of the descriptor since it was closed
    late_writes  \* writes to the stream since it was closed

owner  == <<opc, is_running, fifo_fd, fd_open, stream>>
worker == <<wpc, late_reads, late_writes>>
vars   == <<owner, worker>>

Starting == {"init_stream", "init_thread"}
Stopping == {"stop_close", "stop_forget", "stop_stream", "stop_null", "stop_join"}

Init ==
    /\ opc = "idle" /\ wpc = "none" /\ is_running = FALSE
    /\ fifo_fd = "none" /\ fd_open = FALSE /\ stream = "null"
    /\ late_reads = 0 /\ late_writes = 0

-----------------------------------------------------------------------------
(* init_audio, on a new object: its stop() finds nothing to do.            *)

OpenFifo ==                                  \* or the FIFO cannot be opened
    /\ opc = "idle"
    /\ \/ opc' = "init_stream" /\ fifo_fd' = "fd" /\ fd_open' = TRUE
       \/ opc' = "up" /\ UNCHANGED <<fifo_fd, fd_open>>
    /\ late_reads' = 0 /\ late_writes' = 0
    /\ UNCHANGED <<is_running, stream, wpc>>

init_aaudio ==                               \* its failure is not looked at
    /\ opc = "init_stream" /\ opc' = "init_thread"
    /\ stream' \in {"null", "open"}
    /\ UNCHANGED <<is_running, fifo_fd, fd_open, worker>>

StartThread ==
    /\ opc = "init_thread" /\ opc' = "up"
    /\ is_running' = TRUE /\ wpc' = "check"
    /\ UNCHANGED <<fifo_fd, fd_open, stream, late_reads, late_writes>>

-----------------------------------------------------------------------------
(* stop.                                                                   *)

(* Mutant: the flag stays set. *)
StopNoFlag ==
    /\ opc = "up"
    /\ opc' = IF fifo_fd = "fd" THEN "stop_close" ELSE "stop_stream"
    /\ UNCHANGED <<is_running, fifo_fd, fd_open, stream, worker>>

StopFlag ==
    /\ opc = "up" /\ is_running' = FALSE
    /\ opc' = IF fifo_fd = "fd" THEN "stop_close" ELSE "stop_stream"
    /\ UNCHANGED <<fifo_fd, fd_open, stream, worker>>

StopClose ==
    /\ opc = "stop_close" /\ opc' = "stop_forget"
    /\ fd_open' = FALSE
    /\ UNCHANGED <<is_running, fifo_fd, stream, worker>>

StopForget ==
    /\ opc = "stop_forget" /\ opc' = "stop_stream"
    /\ fifo_fd' = "none"
    /\ UNCHANGED <<is_running, fd_open, stream, worker>>

(* close_aaudio: AAudioStream_close, and then the pointer.                 *)
CloseStream ==
    /\ opc = "stop_stream"
    /\ IF stream = "open" THEN opc' = "stop_null" /\ stream' = "closed"
       ELSE opc' = "stop_join" /\ UNCHANGED stream
    /\ UNCHANGED <<is_running, fifo_fd, fd_open, worker>>

ForgetStream ==
    /\ opc = "stop_null" /\ opc' = "stop_join"
    /\ stream' = "null"
    /\ UNCHANGED <<is_running, fifo_fd, fd_open, worker>>

StopJoin ==
    /\ opc = "stop_join" /\ wpc \in {"none", "exited"}
    /\ opc' = "idle" /\ wpc' = "none"
    /\ UNCHANGED <<is_running, fifo_fd, fd_open, stream, late_reads, late_writes>>

-----------------------------------------------------------------------------
(* audio_loop.                                                             *)

LoopCheck ==
    /\ wpc = "check"
    /\ wpc' = IF is_running THEN "test" ELSE "exited"
    /\ UNCHANGED <<owner, late_reads, late_writes>>

LoopTest ==
    /\ wpc = "test"
    /\ wpc' = IF fifo_fd = "fd" THEN "read" ELSE "exited"
    /\ UNCHANGED <<owner, late_reads, late_writes>>

(* Mutant: without O_NONBLOCK the read waits for the guest to play. *)
ReadBlocking ==
    /\ wpc = "read" /\ fd_open
    /\ wpc' = "pcm"
    /\ UNCHANGED <<owner, late_reads, late_writes>>

(* Data; or none, and a pause of 10 ms.  The number of a closed descriptor *)
(* may be that of another file by now, so data is possible even then; a    *)
(* file that would make the read wait is left out.                         *)
ReadFifo ==
    /\ wpc = "read" /\ wpc' \in {"pcm", "check"}
    /\ late_reads' = IF fd_open THEN late_reads ELSE late_reads + 1
    /\ UNCHANGED <<owner, late_writes>>

(* write_pcm tests the pointer, and uses it.                               *)
write_pcm ==
    /\ wpc = "pcm"
    /\ wpc' = IF stream # "null" THEN "write" ELSE "check"
    /\ UNCHANGED <<owner, late_reads, late_writes>>

WriteStream ==                               \* with timeout 0
    /\ wpc = "write" /\ wpc' = "check"
    /\ late_writes' = IF stream = "open" THEN late_writes ELSE late_writes + 1
    /\ UNCHANGED <<owner, late_reads>>

-----------------------------------------------------------------------------
OwnerInit == init_aaudio \/ StartThread
OwnerStop == StopClose \/ StopForget \/ CloseStream \/ ForgetStream \/ StopJoin
audio_loop == LoopCheck \/ LoopTest \/ ReadFifo \/ write_pcm \/ WriteStream

Next == OpenFifo \/ OwnerInit \/ StopFlag \/ OwnerStop \/ audio_loop

Spec == Init /\ [][Next]_vars

-----------------------------------------------------------------------------
(* Properties, which the runs of EngineLifecycle check.                    *)

TypeOK ==
    /\ opc \in {"idle", "up"} \cup Starting \cup Stopping
    /\ wpc \in {"none", "check", "test", "read", "pcm", "write", "exited"}
    /\ is_running \in BOOLEAN /\ fd_open \in BOOLEAN
    /\ fifo_fd \in {"none", "fd"} /\ stream \in {"null", "open", "closed"}
    /\ late_reads \in Nat /\ late_writes \in Nat

(* The thread may use what stop has closed under it, but once each, in the *)
(* round it is in when the flag is cleared: never again after that.        *)
OneLateUse == late_reads <= 1 /\ late_writes <= 1
=============================================================================
