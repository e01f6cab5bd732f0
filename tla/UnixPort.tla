------------------------------ MODULE UnixPort ------------------------------
(***************************************************************************)
(* Serial::SerialImpl on Unix, unix.cc: one action per stretch of code     *)
(* between two system calls, at which threads, signals (EINTR), arriving   *)
(* bytes and time can come in between.                                     *)
(***************************************************************************)
EXTENDS SerialCalls, FiniteSetsExt

(* Timeout: the milliseconds between two bytes (Forever for the largest    *)
(* value), and the constant and the multiplier of a read and of a write.   *)
Timeouts == [inter_byte : Nat \cup {Forever}, read_constant : Nat, read_multiplier : Nat,
             write_constant : Nat, write_multiplier : Nat]

(* MillisecondTimer: the time that is left counts down from the total.     *)
ReadTotal(size) == timeout.read_constant + timeout.read_multiplier * size
WriteTotal(size) == timeout.write_constant + timeout.write_multiplier * size

Sooner(x, y) == IF y = Forever THEN x ELSE Min({x, y})

still == UNCHANGED <<platform, script, wire>>
sameObject == UNCHANGED <<object, locks>>
-----------------------------------------------------------------------------
(* open, reconfigurePort and close.                                         *)
FreeFds == {f \in Fds : files[f] = "free"}

(* An interrupted ::open is tried again; one that fails leaves fd_ at -1.  *)
UOpen(t) ==
  /\ At(t, "open")
  /\ IF port = NoPort \/ is_open
     THEN Raise(t, "misuse") /\ UNCHANGED <<fd, files, failed>>
     ELSE \/ /\ FreeFds # {}
             /\ fd' = Min(FreeFds)
             /\ files' = [files EXCEPT ![fd'] = port]
             /\ Go(t, [at |-> "config", phase |-> "opening"]) /\ UNCHANGED failed
          \/ /\ (FreeFds = {} /\ UNCHANGED failed) \/ Fails("open")
             /\ fd' = NoFd /\ Raise(t, "error") /\ UNCHANGED files
          \/ Fails("interrupt") /\ UNCHANGED <<call, fd, files>>
  /\ still /\ UNCHANGED <<port, is_open, settings, timeout, locks, queues, terminal, hungup, signals>>

(* A setter stores its value and, on an open port, configures it.           *)
USet(t) ==
  /\ Doing(t, {"set"}, "body")
  /\ settings' = Updated(settings, call[t].n)
  /\ Go(t, [at |-> IF is_open THEN "config" ELSE "returned"])
  /\ still /\ UNCHANGED <<port, fd, is_open, timeout, locks, queues, system>>

(* On Windows this configures the port as well.                             *)
SetTimeout(t) ==
  /\ Doing(t, {"setTimeout"}, "body")
  /\ timeout' = call[t].n
  /\ Go(t, [at |-> IF platform = "win" /\ is_open THEN "config" ELSE "returned"])
  /\ still /\ UNCHANGED <<port, fd, is_open, settings, locks, queues, system>>

UConfig(t) ==
  /\ At(t, "config")
  /\ \/ /\ Reached
        /\ terminal' = [terminal EXCEPT ![File] = CustomDivisor(settings, @)]
        /\ Go(t, [at |-> "apply", attrs |-> Reconfigured(settings, terminal[File])])
        /\ UNCHANGED failed
     \/ /\ (~Reached /\ UNCHANGED failed) \/ Fails("attributes")
        /\ Raise(t, "error") /\ UNCHANGED terminal
  /\ still /\ sameObject /\ UNCHANGED <<queues, files, hungup, signals>>

(* Nobody looks at the result of tcsetattr, which may set nothing.          *)
UApply(t) ==
  /\ At(t, "apply")
  /\ UNCHANGED failed \/ Fails("settings")
  /\ terminal' = IF Reached /\ failed' = failed
                 THEN [terminal EXCEPT ![File] = call[t].attrs] ELSE terminal
  /\ is_open' = (is_open \/ call[t].phase = "opening")
  /\ Go(t, [at |-> "returned", attrs |-> Nobody, phase |-> "none"])
  /\ still /\ UNCHANGED <<port, fd, settings, timeout, locks, queues, files, hungup, signals>>

(* The last descriptor of a terminal takes the queues along.                *)
Dropped(q, f) ==
  IF f \in Ports /\ \A g \in Fds \ {fd} : files[g] # f THEN [q EXCEPT ![f] = <<>>] ELSE q

(* A close that fails may or may not have closed the file.  After one that  *)
(* did, fd_ stands for no file, or for one that is not the port's.          *)
UClose(t) ==
  /\ At(t, "close")
  /\ IF ~is_open
     THEN Return(t) /\ UNCHANGED <<files, queues, failed>>
     ELSE IF File = "free"
     THEN Raise(t, "error") /\ UNCHANGED <<files, queues, failed>>
     ELSE \/ /\ files' = [files EXCEPT ![fd] = "free"]
             /\ inq' = Dropped(inq, File) /\ outq' = Dropped(outq, File)
             /\ Go(t, [at |-> "closed"]) /\ UNCHANGED failed
          \/ /\ Fails("close") /\ Raise(t, "error")
             /\ files' \in {files, [files EXCEPT ![fd] = "free"]} /\ UNCHANGED queues
  /\ still /\ sameObject /\ UNCHANGED <<terminal, hungup, signals>>

UClosed(t) ==
  /\ At(t, "closed")
  /\ fd' = NoFd /\ is_open' = FALSE
  /\ Return(t)
  /\ still /\ UNCHANGED <<port, settings, timeout, locks, queues, system>>
-----------------------------------------------------------------------------
(* read: what is there, and then one select and one ::read at a time.      *)
UReadStart(t) ==
  /\ Doing(t, Reads, "body")
  /\ IF is_open
     THEN Go(t, [at |-> "prefill", left |-> ReadTotal(ReadSize(t))])
     ELSE Raise(t, "notopen")
  /\ still /\ sameObject /\ UNCHANGED <<queues, system>>

(* ::read takes what is there, up to what is missing.  From then on wait is *)
(* what is left of the time between two bytes.                              *)
Missing(t) == ReadSize(t) - Len(call[t].got)

TakeIn(t, k) ==
  /\ inq' = [inq EXCEPT ![File] = SubSeq(@, k + 1, Len(@))]
  /\ Go(t, [at |-> "loop", got |-> call[t].got \o SubSeq(In, 1, k),
            wait |-> timeout.inter_byte])

(* Nobody looks whether the first ::read fails: the next select will.       *)
UPrefill(t) ==
  /\ At(t, "prefill")
  /\ IF Reached
     THEN TakeIn(t, Min({Missing(t), Len(In)}))
     ELSE Go(t, [at |-> "loop"]) /\ UNCHANGED inq
  /\ still /\ sameObject /\ UNCHANGED <<outq, system>>

UReadLoop(t) ==
  /\ Doing(t, Reads, "loop")
  /\ IF Missing(t) = 0 \/ call[t].left <= 0
     THEN Return(t)
     ELSE Go(t, [at |-> "select", wait |-> Sooner(call[t].left, timeout.inter_byte)])
  /\ still /\ sameObject /\ UNCHANGED <<queues, system>>

(* waitReadable, which is a method of its own as well.                      *)
Readable == In # <<>> \/ hungup

UWaitReadableStart(t) ==
  /\ Doing(t, {"waitReadable"}, "body")
  /\ Go(t, [at |-> "select", wait |-> timeout.read_constant])
  /\ still /\ sameObject /\ UNCHANGED <<queues, system>>

AfterSelect_x_EndsRead(t, ready) ==
  IF Op(t) = "waitReadable" \/ ~ready THEN "returned" ELSE "ready"
AfterSelect(t, ready) ==
  IF Op(t) = "waitReadable" THEN "returned" ELSE IF ready THEN "ready" ELSE "loop"

UWaitReadable(t) ==
  /\ At(t, "select") /\ Reached
  /\ \/ Readable /\ Go(t, [at |-> AfterSelect(t, TRUE), wait |-> 0]) /\ UNCHANGED failed
     \/ /\ ~Readable /\ call[t].wait = 0
        /\ Go(t, [at |-> AfterSelect(t, FALSE)]) /\ UNCHANGED failed
     \/ Fails("interrupt") /\ Go(t, [at |-> AfterSelect(t, FALSE)])
  /\ still /\ sameObject /\ UNCHANGED <<queues, files, terminal, hungup, signals>>

(* Without an inter-byte time-out a longer read gives the missing bytes    *)
(* the time they need on the line, so that it gets them in one go.         *)
UReady(t) ==
  /\ At(t, "ready")
  /\ \/ /\ ReadSize(t) > 1 /\ timeout.inter_byte = Forever
        /\ IF hungup THEN Raise(t, "error")
           ELSE Go(t, [at |-> IF Missing(t) > Len(In) THEN "bytetimes" ELSE "take"])
     \/ ~(ReadSize(t) > 1 /\ timeout.inter_byte = Forever) /\ Go(t, [at |-> "take"])
  /\ still /\ sameObject /\ UNCHANGED <<queues, system>>

UWaitByteTimesStart(t) ==
  /\ Doing(t, {"waitByteTimes"}, "body")
  /\ Go(t, [at |-> "bytetimes"])
  /\ still /\ sameObject /\ UNCHANGED <<queues, system>>

(* The pause is a pselect on nothing, whose result nobody looks at: a      *)
(* signal ends it early, and a pause of a second or more is refused.       *)
UWaitByteTimes(t) ==
  /\ At(t, "bytetimes")
  /\ Go(t, [at |-> IF Op(t) \in Reads THEN "take" ELSE "returned"])
  /\ still /\ sameObject /\ UNCHANGED <<queues, system>>

UTake(t) ==
  /\ At(t, "take") /\ Reached
  /\ IF In = <<>>
     THEN Raise(t, "disconnected") /\ UNCHANGED inq
     ELSE TakeIn(t, Min({Missing(t), Len(In)}))
  /\ still /\ sameObject /\ UNCHANGED <<outq, system>>
-----------------------------------------------------------------------------
(* write.  The time-out does not count before the first select.            *)
UWriteStart(t) ==
  /\ Doing(t, {"write"}, "body")
  /\ IF is_open
     THEN Go(t, [at |-> "loop", left |-> WriteTotal(call[t].n), first |-> TRUE])
     ELSE Raise(t, "notopen")
  /\ still /\ sameObject /\ UNCHANGED <<queues, system>>

Unsent_x_All(t) == call[t].n
Unsent(t) == call[t].n - call[t].done

(* A time that has run out is negative, and as an unsigned number of       *)
(* milliseconds it is a wait without an end.                                *)
UWriteLoop(t) ==
  /\ Doing(t, {"write"}, "loop")
  /\ IF Unsent(t) = 0 \/ (~call[t].first /\ call[t].left <= 0)
     THEN Return(t)
     ELSE Go(t, [at |-> "wselect", first |-> FALSE,
                 wait |-> IF call[t].left < 0 THEN Forever ELSE call[t].left])
  /\ still /\ sameObject /\ UNCHANGED <<queues, system>>

Room == OutRoom - Len(Out)

UWriteSelect(t) ==
  /\ At(t, "wselect") /\ Reached
  /\ \/ (Room > 0 \/ hungup) /\ Go(t, [at |-> "put", wait |-> 0]) /\ UNCHANGED failed
     \/ Room = 0 /\ ~hungup /\ call[t].wait = 0 /\ Return(t) /\ UNCHANGED failed
     \/ Fails("interrupt") /\ Go(t, [at |-> "loop", wait |-> 0])
  /\ still /\ sameObject /\ UNCHANGED <<queues, files, terminal, hungup, signals>>

(* The system may take fewer bytes than it has room for.                    *)
UPut(t) ==
  /\ At(t, "put") /\ Reached
  /\ IF hungup
     THEN Raise(t, "disconnected") /\ UNCHANGED <<outq, wire>>
     ELSE \E k \in 1 .. Min({Unsent(t), Room}) :
            /\ outq' = [outq EXCEPT ![File] = @ \o [i \in 1 .. k |-> <<t, call[t].done + i>>]]
            /\ wire' = wire \o [i \in 1 .. k |-> <<File, t, Len(script[t])>>]
            /\ Go(t, [at |-> "loop", done |-> call[t].done + k])
  /\ UNCHANGED <<platform, script, object, locks, inq, system>>
-----------------------------------------------------------------------------
(* flush waits until the output is gone, and also ends when the wait is    *)
(* interrupted; the other two throw bytes away.                            *)
Discards == {"flushInput", "flushOutput"}

UNotOpen(t) ==
  /\ Doing(t, Discards \cup {"flush", "signal"}, "body") /\ ~is_open
  /\ Raise(t, "notopen")
  /\ still /\ sameObject /\ UNCHANGED <<queues, system>>

UDrainStart(t) ==
  /\ Doing(t, {"flush"}, "body") /\ is_open
  /\ Go(t, [at |-> "drain"])
  /\ still /\ sameObject /\ UNCHANGED <<queues, system>>

UDrain(t) ==
  /\ At(t, "drain") /\ Reached
  /\ \/ (Out = <<>> \/ hungup) /\ UNCHANGED failed
     \/ Fails("interrupt")
  /\ Return(t)
  /\ still /\ sameObject /\ UNCHANGED <<queues, files, terminal, hungup, signals>>

UDiscard(t) ==
  /\ Doing(t, Discards, "body") /\ is_open
  /\ CASE ~Reached              -> UNCHANGED queues
       [] Op(t) = "flushInput"  -> inq' = [inq EXCEPT ![File] = <<>>] /\ UNCHANGED outq
       [] OTHER                 -> outq' = [outq EXCEPT ![File] = <<>>] /\ UNCHANGED inq
  /\ Return(t)
  /\ still /\ sameObject /\ UNCHANGED system
-----------------------------------------------------------------------------
(* The methods without a lock that ask or set something on the open        *)
(* descriptor: the modem lines, break, available.                          *)
USignalStart(t) ==
  /\ \/ Doing(t, {"signal"}, "body") /\ is_open /\ Go(t, [at |-> "ioctl"])
     \/ /\ Doing(t, {"available"}, "body")
        /\ Go(t, [at |-> IF is_open THEN "ioctl" ELSE "returned"])
     \/ Doing(t, {"waitForChange"}, "body") /\ Go(t, [at |-> "change"])
  /\ still /\ sameObject /\ UNCHANGED <<queues, system>>

(* A set line is on or off as asked; a line that is only read stays.        *)
UIoctl(t) ==
  /\ At(t, "ioctl") /\ Reached
  /\ signals' = IF Op(t) = "signal" THEN Switched(signals, call[t].n.lines, call[t].n.level)
                ELSE signals
  /\ Return(t)
  /\ still /\ sameObject /\ UNCHANGED <<queues, files, terminal, hungup, failed>>

(* waitForChange ends when a line of the device changes; a signal is an    *)
(* error to it.                                                            *)
UWaitForChange(t) ==
  /\ At(t, "change") /\ Reached
  /\ Fails("interrupt") /\ Raise(t, "error")
  /\ still /\ sameObject /\ UNCHANGED <<queues, files, terminal, hungup, signals>>

(* A system call on a descriptor that is closed, or that another part of   *)
(* the program has opened meanwhile.                                       *)
BadDescriptor(t) ==
  /\ call[t].at \in {"select", "take", "wselect", "put", "drain", "ioctl", "change"}
  /\ ~Reached
  /\ Raise(t, "error")
  /\ still /\ sameObject /\ UNCHANGED <<queues, system>>

UnixStep(t) ==
  /\ platform = "unix"
  /\ \/ UOpen(t) \/ USet(t) \/ SetTimeout(t) \/ UConfig(t) \/ UApply(t) \/ UClose(t) \/ UClosed(t)
     \/ UReadStart(t) \/ UPrefill(t) \/ UReadLoop(t) \/ UWaitReadableStart(t)
     \/ UWaitReadable(t) \/ UReady(t) \/ UWaitByteTimesStart(t) \/ UWaitByteTimes(t)
     \/ UTake(t) \/ UWriteStart(t) \/ UWriteLoop(t) \/ UWriteSelect(t) \/ UPut(t)
     \/ UNotOpen(t) \/ UDrainStart(t) \/ UDrain(t) \/ UDiscard(t)
     \/ USignalStart(t) \/ UIoctl(t) \/ UWaitForChange(t) \/ BadDescriptor(t)
=============================================================================
