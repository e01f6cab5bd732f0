------------------------------ MODULE WinPort ------------------------------
(***************************************************************************)
(* Serial::SerialImpl on Windows, win.cc, where it differs from the one on *)
(* Unix: a read or a write is one call of the system, which keeps both     *)
(* time-outs itself, and the settings go into a DCB as a whole.  USet,     *)
(* UNotOpen and UDiscard are the same code on both.                        *)
(***************************************************************************)
EXTENDS UnixPort

(* The DCB that SetCommState is given.                                      *)
Dcb(s) ==
  [BaudRate |-> s.baudrate, ByteSize |-> s.bytesize, Parity |-> s.parity,
   StopBits |-> s.stopbits,
   fOutxCtsFlow |-> s.flowcontrol = "hardware",
   fRtsControl |-> IF s.flowcontrol = "hardware" THEN "handshake" ELSE "disable",
   fOutX |-> s.flowcontrol = "software", fInX |-> s.flowcontrol = "software"]

WOpen(t) ==
  /\ At(t, "open")
  /\ IF port = NoPort \/ is_open
     THEN Raise(t, "misuse") /\ UNCHANGED <<fd, files, failed>>
     ELSE \/ /\ FreeFds # {}
             /\ fd' = Min(FreeFds)
             /\ files' = [files EXCEPT ![fd'] = port]
             /\ Go(t, [at |-> "config", phase |-> "opening"]) /\ UNCHANGED failed
          \/ /\ (FreeFds = {} /\ UNCHANGED failed) \/ Fails("open")
             /\ fd' = NoFd /\ Raise(t, "error") /\ UNCHANGED files
  /\ still /\ UNCHANGED <<port, is_open, settings, timeout, locks, queues, terminal, hungup, signals>>

(* GetCommState, SetCommState and SetCommTimeouts.  When the second fails  *)
(* the handle is closed, and fd_ and is_open_ do not notice.               *)
WConfig(t) ==
  /\ At(t, "config")
  /\ \/ /\ Reached
        /\ terminal' = [terminal EXCEPT ![File] = Dcb(settings)]
        /\ is_open' = (is_open \/ call[t].phase = "opening")
        /\ Go(t, [at |-> "returned", phase |-> "none"])
        /\ UNCHANGED <<files, failed>>
     \/ /\ Reached /\ Fails("attributes") /\ Raise(t, "error")
        /\ terminal' \in {terminal, [terminal EXCEPT ![File] = Dcb(settings)]}
        /\ UNCHANGED <<is_open, files>>
     \/ /\ Reached /\ Fails("settings") /\ Raise(t, "error")
        /\ files' = [files EXCEPT ![fd] = "free"]
        /\ UNCHANGED <<is_open, terminal>>
     \/ ~Reached /\ Raise(t, "error") /\ UNCHANGED <<is_open, files, terminal, failed>>
  /\ still /\ UNCHANGED <<port, fd, settings, timeout, locks, queues, hungup, signals>>

(* CloseHandle fails on a handle that is closed, and closes whatever the   *)
(* handle stands for by now.                                                *)
WClose(t) ==
  /\ At(t, "close")
  /\ IF ~is_open
     THEN Return(t) /\ UNCHANGED <<fd, is_open, files, queues>>
     ELSE IF File = "free"
     THEN Raise(t, "error") /\ UNCHANGED <<fd, is_open, files, queues>>
     ELSE /\ files' = [files EXCEPT ![fd] = "free"]
          /\ inq' = Dropped(inq, File) /\ outq' = Dropped(outq, File)
          /\ fd' = NoFd /\ is_open' = FALSE
          /\ Return(t)
  /\ still /\ UNCHANGED <<port, settings, timeout, locks, terminal, hungup, signals, failed>>
-----------------------------------------------------------------------------
(* ReadFile takes bytes as they come, until it has them all, the total     *)
(* time is over or, after the first byte, the time between two bytes.      *)
WReadStart(t) ==
  /\ Doing(t, Reads, "body")
  /\ IF is_open
     THEN Go(t, [at |-> "readfile", left |-> ReadTotal(ReadSize(t))])
     ELSE Raise(t, "notopen")
  /\ still /\ sameObject /\ UNCHANGED <<queues, system>>

(* The time between two bytes has passed since the last one.                *)
Quiet(t) == timeout.inter_byte \notin {0, Forever} /\ call[t].got # <<>> /\ call[t].wait = 0

WReadFile(t) ==
  /\ At(t, "readfile") /\ Reached
  /\ \/ /\ In # <<>> /\ Missing(t) > 0
        /\ inq' = [inq EXCEPT ![File] = Tail(@)]
        /\ Go(t, [got |-> Append(call[t].got, Head(In)),
                  wait |-> IF timeout.inter_byte = Forever THEN 0 ELSE timeout.inter_byte])
     \/ /\ Missing(t) = 0 \/ call[t].left <= 0 \/ Quiet(t)
        /\ Return(t) /\ UNCHANGED inq
     \/ hungup /\ Raise(t, "error") /\ UNCHANGED inq
  /\ still /\ sameObject /\ UNCHANGED <<outq, system>>

WWriteStart(t) ==
  /\ Doing(t, {"write"}, "body")
  /\ IF is_open
     THEN Go(t, [at |-> "writefile", left |-> WriteTotal(call[t].n)])
     ELSE Raise(t, "notopen")
  /\ still /\ sameObject /\ UNCHANGED <<queues, system>>

WWriteFile(t) ==
  /\ At(t, "writefile") /\ Reached
  /\ \/ /\ Unsent(t) > 0 /\ Room > 0 /\ ~hungup
        /\ outq' = [outq EXCEPT ![File] = Append(@, <<t, call[t].done + 1>>)]
        /\ wire' = Append(wire, <<File, t, Len(script[t])>>)
        /\ Go(t, [done |-> call[t].done + 1])
     \/ /\ Unsent(t) = 0 \/ call[t].left <= 0
        /\ Return(t) /\ UNCHANGED <<outq, wire>>
     \/ hungup /\ Raise(t, "error") /\ UNCHANGED <<outq, wire>>
  /\ UNCHANGED <<platform, script, object, locks, inq, system>>

(* FlushFileBuffers.                                                        *)
WFlush(t) ==
  /\ Doing(t, {"flush"}, "body") /\ is_open
  /\ Reached => hungup \/ Out = <<>>
  /\ Return(t)
  /\ still /\ sameObject /\ UNCHANGED <<queues, system>>
-----------------------------------------------------------------------------
(* The methods that Windows does not have.                                  *)
WUnsupported(t) ==
  /\ Doing(t, {"waitReadable", "waitByteTimes"}, "body")
  /\ Raise(t, "error")
  /\ still /\ sameObject /\ UNCHANGED <<queues, system>>

(* EscapeCommFunction and GetCommModemStatus.                               *)
WSignal(t) ==
  /\ \/ Doing(t, {"signal"}, "body") /\ is_open
     \/ Doing(t, {"available"}, "body")
  /\ signals' = IF Op(t) = "signal" THEN Switched(signals, call[t].n.lines, call[t].n.level)
                ELSE signals
  /\ Return(t)
  /\ still /\ sameObject /\ UNCHANGED <<queues, files, terminal, hungup, failed>>

WWaitForChange(t) ==
  /\ Doing(t, {"waitForChange"}, "body")
  /\ IF is_open THEN Go(t, [at |-> "change"]) ELSE Raise(t, "notopen")
  /\ still /\ sameObject /\ UNCHANGED <<queues, system>>

WBadHandle(t) ==
  /\ call[t].at \in {"readfile", "writefile", "change"} /\ ~Reached
  /\ IF At(t, "change") THEN Return(t) ELSE Raise(t, "error")
  /\ still /\ sameObject /\ UNCHANGED <<queues, system>>

WinStep(t) ==
  /\ platform = "win"
  /\ \/ WOpen(t) \/ USet(t) \/ SetTimeout(t) \/ WConfig(t) \/ WClose(t) \/ WReadStart(t) \/ WReadFile(t)
     \/ WWriteStart(t) \/ WWriteFile(t) \/ UNotOpen(t) \/ UDiscard(t) \/ WFlush(t)
     \/ WUnsupported(t) \/ WSignal(t) \/ WWaitForChange(t) \/ WBadHandle(t)
=============================================================================
