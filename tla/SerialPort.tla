----------------------------- MODULE SerialPort -----------------------------
(***************************************************************************)
(* One serial port object, its threads, and what happens around them: time *)
(* passes, bytes arrive and leave, the device goes away, another part of   *)
(* the program opens and closes files.                                     *)
(***************************************************************************)
EXTENDS WinPort

CONSTANTS
  MaxIn,             (* bytes that arrive *)
  InitialPort, InitialSettings,   (* what the constructor is given *)
  InitialTerminal,   (* the attributes of a terminal before *)
  Jobs               (* what the threads do: their scripts, the time-outs, the bytes that come *)

(* The calls that a script may hold.                                        *)
Setting ==
  [baudrate : Nat \ {0}] \cup [bytesize : 5 .. 8] \cup [parity : Parities]
  \cup [stopbits : StopBitNames] \cup [flowcontrol : FlowControls]

Requests ==
  [op : {"open", "close", "flush", "flushInput", "flushOutput",
         "available", "waitReadable", "waitForChange"}, n : {0}]
  \cup [op : Reads \cup {"write", "waitByteTimes"}, n : Nat]
  \cup [op : {"setPort"}, n : Ports \cup {NoPort}]
  \cup [op : {"set"}, n : Setting]
  \cup [op : {"setTimeout"}, n : Timeouts]
  \cup [op : {"signal"}, n : [lines : SUBSET {"RTS", "DTR", "BRK"}, level : BOOLEAN]]

ASSUME JobAssumption ==
  /\ MaxIn \in Nat
  /\ InitialPort \in Ports \cup {NoPort} /\ InitialSettings \in Settings
  /\ InitialTerminal \in Attributes
  /\ \A j \in Jobs : /\ j.script \in [Threads -> Seq(Requests)]
                     /\ j.timeout \in Timeouts /\ j.bytes \in 0 .. MaxIn

VARIABLES
  arrived,   (* how many bytes have arrived at each terminal *)
  coming     (* how many may still arrive *)

allVars == <<vars, arrived, coming>>

Failures == {"open", "interrupt", "attributes", "settings", "close", "hangup"}

CallSteps ==
  {"idle", "rlock", "wlock", "body", "returned", "raised", "open", "config", "apply",
   "close", "closed", "prefill", "loop", "select", "ready", "bytetimes", "take",
   "wselect", "put", "drain", "ioctl", "change", "readfile", "writefile"}

TypeOK ==
  /\ platform \in {"unix", "win"}
  /\ port \in Ports \cup {NoPort} /\ fd \in Fds \cup {NoFd} /\ is_open \in BOOLEAN
  /\ settings \in Settings /\ timeout \in Timeouts
  /\ read_mutex \in Threads \cup {Nobody} /\ write_mutex \in Threads \cup {Nobody}
  /\ files \in [Fds -> Ports \cup {"free", "other"}]
  /\ \A t \in Threads :
       /\ call[t].at \in CallSteps
       /\ call[t].op = "none" <=> At(t, "idle")
       /\ Op(t) \in Reads => Missing(t) >= 0
       /\ Op(t) = "write" => call[t].done \in 0 .. call[t].n
       /\ call[t].wait >= Forever /\ call[t].left >= -1
  /\ \A p \in Ports :
       /\ Len(inq[p]) <= MaxIn /\ Len(outq[p]) <= OutRoom
       /\ platform = "unix" => terminal[p] \in Attributes
  /\ coming \in 0 .. MaxIn
  /\ failed \subseteq Failures /\ hungup \in BOOLEAN /\ signals \subseteq {"RTS", "DTR", "BRK", "CTS"}

(* After the constructor, and what the process starts with.                 *)
Init ==
  /\ platform \in {"unix", "win"}
  /\ port = InitialPort /\ settings = InitialSettings
  /\ is_open = (port # NoPort) /\ fd = IF is_open THEN Min(Fds) ELSE NoFd
  /\ files = [f \in Fds |-> IF f = fd THEN port ELSE "free"]
  /\ terminal = [p \in Ports |->
       CASE platform = "unix" -> IF p = port THEN Reconfigured(settings, InitialTerminal)
                                 ELSE InitialTerminal
         [] platform = "win"  -> Dcb(settings)]
  /\ read_mutex = Nobody /\ write_mutex = Nobody
  /\ call = [t \in Threads |-> Idle]
  /\ \E j \in Jobs : script = j.script /\ timeout = j.timeout /\ coming = j.bytes
  /\ arrived = [p \in Ports |-> 0]
  /\ inq = [p \in Ports |-> <<>>] /\ outq = [p \in Ports |-> <<>>]
  /\ hungup = FALSE /\ signals = {} /\ failed = {} /\ wire = <<>>
-----------------------------------------------------------------------------
(* The surroundings.                                                        *)
OpenSomewhere(p) == \E f \in Fds : files[f] = p

Arrive(p) ==
  /\ OpenSomewhere(p) /\ ~hungup /\ coming > 0
  /\ coming' = coming - 1
  /\ arrived' = [arrived EXCEPT ![p] = @ + 1]
  /\ inq' = [inq EXCEPT ![p] = Append(@, <<p, arrived'[p]>>)]
  /\ UNCHANGED <<platform, object, locks, call, script, outq, system, wire>>

Drain(p) ==
  /\ outq[p] # <<>> /\ ~hungup
  /\ outq' = [outq EXCEPT ![p] = Tail(@)]
  /\ UNCHANGED <<platform, object, locks, call, script, inq, system, wire, arrived, coming>>

Hangup ==
  /\ Fails("hangup") /\ hungup' = TRUE
  /\ UNCHANGED <<platform, object, locks, call, script, queues, files, terminal,
                 signals, wire, arrived, coming>>

LineChange ==
  /\ signals' = Switched(signals, {"CTS"}, "CTS" \notin signals)
  /\ \E t \in Threads : At(t, "change")
  /\ call' = [t \in Threads |-> IF At(t, "change") THEN [call[t] EXCEPT !.at = "returned"]
                                ELSE call[t]]
  /\ UNCHANGED <<platform, object, locks, script, queues, files, terminal, hungup,
                 failed, wire, arrived, coming>>

(* Another part of the program opens a file while the port is closed.       *)
OtherFile ==
  /\ ~Reached /\ FreeFds # {} /\ \A f \in Fds : files[f] # "other"
  /\ files' = [files EXCEPT ![Min(FreeFds)] = "other"]
  /\ UNCHANGED <<platform, object, locks, call, script, queues, terminal, hungup,
                 signals, failed, wire, arrived, coming>>

(* A millisecond.  A timer is read against the clock and goes below zero;  *)
(* for a read, zero is as good.                                             *)
Timed(t) == call[t].at \in {"prefill", "loop", "select", "ready", "bytetimes", "take",
                            "wselect", "put", "readfile", "writefile"}
Floor(t) == IF Op(t) = "write" THEN -1 ELSE 0

Waits(t) == call[t].at \in {"select", "wselect", "readfile"}

Aged(t) ==
  [call[t] EXCEPT !.left = Max({@ - 1, Floor(t)}),
                  !.wait = IF Waits(t) /\ @ > 0 THEN @ - 1 ELSE @]

Tick ==
  /\ \E t \in Threads : Timed(t) /\ Aged(t) # call[t]
  /\ call' = [t \in Threads |-> IF Timed(t) THEN Aged(t) ELSE call[t]]
  /\ UNCHANGED <<platform, object, locks, script, queues, system, wire, arrived, coming>>

Step(t) == (Calls(t) \/ UnixStep(t) \/ WinStep(t)) /\ UNCHANGED <<arrived, coming>>

AllDone == \A t \in Threads : At(t, "idle") /\ script[t] = <<>>

Next ==
  \/ \E t \in Threads : Step(t)
  \/ \E p \in Ports : Arrive(p) \/ Drain(p)
  \/ Hangup \/ LineChange \/ OtherFile \/ Tick
  \/ AllDone /\ UNCHANGED allVars

(* Threads that can run do, time passes, and the line sends: there is no   *)
(* flow control on it.                                                     *)
Fairness ==
  /\ WF_allVars(\E t \in Threads : Step(t))
  /\ WF_allVars(\E p \in Ports : Drain(p))
  /\ WF_allVars(Tick)

Spec == Init /\ [][Next]_allVars /\ Fairness
-----------------------------------------------------------------------------
(* The bytes that a read, readline or readlines collects are consecutive   *)
(* bytes of one terminal, although it gives the processor away between any *)
(* two of them, to other readers, flushes and setPort.                     *)
ReadsWhole ==
  \A t \in Threads : \A i \in 1 .. Len(Text(t)) - 1 :
    LET b == Text(t)[i] IN Text(t)[i + 1] = <<b[1], b[2] + 1>>

(* On the wire the bytes of one write are not mixed with another's, even   *)
(* when the output queue takes them in several pieces.                     *)
WritesWhole ==
  \A i, j, k \in 1 .. Len(wire) :
    i < j /\ j < k /\ wire[i] = wire[k] => wire[j] = wire[i]

(* A method that holds a lock never makes a system call on a descriptor    *)
(* that setPort has closed under it, or that belongs to another file by    *)
(* then - unless the system has refused to close it, or on Windows to      *)
(* accept settings: those failures leave an open port with a dead handle.  *)
Working == {"prefill", "loop", "select", "ready", "bytetimes", "take", "wselect",
            "put", "drain", "readfile", "writefile"}

SafeDescriptor ==
  \A t \in Threads :
    /\ call[t].at \in Working /\ LockOrder(Op(t)) # <<>>
    /\ "close" \notin failed /\ (platform = "win" => "settings" \notin failed)
    => is_open /\ Reached /\ File = port

(* A read or write ends with less than it was asked for only when one of   *)
(* its time-outs is over, the total time or, for a read that has got a     *)
(* byte, the time between two bytes: an interrupted select or a write that *)
(* the system has taken in part does not end it.                           *)
ShortMeansTimeout ==
  [][\A t \in Threads : ~At(t, "returned") /\ call'[t].at = "returned" =>
       /\ Op(t) \in Reads => Missing(t) = 0 \/ call[t].left <= 0 \/ Quiet(t)
       /\ Op(t) = "write" => Unsent(t) = 0 \/ call[t].left <= 0]_allVars

(* What serial.h:443-446 promises of the two time-outs, "timeout will       *)
(* simply occur when one of the two timeout conditions is met": a read that *)
(* has waited for the whole time between two bytes in vain ends, and does   *)
(* not wait once more.  The loop of the read on Unix does.                  *)
IdleEndsRead ==
  [][\A t \in Threads : Doing(t, {"read"}, "loop") /\ Quiet(t) => call'[t].at # "select"]_allVars

(* "device disconnected?" is only reported of a device that is gone: no    *)
(* other thread takes the byte between select and ::read.                  *)
NoFalseAlarm == \A t \in Threads : call[t].why = "disconnected" => hungup

(* While no setting is under way, the line uses the settings of the object,*)
(* whatever was set before and whichever port it was - except for those    *)
(* that the code cannot put into effect on Unix, and unless the system has *)
(* refused an open, a close, or to tell or to accept a terminal's          *)
(* attributes (the failures "open", "close", "attributes" and "settings"): *)
(* a setting that was refused stays in the object, a tcsetattr that sets   *)
(* nothing goes unnoticed, and a refused close leaves a dead descriptor.   *)
Configuring(t) == call[t].at \in {"open", "config", "apply", "close", "closed"}

InEffect ==
  IF platform = "unix"
  THEN TakesEffect(settings, terminal[File]) => Frame(terminal[File]) = AskedFrame(settings)
  ELSE terminal[File] = Dcb(settings)

SettingsInEffect ==
  /\ is_open /\ failed \subseteq {"interrupt", "hangup"} /\ \A t \in Threads : ~Configuring(t)
  => InEffect

(* Every call comes back: no time-out is missed, and no two methods wait   *)
(* for each other's lock.  (waitForChange waits for the device.)            *)
CallsReturn ==
  <>[](\A t \in Threads : At(t, "change") \/ (script[t] = <<>> /\ At(t, "idle")))
=============================================================================
