---------------------------- MODULE SerialCalls ----------------------------
(***************************************************************************)
(* The serial library above its platform: class Serial of serial.cc.  Its  *)
(* threads call one object; a call takes the locks that its method takes,  *)
(* runs the platform's code (UnixPort, WinPort) from the step "body" to    *)
(* "returned" or "raised", and releases its locks however it ends.  This   *)
(* module also holds the operating system's side of the port: the open     *)
(* files of the process, the terminals and their queues.                   *)
(***************************************************************************)
EXTENDS Termios, Sequences, FiniteSets, SequencesExt

CONSTANTS
  Threads, Nobody,
  Ports,           (* the terminals *)
  NoPort,          (* the empty port name *)
  Fds,             (* file descriptors, or handles *)
  Eol,             (* which bytes end a line *)
  MaxFaults,       (* system calls that fail *)
  OutRoom          (* bytes the output queue of a terminal holds *)

ASSUME SerialAssumption ==
  /\ Nobody \notin Threads /\ NoPort \notin Ports
  /\ {"free", "other"} \cap Ports = {}
  /\ Fds \subseteq Nat /\ Fds # {} /\ OutRoom \in Nat \ {0}

VARIABLES
  platform,                          (* "unix" or "win" *)
  port, fd, is_open,                 (* the fields of SerialImpl *)
  settings, timeout,
  read_mutex, write_mutex,           (* the thread that holds each, or Nobody *)
  call,                              (* what each thread is doing *)
  script,                            (* the calls it has still to make *)
  files,                             (* what is open under each descriptor *)
  terminal,                          (* the attributes of each terminal *)
  inq, outq,                         (* its queues *)
  hungup,                            (* its device is gone *)
  signals,                           (* the modem lines that are on *)
  failed,                            (* the kinds of system call that have failed *)
  wire                               (* the calls whose bytes were sent, in order *)

object == <<port, fd, is_open, settings, timeout>>
locks == <<read_mutex, write_mutex>>
queues == <<inq, outq>>
system == <<files, terminal, hungup, signals, failed>>
vars == <<platform, object, locks, call, script, queues, system, wire>>

NoFd == -1
Forever == -1    (* a wait without an end *)
-----------------------------------------------------------------------------
(* The calls.  n is a byte count, a level or a value, as the method needs. *)
Reads == {"read", "readline", "readlines"}

(* The locks that a method takes, in this order.                            *)
LockOrder_x_ReadlineWithout(op) ==
  CASE op \in {"read", "readlines", "flushInput"} -> <<"rlock">>
    [] op \in {"write", "flushOutput"} -> <<"wlock">>
    [] op \in {"flush", "setPort"} -> <<"rlock", "wlock">>
    [] OTHER -> <<>>
LockOrder_x_WriteWithout(op) ==
  CASE op \in Reads \cup {"flushInput"} -> <<"rlock">>
    [] op \in {"flushOutput"} -> <<"wlock">>
    [] op \in {"flush", "setPort"} -> <<"rlock", "wlock">>
    [] OTHER -> <<>>
LockOrder_x_SetPortOnlyReads(op) ==
  CASE op \in Reads \cup {"flushInput", "setPort"} -> <<"rlock">>
    [] op \in {"write", "flushOutput"} -> <<"wlock">>
    [] op \in {"flush"} -> <<"rlock", "wlock">>
    [] OTHER -> <<>>
LockOrder_x_FlushReversed(op) ==
  CASE op \in Reads \cup {"flushInput"} -> <<"rlock">>
    [] op \in {"write", "flushOutput"} -> <<"wlock">>
    [] op \in {"setPort"} -> <<"rlock", "wlock">>
    [] op \in {"flush"} -> <<"wlock", "rlock">>
    [] OTHER -> <<>>
LockOrder(op) ==
  CASE op \in Reads \cup {"flushInput"} -> <<"rlock">>
    [] op \in {"write", "flushOutput"} -> <<"wlock">>
    [] op \in {"flush", "setPort"} -> <<"rlock", "wlock">>
    [] OTHER -> <<>>

(* A call that does nothing.                                                *)
Idle == [op |-> "none", n |-> 0, at |-> "idle", phase |-> "none", text |-> <<>>,
         got |-> <<>>, done |-> 0, first |-> FALSE, left |-> 0, wait |-> 0,
         attrs |-> Nobody, why |-> "none"]

At(t, step) == call[t].at = step
Op(t) == call[t].op
Doing(t, ops, step) == At(t, step) /\ Op(t) \in ops

(* A record with some of its fields changed.                                *)
Updated(record, fields) ==
  [f \in DOMAIN record |-> IF f \in DOMAIN fields THEN fields[f] ELSE record[f]]

(* The thread's call goes on with the given fields.                         *)
Go(t, fields) == call' = [call EXCEPT ![t] = Updated(@, fields)]
Raise(t, reason) == Go(t, [at |-> "raised", why |-> reason])
Return(t) == Go(t, [at |-> "returned"])

(* The file that a system call reaches, and the terminal behind it.         *)
File == IF fd \in Fds THEN files[fd] ELSE "free"
Reached == File \in Ports
In == inq[File]
Out == outq[File]

(* A system call fails, or is interrupted.                                  *)
Fails(kind) ==
  /\ kind \notin failed /\ Cardinality(failed) < MaxFaults
  /\ failed' = failed \cup {kind}
-----------------------------------------------------------------------------
(* open and close are for a caller that has the object to itself: nothing  *)
(* in the library protects the others from them.                           *)
Exclusive == {"open", "close"}
Alone(t) == \A u \in Threads \ {t} : At(u, "idle")

(* A method takes its locks one by one and goes on with its body.           *)
Path(op) == IF op \in Exclusive THEN <<op>> ELSE Append(LockOrder(op), "body")
NextStep(t) == LET path == Path(Op(t)) IN path[1 + CHOOSE i \in DOMAIN path : path[i] = call[t].at]

Enter(t) ==
  /\ At(t, "idle") /\ script[t] # <<>>
  /\ \A u \in Threads \ {t} : Op(u) \notin Exclusive
  /\ Head(script[t]).op \in Exclusive => Alone(t)
  /\ LET c == Head(script[t])
     IN Go(t, [op |-> c.op, n |-> c.n, at |-> Head(Path(c.op))])
  /\ script' = [script EXCEPT ![t] = Tail(@)]
  /\ UNCHANGED <<platform, object, locks, queues, system, wire>>

Lock(t) ==
  /\ \/ /\ At(t, "rlock") /\ read_mutex = Nobody
        /\ read_mutex' = t /\ UNCHANGED write_mutex
     \/ /\ At(t, "wlock") /\ write_mutex = Nobody
        /\ write_mutex' = t /\ UNCHANGED read_mutex
  /\ Go(t, [at |-> NextStep(t)])
  /\ UNCHANGED <<platform, object, script, queues, system, wire>>

(* The end of a method, by return or by exception: the scoped locks go.    *)
Released(mutex, t) == IF mutex = t THEN Nobody ELSE mutex

Leave(t) ==
  /\ call' = [call EXCEPT ![t] = Idle]
  /\ read_mutex' = Released(read_mutex, t)
  /\ write_mutex' = Released(write_mutex, t)
  /\ UNCHANGED <<platform, object, script, queues, system, wire>>

Unwind(t) == At(t, "raised") /\ Leave(t)

(* read, readline and readlines after the platform's read has returned.    *)
(* The last two read byte by byte, each with a time-out of its own.        *)
ReadSize(t) == IF Op(t) = "read" THEN call[t].n ELSE 1
Text(t) == call[t].text \o call[t].got

EndsLine(t) == call[t].got # <<>> /\ Last(call[t].got)[2] \in Eol

ReadMethodEnds(t) ==
  \/ Op(t) = "read"
  \/ call[t].got = <<>>
  \/ Len(Text(t)) = call[t].n
  \/ Op(t) = "readline" /\ EndsLine(t)

AfterRead(t) ==
  /\ Doing(t, Reads, "returned")
  /\ IF ReadMethodEnds(t) THEN Leave(t)
     ELSE /\ Go(t, [at |-> "body", text |-> Text(t), got |-> <<>>])
          /\ UNCHANGED <<platform, object, locks, script, queues, system, wire>>

(* setPort: an open port is closed, renamed and opened again.               *)
SetPort(t) ==
  /\ Op(t) = "setPort"
  /\ \/ /\ At(t, "body") /\ is_open
        /\ Go(t, [at |-> "close", phase |-> "closing"]) /\ UNCHANGED port
     \/ /\ At(t, "body") /\ ~is_open
        /\ port' = call[t].n /\ Return(t)
     \/ /\ At(t, "returned") /\ call[t].phase = "closing"
        /\ port' = call[t].n /\ Go(t, [at |-> "open", phase |-> "opening"])
  /\ UNCHANGED <<platform, fd, is_open, settings, timeout, locks, script, queues, system, wire>>

Exit(t) ==
  /\ At(t, "returned") /\ Op(t) \notin Reads
  /\ ~(Op(t) = "setPort" /\ call[t].phase = "closing")
  /\ Leave(t)

Calls(t) ==
  \/ Enter(t) \/ Lock(t) \/ AfterRead(t) \/ SetPort(t)
  \/ Exit(t) \/ Unwind(t)
=============================================================================
