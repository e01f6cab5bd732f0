------------------------------ MODULE MCSerial ------------------------------
(***************************************************************************)
(* The serial port with two threads that read and write and one that       *)
(* manages the port; each makes the calls of its script.                   *)
(***************************************************************************)
EXTENDS SerialPort

CONSTANTS t0, t1, t2, p1, p2

FirstSettings == [baudrate |-> 9600, bytesize |-> 8, parity |-> "odd",
                  stopbits |-> "one", flowcontrol |-> "none"]

(* A terminal in the state of a fresh login.                                *)
Cooked == [cflag |-> {"CREAD", "CRTSCTS"}, iflag |-> {"ICRNL", "IXON"},
           lflag |-> LFlags, oflag |-> {"OPOST"}, csize |-> 7, speed |-> 9600,
           custom |-> FALSE, divisor |-> 0]

(* The controllers' time-outs, in units of 50 ms, and none between bytes.   *)
Short == [inter_byte |-> 1, read_constant |-> 1, read_multiplier |-> 0,
          write_constant |-> 1, write_multiplier |-> 0]
(* Three units in all and one between two bytes.                            *)
Patient == [Short EXCEPT !.read_constant = 3]
NoInterByte == [Short EXCEPT !.inter_byte = Forever]

C(op, n) == [op |-> op, n |-> n]
ReadsInput(calls) == \E i \in DOMAIN calls : calls[i].op \in Reads

(* Bytes arrive while a job reads.                                          *)
Job(x, y, m, timeouts) ==
  [script |-> (t1 :> x) @@ (t2 :> y) @@ (t0 :> m), timeout |-> timeouts,
   bytes |-> IF ReadsInput(x \o y) THEN MaxIn ELSE 0]

(* Two threads with a call each, beside one that moves the object to       *)
(* another port or flushes it.                                             *)
Pairs ==
  {<<C("read", 2), C("read", 2)>>, <<C("readline", 3), C("read", 1)>>,
   <<C("readlines", 2), C("flushInput", 0)>>, <<C("read", 1), C("write", 2)>>,
   <<C("write", 2), C("write", 2)>>, <<C("write", 2), C("flushOutput", 0)>>}

Sharing ==
  {Job(<<p[1]>>, <<p[2]>>, <<C("setPort", p2)>>, Short) : p \in Pairs}
  \cup {Job(<<C("flush", 0)>>, <<C("write", 2)>>, <<C("setPort", p2)>>, Short)}

(* One thread manages the port while nobody, or one other thread, reads.   *)
Set(field, value) == C("set", field :> value)

Managing ==
  {Job(<<>>, <<>>, m, Short) : m \in
     { <<Set("parity", "even"), Set("baudrate", 31250), Set("baudrate", 115200), Set("parity", "odd"), C("setPort", p2),
         C("close", 0), C("open", 0), C("open", 0), C("close", 0), C("open", 0)>>,
       <<Set("stopbits", "two"), Set("flowcontrol", "software"), C("close", 0),
         Set("stopbits", "one"), C("setPort", p2), C("open", 0), Set("flowcontrol", "none"),
         Set("parity", "mark"), Set("parity", "even"), Set("parity", "none")>>,
       <<C("signal", [lines |-> {"RTS"}, level |-> TRUE]), C("waitForChange", 0),
         C("signal", [lines |-> {}, level |-> TRUE]), C("waitReadable", 0), C("available", 0),
         C("waitByteTimes", 2), C("close", 0), C("available", 0),
         C("signal", [lines |-> {"RTS"}, level |-> FALSE]), C("read", 1), C("write", 1),
         C("flush", 0), C("waitForChange", 0), C("setPort", NoPort), C("open", 0)>> }}
  \cup {Job(<<C("flushInput", 0)>>, <<>>, <<Set("baudrate", 38400)>>, Short)}
  \cup {Job(<<C("read", 2)>>, <<>>, m, timeouts) : timeouts \in {Short, NoInterByte},
          m \in {<<Set("parity", "even")>>, <<C("setTimeout", NoInterByte)>>}}
  \cup {Job(<<x>>, <<>>, <<C("setPort", p2)>>, Short) :
          x \in {C("signal", [lines |-> {"BRK"}, level |-> TRUE]), C("available", 0),
                 C("waitReadable", 0), C("waitForChange", 0)}}

(* A read alone with a line that goes quiet.                                *)
IdleJobs == {Job(<<C("read", 2)>>, <<>>, <<>>, Patient)}

MCJobs == Sharing \cup Managing \cup IdleJobs
=============================================================================
