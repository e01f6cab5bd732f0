------------------------------ MODULE Termios ------------------------------
(***************************************************************************)
(* How the serial library writes the settings of a port into the terminal  *)
(* attributes of the operating system: Serial::SerialImpl::reconfigurePort *)
(* of unix.cc.  The attributes are a record of sets of flags; whatever the *)
(* code does not mention stays as an earlier user of the terminal left it. *)
(***************************************************************************)
EXTENDS Integers

CONSTANTS
  StandardRates,   (* the rates that have a B... constant *)
  BaudBase         (* of the driver, for a rate that has none *)

ASSUME TermiosAssumption ==
  StandardRates \subseteq Nat \ {0} /\ BaudBase \in Nat \ {0}

Parities == {"none", "odd", "even", "mark", "space"}
StopBitNames == {"one", "two", "one_point_five"}
FlowControls == {"none", "software", "hardware"}

Settings ==
  [baudrate : Nat \ {0}, bytesize : 5 .. 8, parity : Parities,
   stopbits : StopBitNames, flowcontrol : FlowControls]

CFlags == {"CLOCAL", "CREAD", "CSTOPB", "PARENB", "PARODD", "CMSPAR", "CRTSCTS"}
IFlags == {"INLCR", "IGNCR", "ICRNL", "IGNBRK", "IUCLC", "PARMRK", "INPCK",
           "ISTRIP", "IXON", "IXOFF", "IXANY"}
LFlags == {"ICANON", "ECHO", "ECHOE", "ECHOK", "ECHONL", "ISIG", "IEXTEN"}

(* The attributes, and the driver's own record of a custom divisor.         *)
Attributes ==
  [cflag : SUBSET CFlags, iflag : SUBSET IFlags, lflag : SUBSET LFlags,
   oflag : SUBSET {"OPOST"}, csize : 5 .. 8, speed : Nat,
   custom : BOOLEAN, divisor : Nat]

(* flag is set in flags if on, and cleared if not.                          *)
Switched(flags, change, on) == IF on THEN flags \cup change ELSE flags \ change
-----------------------------------------------------------------------------
RawMode(o) ==
  [o EXCEPT !.cflag = @ \cup {"CLOCAL", "CREAD"},
            !.lflag = {},
            !.oflag = {},
            !.iflag = @ \ {"INLCR", "IGNCR", "ICRNL", "IGNBRK", "IUCLC", "PARMRK"}]

(* A rate without a constant of its own goes to the driver as a divisor,   *)
(* at once, and the speed in the attributes stays what it was.             *)
CustomDivisor(s, o) ==
  IF s.baudrate \in StandardRates THEN o
  ELSE [o EXCEPT !.custom = TRUE, !.divisor = BaudBase \div s.baudrate]

Speed(s, o) ==
  IF s.baudrate \in StandardRates THEN [o EXCEPT !.speed = s.baudrate] ELSE o

CharSize(s, o) == [o EXCEPT !.csize = s.bytesize]

StopBits(s, o) ==
  [o EXCEPT !.cflag = Switched(@, {"CSTOPB"}, s.stopbits # "one")]

ParityFlags_x_OddStays(s, flags) ==
  CASE s.parity = "none"  -> flags \ {"PARENB"}
    [] s.parity = "even"  -> flags \cup {"PARENB"}
    [] s.parity = "odd"   -> flags \cup {"PARENB", "PARODD"}
    [] s.parity = "mark"  -> flags \cup {"PARENB", "CMSPAR", "PARODD"}
    [] s.parity = "space" -> flags \cup {"PARENB", "CMSPAR"}
ParityFlags(s, flags) ==
  CASE s.parity = "none"  -> flags \ {"PARENB", "PARODD"}
    [] s.parity = "even"  -> (flags \ {"PARODD"}) \cup {"PARENB"}
    [] s.parity = "odd"   -> flags \cup {"PARENB", "PARODD"}
    [] s.parity = "mark"  -> flags \cup {"PARENB", "CMSPAR", "PARODD"}
    [] s.parity = "space" -> (flags \cup {"PARENB", "CMSPAR"}) \ {"PARODD"}

Parity(s, o) ==
  [o EXCEPT !.iflag = @ \ {"INPCK", "ISTRIP"}, !.cflag = ParityFlags(s, @)]

FlowControl(s, o) ==
  LET xonxoff == s.flowcontrol = "software"
      rtscts == s.flowcontrol = "hardware"
  IN [o EXCEPT !.iflag = IF xonxoff THEN @ \cup {"IXON", "IXOFF"}
                         ELSE @ \ {"IXON", "IXOFF", "IXANY"},
               !.cflag = Switched(@, {"CRTSCTS"}, rtscts)]

(* The attributes that tcsetattr is given.                                  *)
Reconfigured(s, o) ==
  FlowControl(s, Parity(s, StopBits(s, CharSize(s, Speed(s, CustomDivisor(s, RawMode(o)))))))
-----------------------------------------------------------------------------
(* What the driver makes of the attributes: the frame on the wire.          *)
LineParity(o) ==
  CASE "PARENB" \notin o.cflag -> "none"
    [] {"PARENB", "CMSPAR"} \subseteq o.cflag ->
         IF "PARODD" \in o.cflag THEN "mark" ELSE "space"
    [] OTHER -> IF "PARODD" \in o.cflag THEN "odd" ELSE "even"

LineFlow(o) ==
  CASE "IXON" \in o.iflag -> "software"
    [] "CRTSCTS" \in o.cflag -> "hardware"
    [] OTHER -> "none"

(* A driver with a custom divisor uses it in the place of one speed.        *)
ReplacedSpeed == 38400

LineRate(o) ==
  IF o.custom /\ o.divisor # 0 /\ o.speed = ReplacedSpeed THEN BaudBase \div o.divisor
  ELSE o.speed

Frame(o) ==
  [baudrate |-> LineRate(o), bytesize |-> o.csize, parity |-> LineParity(o),
   stopbits |-> IF "CSTOPB" \in o.cflag THEN 2 ELSE 1, flowcontrol |-> LineFlow(o)]

(* The frame that the settings ask for.  One and a half stop bits are two. *)
AskedFrame(s) == [s EXCEPT !.stopbits = IF @ = "one" THEN 1 ELSE 2]

(* The settings that take effect on a terminal with attributes o.  Three   *)
(* do not: a rate that is not standard (the speed in the attributes stays),*)
(* the rate that an earlier one's divisor has taken, and odd or even       *)
(* parity after mark or space (nothing clears CMSPAR).                     *)
TakesEffect(s, o) ==
  /\ s.baudrate \in StandardRates
  /\ ~(o.custom /\ s.baudrate = ReplacedSpeed)
  /\ ~("CMSPAR" \in o.cflag /\ s.parity \in {"odd", "even"})
=============================================================================
