---------------------------- MODULE SerialProofs ----------------------------
(***************************************************************************)
(* Proofs about the serial port, for any threads, scripts, ports and       *)
(* descriptors: the calls and who holds which lock; the file behind the    *)
(* descriptor; the time-outs; what readers take from the input queue; what *)
(* writers put on the wire.  Then about the attributes of the terminals:   *)
(* what reconfigurePort makes of them, that every variable keeps its kind  *)
(* and that the line uses the settings of the object.                      *)
(***************************************************************************)
EXTENDS SerialPort, SequenceTheorems, WellFoundedInduction, TLAPS

(* The calls, by the locks that their methods take.                         *)
ReadLocked == {"read", "readline", "readlines", "flushInput", "flush", "setPort"}
WriteLocked == {"write", "flushOutput", "flush", "setPort"}
Unlocked == {"available", "waitReadable", "waitForChange", "waitByteTimes",
             "set", "setTimeout", "signal"}
Ops == ReadLocked \cup WriteLocked \cup Unlocked \cup Exclusive

CallFields == {"op", "n", "at", "phase", "text", "got", "done", "first", "left",
               "wait", "attrs", "why"}

CallShape == DOMAIN call = Threads /\ \A t \in Threads : DOMAIN call[t] = CallFields

(* The steps that a call may be at.                                         *)
LegalStep(c) ==
  /\ c.at \in CallSteps /\ c.op \in Ops \cup {"none"}
  /\ c.at = "idle" <=> c.op = "none"
  /\ c.at = "idle" => c = Idle
  /\ c.at = "rlock" => c.op \in ReadLocked
  /\ c.at = "wlock" => c.op \in WriteLocked
  /\ c.at = "body" => c.op \notin Exclusive
  /\ c.at \in {"prefill", "ready", "take", "readfile"} => c.op \in Reads
  /\ c.at = "loop" => c.op \in Reads \cup {"write"}
  /\ c.at = "select" => c.op \in Reads \cup {"waitReadable"}
  /\ c.at = "bytetimes" => c.op \in Reads \cup {"waitByteTimes"}
  /\ c.at \in {"wselect", "put", "writefile"} => c.op = "write"
  /\ c.at = "drain" => c.op = "flush"
  /\ c.at \in {"ioctl", "change"} => c.op \in Unlocked
  /\ c.at = "open" => c.op \in {"open", "setPort"}
  /\ c.at \in {"close", "closed"} => c.op \in {"close", "setPort"}
  /\ c.at \in {"config", "apply"} =>
       /\ c.op \in {"set", "setTimeout", "open", "setPort"}
       /\ c.phase = "opening" <=> c.op \in {"open", "setPort"}
  /\ c.phase \in {"none", "closing", "opening"}
  /\ c.phase = "closing" => c.op = "setPort"
  /\ c.phase = "opening" => c.op \in {"open", "setPort"}
  /\ c.at \in {"open", "close", "closed", "config", "apply"} /\ c.op = "setPort" =>
       c.phase # "none"

Scripts == \A t \in Threads : script[t] \in Seq(Requests)

CallInv ==
  /\ CallShape /\ DOMAIN script = Threads /\ Scripts
  /\ \A t \in Threads : LegalStep(call[t])

(* What every step of the platform's code leaves alone.                     *)
Outside == {"idle", "rlock", "wlock"}

CodeStep(t) ==
  /\ call[t].at \notin Outside
  /\ CallShape' /\ LegalStep(call'[t]) /\ call'[t].at \notin Outside
  /\ \A u \in Threads \ {t} : call'[u] = call[u]
  /\ call'[t].op = call[t].op /\ call'[t].n = call[t].n /\ call'[t].text = call[t].text
  /\ UNCHANGED <<platform, locks, script>>

LEMMA UnixCodeStep ==
  ASSUME CallInv, NEW t \in Threads, UnixStep(t)
  PROVE  CodeStep(t)
<1> USE DEF CallInv, CallShape, CallFields, CodeStep, Outside, LegalStep, CallSteps, Go, Raise, Return,
            Updated, At, Op, Doing, still, sameObject, locks, Reads, ReadLocked, WriteLocked, Unlocked,
            Ops, Exclusive
<1>1. CASE UOpen(t)
  BY <1>1 DEF UOpen
<1>2. CASE USet(t)
  BY <1>2 DEF USet
<1>3. CASE SetTimeout(t)
  BY <1>3 DEF SetTimeout
<1>4. CASE UConfig(t)
  BY <1>4 DEF UConfig
<1>5. CASE UApply(t)
  BY <1>5 DEF UApply
<1>6. CASE UClose(t)
  BY <1>6 DEF UClose
<1>7. CASE UClosed(t)
  BY <1>7 DEF UClosed
<1>8. CASE UReadStart(t)
  BY <1>8 DEF UReadStart
<1>9. CASE UPrefill(t)
  <2>1. ASSUME NEW g, NEW w, At(t, "prefill"), UNCHANGED <<platform, script, object, locks>>,
               Go(t, [at |-> "loop", got |-> g, wait |-> w]) \/ Go(t, [at |-> "loop"])
        PROVE  CodeStep(t)
    BY <2>1
  <2> QED
    BY ONLY <1>9, <2>1 DEF UPrefill, TakeIn, still, sameObject
<1>10. CASE UReadLoop(t)
  BY <1>10 DEF UReadLoop
<1>11. CASE UWaitReadableStart(t)
  BY <1>11 DEF UWaitReadableStart
<1>12. CASE UWaitReadable(t)
  BY <1>12 DEF UWaitReadable, AfterSelect
<1>13. CASE UReady(t)
  BY <1>13 DEF UReady
<1>14. CASE UWaitByteTimesStart(t)
  BY <1>14 DEF UWaitByteTimesStart
<1>15. CASE UWaitByteTimes(t)
  BY <1>15 DEF UWaitByteTimes
<1>16. CASE UTake(t)
  <2>1. ASSUME NEW g, NEW w, Go(t, [at |-> "loop", got |-> g, wait |-> w]), At(t, "take"),
               UNCHANGED <<platform, script, object, locks>>
        PROVE  CodeStep(t)
    BY <2>1
  <2>2. CASE In = <<>>
    BY <1>16, <2>2 DEF UTake
  <2>3. CASE In # <<>>
    <3> DEFINE g == call[t].got \o SubSeq(In, 1, Min({Missing(t), Len(In)}))
    <3>1. Go(t, [at |-> "loop", got |-> g, wait |-> timeout.inter_byte])
      BY ONLY <1>16, <2>3 DEF UTake, TakeIn
    <3>2. At(t, "take") /\ UNCHANGED <<platform, script, object, locks>>
      BY <1>16 DEF UTake
    <3> HIDE DEF g
    <3> QED
      BY <2>1, <3>1, <3>2
  <2> QED
    BY <2>2, <2>3
<1>17. CASE UWriteStart(t)
  BY <1>17 DEF UWriteStart
<1>18. CASE UWriteLoop(t)
  BY <1>18 DEF UWriteLoop
<1>19. CASE UWriteSelect(t)
  BY <1>19 DEF UWriteSelect
<1>20. CASE UPut(t)
  <2>1. CASE hungup
    BY <1>20, <2>1 DEF UPut
  <2>2. ASSUME NEW k, Go(t, [at |-> "loop", done |-> call[t].done + k]), At(t, "put"),
               UNCHANGED <<platform, script, object, locks>>
        PROVE  CodeStep(t)
    BY <2>2
  <2> QED
    BY ONLY <1>20, <2>1, <2>2 DEF UPut
<1>21. CASE UNotOpen(t)
  BY <1>21 DEF UNotOpen
<1>22. CASE UDrainStart(t)
  BY <1>22 DEF UDrainStart
<1>23. CASE UDrain(t)
  BY <1>23 DEF UDrain
<1>24. CASE UDiscard(t)
  BY <1>24 DEF UDiscard, Discards
<1>25. CASE USignalStart(t)
  BY <1>25 DEF USignalStart
<1>26. CASE UIoctl(t)
  BY <1>26 DEF UIoctl
<1>27. CASE UWaitForChange(t)
  BY <1>27 DEF UWaitForChange
<1>28. CASE BadDescriptor(t)
  BY <1>28 DEF BadDescriptor
<1> QED
  BY <1>1, <1>2, <1>3, <1>4, <1>5, <1>6, <1>7, <1>8, <1>9, <1>10, <1>11, <1>12, <1>13, <1>14,
     <1>15, <1>16, <1>17, <1>18, <1>19, <1>20, <1>21, <1>22, <1>23, <1>24, <1>25, <1>26, <1>27,
     <1>28, UnixStep(t) DEF UnixStep

LEMMA WinCodeStep ==
  ASSUME CallInv, NEW t \in Threads, WinStep(t)
  PROVE  CodeStep(t)
<1> USE DEF CallInv, CallShape, CallFields, CodeStep, Outside, LegalStep, CallSteps, Go, Raise, Return,
            Updated, At, Op, Doing, still, sameObject, locks, Reads, ReadLocked, WriteLocked, Unlocked,
            Ops, Exclusive
<1>1. CASE WOpen(t)
  BY <1>1 DEF WOpen
<1>2. CASE USet(t)
  BY <1>2 DEF USet
<1>3. CASE SetTimeout(t)
  BY <1>3 DEF SetTimeout
<1>4. CASE WConfig(t)
  BY <1>4 DEF WConfig
<1>5. CASE WClose(t)
  BY <1>5 DEF WClose
<1>6. CASE WReadStart(t)
  BY <1>6 DEF WReadStart
<1>7. CASE WReadFile(t)
  <2>1. ASSUME NEW g, NEW w, Go(t, [got |-> g, wait |-> w]), At(t, "readfile"),
               UNCHANGED <<platform, script, object, locks>>
        PROVE  CodeStep(t)
    BY <2>1
  <2>2. ASSUME Return(t) \/ Raise(t, "error"), At(t, "readfile"),
               UNCHANGED <<platform, script, object, locks>>
        PROVE  CodeStep(t)
    BY <2>2
  <2> QED
    BY ONLY <1>7, <2>1, <2>2 DEF WReadFile, still, sameObject
<1>8. CASE WWriteStart(t)
  BY <1>8 DEF WWriteStart
<1>9. CASE WWriteFile(t)
  <2>1. ASSUME NEW d, Go(t, [done |-> d]), At(t, "writefile"),
               UNCHANGED <<platform, script, object, locks>>
        PROVE  CodeStep(t)
    BY <2>1
  <2>2. ASSUME Return(t) \/ Raise(t, "error"), At(t, "writefile"),
               UNCHANGED <<platform, script, object, locks>>
        PROVE  CodeStep(t)
    BY <2>2
  <2> QED
    BY ONLY <1>9, <2>1, <2>2 DEF WWriteFile
<1>10. CASE UNotOpen(t)
  BY <1>10 DEF UNotOpen
<1>11. CASE UDiscard(t)
  BY <1>11 DEF UDiscard, Discards
<1>12. CASE WFlush(t)
  BY <1>12 DEF WFlush
<1>13. CASE WUnsupported(t)
  BY <1>13 DEF WUnsupported
<1>14. CASE WSignal(t)
  BY <1>14 DEF WSignal
<1>15. CASE WWaitForChange(t)
  BY <1>15 DEF WWaitForChange
<1>16. CASE WBadHandle(t)
  BY <1>16 DEF WBadHandle
<1> QED
  BY <1>1, <1>2, <1>3, <1>4, <1>5, <1>6, <1>7, <1>8, <1>9, <1>10, <1>11, <1>12, <1>13, <1>14,
     <1>15, <1>16, WinStep(t) DEF WinStep
-----------------------------------------------------------------------------
(* The path of a call through its locks.                                    *)
LEMMA Appended ==
  ASSUME NEW S, NEW x \in S, NEW s \in Seq(S)
  PROVE  /\ DOMAIN Append(s, x) = 1 .. Len(s) + 1
         /\ \A i \in 1 .. Len(s) : Append(s, x)[i] = s[i]
         /\ Append(s, x)[Len(s) + 1] = x
         /\ Head(Append(s, x)) = Append(s, x)[1]
OBVIOUS

LEMMA ShortSequences ==
  ASSUME NEW S, NEW a \in S, NEW b \in S
  PROVE  <<>> \in Seq(S) /\ <<a>> \in Seq(S) /\ <<a, b>> \in Seq(S)
OBVIOUS

LEMMA PathShape ==
  ASSUME NEW op \in Ops \ Exclusive
  PROVE  /\ Head(Path(op)) = Path(op)[1]
         /\ op \in Unlocked => DOMAIN Path(op) = 1 .. 1 /\ Path(op)[1] = "body"
         /\ op \in ReadLocked \ WriteLocked =>
              DOMAIN Path(op) = 1 .. 2 /\ Path(op)[1] = "rlock" /\ Path(op)[2] = "body"
         /\ op \in WriteLocked \ ReadLocked =>
              DOMAIN Path(op) = 1 .. 2 /\ Path(op)[1] = "wlock" /\ Path(op)[2] = "body"
         /\ op \in ReadLocked \cap WriteLocked =>
              /\ DOMAIN Path(op) = 1 .. 3
              /\ Path(op)[1] = "rlock" /\ Path(op)[2] = "wlock" /\ Path(op)[3] = "body"
<1> DEFINE S == {"rlock", "wlock", "body"}
<1>1. Path(op) = Append(LockOrder(op), "body")
  BY DEF Path
<1>2. op \in Unlocked => LockOrder(op) = <<>>
  BY DEF LockOrder, Unlocked, Reads
<1>3. op \in ReadLocked \ WriteLocked => LockOrder(op) = <<"rlock">>
  BY DEF LockOrder, ReadLocked, WriteLocked, Reads
<1>4. op \in WriteLocked \ ReadLocked => LockOrder(op) = <<"wlock">>
  BY DEF LockOrder, ReadLocked, WriteLocked, Reads
<1>5. op \in ReadLocked \cap WriteLocked => LockOrder(op) = <<"rlock", "wlock">>
  BY DEF LockOrder, ReadLocked, WriteLocked, Reads
<1>6. op \in Unlocked \/ op \in ReadLocked \/ op \in WriteLocked
  BY DEF Ops
<1>7. LockOrder(op) \in Seq(S)
  BY <1>2, <1>3, <1>4, <1>5, <1>6, ShortSequences
<1>8. /\ DOMAIN Path(op) = 1 .. Len(LockOrder(op)) + 1
      /\ \A i \in 1 .. Len(LockOrder(op)) : Path(op)[i] = LockOrder(op)[i]
      /\ Path(op)[Len(LockOrder(op)) + 1] = "body"
      /\ Head(Path(op)) = Path(op)[1]
  <2>1. "body" \in S
    OBVIOUS
  <2> HIDE DEF S
  <2> QED
    BY <1>1, <1>7, <2>1, Appended
<1> DEFINE order == LockOrder(op)
           path == Path(op)
<1>9. /\ order = <<>> => Len(order) = 0
      /\ order = <<"rlock">> => Len(order) = 1 /\ order[1] = "rlock"
      /\ order = <<"wlock">> => Len(order) = 1 /\ order[1] = "wlock"
      /\ order = <<"rlock", "wlock">> => Len(order) = 2 /\ order[1] = "rlock" /\ order[2] = "wlock"
  OBVIOUS
<1>10. Len(order) = 0 => DOMAIN path = 1 .. 1 /\ path[1] = "body"
  BY <1>8
<1>11. Len(order) = 1 => DOMAIN path = 1 .. 2 /\ path[1] = order[1] /\ path[2] = "body"
  BY <1>8
<1>12. Len(order) = 2 => /\ DOMAIN path = 1 .. 3
                         /\ path[1] = order[1] /\ path[2] = order[2] /\ path[3] = "body"
  BY <1>8
<1> HIDE DEF order, path
<1> QED
  BY <1>2, <1>3, <1>4, <1>5, <1>8, <1>9, <1>10, <1>11, <1>12 DEF order, path

LEMMA FirstStep ==
  ASSUME NEW op \in Ops
  PROVE  /\ op \in Exclusive => Head(Path(op)) = op
         /\ op \in ReadLocked => Head(Path(op)) = "rlock"
         /\ op \in WriteLocked \ ReadLocked => Head(Path(op)) = "wlock"
         /\ op \in Unlocked => Head(Path(op)) = "body"
<1>1. CASE op \in Exclusive
  <2>1. Head(Path(op)) = op
    BY <1>1 DEF Path
  <2>2. op \notin ReadLocked \cup WriteLocked \cup Unlocked
    BY <1>1 DEF Exclusive, ReadLocked, WriteLocked, Unlocked
  <2> QED
    BY <2>1, <2>2
<1>2. CASE op \notin Exclusive
  BY <1>2, PathShape
<1> QED
  BY <1>1, <1>2

LEMMA StepAfterLock ==
  ASSUME NEW t \in Threads, Op(t) \in ReadLocked \cup WriteLocked
  PROVE  /\ At(t, "rlock") /\ Op(t) \in ReadLocked \ WriteLocked => NextStep(t) = "body"
         /\ At(t, "rlock") /\ Op(t) \in ReadLocked \cap WriteLocked => NextStep(t) = "wlock"
         /\ At(t, "wlock") /\ Op(t) \in WriteLocked => NextStep(t) = "body"
<1> DEFINE path == Path(Op(t))
           place == CHOOSE i \in DOMAIN path : path[i] = call[t].at
<1>1. NextStep(t) = path[1 + place]
  BY DEF NextStep
<1>2. Op(t) \in Ops \ Exclusive
  BY DEF Ops, Exclusive, ReadLocked, WriteLocked
<1>3. CASE Op(t) \in ReadLocked \ WriteLocked
  <2>1. DOMAIN path = 1 .. 2 /\ path[1] = "rlock" /\ path[2] = "body"
    BY <1>2, <1>3, PathShape
  <2>2. At(t, "rlock") => place = 1
    BY <2>1 DEF At
  <2> QED
    BY <1>1, <1>3, <2>1, <2>2 DEF At, ReadLocked, WriteLocked
<1>4. CASE Op(t) \in ReadLocked \cap WriteLocked
  <2>1. DOMAIN path = 1 .. 3 /\ path[1] = "rlock" /\ path[2] = "wlock" /\ path[3] = "body"
    BY <1>2, <1>4, PathShape
  <2>2. (At(t, "rlock") => place = 1) /\ (At(t, "wlock") => place = 2)
    BY <2>1 DEF At
  <2> QED
    BY <1>1, <1>4, <2>1, <2>2 DEF At, ReadLocked, WriteLocked
<1>5. CASE Op(t) \in WriteLocked \ ReadLocked
  <2>1. DOMAIN path = 1 .. 2 /\ path[1] = "wlock" /\ path[2] = "body"
    BY <1>2, <1>5, PathShape
  <2>2. At(t, "wlock") => place = 1
    BY <2>1 DEF At
  <2> QED
    BY <1>1, <1>5, <2>1, <2>2 DEF At, ReadLocked, WriteLocked
<1> QED
  BY <1>3, <1>4, <1>5
-----------------------------------------------------------------------------
(* What the steps around the platform's code do to a call.                  *)
LEMMA RequestOp ==
  ASSUME NEW c \in Requests
  PROVE  c.op \in Ops
BY DEF Requests, Ops, Exclusive, ReadLocked, WriteLocked, Unlocked, Reads

OthersStay(t) == \A u \in Threads \ {t} : call'[u] = call[u]

LEMMA EnterStep ==
  ASSUME CallInv, NEW t \in Threads, Enter(t)
  PROVE  /\ CallShape' /\ LegalStep(call'[t]) /\ OthersStay(t)
         /\ call[t] = Idle
         /\ call'[t].op \in Ops /\ call'[t].op = Head(script[t]).op
         /\ call'[t].n = Head(script[t]).n /\ Head(script[t]) \in Requests
         /\ call'[t].op \in Exclusive => call'[t].at = call'[t].op
         /\ call'[t].op \in ReadLocked => call'[t].at = "rlock"
         /\ call'[t].op \in WriteLocked \ ReadLocked => call'[t].at = "wlock"
         /\ call'[t].op \in Unlocked => call'[t].at = "body"
         /\ call'[t].text = <<>> /\ call'[t].got = <<>> /\ call'[t].done = 0
         /\ call'[t].phase = "none" /\ call'[t].why = "none"
         /\ call'[t].left = 0 /\ call'[t].wait = 0
         /\ DOMAIN script' = Threads /\ Scripts'
         /\ script'[t] = Tail(script[t]) /\ Len(script'[t]) = Len(script[t]) - 1
         /\ \A u \in Threads \ {t} : script'[u] = script[u]
<1> DEFINE c == Head(script[t])
           first == Head(Path(c.op))
<1>1. /\ script[t] \in Seq(Requests) /\ script[t] # <<>> /\ DOMAIN script = Threads
      /\ script' = [script EXCEPT ![t] = Tail(@)]
  BY DEF CallInv, Scripts, Enter
<1>2. c \in Requests /\ Tail(script[t]) \in Seq(Requests) /\ Len(Tail(script[t])) = Len(script[t]) - 1
  BY <1>1
<1>3. c.op \in Ops
  BY <1>2, RequestOp
<1>4. call[t] = Idle /\ Go(t, [op |-> c.op, n |-> c.n, at |-> first])
  BY DEF CallInv, LegalStep, Enter, At
<1>5. /\ c.op \in Exclusive => first = c.op
      /\ c.op \in ReadLocked => first = "rlock"
      /\ c.op \in WriteLocked \ ReadLocked => first = "wlock"
      /\ c.op \in Unlocked => first = "body"
  BY <1>3, FirstStep
<1> HIDE DEF c, first
<1>6. /\ CallShape' /\ OthersStay(t) /\ call'[t].op = c.op /\ call'[t].at = first
      /\ call'[t].n = c.n
      /\ call'[t].text = <<>> /\ call'[t].got = <<>> /\ call'[t].done = 0
      /\ call'[t].phase = "none" /\ call'[t].why = "none"
      /\ call'[t].left = 0 /\ call'[t].wait = 0
  BY <1>4 DEF CallInv, CallShape, CallFields, OthersStay, Go, Updated, Idle
<1>7. LegalStep(call'[t])
  BY <1>3, <1>5, <1>6 DEF LegalStep, Ops, Exclusive, ReadLocked, WriteLocked, Unlocked, CallSteps
<1>8. /\ DOMAIN script' = Threads /\ script'[t] = Tail(script[t])
      /\ \A u \in Threads \ {t} : script'[u] = script[u]
  BY <1>1
<1>9. Scripts'
  BY <1>2, <1>8 DEF CallInv, Scripts
<1> QED
  BY <1>2, <1>3, <1>4, <1>5, <1>6, <1>7, <1>8, <1>9 DEF c

LEMMA LockStep ==
  ASSUME CallInv, NEW t \in Threads, Lock(t)
  PROVE  /\ CallShape' /\ LegalStep(call'[t]) /\ OthersStay(t)
         /\ call'[t].op = call[t].op /\ call'[t].text = call[t].text
         /\ call'[t].got = call[t].got /\ call'[t].done = call[t].done
         /\ call'[t].phase = call[t].phase /\ call'[t].why = call[t].why /\ call'[t].n = call[t].n
         /\ call'[t].left = call[t].left /\ call'[t].wait = call[t].wait
         /\ At(t, "rlock") /\ Op(t) \in WriteLocked => call'[t].at = "wlock"
         /\ At(t, "rlock") /\ Op(t) \notin WriteLocked => call'[t].at = "body"
         /\ At(t, "wlock") => call'[t].at = "body"
         /\ UNCHANGED script
<1>1. /\ At(t, "rlock") \/ At(t, "wlock")
      /\ Go(t, [at |-> NextStep(t)]) /\ UNCHANGED script
  BY DEF Lock
<1>2. (At(t, "rlock") => Op(t) \in ReadLocked) /\ (At(t, "wlock") => Op(t) \in WriteLocked)
  BY DEF CallInv, LegalStep, At, Op
<1>3. /\ At(t, "rlock") /\ Op(t) \in WriteLocked => NextStep(t) = "wlock"
      /\ At(t, "rlock") /\ Op(t) \notin WriteLocked => NextStep(t) = "body"
      /\ At(t, "wlock") => NextStep(t) = "body"
  BY <1>1, <1>2, StepAfterLock
<1>4. /\ CallShape' /\ OthersStay(t) /\ call'[t].at = NextStep(t)
      /\ call'[t].op = call[t].op /\ call'[t].text = call[t].text
      /\ call'[t].got = call[t].got /\ call'[t].done = call[t].done
      /\ call'[t].phase = call[t].phase /\ call'[t].why = call[t].why /\ call'[t].n = call[t].n
         /\ call'[t].left = call[t].left /\ call'[t].wait = call[t].wait
  BY <1>1 DEF CallInv, CallShape, CallFields, OthersStay, Go, Updated
<1>5. LegalStep(call'[t])
  BY <1>1, <1>2, <1>3, <1>4 DEF CallInv, LegalStep, At, Op, ReadLocked, WriteLocked, Exclusive, CallSteps
<1> QED
  BY <1>1, <1>3, <1>4, <1>5

LEMMA LeaveStep ==
  ASSUME CallInv, NEW t \in Threads, Leave(t)
  PROVE  CallShape' /\ LegalStep(call'[t]) /\ OthersStay(t) /\ call'[t] = Idle /\ UNCHANGED script
BY DEF CallInv, CallShape, CallFields, OthersStay, Leave, Idle, LegalStep, CallSteps

LEMMA MoreToRead ==
  ASSUME CallInv, NEW t \in Threads, AfterRead(t), ~ReadMethodEnds(t)
  PROVE  /\ CallShape' /\ LegalStep(call'[t]) /\ OthersStay(t)
         /\ call'[t].op = call[t].op /\ call'[t].at = "body"
         /\ call'[t].text = Text(t) /\ call'[t].got = <<>>
         /\ call'[t].why = call[t].why /\ call'[t].n = call[t].n
         /\ call'[t].left = call[t].left /\ call'[t].wait = call[t].wait /\ call'[t].phase = call[t].phase
         /\ UNCHANGED <<platform, object, locks, script, queues, system, wire>>
<1>1. /\ At(t, "returned") /\ Op(t) \in Reads
      /\ Go(t, [at |-> "body", text |-> Text(t), got |-> <<>>])
      /\ UNCHANGED <<platform, object, locks, script, queues, system, wire>>
  BY DEF AfterRead, Doing
<1>2. /\ CallShape' /\ OthersStay(t) /\ call'[t].op = call[t].op /\ call'[t].at = "body"
      /\ call'[t].text = Text(t) /\ call'[t].got = <<>>
      /\ call'[t].why = call[t].why /\ call'[t].n = call[t].n
         /\ call'[t].left = call[t].left /\ call'[t].wait = call[t].wait /\ call'[t].phase = call[t].phase
  BY <1>1 DEF CallInv, CallShape, CallFields, OthersStay, Go, Updated
<1>3. LegalStep(call'[t])
  BY <1>1, <1>2 DEF CallInv, LegalStep, At, Op, Reads, Exclusive, CallSteps
<1> QED
  BY <1>1, <1>2, <1>3

LEMMA SetPortStep ==
  ASSUME CallInv, NEW t \in Threads, SetPort(t)
  PROVE  /\ CallShape' /\ LegalStep(call'[t]) /\ OthersStay(t)
         /\ call[t].at \in {"body", "returned"} /\ Op(t) = "setPort"
         /\ call'[t].op = "setPort" /\ call'[t].at \in {"close", "returned", "open"}
         /\ call'[t].at = "open" => At(t, "returned") /\ call[t].phase = "closing"
         /\ call'[t].at = "close" => is_open /\ call'[t].phase = "closing" /\ UNCHANGED port
         /\ port' \in {port, call[t].n}
         /\ call'[t].at = "returned" => call'[t].phase = call[t].phase /\ ~is_open
         /\ call'[t].at = "open" => call'[t].phase = "opening"
         /\ call'[t].text = call[t].text /\ call'[t].got = call[t].got
         /\ call'[t].why = call[t].why /\ call'[t].n = call[t].n
         /\ call'[t].left = call[t].left /\ call'[t].wait = call[t].wait
         /\ UNCHANGED <<platform, fd, is_open, settings, timeout, locks, script, queues, system, wire>>
BY DEF CallInv, CallShape, CallFields, OthersStay, SetPort, Go, Return, Updated, LegalStep, CallSteps,
       At, Op, Exclusive

(* A step of the surroundings leaves a call alone, but for the clock and    *)
(* the end of waitForChange.                                                *)
LEMMA SurroundingsStep ==
  ASSUME CallInv,
         \/ \E p \in Ports : Arrive(p) \/ Drain(p)
         \/ Hangup \/ LineChange \/ OtherFile \/ Tick
  PROVE  /\ CallShape' /\ UNCHANGED <<platform, object, locks, script, wire>>
         /\ \A t \in Threads :
              /\ call'[t].op = call[t].op /\ call'[t].n = call[t].n
              /\ call'[t].text = call[t].text /\ call'[t].got = call[t].got
              /\ call'[t].done = call[t].done /\ call'[t].phase = call[t].phase
              /\ call'[t].why = call[t].why /\ call'[t].attrs = call[t].attrs
              /\ \/ call'[t].at = call[t].at
                 \/ At(t, "change") /\ call'[t].at = "returned"
              /\ LegalStep(call'[t])
<1> USE DEF object, locks, CallInv
<1>1. ASSUME UNCHANGED call, UNCHANGED <<platform, object, locks, script, wire>>
      PROVE  CallShape' /\ \A t \in Threads : call'[t] = call[t] /\ LegalStep(call'[t])
  BY <1>1 DEF CallShape
<1>2. ASSUME NEW p \in Ports, Arrive(p) \/ Drain(p)
      PROVE  UNCHANGED <<platform, object, locks, script, wire, call>>
  BY <1>2 DEF Arrive, Drain
<1>3. Hangup \/ OtherFile => UNCHANGED <<platform, object, locks, script, wire, call>>
  BY DEF Hangup, OtherFile
<1>4. CASE LineChange
  <2>1. UNCHANGED <<platform, object, locks, script, wire>>
    BY <1>4 DEF LineChange
  <2>2. CallShape' /\ \A t \in Threads :
          call'[t] = IF At(t, "change") THEN [call[t] EXCEPT !.at = "returned"] ELSE call[t]
    BY <1>4 DEF LineChange, CallShape
  <2>3. ASSUME NEW t \in Threads, At(t, "change")
        PROVE  /\ call'[t].at = "returned" /\ LegalStep(call'[t])
               /\ \A f \in CallFields \ {"at"} : call'[t][f] = call[t][f]
    BY <2>2, <2>3 DEF CallShape, CallFields, LegalStep, CallSteps, Exclusive, Unlocked, At
  <2>4. ASSUME NEW t \in Threads, At(t, "change")
        PROVE  /\ call'[t].op = call[t].op /\ call'[t].n = call[t].n
               /\ call'[t].text = call[t].text /\ call'[t].got = call[t].got
               /\ call'[t].done = call[t].done /\ call'[t].phase = call[t].phase
               /\ call'[t].why = call[t].why /\ call'[t].attrs = call[t].attrs
    BY <2>3, <2>4 DEF CallFields
  <2>5. \A t \in Threads : ~At(t, "change") => call'[t] = call[t]
    BY <2>2
  <2> QED
    BY <2>1, <2>2, <2>3, <2>4, <2>5
<1>5. CASE Tick
  <2>1. UNCHANGED <<platform, object, locks, script, wire>>
    BY <1>5 DEF Tick
  <2>2. CallShape' /\ \A t \in Threads : call'[t] = IF Timed(t) THEN Aged(t) ELSE call[t]
    BY <1>5 DEF Tick, CallShape, Aged
  <2>3. ASSUME NEW t \in Threads, Timed(t)
        PROVE  /\ \A f \in CallFields \ {"left", "wait"} : call'[t][f] = call[t][f]
               /\ call'[t].at = call[t].at /\ call[t].at # "idle"
    BY <2>2, <2>3 DEF CallShape, CallFields, Timed, Aged
  <2>4. ASSUME NEW t \in Threads
        PROVE  /\ call'[t].op = call[t].op /\ call'[t].n = call[t].n
               /\ call'[t].text = call[t].text /\ call'[t].got = call[t].got
               /\ call'[t].done = call[t].done /\ call'[t].phase = call[t].phase
               /\ call'[t].why = call[t].why /\ call'[t].attrs = call[t].attrs
               /\ call'[t].at = call[t].at /\ LegalStep(call'[t])
    <3>1. CASE Timed(t)
      <4>1. \A f \in CallFields \ {"left", "wait"} : call'[t][f] = call[t][f]
        BY <2>3, <3>1
      <4>2. /\ call'[t].op = call[t].op /\ call'[t].n = call[t].n
            /\ call'[t].text = call[t].text /\ call'[t].got = call[t].got
            /\ call'[t].done = call[t].done /\ call'[t].phase = call[t].phase
            /\ call'[t].why = call[t].why /\ call'[t].attrs = call[t].attrs
            /\ call'[t].at = call[t].at
        BY <4>1 DEF CallFields
      <4> QED
        BY <2>3, <3>1, <4>2 DEF LegalStep
    <3>2. CASE ~Timed(t)
      BY <2>2, <3>2
    <3> QED
      BY <3>1, <3>2
  <2> QED
    BY <2>1, <2>2, <2>4
<1> QED
  BY <1>1, <1>2, <1>3, <1>4, <1>5
-----------------------------------------------------------------------------
(* The steps of a thread, as the proofs below take them apart.              *)
Leaves(t) == call[t].at \in {"returned", "raised"} /\ Leave(t)
ReadsMore(t) == AfterRead(t) /\ ~ReadMethodEnds(t)
CodeOf(t) == UnixStep(t) \/ WinStep(t)

LEMMA StepCases ==
  ASSUME NEW t \in Threads, Step(t)
  PROVE  /\ UNCHANGED <<arrived, coming>>
         /\ Enter(t) \/ Lock(t) \/ Leaves(t) \/ ReadsMore(t) \/ SetPort(t) \/ CodeOf(t)
BY DEF Step, Calls, AfterRead, Exit, Unwind, Leaves, ReadsMore, CodeOf, Doing, At

Surroundings ==
  \/ \E p \in Ports : Arrive(p) \/ Drain(p)
  \/ Hangup \/ LineChange \/ OtherFile \/ Tick

LEMMA NextCases ==
  ASSUME [Next]_allVars
  PROVE  (\E t \in Threads : Step(t)) \/ Surroundings \/ UNCHANGED allVars
BY DEF Next, Surroundings

LEMMA CodeOfStep ==
  ASSUME CallInv, NEW t \in Threads, CodeOf(t)
  PROVE  CodeStep(t)
BY UnixCodeStep, WinCodeStep DEF CodeOf

LEMMA CallInit ==
  ASSUME Init
  PROVE  CallInv
<1>1. call = [t \in Threads |-> Idle]
  BY DEF Init
<1>2. CallShape
  BY <1>1 DEF CallShape, CallFields, Idle
<1>3. \A t \in Threads : LegalStep(call[t])
  BY <1>1 DEF LegalStep, Idle, CallSteps
<1>4. script \in [Threads -> Seq(Requests)]
  BY JobAssumption DEF Init
<1> QED
  BY <1>2, <1>3, <1>4 DEF CallInv, Scripts

LEMMA CallNext ==
  ASSUME CallInv, [Next]_allVars
  PROVE  CallInv'
<1>1. ASSUME NEW t \in Threads, Step(t)
      PROVE  CallInv'
  <2>1. CASE Enter(t)
    BY <2>1, EnterStep DEF CallInv, OthersStay
  <2>2. CASE Lock(t)
    BY <2>2, LockStep DEF CallInv, OthersStay, Scripts
  <2>3. CASE Leaves(t)
    BY <2>3, LeaveStep DEF CallInv, OthersStay, Scripts, Leaves
  <2>4. CASE ReadsMore(t)
    BY <2>4, MoreToRead DEF CallInv, OthersStay, Scripts, ReadsMore
  <2>5. CASE SetPort(t)
    BY <2>5, SetPortStep DEF CallInv, OthersStay, Scripts
  <2>6. CASE CodeOf(t)
    BY <2>6, CodeOfStep DEF CallInv, CodeStep, Scripts
  <2> QED
    BY <1>1, <2>1, <2>2, <2>3, <2>4, <2>5, <2>6, StepCases
<1>2. CASE Surroundings
  BY <1>2, SurroundingsStep DEF CallInv, Surroundings, Scripts
<1>3. CASE UNCHANGED allVars
  BY <1>3 DEF CallInv, CallShape, LegalStep, Scripts, allVars, vars
<1> QED
  BY <1>1, <1>2, <1>3, NextCases

-----------------------------------------------------------------------------
(* Each mutex is held by the one call that has taken it and not ended.      *)
HoldsRead(t) == Op(t) \in ReadLocked /\ ~At(t, "rlock")
HoldsWrite(t) == Op(t) \in WriteLocked /\ call[t].at \notin {"rlock", "wlock"}

LocksHeld ==
  /\ read_mutex \in Threads \cup {Nobody} /\ write_mutex \in Threads \cup {Nobody}
  /\ \A t \in Threads : HoldsRead(t) => read_mutex = t
  /\ \A t \in Threads : read_mutex = t => HoldsRead(t)
  /\ \A t \in Threads : HoldsWrite(t) => write_mutex = t
  /\ \A t \in Threads : write_mutex = t => HoldsWrite(t)

LEMMA LocksNext ==
  ASSUME CallInv, LocksHeld, [Next]_allVars
  PROVE  LocksHeld'
<1> USE DEF LocksHeld, HoldsRead, HoldsWrite, At, Op
<1>1. ASSUME NEW t \in Threads, Step(t)
      PROVE  LocksHeld'
  <2>1. CASE Enter(t)
    <3>1. UNCHANGED locks
      BY <2>1 DEF Enter
    <3>2. call[t] = Idle
      BY <2>1, EnterStep
    <3>3. call[t].op = "none"
      BY <3>2 DEF Idle
    <3> QED
      BY <2>1, <3>1, <3>3, EnterStep DEF OthersStay, locks, ReadLocked, WriteLocked, Ops, Unlocked, Exclusive
  <2>2. CASE Lock(t)
    <3>1. LegalStep(call[t])
      BY DEF CallInv
    <3>2. CASE At(t, "rlock") /\ read_mutex = Nobody /\ read_mutex' = t /\ UNCHANGED write_mutex
      BY <2>2, <3>1, <3>2, LockStep, SerialAssumption DEF OthersStay, LegalStep
    <3>3. CASE At(t, "wlock") /\ write_mutex = Nobody /\ write_mutex' = t /\ UNCHANGED read_mutex
      BY <2>2, <3>1, <3>3, LockStep, SerialAssumption DEF OthersStay, LegalStep
    <3> QED
      BY <2>2, <3>2, <3>3 DEF Lock
  <2>3. CASE Leaves(t)
    <3>1. /\ read_mutex' = Released(read_mutex, t) /\ write_mutex' = Released(write_mutex, t)
          /\ call'[t] = Idle /\ OthersStay(t)
      BY <2>3, LeaveStep DEF Leaves, Leave
    <3>2. call'[t].op \notin ReadLocked \cup WriteLocked
      BY <3>1 DEF Idle, ReadLocked, WriteLocked
    <3> QED
      BY <3>1, <3>2, SerialAssumption DEF Released, OthersStay
  <2>4. CASE ReadsMore(t)
    BY <2>4, MoreToRead DEF OthersStay, ReadsMore, locks, AfterRead, Doing
  <2>5. CASE SetPort(t)
    BY <2>5, SetPortStep DEF OthersStay, locks
  <2>6. CASE CodeOf(t)
    BY <2>6, CodeOfStep DEF CodeStep, Outside, locks
  <2> QED
    BY <1>1, <2>1, <2>2, <2>3, <2>4, <2>5, <2>6, StepCases
<1>2. CASE Surroundings
  BY <1>2, SurroundingsStep DEF Surroundings, locks
<1>3. CASE UNCHANGED allVars
  BY <1>3 DEF allVars, vars, locks
<1> QED
  BY <1>1, <1>2, <1>3, NextCases
-----------------------------------------------------------------------------
(* open and close are alone with the object.                                *)
AloneInv == \A t \in Threads : Op(t) \in Exclusive => Alone(t)

LEMMA AloneNext ==
  ASSUME CallInv, AloneInv, [Next]_allVars
  PROVE  AloneInv'
<1> USE DEF AloneInv, Alone, At, Op
<1>1. ASSUME NEW t \in Threads, Step(t)
      PROVE  AloneInv'
  <2>0. \A u \in Threads : At(u, "idle") <=> Op(u) = "none"
    BY DEF CallInv, LegalStep
  <2>1. CASE Enter(t)
    <3>1. /\ \A u \in Threads \ {t} : Op(u) \notin Exclusive
          /\ Head(script[t]).op \in Exclusive => Alone(t)
      BY <2>1 DEF Enter
    <3>2. call'[t].op = Head(script[t]).op /\ OthersStay(t)
      BY <2>1, EnterStep
    <3> QED
      BY <3>1, <3>2 DEF OthersStay
  <2>2. CASE ~Enter(t) /\ (Lock(t) \/ ReadsMore(t) \/ SetPort(t) \/ CodeOf(t))
    <3>1. call[t].at # "idle"
      BY <2>2, CodeOfStep DEF Lock, ReadsMore, AfterRead, Doing, SetPort, CodeStep, Outside
    <3>2. call'[t].op = call[t].op /\ OthersStay(t)
      BY <2>2, LockStep, MoreToRead, SetPortStep, CodeOfStep DEF ReadsMore, CodeStep, OthersStay
    <3> QED
      BY <3>1, <3>2 DEF OthersStay
  <2>3. CASE Leaves(t)
    <3>1. call'[t] = Idle /\ OthersStay(t)
      BY <2>3, LeaveStep DEF Leaves
    <3> QED
      BY <3>1 DEF OthersStay, Idle, Exclusive
  <2> QED
    BY <1>1, <2>1, <2>2, <2>3, StepCases
<1>2. CASE Surroundings
  <2>1. \A u \in Threads : /\ call'[u].op = call[u].op
                           /\ At(u, "idle") => call'[u].at = "idle"
    BY <1>2, SurroundingsStep DEF Surroundings
  <2> QED
    BY <2>1
<1>3. CASE UNCHANGED allVars
  BY <1>3 DEF allVars, vars
<1> QED
  BY <1>1, <1>2, <1>3, NextCases

(* A set of descriptors that are free has a least one.                      *)
LEMMA LeastNatural ==
  ASSUME NEW S \in SUBSET Nat, S # {}
  PROVE  Min(S) \in S /\ \A n \in S : Min(S) <= n
<1> DEFINE R == OpToRel(<, Nat)
<1>1. IsWellFoundedOn(R, Nat)
  BY NatLessThanWellFounded
<1>2. \A x, y \in Nat : <<y, x>> \in R <=> y < x
  BY DEF OpToRel
<1> HIDE DEF R
<1>3. PICK x \in S : \A y \in S : <<y, x>> \notin R
  BY <1>1, WFMin
<1>4. ASSUME NEW y \in S
      PROVE  x =< y
  <2>1. x \in Nat /\ y \in Nat
    OBVIOUS
  <2>2. ~(y < x)
    BY <1>2, <1>3, <2>1
  <2> QED
    BY <2>1, <2>2
<1> QED
  BY <1>4 DEF Min
-----------------------------------------------------------------------------
(* The descriptor.                                                          *)
DescriptorType ==
  /\ port \in Ports \cup {NoPort} /\ fd \in Fds \cup {NoFd} /\ is_open \in BOOLEAN
  /\ files \in [Fds -> Ports \cup {"free", "other"}]
  /\ \A t \in Threads : Op(t) = "setPort" => call[t].n \in Ports \cup {NoPort}

LEMMA NewDescriptor ==
  ASSUME FreeFds # {}
  PROVE  Min(FreeFds) \in Fds /\ files[Min(FreeFds)] = "free"
BY LeastNatural, SerialAssumption DEF FreeFds

(* The steps of the platform's code that leave the object and its file     *)
(* alone: all but those of open, of close and of the settings.              *)
OpensOrCloses == {"open", "close", "closed", "config", "apply"}

LEMMA UsesPort ==
  ASSUME CallInv, NEW t \in Threads, CodeOf(t), call[t].at \notin OpensOrCloses
  PROVE  /\ UNCHANGED <<port, fd, is_open, files>>
         /\ Op(t) # "setPort" /\ Op(t) \notin Exclusive
         /\ call'[t].at \notin {"open", "close", "closed", "apply"}
         /\ call'[t].phase = call[t].phase /\ failed \subseteq failed'
         /\ call'[t].at \in Working /\ Op(t) \in ReadLocked \cup WriteLocked =>
              call[t].at \in Working \/ is_open
<1> USE DEF CallInv, CallShape, CallFields, LegalStep, Go, Raise, Return, OpensOrCloses, Working,
            Updated, At, Op, Doing, still, sameObject, object, system, Exclusive, Reads, ReadLocked, WriteLocked
<1>1. CASE USet(t) \/ SetTimeout(t)
  BY <1>1 DEF USet, SetTimeout
<1>2. CASE UReadStart(t) \/ UReadLoop(t) \/ UWaitReadableStart(t)
  BY <1>2 DEF UReadStart, UReadLoop, UWaitReadableStart
<1>3. CASE UPrefill(t) \/ UTake(t)
  <2>1. At(t, "prefill") \/ At(t, "take")
    BY <1>3 DEF UPrefill, UTake
  <2>2. UNCHANGED <<object, failed, files>>
    BY <1>3 DEF UPrefill, UTake
  <2>3. ASSUME NEW g, NEW w, \/ Go(t, [at |-> "loop", got |-> g, wait |-> w])
                             \/ Go(t, [at |-> "loop"]) \/ Raise(t, "disconnected")
        PROVE  call'[t].at \in {"loop", "raised"} /\ call'[t].phase = call[t].phase
    BY <2>3
  <2>4. call'[t].at \in {"loop", "raised"} /\ call'[t].phase = call[t].phase
    BY ONLY <1>3, <2>3 DEF UPrefill, UTake, TakeIn
  <2> QED
    BY <2>1, <2>2, <2>4
<1>4. CASE UWaitReadable(t)
  BY <1>4 DEF UWaitReadable, AfterSelect, Fails
<1>5. CASE UReady(t) \/ UWaitByteTimesStart(t) \/ UWaitByteTimes(t)
  BY <1>5 DEF UReady, UWaitByteTimesStart, UWaitByteTimes
<1>6. CASE UWriteStart(t) \/ UWriteLoop(t)
  BY <1>6 DEF UWriteStart, UWriteLoop
<1>7. CASE UWriteSelect(t)
  BY <1>7 DEF UWriteSelect, Fails
<1>8. CASE UPut(t)
  <2>1. CASE hungup
    BY <1>8, <2>1 DEF UPut
  <2>2. ASSUME NEW k, Go(t, [at |-> "loop", done |-> call[t].done + k]), At(t, "put"),
               UNCHANGED <<object, system>>
        PROVE  /\ UNCHANGED <<port, fd, is_open, files>>
               /\ Op(t) # "setPort" /\ Op(t) \notin Exclusive
               /\ call'[t].at = "loop" /\ call'[t].phase = call[t].phase /\ failed \subseteq failed'
    BY <2>2
  <2>3. CASE ~hungup
    BY ONLY <1>8, <2>2, <2>3 DEF UPut, At, Working
  <2> QED
    BY <2>1, <2>3
<1>9. CASE UNotOpen(t) \/ UDrainStart(t) \/ USignalStart(t) \/ BadDescriptor(t)
  BY <1>9 DEF UNotOpen, UDrainStart, USignalStart, BadDescriptor, Discards, Unlocked
<1>10. CASE UDrain(t) \/ UIoctl(t) \/ UWaitForChange(t)
  BY <1>10 DEF UDrain, UIoctl, UWaitForChange, Fails, Unlocked
<1>11. CASE UDiscard(t)
  BY <1>11 DEF UDiscard, Discards
<1>12. CASE WReadStart(t) \/ WWriteStart(t)
  BY <1>12 DEF WReadStart, WWriteStart
<1>13. CASE WReadFile(t)
  BY <1>13 DEF WReadFile
<1>14. CASE WWriteFile(t)
  BY <1>14 DEF WWriteFile
<1>15. CASE WFlush(t) \/ WUnsupported(t) \/ WSignal(t) \/ WWaitForChange(t) \/ WBadHandle(t)
  BY <1>15 DEF WFlush, WUnsupported, WSignal, WWaitForChange, WBadHandle, Unlocked
<1>16. ~(UOpen(t) \/ UConfig(t) \/ UApply(t) \/ UClose(t) \/ UClosed(t) \/ WOpen(t) \/ WConfig(t) \/ WClose(t))
  BY DEF UOpen, UConfig, UApply, UClose, UClosed, WOpen, WConfig, WClose
<1> QED
  BY ONLY <1>1, <1>2, <1>3, <1>4, <1>5, <1>6, <1>7, <1>8, <1>9, <1>10, <1>11, <1>12, <1>13, <1>14,
          <1>15, <1>16, CodeOf(t) DEF CodeOf, UnixStep, WinStep

(* The steps that open, close and configure.                                *)
LEMMA StepNames ==
  ASSUME NEW t \in Threads, CodeOf(t)
  PROVE  /\ At(t, "open") => UOpen(t) \/ WOpen(t)
         /\ At(t, "config") => \/ platform = "unix" /\ UConfig(t)
                               \/ platform = "win" /\ WConfig(t)
         /\ At(t, "apply") => platform = "unix" /\ UApply(t)
         /\ At(t, "close") => UClose(t) \/ WClose(t)
         /\ At(t, "closed") => UClosed(t)
BY DEF CodeOf, UnixStep, WinStep, At, Doing, USet, SetTimeout, UReadStart, UPrefill, UReadLoop,
       UWaitReadableStart, UWaitReadable, UReady, UWaitByteTimesStart, UWaitByteTimes, UTake,
       UWriteStart, UWriteLoop, UWriteSelect, UPut, UNotOpen, UDrainStart, UDrain, UDiscard,
       USignalStart, UIoctl, UWaitForChange, BadDescriptor, WReadStart, WReadFile, WWriteStart,
       WWriteFile, WFlush, WUnsupported, WSignal, WWaitForChange, WBadHandle,
       UOpen, UConfig, UApply, UClose, UClosed, WOpen, WConfig, WClose

LEMMA OpenEffect ==
  ASSUME CallInv, NEW t \in Threads, CodeOf(t), At(t, "open")
  PROVE  /\ UNCHANGED <<port, is_open>> /\ failed \subseteq failed'
         /\ \/ UNCHANGED <<fd, files>> /\ call'[t].at \in {"raised", "open"}
            \/ /\ ~is_open /\ port # NoPort /\ FreeFds # {} /\ fd' = Min(FreeFds)
               /\ files' = [files EXCEPT ![Min(FreeFds)] = port] /\ call'[t].at = "config"
            \/ ~is_open /\ fd' = NoFd /\ UNCHANGED files /\ call'[t].at = "raised"
<1>1. UOpen(t) \/ WOpen(t)
  BY StepNames
<1> QED
  BY <1>1 DEF UOpen, WOpen, Fails, At, CallInv, CallShape, CallFields, Go, Raise, Updated

LEMMA ConfigEffect ==
  ASSUME CallInv, NEW t \in Threads, CodeOf(t), At(t, "config")
  PROVE  /\ UNCHANGED <<port, fd>> /\ failed \subseteq failed'
         /\ \/ UNCHANGED <<is_open, files>> /\ call'[t].at = "raised"
            \/ UNCHANGED <<is_open, files>> /\ call'[t].at = "apply" /\ call'[t].phase = call[t].phase
            \/ /\ UNCHANGED files /\ is_open' = (is_open \/ call[t].phase = "opening")
               /\ call'[t].at = "returned" /\ call'[t].phase = "none"
            \/ /\ platform = "win" /\ "settings" \in failed' /\ UNCHANGED is_open
               /\ call'[t].at = "raised" /\ fd \in Fds /\ files' = [files EXCEPT ![fd] = "free"]
<1> USE DEF At, CallInv, CallShape, CallFields, Go, Raise, Return, Updated, still, sameObject, object,
            Fails
<1>1. CASE UConfig(t)
  BY <1>1 DEF UConfig
<1>2. CASE platform = "win" /\ WConfig(t)
  <2>1. Reached => fd \in Fds
    BY SerialAssumption DEF Reached, File
  <2> QED
    BY <1>2, <2>1 DEF WConfig
<1> QED
  BY <1>1, <1>2, StepNames

LEMMA ApplyEffect ==
  ASSUME CallInv, NEW t \in Threads, CodeOf(t), At(t, "apply")
  PROVE  /\ UNCHANGED <<port, fd, files>> /\ failed \subseteq failed'
         /\ is_open' = (is_open \/ call[t].phase = "opening")
         /\ call'[t].at = "returned" /\ call'[t].phase = "none"
<1>1. UApply(t)
  BY StepNames
<1> QED
  BY <1>1 DEF UApply, At, CallInv, CallShape, CallFields, Go, Updated, Fails

LEMMA CloseEffect ==
  ASSUME CallInv, NEW t \in Threads, CodeOf(t), At(t, "close")
  PROVE  /\ UNCHANGED port /\ failed \subseteq failed' /\ call'[t].phase = call[t].phase
         /\ \/ ~is_open /\ UNCHANGED <<fd, is_open, files>> /\ call'[t].at = "returned"
            \/ UNCHANGED <<fd, is_open, files>> /\ call'[t].at = "raised"
            \/ /\ is_open /\ File # "free" /\ files' = [files EXCEPT ![fd] = "free"]
               /\ \/ UNCHANGED <<fd, is_open>> /\ call'[t].at = "closed"
                  \/ fd' = NoFd /\ is_open' = FALSE /\ call'[t].at = "returned"
            \/ /\ "close" \in failed' /\ UNCHANGED <<fd, is_open>> /\ call'[t].at = "raised"
               /\ File # "free" /\ files' = [files EXCEPT ![fd] = "free"]
<1> USE DEF At, CallInv, CallShape, CallFields, Go, Raise, Return, Updated, still, sameObject, object,
            Fails
<1>1. CASE UClose(t)
  BY <1>1 DEF UClose
<1>2. CASE WClose(t)
  BY <1>2 DEF WClose
<1> QED
  BY <1>1, <1>2, StepNames

LEMMA ClosedEffect ==
  ASSUME CallInv, NEW t \in Threads, CodeOf(t), At(t, "closed")
  PROVE  /\ UNCHANGED <<port, files, failed>> /\ fd' = NoFd /\ is_open' = FALSE
         /\ call'[t].at = "returned" /\ call'[t].phase = call[t].phase
<1>1. UClosed(t)
  BY StepNames
<1> QED
  BY <1>1 DEF UClosed, At, CallInv, CallShape, CallFields, Go, Return, Updated, system
-----------------------------------------------------------------------------
LEMMA DescriptorTypeNext ==
  ASSUME CallInv, DescriptorType, [Next]_allVars
  PROVE  DescriptorType'
<1> USE DEF DescriptorType, Op
<1>1. ASSUME NEW t \in Threads, Step(t)
      PROVE  DescriptorType'
  <2>1. CASE Enter(t)
    <3>1. UNCHANGED <<port, fd, is_open, files>>
      BY <2>1 DEF Enter, object, system
    <3>2. call'[t].op = "setPort" => call'[t].n \in Ports \cup {NoPort}
      BY <2>1, EnterStep DEF Requests, Reads
    <3> QED
      BY <2>1, <3>1, <3>2, EnterStep DEF OthersStay
  <2>2. CASE Lock(t)
    BY <2>2, LockStep DEF Lock, OthersStay, object, system
  <2>3. CASE Leaves(t)
    BY <2>3, LeaveStep DEF Leaves, Leave, OthersStay, Idle, object, system
  <2>4. CASE ReadsMore(t)
    BY <2>4, MoreToRead DEF ReadsMore, OthersStay, object, system
  <2>5. CASE SetPort(t)
    BY <2>5, SetPortStep DEF OthersStay, system
  <2>6. CASE CodeOf(t)
    <3>1. \A u \in Threads : call'[u].op = call[u].op /\ call'[u].n = call[u].n
      BY <2>6, CodeOfStep DEF CodeStep
    <3>2. CASE call[t].at \notin OpensOrCloses
      BY <2>6, <3>1, <3>2, UsesPort
    <3>3. CASE At(t, "open")
      <4>1. FreeFds # {} => Min(FreeFds) \in Fds
        BY NewDescriptor
      <4> QED
        BY <2>6, <3>1, <3>3, <4>1, OpenEffect
    <3>4. CASE At(t, "config")
      BY <2>6, <3>1, <3>4, ConfigEffect
    <3>5. CASE At(t, "apply")
      BY <2>6, <3>1, <3>5, ApplyEffect
    <3>6. CASE At(t, "close")
      BY <2>6, <3>1, <3>6, CloseEffect
    <3>7. CASE At(t, "closed")
      BY <2>6, <3>1, <3>7, ClosedEffect
    <3> QED
      BY <3>2, <3>3, <3>4, <3>5, <3>6, <3>7 DEF OpensOrCloses, At
  <2> QED
    BY <1>1, <2>1, <2>2, <2>3, <2>4, <2>5, <2>6, StepCases
<1>2. CASE Surroundings
  <2>1. /\ UNCHANGED <<port, fd, is_open>>
        /\ \A u \in Threads : call'[u].op = call[u].op /\ call'[u].n = call[u].n
    BY <1>2, SurroundingsStep DEF Surroundings, object
  <2>2. CASE OtherFile
    BY <2>1, <2>2, NewDescriptor DEF OtherFile
  <2>3. CASE UNCHANGED files
    BY <2>1, <2>3
  <2> QED
    BY <1>2, <2>2, <2>3 DEF Surroundings, Arrive, Drain, Hangup, LineChange, Tick, system
<1>3. CASE UNCHANGED allVars
  BY <1>3 DEF allVars, vars, object, system
<1> QED
  BY <1>1, <1>2, <1>3, NextCases

(* A call that moves the object to another file has it to itself: open and *)
(* close are alone, and setPort holds both locks.                           *)
Opening(t) == call[t].at \in {"config", "apply"} /\ call[t].phase = "opening"
Renaming(t) == At(t, "returned") /\ call[t].phase = "closing"
Busy(t) == call[t].at \in Working /\ Op(t) \in ReadLocked \cup WriteLocked

Moves(t) ==
  \/ call[t].at \in {"open", "close", "closed"} \/ Opening(t)
  \/ Op(t) = "setPort" /\ call[t].at \in {"body", "returned"}

LEMMA Undisturbed ==
  ASSUME CallInv, LocksHeld, AloneInv, NEW t \in Threads, NEW u \in Threads \ {t}, Moves(t)
  PROVE  ~Moves(u) /\ ~Opening(u) /\ ~Renaming(u) /\ ~Busy(u) /\ ~HoldsRead(u) /\ ~HoldsWrite(u)
<1> USE DEF Moves, Opening, Renaming, Busy, At, Op
<1>1. LegalStep(call[t]) /\ LegalStep(call[u])
  BY DEF CallInv
<1>2. Op(t) \in Exclusive \/ (HoldsRead(t) /\ HoldsWrite(t))
  BY <1>1 DEF LegalStep, HoldsRead, HoldsWrite, ReadLocked, WriteLocked, Exclusive
<1>3. Op(u) \in Exclusive => At(t, "idle")
  BY DEF AloneInv, Alone
<1>4. Op(t) \in Exclusive => At(u, "idle")
  BY DEF AloneInv, Alone
<1>5. HoldsRead(t) => ~HoldsRead(u)
  BY DEF LocksHeld
<1>6. HoldsWrite(t) => ~HoldsWrite(u)
  BY DEF LocksHeld
<1>7. Moves(u) \/ Opening(u) \/ Renaming(u) => Op(u) \in Exclusive \/ (HoldsRead(u) /\ HoldsWrite(u))
  BY <1>1 DEF LegalStep, HoldsRead, HoldsWrite, ReadLocked, WriteLocked, Exclusive
<1>8. Busy(u) => HoldsRead(u) \/ HoldsWrite(u)
  BY <1>1 DEF LegalStep, HoldsRead, HoldsWrite, Working
<1>9. At(t, "idle") => ~Moves(t)
  BY <1>1 DEF LegalStep
<1>10. At(u, "idle") => ~Moves(u) /\ ~Opening(u) /\ ~Renaming(u) /\ ~Busy(u)
                       /\ ~HoldsRead(u) /\ ~HoldsWrite(u)
  BY <1>1 DEF LegalStep, Working, HoldsRead, HoldsWrite, ReadLocked, WriteLocked
<1> QED
  BY <1>2, <1>3, <1>4, <1>5, <1>6, <1>7, <1>8, <1>9, <1>10

(* The system has not left a dead handle behind.                            *)
NoDeadHandle == "close" \notin failed /\ (platform = "win" => "settings" \notin failed)

(* An open port stands for its own terminal, except between ::close and    *)
(* the end of SerialImpl::close; who works on it knows that it is open.    *)
OwnFile == Reached /\ File = port

DescriptorInv ==
  NoDeadHandle =>
    /\ is_open => OwnFile \/ \E t \in Threads : At(t, "closed")
    /\ \A t \in Threads : Busy(t) => is_open
    /\ \A t \in Threads : Opening(t) => OwnFile
    /\ \A t \in Threads : Renaming(t) => ~is_open

LEMMA FreshFile ==
  ASSUME DescriptorType, FreeFds # {}, port # NoPort, fd' = Min(FreeFds), UNCHANGED port,
         files' = [files EXCEPT ![Min(FreeFds)] = port]
  PROVE  OwnFile'
BY NewDescriptor DEF OwnFile, Reached, File, DescriptorType

LEMMA DescriptorNext ==
  ASSUME CallInv, LocksHeld, AloneInv, DescriptorType, DescriptorInv, [Next]_allVars
  PROVE  DescriptorInv'
<1> SUFFICES ASSUME NoDeadHandle'
             PROVE  /\ is_open' => OwnFile' \/ \E t \in Threads : At(t, "closed")'
                    /\ \A t \in Threads : Busy(t)' => is_open'
                    /\ \A t \in Threads : Opening(t)' => OwnFile'
                    /\ \A t \in Threads : Renaming(t)' => ~is_open'
  BY DEF DescriptorInv
<1> DEFINE Goal == /\ is_open' => OwnFile' \/ \E t \in Threads : At(t, "closed")'
                   /\ \A t \in Threads : Busy(t)' => is_open'
                   /\ \A t \in Threads : Opening(t)' => OwnFile'
                   /\ \A t \in Threads : Renaming(t)' => ~is_open'
<1>1. ASSUME failed \subseteq failed', UNCHANGED platform
      PROVE  /\ NoDeadHandle
             /\ is_open => OwnFile \/ \E t \in Threads : At(t, "closed")
             /\ \A t \in Threads : Busy(t) => is_open
             /\ \A t \in Threads : Opening(t) => OwnFile
             /\ \A t \in Threads : Renaming(t) => ~is_open
  BY <1>1 DEF NoDeadHandle, DescriptorInv
<1>2. UNCHANGED <<port, fd, files>> => OwnFile' = OwnFile
  BY DEF OwnFile, Reached, File
<1>3. ASSUME NEW t \in Threads, OthersStay(t)
      PROVE  \A u \in Threads \ {t} :
               /\ At(u, "closed")' = At(u, "closed") /\ Busy(u)' = Busy(u)
               /\ Opening(u)' = Opening(u) /\ Renaming(u)' = Renaming(u)
  BY <1>3 DEF OthersStay, At, Op, Busy, Opening, Renaming
<1>4. ASSUME NEW t \in Threads, Step(t)
      PROVE  Goal
  <2>1. LegalStep(call[t])
    BY DEF CallInv
  <2>2. CASE Enter(t) \/ Lock(t) \/ Leaves(t) \/ ReadsMore(t)
    <3>1. UNCHANGED <<port, fd, is_open, files, failed, platform>>
      BY <2>2 DEF Enter, Lock, Leaves, Leave, ReadsMore, AfterRead, object, system
    <3>2. OthersStay(t) /\ call'[t].at \in {"idle", "rlock", "wlock", "body", "open", "close"}
      <4>1. CASE Enter(t)
        BY <4>1, EnterStep DEF Ops, Exclusive
      <4>2. CASE Lock(t)
        BY <4>2, LockStep DEF Lock
      <4>3. CASE Leaves(t) \/ ReadsMore(t)
        BY <4>3, LeaveStep, MoreToRead DEF Leaves, ReadsMore, Idle
      <4> QED
        BY <2>2, <4>1, <4>2, <4>3
    <3>3. ~Busy(t)' /\ ~Opening(t)' /\ ~Renaming(t)'
      BY <3>2 DEF Busy, Opening, Renaming, Working, At
    <3>4. ~At(t, "closed")
      BY <2>2, EnterStep DEF Lock, Leaves, ReadsMore, AfterRead, Doing, At, Idle
    <3> QED
      BY <1>1, <1>2, <1>3, <3>1, <3>2, <3>3, <3>4
  <2>3. CASE SetPort(t)
    <3>1. /\ OthersStay(t) /\ UNCHANGED <<fd, is_open, files, failed, platform>>
          /\ call'[t].at \in {"close", "returned", "open"}
          /\ call[t].at \in {"body", "returned"} /\ Op(t) = "setPort"
      BY <2>3, SetPortStep DEF system
    <3>2. ~Busy(t)' /\ ~Opening(t)' /\ ~At(t, "closed")
      BY <3>1 DEF Busy, Opening, Working, At
    <3>3. \A u \in Threads \ {t} : ~Busy(u) /\ ~Opening(u) /\ ~Renaming(u)
      BY <3>1, Undisturbed DEF Moves
    <3>4. CASE call'[t].at = "close"
      <4>1. UNCHANGED port /\ ~Renaming(t)'
        BY <2>3, <3>4, SetPortStep DEF Renaming, At
      <4> QED
        BY <1>1, <1>2, <1>3, <3>1, <3>2, <3>3, <4>1
    <3>5. CASE call'[t].at # "close"
      <4>1. ~is_open
        BY <1>1, <2>3, <3>1, <3>5, SetPortStep DEF Renaming
      <4> QED
        BY <1>3, <3>1, <3>2, <3>3, <4>1
    <3> QED
      BY <3>4, <3>5
  <2>4. CASE CodeOf(t)
    <3>0. OthersStay(t) /\ UNCHANGED platform
      BY <2>4, CodeOfStep DEF CodeStep, OthersStay
    <3>1. CASE call[t].at \notin OpensOrCloses
      <4>1. /\ UNCHANGED <<port, fd, is_open, files>> /\ failed \subseteq failed'
            /\ Op(t) # "setPort" /\ Op(t) \notin Exclusive
            /\ call'[t].at \notin {"closed", "apply"} /\ call'[t].phase = call[t].phase
            /\ call'[t].op = call[t].op
            /\ call'[t].at \in Working /\ Op(t) \in ReadLocked \cup WriteLocked =>
                 call[t].at \in Working \/ is_open
        BY <2>4, <3>1, UsesPort, CodeOfStep DEF CodeStep
      <4>2. call[t].phase = "none"
        BY <2>1, <4>1 DEF LegalStep, Op, Exclusive
      <4>3. ~Opening(t)' /\ ~Renaming(t)' /\ ~At(t, "closed")
        BY <3>1, <4>1, <4>2 DEF Opening, Renaming, At, OpensOrCloses
      <4>4. Busy(t)' => Busy(t) \/ is_open
        BY <4>1 DEF Busy, Op
      <4> QED
        BY <1>1, <1>2, <1>3, <3>0, <4>1, <4>3, <4>4
    <3>2. CASE call[t].at \in {"config", "apply"} /\ ~Opening(t)
      <4>1. /\ UNCHANGED <<port, fd, is_open, files>> /\ failed \subseteq failed'
            /\ ~Busy(t)' /\ ~Opening(t)' /\ ~Renaming(t)' /\ ~At(t, "closed")
        <5>1. call[t].phase # "opening" /\ ("settings" \in failed' => platform # "win")
          BY <3>0, <3>2 DEF Opening, NoDeadHandle
        <5>2. CASE At(t, "config")
          BY <2>4, <5>1, <5>2, ConfigEffect DEF Busy, Opening, Renaming, Working, At, DescriptorType
        <5>3. CASE At(t, "apply")
          BY <2>4, <5>1, <5>3, ApplyEffect DEF Busy, Opening, Renaming, Working, At, DescriptorType
        <5> QED
          BY <3>2, <5>2, <5>3 DEF At
      <4> QED
        BY <1>1, <1>2, <1>3, <3>0, <4>1
    <3>3. CASE call[t].at \in {"open", "close", "closed"} \/ Opening(t)
      <4>1. \A u \in Threads \ {t} : ~Busy(u) /\ ~Opening(u) /\ ~Renaming(u) /\ ~At(u, "closed")
        BY <3>3, Undisturbed DEF Moves, At
      <4>2. CASE At(t, "open")
        <5>1. ~Busy(t)' /\ ~Renaming(t)' /\ ~At(t, "closed")
          BY <2>4, <4>2, OpenEffect DEF Busy, Renaming, Working, At
        <5>2. CASE UNCHANGED <<fd, files>> /\ call'[t].at \in {"raised", "open"}
          <6>1. UNCHANGED <<port, fd, is_open, files>> /\ failed \subseteq failed' /\ ~Opening(t)'
            BY <2>4, <4>2, <5>2, OpenEffect DEF Opening
          <6> QED
            BY <1>1, <1>2, <1>3, <3>0, <4>1, <5>1, <6>1
        <5>3. CASE ~is_open /\ call'[t].at # "config"
          <6>1. UNCHANGED is_open /\ ~Opening(t)'
            BY <2>4, <4>2, <5>3, OpenEffect, CodeOfStep DEF Opening, CodeStep, LegalStep
          <6> QED
            BY <1>3, <3>0, <4>1, <5>1, <5>3, <6>1
        <5>4. CASE ~is_open /\ call'[t].at = "config"
          <6>1. UNCHANGED is_open /\ OwnFile'
            BY <2>4, <4>2, <5>4, OpenEffect, FreshFile
          <6> QED
            BY <1>3, <3>0, <4>1, <5>1, <5>4, <6>1
        <5> QED
          BY <2>4, <4>2, <5>2, <5>3, <5>4, OpenEffect
      <4>3. CASE Opening(t)
        <5>1. "settings" \in failed' => platform # "win"
          BY <3>0 DEF NoDeadHandle
        <5>2. UNCHANGED <<port, fd, files>> /\ failed \subseteq failed'
              /\ ~Busy(t)' /\ ~Renaming(t)' /\ ~At(t, "closed")
          <6>1. CASE At(t, "config")
            BY <2>4, <5>1, <6>1, ConfigEffect DEF Busy, Renaming, Working, At
          <6>2. CASE At(t, "apply")
            BY <2>4, <6>2, ApplyEffect DEF Busy, Renaming, Working, At
          <6> QED
            BY <4>3, <6>1, <6>2 DEF Opening, At
        <5>3. OwnFile'
          BY <1>1, <1>2, <3>0, <4>3, <5>2
        <5> QED
          BY <1>3, <3>0, <4>1, <5>2, <5>3
      <4>4. CASE At(t, "close")
        <5>1. /\ ~Busy(t)' /\ ~Opening(t)' /\ failed \subseteq failed'
              /\ "close" \notin failed' /\ UNCHANGED port /\ ~At(t, "closed")
          BY <2>4, <4>4, CloseEffect DEF Busy, Opening, Working, At, NoDeadHandle
        <5>2. CASE UNCHANGED <<fd, is_open, files>> /\ (is_open => call'[t].at # "returned")
          <6>1. Renaming(t)' => ~is_open'
            BY <5>2 DEF Renaming, At
          <6> QED
            BY <1>1, <1>2, <1>3, <3>0, <4>1, <5>1, <5>2, <6>1
        <5>3. CASE call'[t].at = "closed"
          <6>1. At(t, "closed")' /\ ~Renaming(t)'
            BY <5>3 DEF At, Renaming
          <6> QED
            BY <1>3, <3>0, <4>1, <5>1, <6>1
        <5>4. CASE is_open' = FALSE
          BY <1>3, <3>0, <4>1, <5>1, <5>4
        <5> QED
          BY <2>4, <4>4, <5>1, <5>2, <5>3, <5>4, CloseEffect
      <4>5. CASE At(t, "closed")
        <5>1. ~Busy(t)' /\ ~Opening(t)' /\ is_open' = FALSE
          BY <2>4, <4>5, ClosedEffect DEF Busy, Opening, Working, At
        <5> QED
          BY <1>3, <3>0, <4>1, <5>1
      <4> QED
        BY <3>3, <4>2, <4>3, <4>4, <4>5 DEF At
    <3> QED
      BY <3>1, <3>2, <3>3 DEF OpensOrCloses
  <2> QED
    BY <1>4, <2>2, <2>3, <2>4, StepCases
<1>5. CASE Surroundings
  <2>1. /\ UNCHANGED <<port, fd, is_open, platform>>
        /\ \A u \in Threads : /\ call'[u].op = call[u].op /\ call'[u].phase = call[u].phase
                              /\ \/ call'[u].at = call[u].at
                                 \/ At(u, "change") /\ call'[u].at = "returned"
    BY <1>5, SurroundingsStep DEF Surroundings, object
  <2>2. \A u \in Threads : At(u, "change") => call[u].phase # "closing"
    BY DEF CallInv, LegalStep, At, Unlocked
  <2>3. \A u \in Threads : /\ At(u, "closed")' = At(u, "closed") /\ Busy(u)' = Busy(u)
                           /\ Opening(u)' = Opening(u) /\ Renaming(u)' = Renaming(u)
    BY <2>1, <2>2 DEF At, Op, Busy, Opening, Renaming, Working
  <2>4. failed \subseteq failed'
    BY <1>5 DEF Surroundings, Arrive, Drain, Hangup, Fails, LineChange, OtherFile, Tick, system
  <2>5. CASE UNCHANGED files
    BY <1>1, <1>2, <2>1, <2>3, <2>4, <2>5
  <2>6. CASE OtherFile
    <3>1. ~OwnFile
      BY <2>6 DEF OtherFile, OwnFile
    <3> QED
      BY <1>1, <2>1, <2>3, <2>4, <3>1
  <2> QED
    BY <1>5, <2>5, <2>6 DEF Surroundings, Arrive, Drain, Hangup, LineChange, Tick, system
<1>6. CASE UNCHANGED allVars
  BY <1>6, <1>1, <1>2 DEF allVars, vars, object, system, At, Op, Busy, Opening, Renaming
<1> QED
  BY <1>4, <1>5, <1>6, NextCases

(* What all the proofs below start from.                                    *)
PortInv == CallInv /\ LocksHeld /\ AloneInv /\ DescriptorType /\ DescriptorInv

LEMMA PortInit ==
  ASSUME Init
  PROVE  PortInv
<1>1. call = [t \in Threads |-> Idle]
  BY DEF Init
<1>2. LocksHeld
  BY <1>1, SerialAssumption DEF Init, LocksHeld, HoldsRead, HoldsWrite, Op, Idle, ReadLocked, WriteLocked
<1>3. AloneInv
  BY <1>1 DEF AloneInv, Op, Idle, Exclusive
<1>4. /\ port \in Ports \cup {NoPort} /\ is_open = (port # NoPort)
      /\ fd = (IF is_open THEN Min(Fds) ELSE NoFd)
      /\ files = [f \in Fds |-> IF f = fd THEN port ELSE "free"]
  BY JobAssumption DEF Init
<1>5. Min(Fds) \in Fds
  BY LeastNatural, SerialAssumption
<1>6. DescriptorType
  <2>1. \A t \in Threads : Op(t) # "setPort"
    BY <1>1 DEF Op, Idle
  <2>2. \A f \in Fds : f # NoFd
    BY SerialAssumption DEF NoFd
  <2>3. \A f \in Fds : files[f] \in Ports \cup {"free", "other"}
    BY <1>4, <2>2
  <2> QED
    BY <1>4, <1>5, <2>1, <2>3 DEF DescriptorType
<1>7. DescriptorInv
  <2>1. \A t \in Threads : ~Busy(t) /\ ~Opening(t) /\ ~Renaming(t)
    BY <1>1 DEF Busy, Opening, Renaming, Working, At, Idle
  <2>2. is_open => OwnFile
    BY <1>4, <1>5 DEF OwnFile, Reached, File
  <2> QED
    BY <2>1, <2>2 DEF DescriptorInv
<1> QED
  BY <1>2, <1>3, <1>6, <1>7, CallInit DEF PortInv

LEMMA PortInvariant == Spec => []PortInv
<1>1. Init => PortInv
  BY PortInit
<1>2. PortInv /\ [Next]_allVars => PortInv'
  BY CallNext, LocksNext, AloneNext, DescriptorTypeNext, DescriptorNext DEF PortInv
<1> QED
  BY <1>1, <1>2, PTL DEF Spec

(* A call that works under a lock: its descriptor is the port's own.        *)
LEMMA LockedOp ==
  ASSUME NEW op \in Ops, LockOrder(op) # <<>>
  PROVE  op \in ReadLocked \cup WriteLocked
BY DEF LockOrder, Ops, ReadLocked, WriteLocked, Unlocked, Exclusive, Reads

LEMMA BusyOnOwnFile ==
  ASSUME PortInv, NoDeadHandle, NEW t \in Threads, Busy(t)
  PROVE  is_open /\ OwnFile
<1>1. is_open /\ (OwnFile \/ \E u \in Threads : At(u, "closed"))
  BY DEF PortInv, DescriptorInv
<1>2. ASSUME NEW u \in Threads, At(u, "closed")
      PROVE  FALSE
  <2>1. Moves(u) /\ u # t
    BY <1>2 DEF Moves, At, Busy, Working
  <2> QED
    BY <2>1, Undisturbed DEF PortInv
<1> QED
  BY <1>1, <1>2

(* A method that holds a lock never makes a system call on a descriptor    *)
(* that setPort has closed under it, or that is another file's by then.     *)
THEOREM SafeDescriptorHolds == Spec => []SafeDescriptor
<1>1. ASSUME PortInv
      PROVE  SafeDescriptor
  <2> SUFFICES ASSUME NEW t \in Threads, call[t].at \in Working, LockOrder(Op(t)) # <<>>,
                      NoDeadHandle
               PROVE  is_open /\ Reached /\ File = port
    BY DEF SafeDescriptor, NoDeadHandle
  <2>1. Op(t) \in Ops
    BY <1>1 DEF PortInv, CallInv, LegalStep, Op, Working
  <2>2. Busy(t)
    BY <2>1, LockedOp DEF Busy
  <2> QED
    BY <1>1, <2>2, BusyOnOwnFile DEF OwnFile
<1> QED
  BY <1>1, PortInvariant, PTL
-----------------------------------------------------------------------------
(* The file of a call that works under a lock stays, or is gone for good.   *)
LEMMA FileKept ==
  ASSUME PortInv, [Next]_allVars, NEW t \in Threads, HoldsRead(t) \/ HoldsWrite(t), Op(t) # "setPort"
  PROVE  UNCHANGED fd /\ (Reached' => Reached /\ File' = File)
<1> USE DEF PortInv
<1>1. UNCHANGED <<fd, files>> => UNCHANGED fd /\ (Reached' => Reached /\ File' = File)
  BY DEF Reached, File
<1>2. ASSUME NEW u \in Threads, Step(u)
      PROVE  UNCHANGED fd /\ (Reached' => Reached /\ File' = File)
  <2>1. CASE Enter(u) \/ Lock(u) \/ Leaves(u) \/ ReadsMore(u) \/ SetPort(u)
    BY <1>1, <2>1, SetPortStep DEF Enter, Lock, Leaves, Leave, ReadsMore, AfterRead, object, system
  <2>2. CASE CodeOf(u)
    <3>1. ~Moves(u)
      <4>1. CASE u = t
        BY <4>1 DEF CallInv, LegalStep, Moves, Opening, Op, HoldsRead, HoldsWrite, ReadLocked, WriteLocked
      <4>2. CASE u # t
        BY <4>2, Undisturbed
      <4> QED
        BY <4>1, <4>2
    <3>2. CASE call[u].at \notin OpensOrCloses
      BY <1>1, <2>2, <3>2, UsesPort
    <3>3. CASE At(u, "config")
      <4>1. fd \in Fds /\ files' = [files EXCEPT ![fd] = "free"] /\ UNCHANGED fd => ~Reached'
        BY SerialAssumption DEF Reached, File, DescriptorType
      <4> QED
        BY <1>1, <2>2, <3>3, <4>1, ConfigEffect
    <3>4. CASE At(u, "apply")
      BY <1>1, <2>2, <3>4, ApplyEffect
    <3> QED
      BY <3>1, <3>2, <3>3, <3>4 DEF OpensOrCloses, Moves, At
  <2> QED
    BY <1>2, <2>1, <2>2, StepCases
<1>3. CASE Surroundings
  <2>1. UNCHANGED fd
    BY <1>3, SurroundingsStep DEF Surroundings, object
  <2>2. CASE UNCHANGED files
    BY <1>1, <2>1, <2>2
  <2>3. CASE OtherFile
    <3>1. files' = [files EXCEPT ![Min(FreeFds)] = "other"] /\ ~Reached
      BY <2>3 DEF OtherFile
    <3> QED
      BY <2>1, <3>1, SerialAssumption DEF Reached, File, DescriptorType
  <2> QED
    BY <1>3, <2>2, <2>3 DEF Surroundings, Arrive, Drain, Hangup, LineChange, Tick, system
<1>4. CASE UNCHANGED allVars
  BY <1>1, <1>4 DEF allVars, vars, object, system
<1> QED
  BY <1>2, <1>3, <1>4, NextCases
-----------------------------------------------------------------------------
(* What a call is asked for, and its timers.                                *)
RequestInv ==
  \A t \in Threads : call[t].op # "none" => [op |-> call[t].op, n |-> call[t].n] \in Requests

LEMMA RequestNext ==
  ASSUME CallInv, RequestInv, [Next]_allVars
  PROVE  RequestInv'
<1> USE DEF RequestInv
<1>1. ASSUME NEW t \in Threads, Step(t)
      PROVE  RequestInv'
  <2>1. CASE Enter(t)
    <3>1. \A c \in Requests : [op |-> c.op, n |-> c.n] = c
      BY DEF Requests
    <3> QED
      BY <2>1, <3>1, EnterStep DEF OthersStay
  <2>2. CASE Leaves(t)
    BY <2>2, LeaveStep DEF Leaves, OthersStay, Idle
  <2>3. CASE Lock(t) \/ ReadsMore(t) \/ SetPort(t) \/ CodeOf(t)
    <3>1. /\ call'[t].op = call[t].op /\ call'[t].n = call[t].n
          /\ \A u \in Threads \ {t} : call'[u] = call[u]
      BY <2>3, LockStep, MoreToRead, SetPortStep, CodeOfStep DEF ReadsMore, OthersStay, CodeStep, Op
    <3> QED
      BY <3>1
  <2> QED
    BY <1>1, <2>1, <2>2, <2>3, StepCases
<1>2. CASE Surroundings
  BY <1>2, SurroundingsStep DEF Surroundings
<1>3. CASE UNCHANGED allVars
  BY <1>3 DEF allVars, vars
<1> QED
  BY <1>1, <1>2, <1>3, NextCases

LEMMA MaxOfTwo ==
  ASSUME NEW a \in Int, NEW b \in Int
  PROVE  Max({a, b}) = IF a >= b THEN a ELSE b
<1>1. \A x \in {a, b} : (\A y \in {a, b} : x >= y) => x = IF a >= b THEN a ELSE b
  OBVIOUS
<1>2. \E x \in {a, b} : \A y \in {a, b} : x >= y
  OBVIOUS
<1> QED
  BY <1>1, <1>2 DEF Max

LEMMA MinOfTwo ==
  ASSUME NEW a \in Int, NEW b \in Int
  PROVE  Min({a, b}) = IF a <= b THEN a ELSE b
<1>1. \A x \in {a, b} : (\A y \in {a, b} : x =< y) => x = IF a <= b THEN a ELSE b
  OBVIOUS
<1>2. \E x \in {a, b} : \A y \in {a, b} : x =< y
  OBVIOUS
<1> QED
  BY <1>1, <1>2 DEF Min

LEMMA RequestArgument ==
  ASSUME RequestInv, NEW t \in Threads
  PROVE  /\ Op(t) \in Reads \cup {"write", "waitByteTimes"} => call[t].n \in Nat
         /\ Op(t) = "set" => call[t].n \in Setting
         /\ Op(t) = "setTimeout" => call[t].n \in Timeouts
         /\ Op(t) = "signal" => call[t].n.lines \subseteq {"RTS", "DTR", "BRK"}
<1>1. ASSUME NEW op, NEW n, [op |-> op, n |-> n] \in Requests
      PROVE  /\ op \in Reads \cup {"write", "waitByteTimes"} => n \in Nat
             /\ op = "set" => n \in Setting
             /\ op = "setTimeout" => n \in Timeouts
             /\ op = "signal" => n.lines \subseteq {"RTS", "DTR", "BRK"}
  BY <1>1 DEF Requests, Reads
<1> QED
  BY <1>1 DEF RequestInv, Op, Reads

LEMMA NewSetting ==
  ASSUME NEW s \in Settings, NEW c \in Setting
  PROVE  Updated(s, c) \in Settings
BY DEF Settings, Setting, Updated

Timers(t) ==
  /\ call[t].left \in Int /\ call[t].left >= -1
  /\ call[t].wait \in Int /\ call[t].wait >= Forever

ValuesInv ==
  /\ settings \in Settings /\ timeout \in Timeouts
  /\ \A t \in Threads : Timers(t)

LEMMA TotalTime ==
  ASSUME timeout \in Timeouts, NEW n \in Nat
  PROVE  ReadTotal(n) \in Nat /\ WriteTotal(n) \in Nat
<1>1. /\ timeout.read_constant \in Nat /\ timeout.read_multiplier \in Nat
      /\ timeout.write_constant \in Nat /\ timeout.write_multiplier \in Nat
  BY DEF Timeouts
<1>2. \A a, b, c \in Nat : a + b * c \in Nat
  OBVIOUS
<1> QED
  BY <1>1, <1>2 DEF ReadTotal, WriteTotal

LEMMA SoonerTime ==
  ASSUME NEW x \in Int, NEW y \in Nat \cup {Forever}, x >= -1
  PROVE  Sooner(x, y) \in Int /\ Sooner(x, y) >= Forever
BY MinOfTwo DEF Sooner, Forever

LEMMA CodeValues ==
  ASSUME CallInv, RequestInv, ValuesInv, NEW t \in Threads, CodeOf(t)
  PROVE  settings' \in Settings /\ timeout' \in Timeouts /\ Timers(t)'
<1> USE DEF CallInv, CallShape, CallFields, LegalStep, Go, Raise, Return, Updated, At, Op, Doing,
            object, Reads, ValuesInv, Timers, Forever
<1>1. CASE USet(t)
  <2>1. settings' = Updated(settings, call[t].n) /\ call[t].n \in Setting /\ UNCHANGED timeout
    BY ONLY <1>1, RequestArgument, RequestInv, t \in Threads DEF USet, Doing, Op
  <2>2. settings' \in Settings
    BY <2>1, NewSetting
  <2>3. call'[t].left = call[t].left /\ call'[t].wait = call[t].wait
    BY <1>1 DEF USet
  <2> QED
    BY <2>1, <2>2, <2>3
<1>2. CASE SetTimeout(t)
  BY <1>2, RequestArgument DEF SetTimeout
<1>3. CASE UReadStart(t) \/ WReadStart(t)
  <2>1. ReadSize(t) \in Nat
    BY <1>3, RequestArgument DEF UReadStart, WReadStart, ReadSize
  <2>2. ReadTotal(ReadSize(t)) \in Nat
    BY <2>1, TotalTime
  <2> QED
    BY <1>3, <2>2 DEF UReadStart, WReadStart, sameObject
<1>4. CASE UWriteStart(t) \/ WWriteStart(t)
  <2>1. call[t].n \in Nat
    BY <1>4, RequestArgument DEF UWriteStart, WWriteStart
  <2>2. WriteTotal(call[t].n) \in Nat
    BY <2>1, TotalTime
  <2> QED
    BY <1>4, <2>2 DEF UWriteStart, WWriteStart, sameObject
<1>5. CASE UReadLoop(t)
  <2>1. timeout.inter_byte \in Nat \cup {Forever}
    BY DEF Timeouts
  <2>2. Sooner(call[t].left, timeout.inter_byte) \in Int /\ Sooner(call[t].left, timeout.inter_byte) >= Forever
    BY <2>1, SoonerTime
  <2> QED
    BY <1>5, <2>2 DEF UReadLoop, sameObject
<1>6. CASE UWaitReadableStart(t)
  BY <1>6 DEF UWaitReadableStart, sameObject, Timeouts
<1>7. CASE UWaitReadable(t) \/ UWriteSelect(t)
  BY <1>7 DEF UWaitReadable, UWriteSelect, sameObject
<1>8. CASE UWriteLoop(t)
  BY <1>8 DEF UWriteLoop, sameObject
<1>9. CASE WReadFile(t)
  <2>1. timeout.inter_byte \in Nat \cup {Forever}
    BY DEF Timeouts
  <2> QED
    <3>1. ASSUME NEW g, NEW w \in Nat, Go(t, [got |-> g, wait |-> w])
          PROVE  Timers(t)'
      BY <3>1
    <3>2. ASSUME Return(t) \/ Raise(t, "error")
          PROVE  Timers(t)'
      BY <3>2
    <3>3. (IF timeout.inter_byte = Forever THEN 0 ELSE timeout.inter_byte) \in Nat
      BY <2>1
    <3>4. UNCHANGED <<settings, timeout>>
      BY <1>9 DEF WReadFile, sameObject
    <3> QED
      BY ONLY <1>9, <3>1, <3>2, <3>3, <3>4, ValuesInv DEF WReadFile, ValuesInv
<1>10. CASE /\ UNCHANGED <<settings, timeout>>
            /\ call'[t].left = call[t].left /\ call'[t].wait = call[t].wait
  BY <1>10
<1>11. CASE UOpen(t) \/ UConfig(t) \/ UApply(t) \/ UClose(t) \/ UClosed(t)
  BY <1>11, <1>10 DEF UOpen, UConfig, UApply, UClose, UClosed, sameObject
<1>12. CASE UPrefill(t) \/ UTake(t)
  <2>1. ASSUME NEW g, Go(t, [at |-> "loop", got |-> g, wait |-> timeout.inter_byte])
        PROVE  Timers(t)'
    <3>1. timeout.inter_byte \in Nat \cup {Forever}
      BY DEF Timeouts
    <3> QED
      BY <2>1, <3>1
  <2>2. ASSUME Raise(t, "disconnected") \/ Go(t, [at |-> "loop"])
        PROVE  Timers(t)'
    BY <2>2
  <2>3. UNCHANGED <<settings, timeout>>
    BY <1>12 DEF UPrefill, UTake, sameObject
  <2> QED
    BY ONLY <1>12, <2>1, <2>2, <2>3, ValuesInv DEF UPrefill, UTake, TakeIn, ValuesInv
<1>13. CASE UReady(t) \/ UWaitByteTimesStart(t) \/ UWaitByteTimes(t)
  BY <1>13, <1>10 DEF UReady, UWaitByteTimesStart, UWaitByteTimes, sameObject
<1>14. CASE UPut(t)
  <2>1. CASE hungup
    BY <1>10, <1>14, <2>1 DEF UPut
  <2>2. ASSUME NEW k, Go(t, [at |-> "loop", done |-> call[t].done + k]), UNCHANGED object
        PROVE  /\ UNCHANGED <<settings, timeout>>
               /\ call'[t].left = call[t].left /\ call'[t].wait = call[t].wait
    BY <2>2
  <2>3. CASE ~hungup
    BY ONLY <1>10, <1>14, <2>2, <2>3 DEF UPut
  <2> QED
    BY <2>1, <2>3
<1>15. CASE UNotOpen(t) \/ UDrainStart(t) \/ UDrain(t) \/ UDiscard(t)
  BY <1>15, <1>10 DEF UNotOpen, UDrainStart, UDrain, UDiscard, sameObject
<1>16. CASE USignalStart(t) \/ UIoctl(t) \/ UWaitForChange(t) \/ BadDescriptor(t)
  BY <1>16, <1>10 DEF USignalStart, UIoctl, UWaitForChange, BadDescriptor, sameObject
<1>17. CASE WOpen(t) \/ WConfig(t) \/ WClose(t)
  BY <1>17, <1>10 DEF WOpen, WConfig, WClose
<1>18. CASE WWriteFile(t)
  BY <1>18, <1>10 DEF WWriteFile
<1>19. CASE WFlush(t) \/ WUnsupported(t) \/ WSignal(t) \/ WWaitForChange(t) \/ WBadHandle(t)
  BY <1>19, <1>10 DEF WFlush, WUnsupported, WSignal, WWaitForChange, WBadHandle, sameObject
<1> QED
  BY ONLY <1>1, <1>2, <1>3, <1>4, <1>5, <1>6, <1>7, <1>8, <1>9, <1>11, <1>12, <1>13, <1>14, <1>15,
          <1>16, <1>17, <1>18, <1>19, CodeOf(t) DEF CodeOf, UnixStep, WinStep

LEMMA TickEffect ==
  ASSUME CallInv, ValuesInv, Tick, NEW t \in Threads
  PROVE  /\ call'[t].at = call[t].at
         /\ \/ call'[t].left = call[t].left /\ call'[t].wait = call[t].wait
            \/ /\ call'[t].left = IF call[t].left - 1 >= Floor(t) THEN call[t].left - 1 ELSE Floor(t)
               /\ call'[t].wait = IF Waits(t) /\ call[t].wait > 0 THEN call[t].wait - 1 ELSE call[t].wait
<1>1. call'[t] = IF Timed(t) THEN Aged(t) ELSE call[t]
  BY DEF Tick
<1>2. CASE Timed(t)
  <2>1. /\ call'[t].left = Max({call[t].left - 1, Floor(t)})
        /\ call'[t].wait = IF Waits(t) /\ call[t].wait > 0 THEN call[t].wait - 1 ELSE call[t].wait
        /\ call'[t].at = call[t].at
    BY <1>1, <1>2 DEF Aged, CallInv, CallShape, CallFields
  <2>2. Max({call[t].left - 1, Floor(t)}) =
          IF call[t].left - 1 >= Floor(t) THEN call[t].left - 1 ELSE Floor(t)
    BY MaxOfTwo DEF ValuesInv, Timers, Floor
  <2> QED
    BY <2>1, <2>2
<1>3. CASE ~Timed(t)
  BY <1>1, <1>3
<1> QED
  BY <1>2, <1>3

LEMMA ValuesNext ==
  ASSUME CallInv, RequestInv, ValuesInv, [Next]_allVars
  PROVE  ValuesInv'
<1> USE DEF ValuesInv
<1>1. ASSUME NEW t \in Threads, OthersStay(t), Timers(t)'
      PROVE  \A u \in Threads : Timers(u)'
  BY <1>1 DEF OthersStay, Timers
<1>2. ASSUME NEW t \in Threads, Step(t)
      PROVE  ValuesInv'
  <2>1. CASE CodeOf(t)
    BY <1>1, <2>1, CodeOfStep, CodeValues DEF CodeStep, OthersStay
  <2>2. CASE ~CodeOf(t) /\ (Enter(t) \/ Lock(t) \/ Leaves(t) \/ ReadsMore(t) \/ SetPort(t))
    <3>1. UNCHANGED <<settings, timeout>>
      BY <2>2, SetPortStep DEF Enter, Lock, Leaves, Leave, ReadsMore, AfterRead, object
    <3>2. OthersStay(t) /\ \/ call'[t].left = 0 /\ call'[t].wait = 0
                           \/ call'[t].left = call[t].left /\ call'[t].wait = call[t].wait
      <4>1. CASE Leaves(t)
        BY <4>1, LeaveStep DEF Leaves, Idle
      <4>2. CASE Enter(t)
        BY <4>2, EnterStep
      <4>3. CASE Lock(t) \/ ReadsMore(t) \/ SetPort(t)
        BY <4>3, LockStep, MoreToRead, SetPortStep DEF ReadsMore
      <4> QED
        BY <2>2, <4>1, <4>2, <4>3
    <3>3. Timers(t)'
      BY <3>2 DEF Timers, Forever
    <3> QED
      BY <1>1, <3>1, <3>2, <3>3
  <2> QED
    BY <1>2, <2>1, <2>2, StepCases
<1>3. CASE Surroundings
  <2>1. UNCHANGED <<settings, timeout>>
    BY <1>3, SurroundingsStep DEF Surroundings, object
  <2>2. CASE Tick
    <3>1. ASSUME NEW t \in Threads
          PROVE  Timers(t)'
      <4>1. Floor(t) \in Int /\ Floor(t) >= -1
        BY DEF Floor
      <4> QED
        BY <2>2, <4>1, TickEffect DEF Timers, Forever
    <3> QED
      BY <2>1, <3>1
  <2>3. CASE LineChange
    <3>1. \A t \in Threads : call'[t].left = call[t].left /\ call'[t].wait = call[t].wait
      BY <2>3 DEF LineChange, CallInv, CallShape, CallFields
    <3> QED
      BY <2>1, <3>1 DEF Timers
  <2>4. CASE UNCHANGED call
    BY <2>1, <2>4 DEF Timers
  <2> QED
    BY <1>3, <2>2, <2>3, <2>4 DEF Surroundings, Arrive, Drain, Hangup, OtherFile
<1>4. CASE UNCHANGED allVars
  BY <1>4 DEF allVars, vars, object, Timers
<1> QED
  BY <1>2, <1>3, <1>4, NextCases
-----------------------------------------------------------------------------
(* How a read and a write end.                                              *)
LEMMA ReturnCause ==
  ASSUME CallInv, NEW t \in Threads, CodeOf(t), call'[t].at = "returned"
  PROVE  /\ Op(t) \in Reads => \/ Missing(t) = 0 \/ call[t].left <= 0
                               \/ platform = "win" /\ Quiet(t)
         /\ Op(t) = "write" => \/ Unsent(t) = 0 \/ call[t].left <= 0
                               \/ At(t, "wselect") /\ call[t].wait = 0
<1> USE DEF CallInv, CallShape, CallFields, LegalStep, Go, Raise, Return, Updated, At, Op, Doing, Reads
<1>1. CASE call[t].op \notin Reads \cup {"write"}
  BY <1>1
<1>2. CASE call[t].op \in Reads
  <2>1. ~(UOpen(t) \/ UConfig(t) \/ UApply(t) \/ UClose(t) \/ UClosed(t) \/ USet(t) \/ SetTimeout(t)
          \/ WOpen(t) \/ WConfig(t) \/ WClose(t))
    BY <1>2 DEF UOpen, UConfig, UApply, UClose, UClosed, USet, SetTimeout, WOpen, WConfig, WClose
  <2>2. ~(UWriteStart(t) \/ UWriteLoop(t) \/ UWriteSelect(t) \/ UPut(t) \/ WWriteStart(t) \/ WWriteFile(t))
    BY <1>2 DEF UWriteStart, UWriteLoop, UWriteSelect, UPut, WWriteStart, WWriteFile
  <2>3. ~(UWaitReadableStart(t) \/ UWaitByteTimesStart(t) \/ UNotOpen(t) \/ UDrainStart(t) \/ UDrain(t)
          \/ UDiscard(t) \/ USignalStart(t) \/ UIoctl(t) \/ UWaitForChange(t))
    BY <1>2 DEF UWaitReadableStart, UWaitByteTimesStart, UNotOpen, UDrainStart, UDrain, UDiscard,
                USignalStart, UIoctl, UWaitForChange, Discards, Unlocked
  <2>4. ~(WFlush(t) \/ WUnsupported(t) \/ WSignal(t) \/ WWaitForChange(t))
    BY <1>2 DEF WFlush, WUnsupported, WSignal, WWaitForChange
  <2>5. ~(UReadStart(t) \/ UPrefill(t) \/ UTake(t))
    <3>1. ASSUME NEW g, Go(t, [at |-> "loop", got |-> g])
          PROVE  FALSE
      BY <3>1
    <3> QED
      BY <3>1 DEF UReadStart, UPrefill, UTake, TakeIn
  <2>6. ~(UWaitReadable(t) \/ UReady(t) \/ UWaitByteTimes(t) \/ WReadStart(t))
    BY <1>2 DEF UWaitReadable, UReady, UWaitByteTimes, AfterSelect, WReadStart
  <2>7. ~(BadDescriptor(t) \/ WBadHandle(t))
    BY <1>2 DEF BadDescriptor, WBadHandle, Unlocked
  <2>8. UReadLoop(t) \/ (platform = "win" /\ WReadFile(t))
    BY ONLY <2>1, <2>2, <2>3, <2>4, <2>5, <2>6, <2>7, CodeOf(t) DEF CodeOf, UnixStep, WinStep
  <2>9. UReadLoop(t) => Missing(t) = 0 \/ call[t].left <= 0
    BY DEF UReadLoop
  <2>10. WReadFile(t) => Missing(t) = 0 \/ call[t].left <= 0 \/ Quiet(t)
    <3>1. ASSUME NEW g, NEW w, Go(t, [got |-> g, wait |-> w]), At(t, "readfile")
          PROVE  FALSE
      BY <3>1
    <3>2. ASSUME Raise(t, "error")
          PROVE  FALSE
      BY <3>2
    <3> QED
      BY ONLY <3>1, <3>2 DEF WReadFile
  <2> QED
    BY <1>2, <2>8, <2>9, <2>10
<1>3. CASE call[t].op = "write"
  <2>1. ~(UOpen(t) \/ UConfig(t) \/ UApply(t) \/ UClose(t) \/ UClosed(t) \/ USet(t) \/ SetTimeout(t)
          \/ WOpen(t) \/ WConfig(t) \/ WClose(t))
    BY <1>3 DEF UOpen, UConfig, UApply, UClose, UClosed, USet, SetTimeout, WOpen, WConfig, WClose
  <2>2. ~(UReadStart(t) \/ UPrefill(t) \/ UReadLoop(t) \/ UTake(t) \/ UReady(t) \/ WReadStart(t) \/ WReadFile(t))
    BY <1>3 DEF UReadStart, UPrefill, UReadLoop, UTake, UReady, WReadStart, WReadFile
  <2>3. ~(UWaitReadableStart(t) \/ UWaitByteTimesStart(t) \/ UNotOpen(t) \/ UDrainStart(t) \/ UDrain(t)
          \/ UDiscard(t) \/ USignalStart(t) \/ UIoctl(t) \/ UWaitForChange(t))
    BY <1>3 DEF UWaitReadableStart, UWaitByteTimesStart, UNotOpen, UDrainStart, UDrain, UDiscard,
                USignalStart, UIoctl, UWaitForChange, Discards, Unlocked
  <2>4. ~(WFlush(t) \/ WUnsupported(t) \/ WSignal(t) \/ WWaitForChange(t) \/ UWaitReadable(t) \/ UWaitByteTimes(t))
    BY <1>3 DEF WFlush, WUnsupported, WSignal, WWaitForChange, UWaitReadable, UWaitByteTimes
  <2>5. ~(UWriteStart(t) \/ WWriteStart(t) \/ BadDescriptor(t) \/ WBadHandle(t))
    BY <1>3 DEF UWriteStart, WWriteStart, BadDescriptor, WBadHandle, Unlocked
  <2>6. ~UPut(t)
    <3>1. ASSUME NEW k, Go(t, [at |-> "loop", done |-> call[t].done + k])
          PROVE  FALSE
      BY <3>1
    <3>2. ASSUME Raise(t, "disconnected")
          PROVE  FALSE
      BY <3>2
    <3> QED
      BY ONLY <3>1, <3>2 DEF UPut
  <2>7. UWriteLoop(t) \/ UWriteSelect(t) \/ WWriteFile(t)
    BY ONLY <2>1, <2>2, <2>3, <2>4, <2>5, <2>6, CodeOf(t) DEF CodeOf, UnixStep, WinStep
  <2>8. UWriteLoop(t) => Unsent(t) = 0 \/ call[t].left <= 0
    BY DEF UWriteLoop
  <2>9. UWriteSelect(t) => At(t, "wselect") /\ call[t].wait = 0
    BY DEF UWriteSelect
  <2>10. WWriteFile(t) => Unsent(t) = 0 \/ call[t].left <= 0
    BY DEF WWriteFile
  <2> QED
    BY <1>3, <2>7, <2>8, <2>9, <2>10
<1> QED
  BY <1>1, <1>2, <1>3

(* While a write waits for room its wait is no shorter than the time it    *)
(* has left: only then does the end of the wait mean the end of the time.   *)
WaitInv ==
  \A t \in Threads :
    At(t, "wselect") => call[t].wait = Forever \/ call[t].wait >= call[t].left

LEMMA StartOfWait ==
  ASSUME CallInv, ValuesInv, NEW t \in Threads, CodeOf(t), call'[t].at = "wselect"
  PROVE  call'[t].wait = Forever \/ call'[t].wait >= call'[t].left
<1> USE DEF CallInv, CallShape, CallFields, LegalStep, Go, Raise, Return, Updated, At, Op, Doing, Reads
<1>1. call'[t].op = "write" /\ call[t].op = "write"
  BY CodeOfStep DEF CodeStep
<1>2. ~(UOpen(t) \/ UConfig(t) \/ UApply(t) \/ UClose(t) \/ UClosed(t) \/ USet(t) \/ SetTimeout(t)
        \/ WOpen(t) \/ WConfig(t) \/ WClose(t))
  BY <1>1 DEF UOpen, UConfig, UApply, UClose, UClosed, USet, SetTimeout, WOpen, WConfig, WClose
<1>3. ~(UReadStart(t) \/ UPrefill(t) \/ UReadLoop(t) \/ UTake(t) \/ UReady(t) \/ WReadStart(t) \/ WReadFile(t))
  BY <1>1 DEF UReadStart, UPrefill, UReadLoop, UTake, UReady, WReadStart, WReadFile
<1>4. ~(UWaitReadableStart(t) \/ UWaitByteTimesStart(t) \/ UNotOpen(t) \/ UDrainStart(t) \/ UDrain(t)
        \/ UDiscard(t) \/ USignalStart(t) \/ UIoctl(t) \/ UWaitForChange(t))
  BY <1>1 DEF UWaitReadableStart, UWaitByteTimesStart, UNotOpen, UDrainStart, UDrain, UDiscard,
              USignalStart, UIoctl, UWaitForChange, Discards, Unlocked
<1>5. ~(WFlush(t) \/ WUnsupported(t) \/ WSignal(t) \/ WWaitForChange(t) \/ UWaitReadable(t) \/ UWaitByteTimes(t))
  BY <1>1 DEF WFlush, WUnsupported, WSignal, WWaitForChange, UWaitReadable, UWaitByteTimes
<1>6. ~(UWriteStart(t) \/ WWriteStart(t) \/ UWriteSelect(t) \/ WWriteFile(t) \/ BadDescriptor(t) \/ WBadHandle(t))
  BY DEF UWriteStart, WWriteStart, UWriteSelect, WWriteFile, BadDescriptor, WBadHandle
<1>7. ~UPut(t)
  <2>1. ASSUME NEW k, Go(t, [at |-> "loop", done |-> call[t].done + k])
        PROVE  FALSE
    BY <2>1
  <2>2. ASSUME Raise(t, "disconnected")
        PROVE  FALSE
    BY <2>2
  <2> QED
    BY ONLY <2>1, <2>2 DEF UPut
<1>8. UWriteLoop(t)
  BY ONLY <1>2, <1>3, <1>4, <1>5, <1>6, <1>7, CodeOf(t) DEF CodeOf, UnixStep, WinStep
<1> QED
  BY <1>8 DEF UWriteLoop, Forever, ValuesInv, Timers

LEMMA WaitNext ==
  ASSUME CallInv, ValuesInv, WaitInv, [Next]_allVars
  PROVE  WaitInv'
<1> USE DEF WaitInv
<1>1. ASSUME NEW t \in Threads, Step(t)
      PROVE  WaitInv'
  <2>1. CASE CodeOf(t)
    BY <2>1, CodeOfStep, StartOfWait DEF CodeStep, At
  <2>2. CASE Enter(t) \/ Lock(t) \/ Leaves(t) \/ ReadsMore(t) \/ SetPort(t)
    <3>1. OthersStay(t) /\ call'[t].at # "wselect"
      <4>1. CASE Leaves(t)
        BY <4>1, LeaveStep DEF Leaves, Idle
      <4>2. CASE Enter(t)
        BY <4>2, EnterStep DEF Ops, Exclusive
      <4>3. CASE Lock(t)
        BY <4>3, LockStep DEF Lock
      <4>4. CASE ReadsMore(t) \/ SetPort(t)
        BY <4>4, MoreToRead, SetPortStep DEF ReadsMore
      <4> QED
        BY <2>2, <4>1, <4>2, <4>3, <4>4
    <3> QED
      BY <3>1 DEF OthersStay, At
  <2> QED
    BY <1>1, <2>1, <2>2, StepCases
<1>2. CASE Surroundings
  <2>1. CASE Tick
    <3>1. ASSUME NEW t \in Threads, call[t].at = "wselect"
          PROVE  call'[t].wait = Forever \/ call'[t].wait >= call'[t].left
      <4>1. Floor(t) = -1
        BY <3>1 DEF Floor, Op, CallInv, LegalStep
      <4>2. call[t].wait = Forever \/ call[t].wait >= call[t].left
        BY <3>1 DEF At
      <4> QED
        BY <2>1, <4>1, <4>2, TickEffect DEF Forever, ValuesInv, Timers
    <3> QED
      BY <2>1, <3>1, TickEffect DEF At
  <2>2. CASE LineChange
    <3>1. \A t \in Threads : /\ call'[t].left = call[t].left /\ call'[t].wait = call[t].wait
                             /\ call'[t].at \in {call[t].at, "returned"}
      BY <2>2 DEF LineChange, CallInv, CallShape, CallFields, At
    <3> QED
      BY <3>1 DEF At
  <2>3. CASE UNCHANGED call
    BY <2>3 DEF At
  <2> QED
    BY <1>2, <2>1, <2>2, <2>3 DEF Surroundings, Arrive, Drain, Hangup, OtherFile
<1>3. CASE UNCHANGED allVars
  BY <1>3 DEF allVars, vars, At
<1> QED
  BY <1>1, <1>2, <1>3, NextCases

TimeInv == CallInv /\ RequestInv /\ ValuesInv /\ WaitInv

LEMMA TimeInvariant == Spec => []TimeInv
<1>1. ASSUME Init
      PROVE  TimeInv
  <2>1. call = [t \in Threads |-> Idle]
    BY <1>1 DEF Init
  <2>2. RequestInv /\ WaitInv /\ \A t \in Threads : Timers(t)
    BY <2>1 DEF RequestInv, WaitInv, Timers, Idle, At, Forever
  <2>3. settings \in Settings /\ timeout \in Timeouts
    BY <1>1, JobAssumption DEF Init
  <2> QED
    BY <1>1, <2>2, <2>3, CallInit DEF TimeInv, ValuesInv
<1>2. TimeInv /\ [Next]_allVars => TimeInv'
  BY CallNext, RequestNext, ValuesNext, WaitNext DEF TimeInv
<1> QED
  BY <1>1, <1>2, PTL DEF Spec

TimedOut(t) ==
  /\ Op(t) \in Reads => Missing(t) = 0 \/ call[t].left <= 0 \/ Quiet(t)
  /\ Op(t) = "write" => Unsent(t) = 0 \/ call[t].left <= 0

Ends == \A t \in Threads : ~At(t, "returned") /\ call'[t].at = "returned" => TimedOut(t)

(* A read or write ends with less than it was asked for only when its total *)
(* time or, for a read with a byte, the time between two bytes is over:    *)
(* neither a signal nor a select that comes back early ends it.            *)
THEOREM ShortMeansTimeoutHolds == Spec => ShortMeansTimeout
<1>1. ASSUME TimeInv, [Next]_allVars
      PROVE  Ends
  <2> SUFFICES ASSUME NEW t \in Threads, ~At(t, "returned"), call'[t].at = "returned"
               PROVE  TimedOut(t)
    BY DEF Ends
  <2> USE <1>1 DEF TimeInv
  <2>1. ASSUME NEW u \in Threads, Step(u)
        PROVE  TimedOut(t)
    <3>1. CASE CodeOf(u)
      <4>1. u = t
        BY <3>1, CodeOfStep DEF CodeStep, At
      <4>2. At(t, "wselect") /\ call[t].wait = 0 => call[t].left <= 0
        BY DEF WaitInv, ValuesInv, Timers, Forever
      <4> QED
        BY <3>1, <4>1, <4>2, ReturnCause DEF TimedOut
    <3>2. CASE Enter(u) \/ Lock(u) \/ Leaves(u) \/ ReadsMore(u)
      <4>1. OthersStay(u) /\ call'[u].at # "returned"
        <5>1. CASE Leaves(u)
          BY <5>1, LeaveStep DEF Leaves, Idle
        <5>2. CASE Enter(u)
          BY <5>2, EnterStep DEF Ops, Exclusive
        <5>3. CASE Lock(u)
          BY <5>3, LockStep DEF Lock
        <5>4. CASE ReadsMore(u)
          BY <5>4, MoreToRead DEF ReadsMore
        <5> QED
          BY <3>2, <5>1, <5>2, <5>3, <5>4
      <4> QED
        BY <4>1 DEF OthersStay, At
    <3>3. CASE SetPort(u)
      <4>1. u = t
        BY <3>3, SetPortStep DEF OthersStay, At
      <4> QED
        BY <3>3, <4>1, SetPortStep DEF Reads, TimedOut
    <3> QED
      BY <2>1, <3>1, <3>2, <3>3, StepCases
  <2>2. CASE Surroundings
    <3>1. At(t, "change")
      BY <2>2, SurroundingsStep DEF Surroundings, At
    <3> QED
      BY <3>1 DEF CallInv, LegalStep, At, Op, Reads, Unlocked, TimedOut
  <2>3. CASE UNCHANGED allVars
    BY <2>3 DEF allVars, vars, At
  <2> QED
    BY <2>1, <2>2, <2>3, NextCases
<1>2. TimeInv /\ [Next]_allVars => [Ends]_allVars
  BY <1>1
<1>3. [][Ends]_allVars <=> ShortMeansTimeout
  BY DEF ShortMeansTimeout, Ends, TimedOut
<1> QED
  BY <1>2, <1>3, TimeInvariant, PTL DEF Spec
-----------------------------------------------------------------------------
(* What the steps of the platform's code do to the bytes that have arrived.*)
Ready(t) == Op(t) \in Reads /\ call[t].at \in {"ready", "bytetimes", "take"}

KeepsInput(t) == UNCHANGED inq /\ call'[t].got = call[t].got

TakesSome(t) ==
  /\ Op(t) \in Reads /\ call[t].at \in {"prefill", "take"} /\ Reached
  /\ TakeIn(t, Min({Missing(t), Len(In)}))

TakesOne(t) ==
  /\ Op(t) \in Reads /\ At(t, "readfile") /\ Reached /\ In # <<>> /\ Missing(t) > 0
  /\ inq' = [inq EXCEPT ![File] = Tail(@)]
  /\ call'[t].got = Append(call[t].got, Head(In)) /\ call'[t].at = "readfile"

EmptiesInput(t) ==
  /\ (HoldsRead(t) /\ Op(t) \notin Reads) \/ At(t, "close")
  /\ DOMAIN inq' = DOMAIN inq /\ \A p \in Ports : inq'[p] = inq[p] \/ inq'[p] = <<>>
  /\ call'[t].got = call[t].got

InputChange(t) ==
  /\ UNCHANGED hungup
  /\ KeepsInput(t) \/ TakesSome(t) \/ TakesOne(t) \/ EmptiesInput(t)
  /\ Ready(t)' => KeepsInput(t) /\ (Ready(t) \/ (Reached /\ Readable))
  /\ call'[t].why = "disconnected" =>
       call[t].why = "disconnected" \/ hungup \/ (Ready(t) /\ Reached /\ In = <<>>)

LEMMA InputEffect ==
  ASSUME CallInv, NEW t \in Threads, CodeOf(t)
  PROVE  InputChange(t)
<1>0. call'[t].op = call[t].op /\ LegalStep(call[t])
  BY CodeOfStep DEF CodeStep, CallInv
<1>1. ASSUME NEW s, Go(t, [at |-> s]), UNCHANGED <<inq, hungup>>,
             s \notin {"ready", "bytetimes", "take"} \/ Op(t) \notin Reads
                \/ Ready(t) \/ (Reached /\ Readable)
      PROVE  InputChange(t)
  BY <1>0, <1>1 DEF CallInv, CallShape, CallFields, Go, Updated, KeepsInput, Ready, InputChange, Op
<1>2. ASSUME NEW reason, Raise(t, reason), UNCHANGED <<inq, hungup>>,
             reason # "disconnected" \/ hungup \/ (Ready(t) /\ Reached /\ In = <<>>)
      PROVE  InputChange(t)
  BY <1>2 DEF CallInv, CallShape, CallFields, Raise, Go, Updated, KeepsInput, Ready, InputChange
<1>3. ASSUME NEW s, NEW x, Go(t, [at |-> s, phase |-> x]), UNCHANGED <<inq, hungup>>,
             s \notin {"ready", "bytetimes", "take"}
      PROVE  InputChange(t)
  BY <1>3 DEF CallInv, CallShape, CallFields, Go, Updated, KeepsInput, Ready, InputChange
<1>4. ASSUME NEW s, NEW x, Go(t, [at |-> s, attrs |-> x]), UNCHANGED <<inq, hungup>>,
             s \notin {"ready", "bytetimes", "take"}
      PROVE  InputChange(t)
  BY <1>4 DEF CallInv, CallShape, CallFields, Go, Updated, KeepsInput, Ready, InputChange
<1>4b. ASSUME NEW s, NEW x, NEW y, Go(t, [at |-> s, attrs |-> x, phase |-> y]), UNCHANGED <<inq, hungup>>,
             s \notin {"ready", "bytetimes", "take"}
      PROVE  InputChange(t)
  BY <1>4b DEF CallInv, CallShape, CallFields, Go, Updated, KeepsInput, Ready, InputChange
<1>5. ASSUME NEW s, NEW x, Go(t, [at |-> s, wait |-> x]), UNCHANGED <<inq, hungup>>,
             s \notin {"ready", "bytetimes", "take"} \/ Op(t) \notin Reads
                \/ Ready(t) \/ (Reached /\ Readable)
      PROVE  InputChange(t)
  BY <1>0, <1>5 DEF CallInv, CallShape, CallFields, Go, Updated, KeepsInput, Ready, InputChange, Op
<1>5b. ASSUME NEW s, NEW x, Go(t, [at |-> s, left |-> x]), UNCHANGED <<inq, hungup>>,
             s \notin {"ready", "bytetimes", "take"}
      PROVE  InputChange(t)
  BY <1>5b DEF CallInv, CallShape, CallFields, Go, Updated, KeepsInput, Ready, InputChange
<1>6. ASSUME NEW s, NEW x, NEW y, Go(t, [at |-> s, left |-> x, first |-> y]), UNCHANGED <<inq, hungup>>,
             s \notin {"ready", "bytetimes", "take"}
      PROVE  InputChange(t)
  BY <1>6 DEF CallInv, CallShape, CallFields, Go, Updated, KeepsInput, Ready, InputChange
<1>6b. ASSUME NEW s, NEW x, NEW y, Go(t, [at |-> s, first |-> y, wait |-> x]), UNCHANGED <<inq, hungup>>,
             s \notin {"ready", "bytetimes", "take"}
      PROVE  InputChange(t)
  BY <1>6b DEF CallInv, CallShape, CallFields, Go, Updated, KeepsInput, Ready, InputChange
<1>7. ASSUME NEW x, Go(t, [at |-> "loop", done |-> x]), UNCHANGED <<inq, hungup>>
      PROVE  InputChange(t)
  BY <1>7 DEF CallInv, CallShape, CallFields, Go, Updated, KeepsInput, Ready, InputChange
<1>7b. ASSUME NEW x, Go(t, [done |-> x]), UNCHANGED <<inq, hungup>>,
             At(t, "writefile")
      PROVE  InputChange(t)
  BY <1>0, <1>7b DEF CallInv, CallShape, CallFields, Go, Updated, KeepsInput, Ready, InputChange, At
<1>8. ASSUME NEW s, Go(t, [at |-> s]), EmptiesInput(t), UNCHANGED hungup, s \notin {"ready", "bytetimes", "take"}
      PROVE  InputChange(t)
  BY <1>8 DEF CallInv, CallShape, CallFields, Go, Updated, Ready, InputChange
<1>9. ASSUME UNCHANGED <<call, inq, hungup>>, At(t, "open")
      PROVE  InputChange(t)
  BY <1>9 DEF KeepsInput, Ready, InputChange, At
<1>10. ASSUME TakesSome(t), UNCHANGED hungup
       PROVE  InputChange(t)
  <2>1. PICK g, w : Go(t, [at |-> "loop", got |-> g, wait |-> w])
    BY <1>10 DEF TakesSome, TakeIn
  <2> QED
    BY <1>10, <2>1 DEF CallInv, CallShape, CallFields, Go, Updated, Ready, InputChange
<1> USE DEF still, sameObject, system, queues, Return
<1>11. CASE UOpen(t) \/ WOpen(t)
  BY <1>11, <1>2, <1>3, <1>9 DEF UOpen, WOpen
<1>12. CASE USet(t) \/ SetTimeout(t)
  BY <1>12, <1>1 DEF USet, SetTimeout
<1>13. CASE UConfig(t) \/ UApply(t)
  BY <1>13, <1>2, <1>4, <1>4b DEF UConfig, UApply
<1>14. CASE UClosed(t)
  BY <1>14, <1>1 DEF UClosed
<1>15. CASE UClose(t) \/ WClose(t)
  <2>1. At(t, "close")
    BY <1>15 DEF UClose, WClose
  <2>2. ASSUME inq' = Dropped(inq, File), call'[t].got = call[t].got
        PROVE  EmptiesInput(t)
    BY <2>1, <2>2 DEF Dropped, EmptiesInput
  <2>3. ASSUME NEW s, Go(t, [at |-> s])
        PROVE  call'[t].got = call[t].got
    BY <2>3 DEF CallInv, CallShape, CallFields, Go, Updated
  <2> QED
    BY <1>15, <1>1, <1>2, <1>8, <2>2, <2>3 DEF UClose, WClose
<1>16. CASE UReadStart(t) \/ WReadStart(t)
  BY <1>16, <1>2, <1>5b DEF UReadStart, WReadStart
<1>17. CASE UPrefill(t)
  <2>1. CASE Reached
    BY <1>0, <1>17, <1>10, <2>1 DEF UPrefill, TakesSome, At, Op, LegalStep
  <2>2. CASE ~Reached
    BY <1>17, <1>1, <2>2 DEF UPrefill
  <2> QED
    BY <2>1, <2>2
<1>18. CASE UReadLoop(t)
  BY <1>18, <1>1, <1>5 DEF UReadLoop
<1>19. CASE UWaitReadableStart(t)
  BY <1>19, <1>5 DEF UWaitReadableStart
<1>20. CASE UWaitReadable(t)
  <2>1. AfterSelect(t, FALSE) \notin {"ready", "bytetimes", "take"}
    BY DEF AfterSelect
  <2> QED
    BY <1>20, <1>1, <1>5, <2>1 DEF UWaitReadable
<1>21. CASE UReady(t)
  BY <1>0, <1>21, <1>1, <1>2 DEF UReady, Ready, At, Op, LegalStep
<1>22. CASE UWaitByteTimesStart(t)
  BY <1>22, <1>1 DEF UWaitByteTimesStart, Doing, Reads
<1>23. CASE UWaitByteTimes(t)
  BY <1>23, <1>1 DEF UWaitByteTimes, Ready, At
<1>24. CASE UTake(t)
  <2>1. Ready(t) /\ At(t, "take") /\ Op(t) \in Reads
    BY <1>0, <1>24 DEF UTake, Ready, At, Op, LegalStep
  <2> QED
    BY <1>24, <1>2, <1>10, <2>1 DEF UTake, TakesSome, At
<1>25. CASE UWriteStart(t) \/ WWriteStart(t)
  BY <1>25, <1>2, <1>5b, <1>6 DEF UWriteStart, WWriteStart
<1>26. CASE UWriteLoop(t)
  BY <1>26, <1>1, <1>6b DEF UWriteLoop
<1>27. CASE UWriteSelect(t)
  BY <1>27, <1>1, <1>5 DEF UWriteSelect
<1>28. CASE UPut(t)
  BY <1>28, <1>2, <1>7 DEF UPut
<1>29. CASE UNotOpen(t) \/ BadDescriptor(t) \/ WUnsupported(t)
  BY <1>29, <1>2 DEF UNotOpen, BadDescriptor, WUnsupported
<1>30. CASE UDrainStart(t) \/ UDrain(t) \/ WFlush(t)
  BY <1>30, <1>1 DEF UDrainStart, UDrain, WFlush
<1>31. CASE UDiscard(t)
  <2>1. Op(t) \in Discards /\ At(t, "body") /\ Go(t, [at |-> "returned"]) /\ UNCHANGED hungup
    BY <1>31 DEF UDiscard, Doing
  <2>2. CASE UNCHANGED inq
    BY <1>1, <2>1, <2>2
  <2>3. CASE Op(t) = "flushInput" /\ inq' = [inq EXCEPT ![File] = <<>>]
    <3>1. call'[t].got = call[t].got
      BY <2>1 DEF CallInv, CallShape, CallFields, Go, Updated
    <3>2. HoldsRead(t) /\ Op(t) \notin Reads
      BY <2>1, <2>3 DEF HoldsRead, ReadLocked, Reads, At
    <3>3. EmptiesInput(t)
      BY <2>3, <3>1, <3>2 DEF EmptiesInput
    <3> QED
      BY <1>8, <2>1, <3>3
  <2> QED
    BY <1>31, <2>2, <2>3 DEF UDiscard
<1>32. CASE USignalStart(t) \/ UIoctl(t) \/ WSignal(t)
  BY <1>32, <1>1 DEF USignalStart, UIoctl, WSignal
<1>33. CASE UWaitForChange(t)
  BY <1>33, <1>2 DEF UWaitForChange
<1>34. CASE WWaitForChange(t) \/ WBadHandle(t)
  BY <1>34, <1>1, <1>2 DEF WWaitForChange, WBadHandle
<1>35. CASE WConfig(t)
  BY <1>35, <1>2, <1>3 DEF WConfig
<1>36. CASE WReadFile(t)
  <2>1. Op(t) \in Reads /\ Reached /\ At(t, "readfile") /\ UNCHANGED hungup
    BY <1>0, <1>36 DEF WReadFile, At, Op, LegalStep
  <2>2. ASSUME NEW w, Go(t, [got |-> Append(call[t].got, Head(In)), wait |-> w]),
               In # <<>>, Missing(t) > 0, inq' = [inq EXCEPT ![File] = Tail(@)]
        PROVE  InputChange(t)
    <3>1. /\ call'[t].got = Append(call[t].got, Head(In)) /\ call'[t].at = "readfile"
          /\ call'[t].why = call[t].why
      BY <2>1, <2>2 DEF CallInv, CallShape, CallFields, Go, Updated, At
    <3> QED
      BY <2>1, <2>2, <3>1 DEF InputChange, TakesOne, Ready
  <2> QED
    BY <1>1, <1>2, <1>36, <2>1, <2>2 DEF WReadFile
<1>37. CASE WWriteFile(t)
  BY <1>37, <1>1, <1>2, <1>7b DEF WWriteFile
<1> QED
  BY ONLY <1>11, <1>12, <1>13, <1>14, <1>15, <1>16, <1>17, <1>18, <1>19, <1>20, <1>21, <1>22, <1>23, <1>24,
          <1>25, <1>26, <1>27, <1>28, <1>29, <1>30, <1>31, <1>32, <1>33, <1>34, <1>35, <1>36, <1>37,
          CodeOf(t) DEF CodeOf, UnixStep, WinStep

(* While a call holds the read lock, nobody else touches the input.         *)
LEMMA OwnInput ==
  ASSUME PortInv, NEW t \in Threads, HoldsRead(t), NEW u \in Threads \ {t}, CodeOf(u)
  PROVE  UNCHANGED inq
<1> USE DEF PortInv
<1>1. KeepsInput(u) \/ TakesSome(u) \/ TakesOne(u) \/ EmptiesInput(u)
  BY InputEffect DEF InputChange
<1>2. ~HoldsRead(u)
  BY DEF LocksHeld
<1>3. ~At(u, "close")
  BY Undisturbed DEF Moves, At
<1>4. TakesSome(u) \/ TakesOne(u) => HoldsRead(u)
  BY DEF TakesSome, TakesOne, HoldsRead, At, Reads, ReadLocked
<1> QED
  BY <1>1, <1>2, <1>3, <1>4 DEF EmptiesInput, KeepsInput
-----------------------------------------------------------------------------
(* "device disconnected?" is said of nothing but a device that is gone:     *)
(* what select has seen is still there when ::read comes for it.            *)
InputType == DOMAIN inq = Ports /\ \A p \in Ports : inq[p] \in Seq(Ports \X Int)

AlarmInv ==
  /\ \A t \in Threads : Ready(t) /\ Reached => In # <<>> \/ hungup
  /\ \A t \in Threads : call[t].why = "disconnected" => hungup

LEMMA AlarmNext ==
  ASSUME PortInv, InputType, AlarmInv, [Next]_allVars
  PROVE  AlarmInv'
<1> USE DEF PortInv
<1>1. ASSUME NEW t \in Threads, Ready(t)
      PROVE  HoldsRead(t) /\ Op(t) # "setPort"
  BY <1>1 DEF Ready, HoldsRead, At, Reads, ReadLocked
<1>2. ASSUME NEW t \in Threads, Ready(t), UNCHANGED inq, hungup => hungup'
      PROVE  Reached' => In' # <<>> \/ hungup'
  <2>1. UNCHANGED fd /\ (Reached' => Reached /\ File' = File)
    BY <1>1, <1>2, FileKept
  <2> QED
    BY <1>2, <2>1 DEF AlarmInv, In
<1>3. ASSUME NEW u \in Threads, Step(u)
      PROVE  AlarmInv'
  <2>1. CASE CodeOf(u)
    <3>1. UNCHANGED hungup /\ \A t \in Threads \ {u} : call'[t] = call[t]
      BY <2>1, CodeOfStep, InputEffect DEF CodeStep, InputChange
    <3>2. ASSUME NEW t \in Threads \ {u}, Ready(t)'
          PROVE  Reached' => In' # <<>> \/ hungup'
      <4>1. Ready(t)
        BY <3>1, <3>2 DEF Ready, Op
      <4>2. UNCHANGED inq
        BY <1>1, <2>1, <4>1, OwnInput
      <4> QED
        BY <1>2, <3>1, <4>1, <4>2
    <3>3. ASSUME Ready(u)'
          PROVE  Reached' => In' # <<>> \/ hungup'
      <4>1. UNCHANGED inq /\ (Ready(u) \/ (Reached /\ Readable))
        BY <2>1, <3>3, InputEffect DEF InputChange, KeepsInput
      <4>2. CASE Ready(u)
        BY <1>2, <3>1, <4>1, <4>2
      <4>3. CASE ~Ready(u)
        <5>1. HoldsRead(u) /\ Op(u) # "setPort"
          <6>1. Op(u) \in Reads /\ ~At(u, "rlock")
            BY <2>1, <3>3, CodeOfStep DEF Ready, Op, CodeStep, Outside, At
          <6> QED
            BY <6>1 DEF HoldsRead, Reads, ReadLocked
        <5>2. UNCHANGED fd /\ (Reached' => Reached /\ File' = File)
          BY <5>1, FileKept
        <5> QED
          BY <3>1, <4>1, <4>3, <5>2 DEF Readable, In
      <4> QED
        BY <4>2, <4>3
    <3>4. call'[u].why = "disconnected" => hungup'
      BY <2>1, <3>1, InputEffect DEF InputChange, AlarmInv
    <3> QED
      BY <3>1, <3>2, <3>3, <3>4 DEF AlarmInv
  <2>2. CASE Enter(u) \/ Lock(u) \/ Leaves(u) \/ ReadsMore(u) \/ SetPort(u)
    <3>1. UNCHANGED <<inq, hungup>>
      BY <2>2, SetPortStep DEF Enter, Lock, Leaves, Leave, ReadsMore, AfterRead, queues, system
    <3>2. /\ OthersStay(u) /\ call'[u].at \notin {"ready", "bytetimes", "take"}
          /\ call'[u].why \in {call[u].why, "none"}
      <4>1. CASE Leaves(u)
        BY <4>1, LeaveStep DEF Leaves, Idle
      <4>2. CASE Enter(u)
        BY <4>2, EnterStep DEF Ops, Exclusive
      <4>3. CASE Lock(u)
        BY <4>3, LockStep DEF Lock
      <4>4. CASE ReadsMore(u) \/ SetPort(u)
        BY <4>4, MoreToRead, SetPortStep DEF ReadsMore
      <4> QED
        BY <2>2, <4>1, <4>2, <4>3, <4>4
    <3>3. ASSUME NEW t \in Threads, Ready(t)'
          PROVE  Ready(t)
      BY <3>2, <3>3 DEF Ready, Op, OthersStay
    <3> QED
      BY <1>2, <3>1, <3>2, <3>3 DEF AlarmInv, OthersStay
  <2> QED
    BY <1>3, <2>1, <2>2, StepCases
<1>4. CASE Surroundings
  <2>1. \A t \in Threads : /\ Ready(t)' => Ready(t)
                           /\ call'[t].why = call[t].why
    BY <1>4, SurroundingsStep DEF Surroundings, Ready, Op
  <2>2. hungup => hungup'
    BY <1>4 DEF Surroundings, Arrive, Drain, Hangup, LineChange, OtherFile, Tick, system
  <2>3. CASE UNCHANGED inq
    BY <1>2, <2>1, <2>2, <2>3 DEF AlarmInv
  <2>4. ASSUME NEW p \in Ports, Arrive(p)
        PROVE  AlarmInv'
    <3>1. \A q \in Ports : inq[q] # <<>> => inq'[q] # <<>>
      BY <2>4 DEF Arrive, InputType
    <3>2. ASSUME NEW t \in Threads, Ready(t)
          PROVE  Reached' => In' # <<>> \/ hungup'
      <4>1. UNCHANGED fd /\ (Reached' => Reached /\ File' = File)
        BY <1>1, <3>2, FileKept
      <4> QED
        BY <2>2, <3>1, <3>2, <4>1 DEF AlarmInv, In, Reached
    <3> QED
      BY <2>1, <2>2, <3>2 DEF AlarmInv
  <2> QED
    BY <1>4, <2>3, <2>4 DEF Surroundings, Drain, Hangup, LineChange, OtherFile, Tick, queues
<1>5. CASE UNCHANGED allVars
  BY <1>5 DEF allVars, vars, AlarmInv, Ready, Op, Reached, File, In, object, system, queues
<1> QED
  BY <1>3, <1>4, <1>5, NextCases
-----------------------------------------------------------------------------
(* Runs of bytes: those that arrived at terminal p after its first c.       *)
Bytes == Ports \X Int

Run(s, p, c) == \A i \in 1 .. Len(s) : s[i] = <<p, c + i>>

Chained(s) == \A i \in 1 .. Len(s) - 1 : s[i + 1] = <<s[i][1], s[i][2] + 1>>

LEMMA RunIsChained ==
  ASSUME NEW s \in Seq(Bytes), NEW p \in Ports, NEW c \in Int, Run(s, p, c)
  PROVE  Chained(s)
<1> SUFFICES ASSUME NEW i \in 1 .. Len(s) - 1
             PROVE  s[i + 1] = <<s[i][1], s[i][2] + 1>>
  BY DEF Chained
<1>0. i \in Int /\ i \in 1 .. Len(s) /\ i + 1 \in 1 .. Len(s)
  OBVIOUS
<1>1. s[i] = <<p, c + i>> /\ s[i + 1] = <<p, c + (i + 1)>>
  BY <1>0 DEF Run
<1>2. s[i][1] = p /\ s[i][2] = c + i
  BY <1>1
<1>3. c + (i + 1) = (c + i) + 1
  BY <1>0
<1> QED
  BY <1>1, <1>2, <1>3

LEMMA RunParts ==
  ASSUME NEW s \in Seq(Bytes), NEW p \in Ports, NEW c \in Int, Run(s, p, c), NEW k \in 0 .. Len(s)
  PROVE  /\ SubSeq(s, k + 1, Len(s)) \in Seq(Bytes) /\ Len(SubSeq(s, k + 1, Len(s))) = Len(s) - k
         /\ Run(SubSeq(s, k + 1, Len(s)), p, c + k)
         /\ SubSeq(s, 1, k) \in Seq(Bytes) /\ Len(SubSeq(s, 1, k)) = k
         /\ Run(SubSeq(s, 1, k), p, c)
<1>1. /\ SubSeq(s, k + 1, Len(s)) \in Seq(Bytes) /\ Len(SubSeq(s, k + 1, Len(s))) = Len(s) - k
      /\ \A i \in 1 .. Len(s) - k : SubSeq(s, k + 1, Len(s))[i] = s[k + i]
  OBVIOUS
<1>2. /\ SubSeq(s, 1, k) \in Seq(Bytes) /\ Len(SubSeq(s, 1, k)) = k
      /\ \A i \in 1 .. k : SubSeq(s, 1, k)[i] = s[i]
  OBVIOUS
<1>3. Run(SubSeq(s, k + 1, Len(s)), p, c + k)
  BY <1>1 DEF Run
<1>4. Run(SubSeq(s, 1, k), p, c)
  BY <1>2 DEF Run
<1> QED
  BY <1>1, <1>2, <1>3, <1>4

LEMMA RunsJoin ==
  ASSUME NEW s \in Seq(Bytes), NEW u \in Seq(Bytes), NEW p \in Ports, NEW c \in Int,
         Run(s, p, c), Run(u, p, c + Len(s))
  PROVE  s \o u \in Seq(Bytes) /\ Len(s \o u) = Len(s) + Len(u) /\ Run(s \o u, p, c)
<1>1. s \o u \in Seq(Bytes) /\ Len(s \o u) = Len(s) + Len(u)
  OBVIOUS
<1>2. ASSUME NEW i \in 1 .. Len(s) + Len(u)
      PROVE  (s \o u)[i] = <<p, c + i>>
  <2>1. CASE i <= Len(s)
    BY <2>1 DEF Run
  <2>2. CASE i > Len(s)
    <3>1. (s \o u)[i] = u[i - Len(s)] /\ i - Len(s) \in 1 .. Len(u)
      BY <2>2
    <3> QED
      BY <3>1 DEF Run
  <2> QED
    BY <2>1, <2>2
<1> QED
  BY <1>1, <1>2 DEF Run

LEMMA HeadAndTail ==
  ASSUME NEW s \in Seq(Bytes), s # <<>>, NEW g \in Seq(Bytes)
  PROVE  /\ Len(s) >= 1 /\ Tail(s) = SubSeq(s, 2, Len(s))
         /\ Append(g, Head(s)) = g \o SubSeq(s, 1, 1)
OBVIOUS

(* The input queue of a terminal ends with the byte that arrived last.      *)
QueueInv ==
  /\ InputType
  /\ DOMAIN arrived = Ports
  /\ \A p \in Ports : arrived[p] \in Nat /\ Run(inq[p], p, arrived[p] - Len(inq[p]))

(* What a call has read comes right before what is in the queue; only a    *)
(* read that holds its lock has read anything.                              *)
ReadInv(t) ==
  /\ call[t].text \in Seq(Bytes) /\ call[t].got \in Seq(Bytes)
  /\ (Op(t) \in Reads /\ HoldsRead(t)) \/ (call[t].text = <<>> /\ call[t].got = <<>>)
  /\ Op(t) \in Reads => Len(call[t].got) <= ReadSize(t)
  /\ Chained(Text(t))
  /\ Op(t) \in Reads /\ HoldsRead(t) /\ Reached =>
       Run(Text(t), File, arrived[File] - Len(In) - Len(Text(t)))

(* The call takes k bytes out of its queue.                                 *)
Takes(t, k) ==
  /\ k \in 0 .. Len(In) /\ k <= Missing(t) /\ Op(t) \in Reads /\ HoldsRead(t) /\ Reached
  /\ inq' = [inq EXCEPT ![File] = SubSeq(In, k + 1, Len(In))]
  /\ call'[t].got = call[t].got \o SubSeq(In, 1, k)

LEMMA SizeOfRead ==
  ASSUME RequestInv, NEW t \in Threads, Op(t) \in Reads
  PROVE  ReadSize(t) \in Nat
BY RequestArgument DEF ReadSize

LEMMA TakenBytes ==
  ASSUME CallInv, RequestInv, InputType, NEW t \in Threads, ReadInv(t), TakesSome(t) \/ TakesOne(t)
  PROVE  \E k \in Nat : Takes(t, k)
<1>1. /\ Op(t) \in Reads /\ Reached /\ In \in Seq(Bytes) /\ call[t].got \in Seq(Bytes)
      /\ HoldsRead(t)
  BY DEF TakesSome, TakesOne, InputType, Reached, In, Bytes, ReadInv, HoldsRead, At, Reads, ReadLocked
<1>2. Missing(t) \in Nat
  <2>1. ReadSize(t) \in Nat /\ Len(call[t].got) \in Nat /\ Len(call[t].got) <= ReadSize(t)
    BY <1>1, SizeOfRead DEF ReadInv
  <2> QED
    BY <2>1 DEF Missing
<1>3. CASE TakesSome(t)
  <2> DEFINE k == Min({Missing(t), Len(In)})
  <2>1. k \in 0 .. Len(In) /\ k <= Missing(t) /\ k \in Nat
    BY <1>1, <1>2, MinOfTwo
  <2>2. /\ inq' = [inq EXCEPT ![File] = SubSeq(In, k + 1, Len(In))]
        /\ Go(t, [at |-> "loop", got |-> call[t].got \o SubSeq(In, 1, k),
                  wait |-> timeout.inter_byte])
    BY <1>3 DEF TakesSome, TakeIn, In
  <2> HIDE DEF k
  <2>3. call'[t].got = call[t].got \o SubSeq(In, 1, k)
    BY <2>2 DEF CallInv, CallShape, CallFields, Go, Updated
  <2>4. Takes(t, k)
    BY <1>1, <2>1, <2>2, <2>3 DEF Takes
  <2> QED
    BY <2>1, <2>4
<1>4. CASE TakesOne(t)
  <2>1. /\ inq' = [inq EXCEPT ![File] = Tail(In)] /\ In # <<>> /\ Missing(t) > 0
        /\ call'[t].got = Append(call[t].got, Head(In))
    BY <1>4 DEF TakesOne, In
  <2>2. Len(In) >= 1 /\ Tail(In) = SubSeq(In, 2, Len(In))
        /\ Append(call[t].got, Head(In)) = call[t].got \o SubSeq(In, 1, 1)
    BY <1>1, <2>1, HeadAndTail
  <2>3. 1 \in 0 .. Len(In) /\ 1 <= Missing(t) /\ 1 + 1 = 2
    BY <1>1, <1>2, <2>1, <2>2
  <2>4. Takes(t, 1)
    BY <1>1, <2>1, <2>2, <2>3 DEF Takes
  <2> QED
    BY <2>4
<1> QED
  BY <1>3, <1>4

LEMMA TakingStep ==
  ASSUME CallInv, RequestInv, QueueInv, NEW t \in Threads, ReadInv(t), NEW k \in Nat, Takes(t, k),
         call'[t].op = call[t].op, call'[t].n = call[t].n, call'[t].text = call[t].text,
         call'[t].at # "rlock", UNCHANGED <<arrived, fd, files>>
  PROVE  QueueInv' /\ ReadInv(t)'
<1> DEFINE c == arrived[File] - Len(In) - Len(Text(t))
           taken == SubSeq(In, 1, k)
           rest == SubSeq(In, k + 1, Len(In))
           got == call[t].got
           text == call[t].text
<1>1. /\ File \in Ports /\ In \in Seq(Bytes) /\ In = inq[File] /\ Op(t) \in Reads /\ HoldsRead(t)
      /\ k \in 0 .. Len(In) /\ k <= Missing(t) /\ Reached /\ DOMAIN inq = Ports
      /\ arrived[File] \in Nat /\ Run(In, File, arrived[File] - Len(In))
  BY DEF Takes, Reached, QueueInv, InputType, In, Bytes
<1>2. text \in Seq(Bytes) /\ got \in Seq(Bytes) /\ Len(got) <= ReadSize(t)
      /\ Run(Text(t), File, c)
  BY <1>1 DEF ReadInv
<1>3. Text(t) = text \o got /\ Text(t) \in Seq(Bytes) /\ Len(Text(t)) = Len(text) + Len(got)
  BY <1>2 DEF Text
<1>4. /\ rest \in Seq(Bytes) /\ Len(rest) = Len(In) - k
      /\ Run(rest, File, (arrived[File] - Len(In)) + k)
      /\ taken \in Seq(Bytes) /\ Len(taken) = k /\ Run(taken, File, arrived[File] - Len(In))
  BY <1>1, RunParts
<1>5. c \in Int /\ c + Len(Text(t)) = arrived[File] - Len(In)
  <2>1. /\ arrived[File] \in Int /\ Len(In) \in Int /\ Len(Text(t)) \in Int
        /\ c = arrived[File] - Len(In) - Len(Text(t))
    BY <1>1, <1>3
  <2> HIDE DEF c
  <2> QED
    BY <2>1
<1>6. /\ Text(t) \o taken \in Seq(Bytes) /\ Len(Text(t) \o taken) = Len(Text(t)) + k
      /\ Run(Text(t) \o taken, File, c)
  <2>1. Run(taken, File, c + Len(Text(t)))
    BY <1>4, <1>5
  <2> HIDE DEF c, taken
  <2> QED
    BY <1>1, <1>2, <1>3, <1>4, <1>5, <2>1, RunsJoin
<1>7. call'[t].got = got \o taken /\ inq' = [inq EXCEPT ![File] = rest] /\ File' = File /\ arrived' = arrived
  BY DEF Takes, File
<1>8. Reached' = Reached /\ In' = rest /\ (\A p \in Ports \ {File} : inq'[p] = inq[p])
      /\ DOMAIN inq' = Ports
  BY <1>1, <1>7 DEF In, Reached
<1>9. Text(t)' = Text(t) \o taken
  <2>1. Text(t)' = text \o (got \o taken)
    BY <1>7 DEF Text
  <2>2. text \in Seq(Bytes) /\ got \in Seq(Bytes) /\ taken \in Seq(Bytes) /\ Text(t) = text \o got
    BY <1>2, <1>3, <1>4
  <2> HIDE DEF taken, text, got
  <2>3. (text \o got) \o taken = text \o (got \o taken)
    BY ONLY <2>2, ConcatAssociative
  <2> QED
    BY <2>1, <2>2, <2>3
<1>10. QueueInv'
  <2>1. (arrived[File] - Len(In)) + k = arrived[File] - Len(rest)
    BY <1>1, <1>4
  <2>2. Run(rest, File, arrived[File] - Len(rest))
    BY <1>4, <2>1
  <2> HIDE DEF rest
  <2> QED
    BY <1>1, <1>4, <1>7, <1>8, <2>2 DEF QueueInv, InputType, Bytes
<1>11. Len(got \o taken) <= ReadSize(t) /\ got \o taken \in Seq(Bytes)
  <2>1. k <= ReadSize(t) - Len(got) /\ ReadSize(t) \in Nat
    BY <1>1, SizeOfRead DEF Missing
  <2>2. got \in Seq(Bytes) /\ taken \in Seq(Bytes) /\ Len(taken) = k
    BY <1>2, <1>4
  <2> HIDE DEF taken, got
  <2>3. Len(got \o taken) = Len(got) + k /\ got \o taken \in Seq(Bytes) /\ Len(got) \in Nat
    BY ONLY <2>2, ConcatProperties, LenProperties
  <2> QED
    BY ONLY <2>1, <2>3, k \in Nat
<1>12. c = arrived[File] - Len(rest) - Len(Text(t) \o taken)
  <2>1. /\ arrived[File] \in Int /\ Len(In) \in Int /\ Len(Text(t)) \in Int
        /\ c = arrived[File] - Len(In) - Len(Text(t))
    BY <1>1, <1>3
  <2> HIDE DEF c, rest, taken
  <2> QED
    BY <1>4, <1>6, <2>1
<1>13. Chained(Text(t) \o taken)
  BY <1>1, <1>5, <1>6, RunIsChained
<1> HIDE DEF c, taken, rest, got, text
<1>14. ReadSize(t)' = ReadSize(t) /\ Op(t)' = Op(t) /\ HoldsRead(t)'
  BY <1>1 DEF ReadSize, Op, HoldsRead, At
<1>15. ReadInv(t)'
  BY <1>1, <1>2, <1>6, <1>7, <1>8, <1>9, <1>11, <1>12, <1>13, <1>14 DEF ReadInv, text
<1> QED
  BY <1>10, <1>15

LEMMA NoText ==
  ASSUME NEW t \in Threads, call'[t].text = <<>>, call'[t].got = <<>>,
         call'[t].op \in Reads => call'[t].n \in Nat
  PROVE  ReadInv(t)'
<1>1. Text(t)' = <<>> /\ (Op(t)' \in Reads => ReadSize(t)' \in Nat)
  BY DEF Text, Op, ReadSize
<1>2. <<>> \in Seq(Bytes) /\ Len(<<>>) = 0
  OBVIOUS
<1> QED
  BY <1>1, <1>2 DEF ReadInv, Run, Chained

(* A read under its lock has the same text as before, and the queue that   *)
(* it reads has had bytes appended at most.                                 *)
SameStart ==
  Reached' => /\ Reached /\ File' = File
              /\ arrived'[File] - Len(inq'[File]) = arrived[File] - Len(inq[File])

LEMMA TextKept ==
  ASSUME NEW t \in Threads, ReadInv(t),
         call'[t].op = call[t].op, call'[t].n = call[t].n,
         call'[t].text = call[t].text, call'[t].got = call[t].got,
         Op(t) \in Reads /\ HoldsRead(t) => HoldsRead(t)' /\ SameStart
  PROVE  ReadInv(t)'
<1>1. Text(t)' = Text(t) /\ Op(t)' = Op(t) /\ ReadSize(t)' = ReadSize(t)
  BY DEF Text, Op, ReadSize
<1>2. CASE Op(t) \in Reads /\ HoldsRead(t)
  <2>1. Reached' => Run(Text(t), File', arrived'[File'] - Len(In') - Len(Text(t)))
    BY <1>2 DEF ReadInv, SameStart, In
  <2> QED
    BY <1>1, <1>2, <2>1 DEF ReadInv
<1>3. CASE call[t].text = <<>> /\ call[t].got = <<>>
  <2>1. Text(t) = <<>>
    BY <1>3 DEF Text
  <2>2. Reached' => Run(Text(t), File', arrived'[File'] - Len(In') - Len(Text(t)))
    BY <2>1 DEF Run
  <2> QED
    BY <1>1, <1>3, <2>2 DEF ReadInv
<1> QED
  BY <1>2, <1>3 DEF ReadInv

LEMMA TextMoved ==
  ASSUME CallInv, RequestInv, NEW t \in Threads, ReadInv(t), ReadsMore(t), HoldsRead(t), SameStart
  PROVE  ReadInv(t)'
<1>1. /\ call'[t].op = call[t].op /\ call'[t].n = call[t].n /\ call'[t].at = "body"
      /\ call'[t].text = Text(t) /\ call'[t].got = <<>> /\ Op(t) \in Reads
  BY MoreToRead DEF ReadsMore, AfterRead, Doing
<1>2. Text(t) \in Seq(Bytes) /\ <<>> \in Seq(Bytes) /\ Len(<<>>) = 0
  BY ConcatProperties DEF ReadInv, Text
<1>3. Text(t)' = Text(t)
  BY <1>1, <1>2, ConcatEmptySeq DEF Text
<1>4. Op(t)' \in Reads /\ ReadSize(t)' = ReadSize(t) /\ ReadSize(t) \in Nat /\ HoldsRead(t)'
  BY <1>1, SizeOfRead DEF Op, ReadSize, HoldsRead, At
<1>5. Reached' => Run(Text(t), File', arrived'[File'] - Len(In') - Len(Text(t)))
  BY <1>1 DEF ReadInv, SameStart, In
<1> QED
  BY <1>1, <1>2, <1>3, <1>4, <1>5 DEF ReadInv

InputInv == QueueInv /\ \A t \in Threads : ReadInv(t)

LEMMA ArriveEffect ==
  ASSUME QueueInv, NEW p \in Ports, Arrive(p)
  PROVE  /\ QueueInv'
         /\ \A q \in Ports : arrived'[q] - Len(inq'[q]) = arrived[q] - Len(inq[q])
<1> DEFINE n == arrived[p]
           s == inq[p]
<1>1. /\ n \in Nat /\ s \in Seq(Bytes) /\ Run(s, p, n - Len(s)) /\ Len(s) \in Nat
      /\ arrived' = [arrived EXCEPT ![p] = n + 1]
      /\ inq' = [inq EXCEPT ![p] = Append(s, <<p, arrived'[p]>>)]
      /\ DOMAIN inq = Ports /\ DOMAIN arrived = Ports
  BY DEF QueueInv, InputType, Bytes, Arrive
<1>2. /\ arrived'[p] = n + 1 /\ inq'[p] = Append(s, <<p, n + 1>>) /\ <<p, n + 1>> \in Bytes
      /\ \A q \in Ports \ {p} : arrived'[q] = arrived[q] /\ inq'[q] = inq[q]
      /\ DOMAIN inq' = Ports /\ DOMAIN arrived' = Ports
  BY <1>1 DEF Bytes
<1> HIDE DEF n, s
<1>3. /\ inq'[p] \in Seq(Bytes) /\ Len(inq'[p]) = Len(s) + 1 /\ inq'[p][Len(s) + 1] = <<p, n + 1>>
      /\ \A i \in 1 .. Len(s) : inq'[p][i] = s[i]
  BY <1>1, <1>2
<1>4. (n + 1) - Len(inq'[p]) = n - Len(s)
  BY <1>1, <1>3
<1>5. Run(inq'[p], p, n - Len(s))
  <2> SUFFICES ASSUME NEW i \in 1 .. Len(s) + 1
               PROVE  inq'[p][i] = <<p, (n - Len(s)) + i>>
    BY <1>3 DEF Run
  <2>1. CASE i \in 1 .. Len(s)
    BY <1>1, <1>3, <2>1 DEF Run
  <2>2. CASE i = Len(s) + 1
    <3>1. (n - Len(s)) + i = n + 1
      BY <1>1, <2>2
    <3> QED
      BY <1>3, <2>2, <3>1
  <2> QED
    BY <1>1, <2>1, <2>2
<1>6. \A q \in Ports : arrived'[q] - Len(inq'[q]) = arrived[q] - Len(inq[q])
  BY <1>2, <1>4 DEF n, s
<1>7. QueueInv'
  <2>1. ASSUME NEW q \in Ports
        PROVE  arrived'[q] \in Nat /\ inq'[q] \in Seq(Bytes) /\ Run(inq'[q], q, arrived'[q] - Len(inq'[q]))
    BY <1>1, <1>2, <1>3, <1>4, <1>5 DEF QueueInv, InputType, Bytes
  <2> QED
    BY <1>2, <2>1 DEF QueueInv, InputType, Bytes
<1> QED
  BY <1>6, <1>7

LEMMA EmptiedQueue ==
  ASSUME QueueInv, UNCHANGED arrived, DOMAIN inq' = DOMAIN inq,
         \A p \in Ports : inq'[p] = inq[p] \/ inq'[p] = <<>>
  PROVE  QueueInv'
<1>1. <<>> \in Seq(Bytes) /\ \A p, c : Run(<<>>, p, c)
  BY DEF Run
<1> QED
  BY <1>1 DEF QueueInv, InputType, Bytes

LEMMA InputNext ==
  ASSUME PortInv, RequestInv, InputInv, [Next]_allVars
  PROVE  InputInv'
<1> USE DEF PortInv, InputInv
<1>0. ASSUME NEW t \in Threads, Op(t) \in Reads, HoldsRead(t),
             UNCHANGED arrived, inq' = inq
      PROVE  SameStart
  <2>1. Reached' => Reached /\ File' = File
    BY <1>0, FileKept DEF Reads
  <2> QED
    BY <1>0, <2>1 DEF SameStart
<1>1. ASSUME UNCHANGED <<inq, arrived>>
      PROVE  QueueInv'
  BY <1>1 DEF QueueInv, InputType
<1>2. ASSUME NEW u \in Threads, Step(u)
      PROVE  InputInv'
  <2>0. UNCHANGED arrived
    BY <1>2, StepCases
  <2>1. CASE Enter(u) \/ Lock(u) \/ Leaves(u) \/ ReadsMore(u) \/ SetPort(u)
    <3>1. UNCHANGED inq
      BY <2>1, SetPortStep DEF Enter, Lock, Leaves, Leave, ReadsMore, AfterRead, queues
    <3>2. OthersStay(u)
      BY <2>1, EnterStep, LockStep, LeaveStep, MoreToRead, SetPortStep DEF Leaves, ReadsMore
    <3>3. ASSUME NEW t \in Threads \ {u}
          PROVE  ReadInv(t)'
      <4>1. HoldsRead(t)' = HoldsRead(t) /\ call'[t] = call[t]
        BY <3>2 DEF OthersStay, HoldsRead, Op, At
      <4> QED
        BY <1>0, <2>0, <3>1, <4>1, TextKept
    <3>4. CASE Enter(u)
      <4>1. /\ call'[u].text = <<>> /\ call'[u].got = <<>>
        BY <3>4, EnterStep
      <4>2. call'[u].op = Head(script[u]).op /\ call'[u].n = Head(script[u]).n
            /\ Head(script[u]) \in Requests
        BY <3>4, EnterStep
      <4>3. call'[u].op \in Reads => call'[u].n \in Nat
        BY <4>2 DEF Requests, Reads
      <4>4. ReadInv(u)'
        BY <4>1, <4>3, NoText
      <4> QED
        BY <1>1, <2>0, <3>1, <3>3, <4>4
    <3>5. CASE Leaves(u)
      <4>1. call'[u].text = <<>> /\ call'[u].got = <<>> /\ call'[u].op \notin Reads
        BY <3>5, LeaveStep DEF Leaves, Idle, Reads
      <4>2. ReadInv(u)'
        BY <4>1, NoText
      <4> QED
        BY <1>1, <2>0, <3>1, <3>3, <4>2
    <3>6. CASE Lock(u) \/ SetPort(u)
      <4>1. /\ call'[u].op = call[u].op /\ call'[u].n = call[u].n
            /\ call'[u].text = call[u].text /\ call'[u].got = call[u].got
        BY <3>6, LockStep, SetPortStep DEF Op
      <4>2. HoldsRead(u) => HoldsRead(u)'
        BY <3>6, <4>1, LockStep, SetPortStep DEF HoldsRead, Lock, At, Op
      <4>3. ReadInv(u)'
        BY <1>0, <2>0, <3>1, <4>1, <4>2, TextKept
      <4> QED
        BY <1>1, <2>0, <3>1, <3>3, <4>3
    <3>7. CASE ReadsMore(u)
      <4>1. Op(u) \in Reads /\ HoldsRead(u)
        BY <3>7 DEF ReadsMore, AfterRead, Doing, HoldsRead, At, Reads, ReadLocked
      <4>2. ReadInv(u)'
        BY <1>0, <2>0, <3>1, <3>7, <4>1, TextMoved
      <4> QED
        BY <1>1, <2>0, <3>1, <3>3, <4>2
    <3> QED
      BY <2>1, <3>4, <3>5, <3>6, <3>7
  <2>2. CASE CodeOf(u)
    <3>1. /\ \A t \in Threads \ {u} : call'[t] = call[t]
          /\ call'[u].op = call[u].op /\ call'[u].n = call[u].n /\ call'[u].text = call[u].text
          /\ ~At(u, "rlock") /\ call'[u].at # "rlock"
      BY <2>2, CodeOfStep DEF CodeStep, Outside, At
    <3>2. ASSUME NEW t \in Threads \ {u}
          PROVE  ReadInv(t)'
      <4>1. HoldsRead(t)' = HoldsRead(t) /\ call'[t] = call[t]
        BY <3>1 DEF HoldsRead, Op, At
      <4>2. HoldsRead(t) => UNCHANGED inq
        BY <2>2, OwnInput
      <4> QED
        BY <1>0, <2>0, <4>1, <4>2, TextKept
    <3>3. HoldsRead(u)' = HoldsRead(u)
      BY <3>1 DEF HoldsRead, Op, At
    <3>4. CASE KeepsInput(u)
      <4>1. ReadInv(u)'
        BY <1>0, <2>0, <3>1, <3>3, <3>4, TextKept DEF KeepsInput
      <4> QED
        BY <1>1, <2>0, <3>2, <3>4, <4>1 DEF KeepsInput
    <3>5. CASE TakesSome(u) \/ TakesOne(u)
      <4>1. PICK k \in Nat : Takes(u, k)
        BY <3>5, TakenBytes DEF QueueInv
      <4>2. call[u].at \notin OpensOrCloses
        BY <3>5 DEF TakesSome, TakesOne, OpensOrCloses, At
      <4>3. UNCHANGED <<arrived, fd, files>>
        BY <2>0, <2>2, <4>2, UsesPort
      <4>4. QueueInv' /\ ReadInv(u)'
        BY <3>1, <4>1, <4>3, TakingStep
      <4> QED
        BY <3>2, <4>4
    <3>6. CASE EmptiesInput(u)
      <4>1. Op(u) \notin Reads
        BY <3>6 DEF EmptiesInput, At, Op, CallInv, LegalStep, Reads
      <4>2. ReadInv(u)'
        BY <3>1, <3>6, <4>1, TextKept DEF EmptiesInput
      <4>3. QueueInv'
        BY <2>0, <3>6, EmptiedQueue DEF EmptiesInput
      <4> QED
        BY <3>2, <4>2, <4>3
    <3> QED
      BY <2>2, <3>4, <3>5, <3>6, InputEffect DEF InputChange
  <2> QED
    BY <1>2, <2>1, <2>2, StepCases
<1>3. CASE Surroundings
  <2>1. \A t \in Threads : /\ call'[t].op = call[t].op /\ call'[t].n = call[t].n
                           /\ call'[t].text = call[t].text /\ call'[t].got = call[t].got
                           /\ HoldsRead(t) => HoldsRead(t)'
    BY <1>3, SurroundingsStep DEF Surroundings, HoldsRead, Op, At
  <2>2. CASE UNCHANGED <<inq, arrived>>
    <3>1. \A t \in Threads : ReadInv(t)'
      BY <1>0, <2>1, <2>2, TextKept
    <3> QED
      BY <1>1, <2>2, <3>1
  <2>3. ASSUME NEW p \in Ports, Arrive(p)
        PROVE  InputInv'
    <3>1. /\ QueueInv'
          /\ \A q \in Ports : arrived'[q] - Len(inq'[q]) = arrived[q] - Len(inq[q])
      BY <2>3, ArriveEffect
    <3>2. ASSUME NEW t \in Threads, Op(t) \in Reads, HoldsRead(t)
          PROVE  SameStart
      <4>1. Reached' => Reached /\ File' = File
        BY <3>2, FileKept DEF Reads
      <4> QED
        BY <3>1, <4>1 DEF SameStart, Reached
    <3>3. \A t \in Threads : ReadInv(t)'
      BY <2>1, <3>2, TextKept
    <3> QED
      BY <3>1, <3>3
  <2> QED
    BY <1>3, <2>2, <2>3 DEF Surroundings, Drain, Hangup, LineChange, OtherFile, Tick, queues
<1>4. CASE UNCHANGED allVars
  <2>1. UNCHANGED <<inq, arrived, call>>
    BY <1>4 DEF allVars, vars, queues
  <2>2. \A t \in Threads : HoldsRead(t)' = HoldsRead(t)
    BY <2>1 DEF HoldsRead, Op, At
  <2>3. \A t \in Threads : ReadInv(t)'
    BY <1>0, <2>1, <2>2, TextKept
  <2> QED
    BY <1>1, <2>1, <2>3
<1> QED
  BY <1>2, <1>3, <1>4, NextCases

LEMMA InputInvariant == Spec => [](InputInv /\ AlarmInv)
<1>1. Init => InputInv /\ AlarmInv
  <2> SUFFICES ASSUME Init
               PROVE  InputInv /\ AlarmInv
    OBVIOUS
  <2>1. /\ call = [t \in Threads |-> Idle] /\ inq = [p \in Ports |-> <<>>]
        /\ arrived = [p \in Ports |-> 0]
    BY DEF Init
  <2>2. <<>> \in Seq(Bytes) /\ Len(<<>>) = 0
    OBVIOUS
  <2>3. QueueInv
    BY <2>1, <2>2 DEF QueueInv, InputType, Bytes, Run
  <2>4. ASSUME NEW t \in Threads
        PROVE  ReadInv(t)
    <3>1. call[t].text = <<>> /\ call[t].got = <<>> /\ Op(t) \notin Reads
      BY <2>1 DEF Idle, Op, Reads
    <3>2. Text(t) = <<>>
      BY <3>1 DEF Text
    <3> QED
      BY <2>2, <3>1, <3>2 DEF ReadInv, Chained
  <2>5. AlarmInv
    BY <2>1 DEF AlarmInv, Ready, Op, Idle, Reads
  <2> QED
    BY <2>3, <2>4, <2>5 DEF InputInv
<1>2. PortInv /\ TimeInv /\ InputInv /\ AlarmInv /\ [Next]_allVars => InputInv' /\ AlarmInv'
  BY InputNext, AlarmNext DEF InputInv, QueueInv, TimeInv
<1> QED
  BY <1>1, <1>2, PortInvariant, TimeInvariant, PTL DEF Spec

(* "device disconnected?" is only reported of a device that is gone: no    *)
(* other thread takes the byte between select and ::read.                  *)
THEOREM NoFalseAlarmHolds == Spec => []NoFalseAlarm
<1>1. AlarmInv => NoFalseAlarm
  BY DEF AlarmInv, NoFalseAlarm
<1> QED
  BY <1>1, InputInvariant, PTL

(* The bytes that a read, readline or readlines collects are consecutive   *)
(* bytes of one terminal, whatever the other threads do between them.       *)
THEOREM ReadsWholeHolds == Spec => []ReadsWhole
<1>1. InputInv => ReadsWhole
  BY DEF InputInv, ReadInv, Chained, ReadsWhole
<1> QED
  BY <1>1, InputInvariant, PTL
-----------------------------------------------------------------------------
(* What the steps of the platform's code do to the output: a call that      *)
(* holds the write lock sends bytes, or a queue is thrown away.             *)
Sendings == Threads \X Nat

KeepsOutput(t) == UNCHANGED <<outq, wire>> /\ call'[t].done = call[t].done

EmptiesOutput(t) ==
  /\ UNCHANGED wire /\ call'[t].done = call[t].done
  /\ DOMAIN outq' = DOMAIN outq /\ \A p \in Ports : outq'[p] = outq[p] \/ outq'[p] = <<>>

Sends(t, k) ==
  /\ Op(t) = "write" /\ call[t].at \in {"put", "writefile"} /\ Reached
  /\ k \in Nat /\ 0 < k /\ k <= Unsent(t) /\ k <= Room
  /\ outq' = [outq EXCEPT ![File] = Out \o [i \in 1 .. k |-> <<t, call[t].done + i>>]]
  /\ wire' = wire \o [i \in 1 .. k |-> <<File, t, Len(script[t])>>]
  /\ call'[t].done = call[t].done + k

OutType == DOMAIN outq = Ports /\ \A p \in Ports : outq[p] \in Seq(Sendings) /\ Len(outq[p]) <= OutRoom

Sent(t) == call[t].done \in Nat /\ (Op(t) = "write" => call[t].done <= call[t].n)

WireType == wire \in Seq(Ports \X Threads \X Nat)

LEMMA AppendedOne ==
  ASSUME NEW S, NEW s \in Seq(S), NEW x \in S
  PROVE  Append(s, x) = s \o [i \in 1 .. 1 |-> x]
<1> DEFINE one == [i \in 1 .. 1 |-> x]
<1>1. one \in Seq(S) /\ Len(one) = 1 /\ one[1] = x
  OBVIOUS
<1> HIDE DEF one
<1>2. s \o one \in Seq(S) /\ Len(s \o one) = Len(s) + 1
      /\ \A i \in 1 .. Len(s) + Len(one) :
           (s \o one)[i] = IF i <= Len(s) THEN s[i] ELSE one[i - Len(s)]
  <2>1. /\ s \o one \in Seq(S) /\ Len(s \o one) = Len(s) + Len(one)
        /\ \A i \in 1 .. Len(s) + Len(one) :
             (s \o one)[i] = IF i <= Len(s) THEN s[i] ELSE one[i - Len(s)]
    BY ONLY <1>1, s \in Seq(S), ConcatProperties
  <2> QED
    BY <1>1, <2>1
<1>3. Append(s, x) \in Seq(S) /\ Len(Append(s, x)) = Len(s) + 1
  OBVIOUS
<1>4. ASSUME NEW i \in 1 .. Len(s) + 1
      PROVE  Append(s, x)[i] = (s \o one)[i]
  <2>1. CASE i \in 1 .. Len(s)
    BY <1>2, <2>1
  <2>2. CASE i = Len(s) + 1
    BY <1>1, <1>2, <2>2
  <2>3. i \in 1 .. Len(s) \/ i = Len(s) + 1
    BY ONLY Len(s) \in Nat, i \in 1 .. Len(s) + 1
  <2> QED
    BY <2>1, <2>2, <2>3
<1>5. Append(s, x) = s \o one
  BY <1>2, <1>3, <1>4, SeqEqual
<1> QED
  BY <1>5 DEF one

LEMMA SendStep ==
  ASSUME CallInv, RequestInv, OutType, WireType, NEW t \in Threads, Sent(t), UPut(t) \/ WWriteFile(t)
  PROVE  KeepsOutput(t) \/ \E k \in Nat : Sends(t, k)
<1>1. /\ Op(t) = "write" /\ Reached /\ call[t].at \in {"put", "writefile"}
      /\ Unsent(t) \in Nat /\ call[t].done \in Nat
  BY RequestArgument DEF UPut, WWriteFile, CallInv, LegalStep, At, Op, Sent, Unsent
<1>2. Out \in Seq(Sendings) /\ Room \in Nat /\ File \in Ports
  BY <1>1, SerialAssumption DEF OutType, Out, Reached, Room
<1>3. CASE UPut(t)
  <2>1. CASE hungup
    BY <1>3, <2>1 DEF UPut, KeepsOutput, CallInv, CallShape, CallFields, Go, Raise, Updated
  <2>2. CASE ~hungup
    <3>1. Min({Unsent(t), Room}) \in Nat /\ Min({Unsent(t), Room}) <= Unsent(t)
          /\ Min({Unsent(t), Room}) <= Room
      BY <1>1, <1>2, MinOfTwo
    <3>2. PICK k \in 1 .. Min({Unsent(t), Room}) :
            /\ outq' = [outq EXCEPT ![File] = @ \o [i \in 1 .. k |-> <<t, call[t].done + i>>]]
            /\ wire' = wire \o [i \in 1 .. k |-> <<File, t, Len(script[t])>>]
            /\ Go(t, [at |-> "loop", done |-> call[t].done + k])
      BY <1>3, <2>2 DEF UPut
    <3>3. k \in Nat /\ 0 < k /\ k <= Unsent(t) /\ k <= Room
      BY <1>1, <1>2, <3>1
    <3>4. call'[t].done = call[t].done + k
      BY <3>2 DEF CallInv, CallShape, CallFields, Go, Updated
    <3>5. Sends(t, k)
      BY <1>1, <3>2, <3>3, <3>4 DEF Sends, Out
    <3> QED
      BY <3>3, <3>5
  <2> QED
    BY <2>1, <2>2
<1>4. CASE WWriteFile(t)
  <2>1. CASE (Return(t) \/ Raise(t, "error")) /\ UNCHANGED <<outq, wire>>
    BY <2>1 DEF KeepsOutput, CallInv, CallShape, CallFields, Go, Raise, Return, Updated
  <2>2. CASE /\ Unsent(t) > 0 /\ Room > 0
             /\ outq' = [outq EXCEPT ![File] = Append(@, <<t, call[t].done + 1>>)]
             /\ wire' = Append(wire, <<File, t, Len(script[t])>>)
             /\ Go(t, [done |-> call[t].done + 1])
    <3>1. call'[t].done = call[t].done + 1
      BY <2>2 DEF CallInv, CallShape, CallFields, Go, Updated
    <3>2. <<t, call[t].done + 1>> \in Sendings /\ <<File, t, Len(script[t])>> \in Ports \X Threads \X Nat
      BY <1>1, <1>2 DEF Sendings, CallInv, Scripts
    <3>3. Append(Out, <<t, call[t].done + 1>>) = Out \o [i \in 1 .. 1 |-> <<t, call[t].done + 1>>]
      BY <1>2, <3>2, AppendedOne
    <3>4. [i \in 1 .. 1 |-> <<t, call[t].done + 1>>] = [i \in 1 .. 1 |-> <<t, call[t].done + i>>]
      OBVIOUS
    <3>5. Append(wire, <<File, t, Len(script[t])>>) = wire \o [i \in 1 .. 1 |-> <<File, t, Len(script[t])>>]
      BY <3>2, AppendedOne DEF WireType
    <3>6. 1 \in Nat /\ 0 < 1 /\ 1 <= Unsent(t) /\ 1 <= Room
      BY <1>1, <1>2, <2>2
    <3>7. /\ outq' = [outq EXCEPT ![File] = Out \o [i \in 1 .. 1 |-> <<t, call[t].done + i>>]]
          /\ wire' = wire \o [i \in 1 .. 1 |-> <<File, t, Len(script[t])>>]
      BY <2>2, <3>3, <3>4, <3>5 DEF Out
    <3>8. Sends(t, 1)
      BY <1>1, <3>1, <3>6, <3>7 DEF Sends
    <3> QED
      BY <3>8
  <2> QED
    BY <1>4, <2>1, <2>2 DEF WWriteFile
<1> QED
  BY <1>3, <1>4

LEMMA OutputEffect ==
  ASSUME CallInv, RequestInv, OutType, WireType, NEW t \in Threads, Sent(t), CodeOf(t)
  PROVE  KeepsOutput(t) \/ EmptiesOutput(t) \/ \E k \in Nat : Sends(t, k)
<1> USE DEF CallInv, CallShape, CallFields, Go, Raise, Return, Updated, At, Op, Doing,
            still, sameObject, queues
<1>1. CASE UOpen(t) \/ USet(t) \/ SetTimeout(t) \/ UConfig(t) \/ UApply(t) \/ UClosed(t)
  BY <1>1 DEF UOpen, USet, SetTimeout, UConfig, UApply, UClosed, KeepsOutput
<1>2. CASE UClose(t) \/ WClose(t)
  <2>1. ASSUME outq' = Dropped(outq, File), UNCHANGED wire, call'[t].done = call[t].done
        PROVE  EmptiesOutput(t)
    BY <2>1 DEF Dropped, EmptiesOutput
  <2>2. UNCHANGED wire /\ call'[t].done = call[t].done /\ (UNCHANGED outq \/ outq' = Dropped(outq, File))
    BY <1>2 DEF UClose, WClose
  <2> QED
    BY ONLY <2>1, <2>2 DEF KeepsOutput
<1>3. CASE UReadStart(t) \/ UReadLoop(t) \/ UWaitReadableStart(t) \/ UWaitReadable(t)
  BY <1>3 DEF UReadStart, UReadLoop, UWaitReadableStart, UWaitReadable, KeepsOutput
<1>4. CASE UPrefill(t) \/ UTake(t)
  <2>1. ASSUME NEW g, NEW w, Go(t, [at |-> "loop", got |-> g, wait |-> w])
        PROVE  call'[t].done = call[t].done
    BY <2>1
  <2>2. ASSUME Raise(t, "disconnected") \/ Go(t, [at |-> "loop"])
        PROVE  call'[t].done = call[t].done
    BY <2>2
  <2> QED
    BY ONLY <1>4, <2>1, <2>2 DEF UPrefill, UTake, TakeIn, KeepsOutput, still
<1>5. CASE UReady(t) \/ UWaitByteTimesStart(t) \/ UWaitByteTimes(t)
  BY <1>5 DEF UReady, UWaitByteTimesStart, UWaitByteTimes, KeepsOutput
<1>6. CASE UWriteStart(t) \/ UWriteLoop(t) \/ UWriteSelect(t) \/ WWriteStart(t)
  BY <1>6 DEF UWriteStart, UWriteLoop, UWriteSelect, WWriteStart, KeepsOutput
<1>7. CASE UPut(t) \/ WWriteFile(t)
  BY ONLY <1>7, SendStep, CallInv, RequestInv, OutType, WireType, t \in Threads, Sent(t)
<1>8. CASE UNotOpen(t) \/ UDrainStart(t) \/ UDrain(t)
  BY <1>8 DEF UNotOpen, UDrainStart, UDrain, KeepsOutput
<1>9. CASE UDiscard(t)
  <2>1. ASSUME outq' = [outq EXCEPT ![File] = <<>>], UNCHANGED wire, call'[t].done = call[t].done
        PROVE  EmptiesOutput(t)
    BY <2>1 DEF EmptiesOutput
  <2>2. /\ UNCHANGED wire /\ call'[t].done = call[t].done
        /\ UNCHANGED outq \/ outq' = [outq EXCEPT ![File] = <<>>]
    BY <1>9 DEF UDiscard
  <2> QED
    BY ONLY <2>1, <2>2 DEF KeepsOutput
<1>10. CASE USignalStart(t) \/ UIoctl(t) \/ UWaitForChange(t) \/ BadDescriptor(t)
  BY <1>10 DEF USignalStart, UIoctl, UWaitForChange, BadDescriptor, KeepsOutput
<1>11. CASE WOpen(t) \/ WConfig(t) \/ WReadStart(t)
  BY <1>11 DEF WOpen, WConfig, WReadStart, KeepsOutput
<1>12. CASE WReadFile(t)
  <2>1. ASSUME NEW g, NEW w, Go(t, [got |-> g, wait |-> w])
        PROVE  call'[t].done = call[t].done
    BY <2>1
  <2>2. ASSUME Return(t) \/ Raise(t, "error")
        PROVE  call'[t].done = call[t].done
    BY <2>2
  <2> QED
    BY ONLY <1>12, <2>1, <2>2 DEF WReadFile, KeepsOutput, still
<1>13. CASE WFlush(t) \/ WUnsupported(t) \/ WSignal(t) \/ WWaitForChange(t) \/ WBadHandle(t)
  BY <1>13 DEF WFlush, WUnsupported, WSignal, WWaitForChange, WBadHandle, KeepsOutput
<1> QED
  BY ONLY <1>1, <1>2, <1>3, <1>4, <1>5, <1>6, <1>7, <1>8, <1>9, <1>10, <1>11, <1>12, <1>13,
          CodeOf(t) DEF CodeOf, UnixStep, WinStep

(* The output queues keep to their room, and a write to its bytes.          *)
OutputInv == OutType /\ WireType /\ \A t \in Threads : Sent(t)

LEMMA SentEffect ==
  ASSUME CallInv, RequestInv, OutType, WireType, NEW t \in Threads, Sent(t), NEW k \in Nat, Sends(t, k),
         call'[t].op = call[t].op, call'[t].n = call[t].n
  PROVE  OutType' /\ WireType' /\ Sent(t)'
<1> DEFINE sendings == [i \in 1 .. k |-> <<t, call[t].done + i>>]
           entries == [i \in 1 .. k |-> <<File, t, Len(script[t])>>]
<1>1. /\ Op(t) = "write" /\ File \in Ports /\ k <= Unsent(t) /\ k <= Room
      /\ outq' = [outq EXCEPT ![File] = Out \o sendings] /\ wire' = wire \o entries
      /\ call'[t].done = call[t].done + k
  BY DEF Sends, Reached
<1>2. /\ Out \in Seq(Sendings) /\ Len(Out) <= OutRoom /\ Len(Out) \in Nat /\ DOMAIN outq = Ports
      /\ wire \in Seq(Ports \X Threads \X Nat) /\ OutRoom \in Nat /\ call[t].done \in Nat
      /\ Len(script[t]) \in Nat
  BY <1>1, SerialAssumption DEF OutType, Out, WireType, Sent, CallInv, Scripts
<1>3. /\ \A i \in 1 .. k : <<t, call[t].done + i>> \in Sendings
      /\ <<File, t, Len(script[t])>> \in Ports \X Threads \X Nat
  <2>1. ASSUME NEW i \in 1 .. k
        PROVE  call[t].done + i \in Nat
    <3>1. i \in Nat /\ \A d \in Nat : d + i \in Nat
      BY ONLY i \in 1 .. k, k \in Nat
    <3> QED
      BY <1>2, <3>1
  <2>2. \A i \in 1 .. k : <<t, call[t].done + i>> \in Sendings
    BY ONLY <2>1, t \in Threads DEF Sendings
  <2>3. <<File, t, Len(script[t])>> \in Ports \X Threads \X Nat
    BY ONLY <1>1, <1>2, t \in Threads
  <2> QED
    BY <2>2, <2>3
<1>4. sendings \in Seq(Sendings) /\ Len(sendings) = k
  BY <1>3
<1>5. entries \in Seq(Ports \X Threads \X Nat)
  BY <1>3
<1> HIDE DEF sendings, entries
<1>6. Out \o sendings \in Seq(Sendings) /\ Len(Out \o sendings) = Len(Out) + k
  BY ONLY <1>2, <1>4, ConcatProperties
<1>7. Len(Out) + k <= OutRoom
  BY <1>1, <1>2 DEF Room
<1>8. OutType'
  BY <1>1, <1>2, <1>6, <1>7 DEF OutType
<1>9. WireType'
  BY <1>1, <1>2, <1>5 DEF WireType
<1>10. Sent(t)'
  <2>1. call[t].n \in Nat
    BY <1>1, RequestArgument
  <2>2. call[t].done + k \in Nat /\ call[t].done + k <= call[t].n
    <3>1. \A n, d, j \in Nat : j <= n - d => d + j \in Nat /\ d + j <= n
      OBVIOUS
    <3>2. k <= call[t].n - call[t].done
      BY <1>1 DEF Unsent
    <3> QED
      BY ONLY <1>2, <2>1, <3>1, <3>2, k \in Nat
  <2> QED
    BY ONLY <1>1, <2>2, call'[t].n = call[t].n DEF Sent
<1> QED
  BY <1>8, <1>9, <1>10

LEMMA OutputNext ==
  ASSUME PortInv, RequestInv, OutputInv, [Next]_allVars
  PROVE  OutputInv'
<1> USE DEF PortInv, OutputInv
<1>1. ASSUME UNCHANGED <<outq, wire>>,
             \A t \in Threads : \/ call'[t].op # "write" /\ call'[t].done \in Nat
                                \/ call'[t].op = call[t].op /\ call'[t].n = call[t].n
                                   /\ call'[t].done = call[t].done
      PROVE  OutputInv'
  BY <1>1 DEF OutType, WireType, Sent, Op
<1>2. ASSUME NEW u \in Threads, Step(u)
      PROVE  OutputInv'
  <2>1. CASE Enter(u)
    <3>1. UNCHANGED <<outq, wire>> /\ OthersStay(u) /\ call'[u].done = 0
          /\ call'[u].op = Head(script[u]).op /\ call'[u].n = Head(script[u]).n
          /\ Head(script[u]) \in Requests
      BY <2>1, EnterStep DEF Enter, queues
    <3>2. call'[u].op = "write" => call'[u].n \in Nat
      BY <3>1 DEF Requests, Reads
    <3>3. Sent(u)'
      BY <3>1, <3>2 DEF Sent, Op
    <3>4. \A t \in Threads \ {u} : Sent(t)'
      BY <3>1 DEF OthersStay, Sent, Op
    <3>5. OutType' /\ WireType'
      BY <3>1 DEF OutType, WireType
    <3> QED
      BY <3>3, <3>4, <3>5
  <2>2. CASE Leaves(u)
    <3>1. UNCHANGED <<outq, wire>> /\ OthersStay(u) /\ call'[u] = Idle
      BY <2>2, LeaveStep DEF Leaves, Leave, queues
    <3>2. call'[u].done = 0 /\ call'[u].op = "none"
      BY <3>1 DEF Idle
    <3> QED
      BY <1>1, <3>1, <3>2 DEF OthersStay
  <2>3. CASE Lock(u) \/ ReadsMore(u) \/ SetPort(u)
    <3>1. /\ UNCHANGED <<outq, wire>> /\ OthersStay(u)
          /\ call'[u].op = call[u].op /\ call'[u].n = call[u].n
      BY <2>3, LockStep, MoreToRead, SetPortStep DEF Lock, ReadsMore, queues, Op
    <3>2. call'[u].done = call[u].done
      <4>1. ASSUME NEW s, Go(u, [at |-> s])
            PROVE  call'[u].done = call[u].done
        BY <4>1 DEF CallInv, CallShape, CallFields, Go, Updated
      <4>2. ASSUME NEW s, NEW x, Go(u, [at |-> s, phase |-> x])
            PROVE  call'[u].done = call[u].done
        BY <4>2 DEF CallInv, CallShape, CallFields, Go, Updated
      <4>3. ASSUME NEW x, Go(u, [at |-> "body", text |-> x, got |-> <<>>])
            PROVE  call'[u].done = call[u].done
        BY <4>3 DEF CallInv, CallShape, CallFields, Go, Updated
      <4> QED
        BY ONLY <2>3, <4>1, <4>2, <4>3 DEF Lock, ReadsMore, AfterRead, SetPort, Return
    <3> QED
      BY <1>1, <3>1, <3>2 DEF OthersStay
  <2>4. CASE CodeOf(u)
    <3>1. /\ \A t \in Threads \ {u} : call'[t] = call[t]
          /\ call'[u].op = call[u].op /\ call'[u].n = call[u].n
      BY <2>4, CodeOfStep DEF CodeStep
    <3>2. CASE KeepsOutput(u)
      BY <1>1, <3>1, <3>2 DEF KeepsOutput
    <3>3. CASE EmptiesOutput(u)
      <4>1. <<>> \in Seq(Sendings) /\ Len(<<>>) = 0 /\ 0 <= OutRoom
        BY SerialAssumption
      <4> QED
        BY <3>1, <3>3, <4>1 DEF EmptiesOutput, OutType, WireType, Sent, Op
    <3>4. ASSUME NEW k \in Nat, Sends(u, k)
          PROVE  OutputInv'
      <4>1. OutType' /\ WireType' /\ Sent(u)'
        BY <3>1, <3>4, SentEffect
      <4> QED
        BY <3>1, <4>1 DEF Sent, Op
    <3> QED
      BY <2>4, <3>2, <3>3, <3>4, OutputEffect
  <2> QED
    BY <1>2, <2>1, <2>2, <2>3, <2>4, StepCases
<1>3. CASE Surroundings
  <2>1. UNCHANGED wire /\ \A t \in Threads :
          call'[t].op = call[t].op /\ call'[t].n = call[t].n /\ call'[t].done = call[t].done
    BY <1>3, SurroundingsStep DEF Surroundings
  <2>2. CASE UNCHANGED outq
    BY <1>1, <2>1, <2>2
  <2>3. ASSUME NEW p \in Ports, Drain(p)
        PROVE  OutputInv'
    <3>1. outq[p] # <<>> /\ outq' = [outq EXCEPT ![p] = Tail(outq[p])] /\ outq[p] \in Seq(Sendings)
      BY <2>3 DEF Drain, OutType
    <3>2. Tail(outq[p]) \in Seq(Sendings) /\ Len(Tail(outq[p])) <= Len(outq[p])
      BY <3>1
    <3>3. OutType'
      BY <3>1, <3>2, SerialAssumption DEF OutType
    <3> QED
      BY <2>1, <3>3 DEF WireType, Sent, Op
  <2> QED
    BY <1>3, <2>2, <2>3 DEF Surroundings, Arrive, Hangup, LineChange, OtherFile, Tick, queues
<1>4. CASE UNCHANGED allVars
  BY <1>1, <1>4 DEF allVars, vars, queues
<1> QED
  BY <1>2, <1>3, <1>4, NextCases
-----------------------------------------------------------------------------
(* An entry of the wire is of a call that its thread has made already, or  *)
(* is making; from the first entry of a write that holds its lock on, the  *)
(* wire holds nothing else.                                                 *)
Current(t, i) == wire[i][2] = t /\ wire[i][3] = Len(script[t])

Writing(t) == Op(t) = "write" /\ HoldsWrite(t)

OnlySince(t, i) ==
  /\ Writing(t) /\ \A j \in 1 .. Len(wire) : i <= j => wire[j] = wire[i]
  /\ Reached => wire[i][1] = File

WireInv ==
  /\ \A i \in 1 .. Len(wire) : wire[i][3] >= Len(script[wire[i][2]])
  /\ \A t \in Threads : \A i \in 1 .. Len(wire) : Current(t, i) => Op(t) = "none" \/ OnlySince(t, i)
  /\ WritesWhole

LEMMA WireKept ==
  ASSUME PortInv, WireInv, [Next]_allVars, UNCHANGED <<wire, script>>,
         \A t \in Threads : \/ call'[t].op = "none"
                            \/ call'[t].op = call[t].op /\ (Writing(t) => HoldsWrite(t)')
  PROVE  WireInv'
<1>1. \A t \in Threads : \A i \in 1 .. Len(wire) : Current(t, i)' <=> Current(t, i)
  BY DEF Current
<1>2. ASSUME NEW t \in Threads, NEW i \in 1 .. Len(wire), Current(t, i), call'[t].op # "none"
      PROVE  OnlySince(t, i)'
  <2>1. call'[t].op = call[t].op /\ OnlySince(t, i) /\ HoldsWrite(t)'
    BY <1>2 DEF WireInv, Op, OnlySince
  <2>2. Reached' => Reached /\ File' = File
    BY <2>1, FileKept DEF OnlySince, Writing
  <2> QED
    BY <2>1, <2>2 DEF OnlySince, Writing, Op
<1>3. WritesWhole'
  BY DEF WireInv, WritesWhole
<1> QED
  BY <1>1, <1>2, <1>3 DEF WireInv, Op

LEMMA WireEnter ==
  ASSUME PortInv, WireType, WireInv, [Next]_allVars, NEW u \in Threads, Enter(u)
  PROVE  WireInv'
<1>1. /\ UNCHANGED wire /\ OthersStay(u) /\ Len(script'[u]) = Len(script[u]) - 1
      /\ \A t \in Threads \ {u} : script'[t] = script[t]
      /\ \A t \in Threads : Len(script[t]) \in Nat
  <2>1. UNCHANGED wire /\ CallInv
    BY DEF Enter, PortInv
  <2>2. \A t \in Threads : Len(script[t]) \in Nat
    BY <2>1 DEF CallInv, Scripts
  <2> QED
    BY <2>1, <2>2, EnterStep
<1>2. \A i \in 1 .. Len(wire) : wire[i][2] \in Threads /\ wire[i][3] \in Nat
  BY DEF WireType
<1>3. ASSUME NEW i \in 1 .. Len(wire)
      PROVE  wire[i][3] >= Len(script'[wire[i][2]]) /\ ~Current(u, i)'
  <2>1. wire[i][3] >= Len(script[wire[i][2]])
    BY DEF WireInv
  <2>2. /\ Len(script[u]) \in Nat /\ Len(script'[u]) = Len(script[u]) - 1
        /\ wire[i][3] \in Nat /\ UNCHANGED wire
    BY <1>1, <1>2
  <2>3. CASE wire[i][2] = u
    <3>1. wire[i][3] >= Len(script[u])
      BY <2>1, <2>3
    <3>2. wire[i][3] >= Len(script'[u]) /\ wire[i][3] # Len(script'[u])
      BY ONLY <2>2, <3>1
    <3> QED
      BY ONLY <2>2, <2>3, <3>2 DEF Current
  <2>4. CASE wire[i][2] # u
    BY <1>1, <1>2, <2>1, <2>4 DEF Current
  <2> QED
    BY <2>3, <2>4
<1>4. ASSUME NEW t \in Threads \ {u}, NEW i \in 1 .. Len(wire), Current(t, i)', Op(t)' # "none"
      PROVE  OnlySince(t, i)'
  <2>1. Current(t, i) /\ Op(t) # "none" /\ OnlySince(t, i)
    BY <1>1, <1>4 DEF Current, WireInv, OthersStay, Op
  <2>2. Reached' => Reached /\ File' = File
    BY <2>1, FileKept DEF OnlySince, Writing
  <2> QED
    BY <1>1, <2>1, <2>2 DEF OnlySince, Writing, OthersStay, Op, HoldsWrite
<1>5. WritesWhole'
  BY <1>1 DEF WireInv, WritesWhole
<1> QED
  BY <1>1, <1>3, <1>4, <1>5 DEF WireInv

LEMMA WireSent ==
  ASSUME PortInv, WireType, WireInv, NEW u \in Threads, CodeOf(u), NEW n \in Nat, Sends(u, n)
  PROVE  WireInv'
<1> DEFINE e == <<File, u, Len(script[u])>>
           len == Len(wire)
           entries == [i \in 1 .. n |-> e]
<1>1. /\ Writing(u) /\ Reached /\ wire' = wire \o entries /\ call[u].at \in {"put", "writefile"}
  BY DEF Sends, Writing, HoldsWrite, WriteLocked
<1>2. /\ \A t \in Threads : call'[t].op = call[t].op /\ HoldsWrite(t)' = HoldsWrite(t)
      /\ UNCHANGED script
  <2>1. CodeStep(u)
    BY CodeOfStep DEF PortInv
  <2> QED
    BY <2>1 DEF CodeStep, Outside, HoldsWrite, Op
<1>3. Reached' = Reached /\ File' = File
  <2>1. call[u].at \notin OpensOrCloses /\ CallInv
    BY <1>1 DEF OpensOrCloses, PortInv
  <2> QED
    BY <2>1, UsesPort DEF Reached, File
<1>4. e \in Ports \X Threads \X Nat /\ File \in Ports /\ Len(script[u]) \in Nat
  BY <1>1 DEF Reached, PortInv, CallInv, Scripts
<1>5. e[1] = File /\ e[2] = u /\ e[3] = Len(script[u])
  OBVIOUS
<1>6. entries \in Seq(Ports \X Threads \X Nat) /\ Len(entries) = n /\ \A i \in 1 .. n : entries[i] = e
  BY <1>4
<1>7. wire \in Seq(Ports \X Threads \X Nat) /\ len \in Nat
  BY DEF WireType
<1>8. /\ Len(wire') = len + n
      /\ \A i \in 1 .. len : wire'[i] = wire[i]
      /\ \A i \in len + 1 .. len + n : wire'[i] = e
  <2> HIDE DEF entries, e
  <2>1. /\ Len(wire \o entries) = Len(wire) + Len(entries)
        /\ \A i \in 1 .. Len(wire) + Len(entries) :
             (wire \o entries)[i] = IF i <= Len(wire) THEN wire[i] ELSE entries[i - Len(wire)]
    BY ONLY <1>6, <1>7, ConcatProperties
  <2>2. ASSUME NEW i \in len + 1 .. len + n
        PROVE  wire'[i] = e
    <3>1. i \in 1 .. len + n /\ ~(i <= len) /\ i - len \in 1 .. n
      BY ONLY <1>7, n \in Nat, i \in len + 1 .. len + n
    <3> QED
      BY <1>1, <1>6, <2>1, <3>1
  <2>3. ASSUME NEW i \in 1 .. len
        PROVE  wire'[i] = wire[i]
    <3>1. i \in 1 .. len + n /\ i <= len
      BY ONLY <1>7, n \in Nat, i \in 1 .. len
    <3> QED
      BY <1>1, <1>6, <2>1, <3>1
  <2> QED
    BY <1>1, <1>6, <2>1, <2>2, <2>3
<1> HIDE DEF e, entries
<1>9. ASSUME NEW i \in 1 .. len + n
      PROVE  i \in 1 .. len \/ i \in len + 1 .. len + n
  BY ONLY <1>7, n \in Nat, i \in 1 .. len + n
<1>10. \A i \in 1 .. len : wire[i][2] \in Threads /\ wire[i] = <<wire[i][1], wire[i][2], wire[i][3]>>
  BY <1>7
<1>11. ASSUME NEW i \in 1 .. len, Current(u, i)
       PROVE  wire[i] = e /\ \A j \in 1 .. len : i <= j => wire[j] = e
  <2>1. Op(u) # "none" /\ OnlySince(u, i)
    BY <1>1, <1>11 DEF WireInv, Writing
  <2>2. wire[i][1] = File /\ wire[i][2] = u /\ wire[i][3] = Len(script[u])
    BY <1>1, <1>11, <2>1 DEF OnlySince, Current
  <2>3. wire[i] = e
    BY <1>10, <2>2 DEF e
  <2> QED
    BY <2>1, <2>3 DEF OnlySince
<1>12. ASSUME NEW i \in 1 .. len + n, wire'[i] = e
       PROVE  \A j \in 1 .. len + n : i <= j => wire'[j] = e
  <2>1. CASE i \in 1 .. len
    <3>1. Current(u, i)
      BY <1>5, <1>8, <1>12, <2>1 DEF Current
    <3> QED
      BY <1>8, <1>9, <1>11, <2>1, <3>1
  <2>2. CASE i \in len + 1 .. len + n
    <3>1. \A j \in 1 .. len + n : i <= j => j \in len + 1 .. len + n
      BY ONLY <1>7, <2>2, n \in Nat
    <3> QED
      BY <1>8, <3>1
  <2> QED
    BY <1>9, <2>1, <2>2
<1>13. ASSUME NEW i \in 1 .. len + n
       PROVE  wire'[i][3] >= Len(script[wire'[i][2]])
  <2>1. CASE i \in 1 .. len
    BY <1>8, <2>1 DEF WireInv
  <2>2. CASE i \in len + 1 .. len + n
    BY <1>4, <1>5, <1>8, <2>2
  <2> QED
    BY <1>9, <2>1, <2>2
<1>14. ASSUME NEW t \in Threads, NEW i \in 1 .. len + n, Current(t, i)', Op(t) # "none"
       PROVE  OnlySince(t, i)'
  <2>1. CASE t = u
    <3>1. wire'[i] = e
      <4>1. CASE i \in 1 .. len
        <5>1. Current(u, i)
          BY <1>2, <1>8, <1>14, <2>1, <4>1 DEF Current
        <5> QED
          BY <1>8, <1>11, <4>1, <5>1
      <4>2. CASE i \in len + 1 .. len + n
        BY <1>8, <4>2
      <4> QED
        BY <1>9, <4>1, <4>2
    <3>2. \A j \in 1 .. Len(wire') : i <= j => wire'[j] = wire'[i]
      BY <1>8, <1>12, <3>1
    <3>3. Writing(u)' /\ wire'[i][1] = File'
      BY <1>1, <1>2, <1>3, <1>5, <3>1 DEF Writing, Op
    <3> QED
      BY <2>1, <3>2, <3>3 DEF OnlySince
  <2>2. CASE t # u
    <3>1. i \in 1 .. len
      BY <1>5, <1>8, <1>9, <1>14, <2>2 DEF Current
    <3>2. Current(t, i)
      BY <1>2, <1>8, <1>14, <3>1 DEF Current
    <3>3. Writing(t)
      BY <1>14, <3>1, <3>2 DEF WireInv, OnlySince
    <3> QED
      BY <1>1, <2>2, <3>3 DEF Writing, PortInv, LocksHeld
  <2> QED
    BY <2>1, <2>2
<1>15. ASSUME NEW i \in 1 .. len + n, NEW j \in 1 .. len + n, NEW k \in 1 .. len + n,
              i < j, j < k, wire'[i] = wire'[k]
       PROVE  wire'[j] = wire'[i]
  <2>1. CASE k \in 1 .. len
    <3>1. i \in 1 .. len /\ j \in 1 .. len
      <4>1. i \in Int /\ j \in Int /\ k \in Int /\ 1 <= i /\ k <= len /\ len \in Int
        BY ONLY <1>7, <2>1, n \in Nat, i \in 1 .. len + n, j \in 1 .. len + n
      <4>2. i < j /\ j < k
        BY <1>15
      <4> HIDE DEF len
      <4> QED
        BY ONLY <4>1, <4>2
    <3>2. wire[i] = wire[k] => wire[j] = wire[i]
      BY <1>15, <2>1, <3>1 DEF WireInv, WritesWhole
    <3> QED
      BY <1>8, <1>15, <2>1, <3>1, <3>2
  <2>2. CASE k \in len + 1 .. len + n
    <3>1. wire'[i] = e /\ i <= j
      BY <1>8, <1>15, <2>2
    <3> QED
      BY <1>12, <3>1
  <2> QED
    BY <1>9, <2>1, <2>2
<1>16. WritesWhole'
  BY <1>8, <1>15 DEF WritesWhole
<1>17. \A t \in Threads : Op(t)' = Op(t)
  BY <1>2 DEF Op
<1> HIDE DEF len
<1> QED
  BY <1>2, <1>8, <1>13, <1>14, <1>16, <1>17 DEF WireInv

LEMMA WireNext ==
  ASSUME PortInv, RequestInv, OutputInv, WireInv, [Next]_allVars
  PROVE  WireInv'
<1> USE DEF PortInv, OutputInv
<1>1. ASSUME NEW u \in Threads, Step(u)
      PROVE  WireInv'
  <2>1. CASE Enter(u)
    BY <2>1, WireEnter
  <2>2. CASE Leaves(u)
    <3>1. UNCHANGED <<wire, script>> /\ OthersStay(u) /\ call'[u] = Idle
      BY <2>2, LeaveStep DEF Leaves, Leave
    <3>2. call'[u].op = "none"
      BY <3>1 DEF Idle
    <3> QED
      BY <3>1, <3>2, WireKept DEF OthersStay, Writing, HoldsWrite, Op
  <2>3. CASE Lock(u) \/ ReadsMore(u) \/ SetPort(u)
    <3>1. /\ UNCHANGED <<wire, script>> /\ OthersStay(u) /\ call'[u].op = call[u].op
          /\ HoldsWrite(u) => HoldsWrite(u)'
      BY <2>3, LockStep, MoreToRead, SetPortStep DEF Lock, ReadsMore, HoldsWrite, Op, At
    <3> QED
      BY <3>1, WireKept DEF OthersStay, Writing, HoldsWrite, Op
  <2>4. CASE CodeOf(u)
    <3>1. /\ UNCHANGED script /\ \A t \in Threads \ {u} : call'[t] = call[t]
          /\ call'[u].op = call[u].op /\ call'[u].at \notin Outside
      BY <2>4, CodeOfStep DEF CodeStep
    <3>2. CASE UNCHANGED wire
      BY <3>1, <3>2, WireKept DEF Outside, Writing, HoldsWrite, Op
    <3>3. ASSUME NEW k \in Nat, Sends(u, k)
          PROVE  WireInv'
      BY <2>4, <3>3, WireSent
    <3> QED
      BY <2>4, <3>2, <3>3, OutputEffect DEF KeepsOutput, EmptiesOutput
  <2> QED
    BY <1>1, <2>1, <2>2, <2>3, <2>4, StepCases
<1>2. CASE Surroundings
  <2>1. /\ UNCHANGED <<wire, script>>
        /\ \A t \in Threads : call'[t].op = call[t].op /\ (HoldsWrite(t) => HoldsWrite(t)')
    BY <1>2, SurroundingsStep DEF Surroundings, HoldsWrite, Op
  <2> QED
    BY <2>1, WireKept DEF Writing
<1>3. CASE UNCHANGED allVars
  BY <1>3, WireKept DEF allVars, vars, HoldsWrite, Op, Writing
<1> QED
  BY <1>1, <1>2, <1>3, NextCases

LEMMA OutputInvariant == Spec => [](OutputInv /\ WireInv)
<1>1. Init => OutputInv /\ WireInv
  <2> SUFFICES ASSUME Init
               PROVE  OutputInv /\ WireInv
    OBVIOUS
  <2>1. /\ call = [t \in Threads |-> Idle] /\ outq = [p \in Ports |-> <<>>] /\ wire = <<>>
    BY DEF Init
  <2>2. \A t \in Threads : Sent(t)
    BY <2>1 DEF Idle, Sent, Op
  <2>3. OutType /\ WireType
    BY <2>1, SerialAssumption DEF OutType, WireType
  <2>4. WireInv
    BY <2>1 DEF WireInv, WritesWhole
  <2> QED
    BY <2>2, <2>3, <2>4 DEF OutputInv
<1>2. PortInv /\ TimeInv /\ OutputInv /\ WireInv /\ [Next]_allVars => OutputInv' /\ WireInv'
  BY OutputNext, WireNext DEF TimeInv
<1> QED
  BY <1>1, <1>2, PortInvariant, TimeInvariant, PTL DEF Spec

(* On the wire the bytes of one write are not mixed with another's, even   *)
(* when the output queue takes them in several pieces.                     *)
THEOREM WritesWholeHolds == Spec => []WritesWhole
<1>1. WireInv => WritesWhole
  BY DEF WireInv
<1> QED
  BY <1>1, OutputInvariant, PTL

-----------------------------------------------------------------------------
(* The operator: reconfigurePort puts the settings of the port into effect *)
(* whatever the attributes of the terminal were, for all settings and all  *)
(* attributes, where the run of SerialPort takes a few.                     *)

(* The attributes are flags and numbers again, so that they can be set      *)
(* any number of times (unix.cc 159-455).                                   *)
THEOREM ReconfiguredType ==
  ASSUME NEW s \in Settings, NEW o \in Attributes
  PROVE  Reconfigured(s, o) \in Attributes
<1> DEFINE raw == RawMode(o)
           divided == CustomDivisor(s, raw)
           fast == Speed(s, divided)
           sized == CharSize(s, fast)
           stopped == StopBits(s, sized)
           even == Parity(s, stopped)
<1>1. raw \in Attributes
  BY DEF Attributes, RawMode, CFlags, IFlags, LFlags
<1>2. divided \in Attributes
  <2>1. CASE s.baudrate \in StandardRates
    BY <1>1, <2>1 DEF CustomDivisor
  <2>2. CASE s.baudrate \notin StandardRates
    <3>1. BaudBase \div s.baudrate \in Nat
      BY TermiosAssumption, SMT DEF Settings
    <3> HIDE DEF raw
    <3> QED BY <1>1, <2>2, <3>1 DEF CustomDivisor, Attributes
  <2> QED BY <2>1, <2>2
<1>3. fast \in Attributes
  <2> HIDE DEF divided
  <2> QED BY <1>2 DEF Speed, Attributes, Settings
<1>4. sized \in Attributes
  <2> HIDE DEF fast
  <2> QED BY <1>3 DEF CharSize, Attributes, Settings
<1>5. stopped \in Attributes
  <2> HIDE DEF sized
  <2> QED BY <1>4 DEF StopBits, Switched, Attributes, CFlags
<1>6. even \in Attributes
  <2> HIDE DEF stopped
  <2>1. ParityFlags(s, stopped.cflag) \subseteq CFlags
    BY <1>5 DEF ParityFlags, Attributes, Settings, Parities, CFlags
  <2> QED BY <1>5, <2>1 DEF Parity, Attributes
<1> HIDE DEF even
<1>7. FlowControl(s, even) \in Attributes
  BY <1>6 DEF FlowControl, Switched, Attributes, CFlags, IFlags
<1> QED BY <1>7 DEF Reconfigured, even
-----------------------------------------------------------------------------
(* The flags that each part sets are still there at the end, and the rest  *)
(* does not touch them.                                                     *)
LEMMA Fields ==
  ASSUME NEW s \in Settings, NEW o \in Attributes
  PROVE  LET r == Reconfigured(s, o)
         IN /\ r.speed = IF s.baudrate \in StandardRates THEN s.baudrate ELSE o.speed
            /\ r.csize = s.bytesize
            /\ s.baudrate \in StandardRates => r.custom = o.custom
            /\ r.cflag = Switched(ParityFlags(s, Switched(o.cflag \cup {"CLOCAL", "CREAD"},
                                                {"CSTOPB"}, s.stopbits # "one")),
                                  {"CRTSCTS"}, s.flowcontrol = "hardware")
            /\ "IXON" \in r.iflag <=> s.flowcontrol = "software"
<1> USE DEF Attributes
<1>1. Reconfigured(s, o).speed = IF s.baudrate \in StandardRates THEN s.baudrate ELSE o.speed
  BY DEF Reconfigured, FlowControl, Parity, StopBits, CharSize, Speed, CustomDivisor, RawMode
<1>2. Reconfigured(s, o).csize = s.bytesize
  BY DEF Reconfigured, FlowControl, Parity, StopBits, CharSize, Speed, CustomDivisor, RawMode
<1>3. s.baudrate \in StandardRates => Reconfigured(s, o).custom = o.custom
  BY DEF Reconfigured, FlowControl, Parity, StopBits, CharSize, Speed, CustomDivisor, RawMode
<1>4. Reconfigured(s, o).cflag =
        Switched(ParityFlags(s, Switched(o.cflag \cup {"CLOCAL", "CREAD"},
                                         {"CSTOPB"}, s.stopbits # "one")),
                 {"CRTSCTS"}, s.flowcontrol = "hardware")
  BY DEF Reconfigured, FlowControl, Parity, StopBits, CharSize, Speed, CustomDivisor, RawMode
<1>5. "IXON" \in Reconfigured(s, o).iflag <=> s.flowcontrol = "software"
  BY DEF Reconfigured, FlowControl, Parity, StopBits, CharSize, Speed, CustomDivisor, RawMode
<1> QED BY <1>1, <1>2, <1>3, <1>4, <1>5

(* The parity that the driver makes of the flags is the one that was asked *)
(* for, unless an earlier mark or space parity shows through.              *)
LEMMA ParityTakesEffect ==
  ASSUME NEW s \in Settings, NEW o \in Attributes, NEW flags,
         o.cflag = Switched(ParityFlags(s, flags), {"CRTSCTS"}, s.flowcontrol = "hardware"),
         ~("CMSPAR" \in flags /\ s.parity \in {"odd", "even"})
  PROVE  LineParity(o) = s.parity
<1>1. s.parity \in {"none", "odd", "even", "mark", "space"}
  BY DEF Settings, Parities
<1>2. \A f \in {"PARENB", "PARODD", "CMSPAR"} : f \in o.cflag <=> f \in ParityFlags(s, flags)
  BY DEF Switched
<1>3. CASE s.parity = "none"
  BY <1>2, <1>3 DEF LineParity, ParityFlags
<1>4. CASE s.parity = "odd"
  BY <1>2, <1>4 DEF LineParity, ParityFlags
<1>5. CASE s.parity = "even"
  BY <1>2, <1>5 DEF LineParity, ParityFlags
<1>6. CASE s.parity = "mark"
  BY <1>2, <1>6 DEF LineParity, ParityFlags
<1>7. CASE s.parity = "space"
  BY <1>2, <1>7 DEF LineParity, ParityFlags
<1> QED BY <1>1, <1>3, <1>4, <1>5, <1>6, <1>7

(* Whatever the attributes were, after reconfigurePort the line has the    *)
(* frame that the settings ask for, if they are settings that can take     *)
(* effect (unix.cc 187-434).                                               *)
THEOREM SettingsTakeEffect ==
  ASSUME NEW s \in Settings, NEW o \in Attributes, TakesEffect(s, o)
  PROVE  Frame(Reconfigured(s, o)) = AskedFrame(s)
<1> DEFINE r == Reconfigured(s, o)
           before == Switched(o.cflag \cup {"CLOCAL", "CREAD"}, {"CSTOPB"}, s.stopbits # "one")
<1>1. r \in Attributes
  BY ReconfiguredType
<1>2. /\ r.speed = s.baudrate /\ r.csize = s.bytesize /\ r.custom = o.custom
      /\ r.cflag = Switched(ParityFlags(s, before), {"CRTSCTS"}, s.flowcontrol = "hardware")
      /\ "IXON" \in r.iflag <=> s.flowcontrol = "software"
  BY Fields DEF TakesEffect
<1> HIDE DEF r
<1>3. LineRate(r) = s.baudrate
  BY <1>2 DEF LineRate, TakesEffect
<1>4. LineParity(r) = s.parity
  <2>1. ~("CMSPAR" \in before /\ s.parity \in {"odd", "even"})
    BY DEF TakesEffect, Switched
  <2> QED BY <1>1, <1>2, <2>1, ParityTakesEffect
<1>5. (IF "CSTOPB" \in r.cflag THEN 2 ELSE 1) = IF s.stopbits = "one" THEN 1 ELSE 2
  <2>1. "CSTOPB" \in before <=> s.stopbits # "one"
    BY DEF Switched
  <2>2. "CSTOPB" \in ParityFlags(s, before) <=> "CSTOPB" \in before
    <3> HIDE DEF before
    <3> QED BY DEF ParityFlags, Settings, Parities
  <2>3. "CSTOPB" \in r.cflag <=> "CSTOPB" \in ParityFlags(s, before)
    BY <1>2 DEF Switched
  <2> QED BY <2>1, <2>2, <2>3
<1>6. LineFlow(r) = s.flowcontrol
  <2>1. s.flowcontrol \in {"none", "software", "hardware"}
    BY DEF Settings, FlowControls
  <2>2. "CRTSCTS" \in r.cflag <=> s.flowcontrol = "hardware"
    <3>1. CASE s.flowcontrol = "hardware"
      BY <1>2, <3>1 DEF Switched
    <3>2. CASE s.flowcontrol # "hardware"
      BY <1>2, <3>2 DEF Switched
    <3> QED BY <3>1, <3>2
  <2> QED BY <1>2, <2>1, <2>2 DEF LineFlow
<1>7. Frame(r) = AskedFrame(s)
  BY <1>2, <1>3, <1>4, <1>5, <1>6 DEF Frame, AskedFrame, Settings
<1> QED BY <1>7 DEF r

-----------------------------------------------------------------------------
(* The threads that use it.                                                 *)

LEMMA DivisorType ==
  ASSUME NEW s \in Settings, NEW o \in Attributes
  PROVE  CustomDivisor(s, o) \in Attributes
<1>1. s.baudrate \in Nat \ {0}
  BY DEF Settings
<1>2. BaudBase \div s.baudrate \in Nat
  BY <1>1, SMT, TermiosAssumption
<1> QED
  BY <1>2 DEF CustomDivisor, Attributes

(* Of the code's steps only those of reconfigurePort set attributes.        *)
KeepsTerminals(t) == UNCHANGED terminal /\ call'[t].at # "apply"

LEMMA OnlyConfigSets ==
  ASSUME CallInv, NEW t \in Threads, CodeOf(t), call[t].at \notin {"config", "apply"}
  PROVE  KeepsTerminals(t)
<1>1. call[t].at \in OpensOrCloses => UNCHANGED terminal /\ call'[t].at # "apply"
  <2>1. CASE At(t, "open")
    BY <2>1, OpenEffect, StepNames DEF UOpen, WOpen
  <2>2. CASE At(t, "close")
    BY <2>2, CloseEffect, StepNames DEF UClose, WClose
  <2>3. CASE At(t, "closed")
    BY <2>3, ClosedEffect, StepNames DEF UClosed, system
  <2> QED
    BY <2>1, <2>2, <2>3 DEF OpensOrCloses, At
<1>2. ASSUME call[t].at \notin OpensOrCloses
      PROVE  UNCHANGED terminal
  <2> USE DEF system
  <2>1. ~(UOpen(t) \/ UConfig(t) \/ UApply(t) \/ UClose(t) \/ UClosed(t) \/ WOpen(t) \/ WConfig(t) \/ WClose(t))
    BY <1>2 DEF UOpen, UConfig, UApply, UClose, UClosed, WOpen, WConfig, WClose, At, OpensOrCloses
  <2>2. CASE UnixStep(t)
    BY ONLY <2>1, <2>2 DEF UnixStep, USet, SetTimeout, UReadStart, UPrefill, UReadLoop,
       UWaitReadableStart, UWaitReadable, UReady, UWaitByteTimesStart, UWaitByteTimes, UTake,
       UWriteStart, UWriteLoop, UWriteSelect, UPut, UNotOpen, UDrainStart, UDrain, UDiscard,
       USignalStart, UIoctl, UWaitForChange, BadDescriptor, still, sameObject
  <2>3. CASE WinStep(t)
    BY ONLY <2>1, <2>3 DEF WinStep, USet, SetTimeout, UNotOpen, UDiscard, WReadStart, WReadFile,
       WWriteStart, WWriteFile, WFlush, WUnsupported, WSignal, WWaitForChange, WBadHandle,
       still, sameObject
  <2> QED
    BY <2>2, <2>3 DEF CodeOf
<1> QED
  BY <1>1, <1>2, UsesPort DEF KeepsTerminals

LEMMA ConfigSets ==
  ASSUME CallInv, NEW t \in Threads, CodeOf(t), At(t, "config")
  PROVE  \/ /\ UNCHANGED terminal /\ call'[t].at = "raised"
            /\ ~Reached \/ "attributes" \in failed' \/ "settings" \in failed'
         \/ /\ platform = "win" /\ "attributes" \in failed' /\ call'[t].at = "raised"
            /\ terminal' = [terminal EXCEPT ![File] = Dcb(settings)]
         \/ /\ platform = "win" /\ Reached /\ call'[t].at = "returned"
            /\ terminal' = [terminal EXCEPT ![File] = Dcb(settings)]
         \/ /\ platform = "unix" /\ Reached /\ call'[t].at = "apply"
            /\ terminal' = [terminal EXCEPT ![File] = CustomDivisor(settings, @)]
            /\ call'[t].attrs = Reconfigured(settings, terminal[File])
<1> USE DEF At, CallInv, CallShape, CallFields, Raise, Return, Fails
<1>1. CASE platform = "unix" /\ UConfig(t)
  <2>1. ASSUME NEW a, Go(t, [at |-> "apply", attrs |-> a])
        PROVE  call'[t].at = "apply" /\ call'[t].attrs = a
    BY <2>1 DEF Go, Updated
  <2>2. CASE /\ Reached
             /\ terminal' = [terminal EXCEPT ![File] = CustomDivisor(settings, @)]
             /\ Go(t, [at |-> "apply", attrs |-> Reconfigured(settings, terminal[File])])
    BY ONLY <1>1, <2>1, <2>2
  <2>3. CASE /\ (~Reached /\ UNCHANGED failed) \/ Fails("attributes")
             /\ Raise(t, "error") /\ UNCHANGED terminal
    BY <2>3 DEF Go, Updated
  <2> QED
    BY ONLY <1>1, <2>2, <2>3 DEF UConfig
<1>2. CASE platform = "win" /\ WConfig(t)
  <2>1. ASSUME NEW s, NEW x, Go(t, [at |-> s, phase |-> x])
        PROVE  call'[t].at = s
    BY <2>1 DEF Go, Updated
  <2>2. Raise(t, "error") => call'[t].at = "raised"
    BY DEF Go, Updated
  <2> QED
    BY ONLY <1>2, <2>1, <2>2 DEF WConfig, Fails
<1> QED
  BY <1>1, <1>2, StepNames

LEMMA ApplySets ==
  ASSUME CallInv, NEW t \in Threads, CodeOf(t), At(t, "apply")
  PROVE  /\ platform = "unix" /\ call'[t].at = "returned"
         /\ \/ UNCHANGED terminal /\ (~Reached \/ "settings" \in failed')
            \/ Reached /\ terminal' = [terminal EXCEPT ![File] = call[t].attrs]
<1>1. platform = "unix" /\ UApply(t)
  BY StepNames
<1> QED
  BY <1>1, ApplyEffect DEF UApply, Fails
-----------------------------------------------------------------------------
(* What a terminal has, and what tcsetattr is given, are attributes.        *)
AttributesInv ==
  /\ platform \in {"unix", "win"} /\ DOMAIN terminal = Ports
  /\ platform = "unix" => \A p \in Ports : terminal[p] \in Attributes
  /\ \A t \in Threads : At(t, "apply") => call[t].attrs \in Attributes

LEMMA AttributesInit ==
  ASSUME Init
  PROVE  AttributesInv
<1>1. /\ platform \in {"unix", "win"} /\ settings \in Settings /\ InitialTerminal \in Attributes
      /\ call = [t \in Threads |-> Idle]
      /\ terminal = [p \in Ports |->
           CASE platform = "unix" -> IF p = port THEN Reconfigured(settings, InitialTerminal)
                                     ELSE InitialTerminal
             [] platform = "win"  -> Dcb(settings)]
  BY JobAssumption DEF Init
<1>2. Reconfigured(settings, InitialTerminal) \in Attributes
  BY <1>1, ReconfiguredType
<1>3. \A t \in Threads : ~At(t, "apply")
  BY <1>1 DEF At, Idle
<1> QED
  BY ONLY <1>1, <1>2, <1>3 DEF AttributesInv

(* Nothing but a step of the code changes a terminal, and a thread that is *)
(* about to apply attributes keeps them until it does.                      *)
LEMMA AttributesKept ==
  ASSUME AttributesInv, UNCHANGED <<platform, terminal>>,
         \A t \in Threads : At(t, "apply")' => At(t, "apply") /\ call'[t].attrs = call[t].attrs
  PROVE  AttributesInv'
BY DEF AttributesInv

LEMMA AttributesCode ==
  ASSUME CallInv, ValuesInv, AttributesInv, NEW t \in Threads, CodeOf(t)
  PROVE  AttributesInv'
<1>1. UNCHANGED platform /\ \A u \in Threads \ {t} : call'[u] = call[u]
  BY CodeOfStep DEF CodeStep
<1>2. CASE call[t].at \notin {"config", "apply"}
  BY <1>1, <1>2, OnlyConfigSets, AttributesKept DEF KeepsTerminals, At
<1>3. CASE At(t, "config")
  <2>1. Reached => File \in Ports
    BY DEF Reached
  <2>2. settings \in Settings
    BY DEF ValuesInv
  <2>3. CASE UNCHANGED terminal /\ call'[t].at = "raised"
    BY <1>1, <2>3, AttributesKept DEF At
  <2>4. CASE /\ platform = "win" /\ call'[t].at \in {"raised", "returned"}
             /\ terminal' = [terminal EXCEPT ![File] = Dcb(settings)]
    BY <1>1, <2>4 DEF AttributesInv, At
  <2>5. CASE /\ platform = "unix" /\ Reached
             /\ terminal' = [terminal EXCEPT ![File] = CustomDivisor(settings, @)]
             /\ call'[t].attrs = Reconfigured(settings, terminal[File])
    <3>1. terminal[File] \in Attributes
      BY <2>1, <2>5 DEF AttributesInv
    <3>2. CustomDivisor(settings, terminal[File]) \in Attributes
      BY <2>2, <3>1, DivisorType
    <3>3. Reconfigured(settings, terminal[File]) \in Attributes
      BY <2>2, <3>1, ReconfiguredType
    <3>4. \A p \in Ports : terminal'[p] \in Attributes
      BY ONLY <2>5, <3>2, AttributesInv DEF AttributesInv
    <3>5. DOMAIN terminal' = Ports
      BY ONLY <2>5, AttributesInv DEF AttributesInv
    <3> QED
      BY ONLY <1>1, <2>5, <3>3, <3>4, <3>5, AttributesInv DEF AttributesInv, At
  <2> QED
    BY <1>3, <2>3, <2>4, <2>5, ConfigSets
<1>4. CASE At(t, "apply")
  <2>1. /\ call'[t].at = "returned" /\ call[t].attrs \in Attributes
        /\ UNCHANGED terminal \/ terminal' = [terminal EXCEPT ![File] = call[t].attrs]
    BY <1>4, ApplySets DEF AttributesInv
  <2> QED
    BY ONLY <1>1, <2>1, AttributesInv DEF AttributesInv, At
<1> QED
  BY <1>2, <1>3, <1>4 DEF At

LEMMA AttributesNext ==
  ASSUME CallInv, ValuesInv, AttributesInv, [Next]_allVars
  PROVE  AttributesInv'
<1>1. ASSUME NEW t \in Threads, Step(t)
      PROVE  AttributesInv'
  <2>1. CASE CodeOf(t)
    BY <2>1, AttributesCode
  <2>2. CASE Enter(t)
    <3>1. UNCHANGED <<platform, terminal>>
      BY <2>2 DEF Enter, system
    <3>2. ~At(t, "apply")' /\ \A u \in Threads \ {t} : call'[u] = call[u]
      BY <2>2, EnterStep DEF OthersStay, Ops, Exclusive, At
    <3> QED
      BY <3>1, <3>2, AttributesKept DEF At
  <2>3. CASE Lock(t)
    <3>1. UNCHANGED <<platform, terminal>>
      BY <2>3 DEF Lock, system
    <3>2. ~At(t, "apply")' /\ \A u \in Threads \ {t} : call'[u] = call[u]
      BY <2>3, LockStep DEF OthersStay, Lock, At
    <3> QED
      BY <3>1, <3>2, AttributesKept DEF At
  <2>4. CASE Leaves(t)
    <3>1. UNCHANGED <<platform, terminal>>
      BY <2>4 DEF Leaves, Leave, system
    <3>2. ~At(t, "apply")' /\ \A u \in Threads \ {t} : call'[u] = call[u]
      BY <2>4, LeaveStep DEF Leaves, OthersStay, Idle, At
    <3> QED
      BY <3>1, <3>2, AttributesKept DEF At
  <2>5. CASE ReadsMore(t)
    BY <2>5, MoreToRead, AttributesKept DEF ReadsMore, OthersStay, At, system
  <2>6. CASE SetPort(t)
    BY <2>6, SetPortStep, AttributesKept DEF OthersStay, At, system
  <2> QED
    BY <1>1, <2>1, <2>2, <2>3, <2>4, <2>5, <2>6, StepCases
<1>2. CASE Surroundings
  <2>1. UNCHANGED terminal
    BY <1>2 DEF Surroundings, Arrive, Drain, Hangup, LineChange, OtherFile, Tick, system
  <2>2. UNCHANGED platform /\ \A u \in Threads : At(u, "apply")' => At(u, "apply") /\ call'[u].attrs = call[u].attrs
    BY <1>2, SurroundingsStep DEF Surroundings, At
  <2> QED
    BY <2>1, <2>2, AttributesKept
<1>3. CASE UNCHANGED allVars
  BY <1>3, AttributesKept DEF allVars, vars, system, At
<1> QED
  BY <1>1, <1>2, <1>3, NextCases
-----------------------------------------------------------------------------
(* The rest of what the operating system keeps: what has failed, the modem *)
(* lines, and how many bytes may be in an input queue.                      *)
Lines == {"RTS", "DTR", "BRK", "CTS"}

SystemInv ==
  /\ failed \subseteq Failures /\ hungup \in BOOLEAN /\ signals \subseteq Lines
  /\ coming \in 0 .. MaxIn /\ \A p \in Ports : Len(inq[p]) + coming <= MaxIn

LEMMA CodeFailures ==
  ASSUME NEW t \in Threads, CodeOf(t), failed \subseteq Failures
  PROVE  failed' \subseteq Failures
<1> USE DEF Failures, Fails, system, still, sameObject, object
<1>1. CASE UnixStep(t)
  BY ONLY <1>1, failed \subseteq Failures
     DEF UnixStep, UOpen, UConfig, UApply, UClose, UClosed, USet, SetTimeout, UReadStart, UPrefill,
         UReadLoop, UWaitReadableStart, UWaitReadable, UReady, UWaitByteTimesStart, UWaitByteTimes,
         UTake, UWriteStart, UWriteLoop, UWriteSelect, UPut, UNotOpen, UDrainStart, UDrain,
         UDiscard, USignalStart, UIoctl, UWaitForChange, BadDescriptor
<1>2. CASE WinStep(t)
  BY ONLY <1>2, failed \subseteq Failures
     DEF WinStep, WOpen, WConfig, WClose, USet, SetTimeout, UNotOpen, UDiscard, WReadStart,
         WReadFile, WWriteStart, WWriteFile, WFlush, WUnsupported, WSignal, WWaitForChange, WBadHandle
<1> QED
  BY <1>1, <1>2 DEF CodeOf

LEMMA CodeSignals ==
  ASSUME RequestInv, NEW t \in Threads, CodeOf(t), signals \subseteq Lines
  PROVE  signals' \subseteq Lines
<1> USE DEF system, still, sameObject, object
<1>1. Op(t) = "signal" => call[t].n.lines \subseteq Lines
  BY RequestArgument DEF Lines
<1>2. CASE UIoctl(t) \/ WSignal(t)
  BY <1>1, <1>2 DEF UIoctl, WSignal, Switched
<1>3. CASE UnixStep(t) /\ ~UIoctl(t)
  BY ONLY <1>3, signals \subseteq Lines
     DEF UnixStep, UOpen, UConfig, UApply, UClose, UClosed, USet, SetTimeout, UReadStart, UPrefill,
         UReadLoop, UWaitReadableStart, UWaitReadable, UReady, UWaitByteTimesStart, UWaitByteTimes,
         UTake, UWriteStart, UWriteLoop, UWriteSelect, UPut, UNotOpen, UDrainStart, UDrain,
         UDiscard, USignalStart, UWaitForChange, BadDescriptor
<1>4. CASE WinStep(t) /\ ~WSignal(t)
  BY ONLY <1>4, signals \subseteq Lines
     DEF WinStep, WOpen, WConfig, WClose, USet, SetTimeout, UNotOpen, UDiscard, WReadStart,
         WReadFile, WWriteStart, WWriteFile, WFlush, WUnsupported, WWaitForChange, WBadHandle
<1> QED
  BY <1>2, <1>3, <1>4 DEF CodeOf

(* The code never adds to an input queue.                                   *)
LEMMA CodeInput ==
  ASSUME CallInv, RequestInv, InputInv, NEW t \in Threads, CodeOf(t), NEW p \in Ports
  PROVE  Len(inq'[p]) \in 0 .. Len(inq[p])
<1> USE DEF InputInv, QueueInv
<1>1. inq[p] \in Seq(Bytes) /\ DOMAIN inq = Ports
  BY DEF InputType, Bytes
<1>2. CASE KeepsInput(t)
  BY <1>1, <1>2 DEF KeepsInput
<1>3. CASE TakesSome(t) \/ TakesOne(t)
  <2>1. PICK k \in Nat : Takes(t, k)
    BY <1>3, TakenBytes
  <2>2. /\ k \in 0 .. Len(In) /\ Reached
        /\ inq' = [inq EXCEPT ![File] = SubSeq(In, k + 1, Len(In))]
    BY <2>1 DEF Takes
  <2>3. File \in Ports /\ In \in Seq(Bytes)
    BY <2>2 DEF Reached, In, InputType, Bytes
  <2>4. Len(SubSeq(In, k + 1, Len(In))) \in 0 .. Len(In)
    BY <2>2, <2>3
  <2> QED
    BY ONLY <1>1, <2>2, <2>3, <2>4 DEF In
<1>4. CASE EmptiesInput(t)
  BY <1>1, <1>4 DEF EmptiesInput
<1> QED
  BY <1>2, <1>3, <1>4, InputEffect DEF InputChange

LEMMA SystemNext ==
  ASSUME CallInv, RequestInv, InputInv, SystemInv, [Next]_allVars
  PROVE  SystemInv'
<1> USE DEF SystemInv
<1>1. \A p \in Ports : Len(inq[p]) \in Nat
  BY DEF InputInv, QueueInv, InputType
<1>2. ASSUME NEW t \in Threads, Step(t)
      PROVE  SystemInv'
  <2>1. UNCHANGED coming
    BY <1>2, StepCases
  <2>2. CASE Enter(t) \/ Lock(t) \/ Leaves(t) \/ ReadsMore(t) \/ SetPort(t)
    BY <2>1, <2>2, MoreToRead, SetPortStep DEF Enter, Lock, Leaves, Leave, ReadsMore, queues, system
  <2>3. CASE CodeOf(t)
    <3>1. failed' \subseteq Failures /\ signals' \subseteq Lines
      BY <2>3, CodeFailures, CodeSignals
    <3>2. UNCHANGED hungup
      BY <2>3, InputEffect DEF InputChange
    <3>3. ASSUME NEW p \in Ports
          PROVE  Len(inq'[p]) + coming <= MaxIn
      <4>1. Len(inq'[p]) \in 0 .. Len(inq[p])
        BY <2>3, CodeInput
      <4> QED
        BY ONLY <1>1, <4>1, SystemInv, JobAssumption
    <3> QED
      BY <2>1, <3>1, <3>2, <3>3
  <2> QED
    BY <1>2, <2>2, <2>3, StepCases
<1>3. ASSUME NEW p \in Ports, Arrive(p)
      PROVE  SystemInv'
  <2>1. /\ inq[p] \in Seq(Bytes) /\ DOMAIN inq = Ports /\ coming > 0 /\ coming' = coming - 1
        /\ inq' = [inq EXCEPT ![p] = Append(inq[p], <<p, arrived'[p]>>)]
        /\ UNCHANGED <<failed, hungup, signals>>
    BY <1>3 DEF Arrive, system, InputInv, QueueInv, InputType, Bytes
  <2>2. <<p, arrived'[p]>> \in Bytes
    BY <1>3 DEF Arrive, InputInv, QueueInv, Bytes
  <2>3. Len(inq'[p]) = Len(inq[p]) + 1 /\ \A q \in Ports \ {p} : inq'[q] = inq[q]
    BY ONLY <2>1, <2>2
  <2>4. coming' \in 0 .. MaxIn /\ \A q \in Ports : Len(inq'[q]) + coming' <= MaxIn
    BY ONLY <1>1, <2>1, <2>3, SystemInv, JobAssumption
  <2> QED
    BY ONLY <2>1, <2>4, SystemInv
<1>4. CASE \E p \in Ports : Drain(p)
  BY <1>4 DEF Drain, system
<1>5. CASE Hangup \/ OtherFile \/ Tick
  BY <1>5 DEF Hangup, OtherFile, Tick, Fails, Failures, queues, system
<1>6. CASE LineChange
  BY <1>6 DEF LineChange, Switched, Lines, queues
<1>7. CASE UNCHANGED allVars
  BY <1>7 DEF allVars, vars, queues, system
<1> QED
  BY <1>2, <1>3, <1>4, <1>5, <1>6, <1>7, NextCases DEF Surroundings

LEMMA KindsInvariant == Spec => [](AttributesInv /\ SystemInv)
<1>1. ASSUME Init
      PROVE  SystemInv
  <2>1. PICK j \in Jobs : coming = j.bytes
    BY <1>1 DEF Init
  <2>2. coming \in 0 .. MaxIn /\ MaxIn \in Nat
    BY <2>1, JobAssumption
  <2>3. /\ failed = {} /\ hungup = FALSE /\ signals = {}
        /\ \A p \in Ports : inq[p] = <<>> /\ Len(inq[p]) = 0
    BY <1>1 DEF Init
  <2> QED
    <3>1. \A p \in Ports : Len(inq[p]) + coming <= MaxIn
      BY ONLY <2>2, <2>3
    <3> QED
      BY ONLY <2>2, <2>3, <3>1 DEF SystemInv
<1>2. PortInv /\ TimeInv /\ InputInv /\ AttributesInv /\ SystemInv /\ [Next]_allVars
        => AttributesInv' /\ SystemInv'
  BY AttributesNext, SystemNext DEF PortInv, TimeInv
<1> QED
  BY <1>1, <1>2, AttributesInit, PortInvariant, TimeInvariant, InputInvariant, PTL DEF Spec

(* Every variable of the port keeps its kind: among them, a read never     *)
(* takes more than it was asked for, a write never counts more than it has,*)
(* a timer has at most one unit below zero, and the queues keep within     *)
(* their room (unix.cc and win.cc throughout).                              *)
THEOREM SerialTypeCorrect == Spec => []TypeOK
<1>1. ASSUME PortInv, TimeInv, InputInv, OutputInv, AttributesInv, SystemInv
      PROVE  TypeOK
  <2>1. platform \in {"unix", "win"} /\ (platform = "unix" => \A p \in Ports : terminal[p] \in Attributes)
    BY <1>1 DEF AttributesInv
  <2>2. /\ port \in Ports \cup {NoPort} /\ fd \in Fds \cup {NoFd} /\ is_open \in BOOLEAN
        /\ files \in [Fds -> Ports \cup {"free", "other"}]
    BY <1>1 DEF PortInv, DescriptorType
  <2>3. settings \in Settings /\ timeout \in Timeouts
    BY <1>1 DEF TimeInv, ValuesInv
  <2>4. read_mutex \in Threads \cup {Nobody} /\ write_mutex \in Threads \cup {Nobody}
    BY <1>1 DEF PortInv, LocksHeld
  <2>5. ASSUME NEW t \in Threads
        PROVE  /\ call[t].at \in CallSteps
               /\ call[t].op = "none" <=> At(t, "idle")
               /\ Op(t) \in Reads => Missing(t) >= 0
               /\ Op(t) = "write" => call[t].done \in 0 .. call[t].n
               /\ call[t].wait >= Forever /\ call[t].left >= -1
    <3>1. call[t].at \in CallSteps /\ (call[t].op = "none" <=> At(t, "idle"))
      BY <1>1 DEF PortInv, CallInv, LegalStep, At
    <3>2. Op(t) \in Reads => Missing(t) >= 0
      <4>1. RequestInv /\ ReadInv(t)
        BY <1>1 DEF TimeInv, InputInv
      <4>2. Op(t) \in Reads => ReadSize(t) \in Nat
        BY <4>1, SizeOfRead
      <4>3. Len(call[t].got) \in Nat /\ (Op(t) \in Reads => Len(call[t].got) <= ReadSize(t))
        BY <4>1 DEF ReadInv
      <4> QED
        BY <4>2, <4>3 DEF Missing
    <3>3. Op(t) = "write" => call[t].done \in 0 .. call[t].n
      <4>1. RequestInv /\ Sent(t)
        BY <1>1 DEF TimeInv, OutputInv
      <4>2. Op(t) = "write" => call[t].n \in Nat
        BY <4>1, RequestArgument
      <4> QED
        BY <4>1, <4>2 DEF Sent
    <3>4. call[t].wait >= Forever /\ call[t].left >= -1
      BY <1>1 DEF TimeInv, ValuesInv, Timers
    <3> QED
      BY <3>1, <3>2, <3>3, <3>4
  <2>6. \A p \in Ports : Len(inq[p]) <= MaxIn /\ Len(outq[p]) <= OutRoom
    <3>1. \A p \in Ports : Len(inq[p]) \in Nat
      BY <1>1 DEF InputInv, QueueInv, InputType
    <3> QED
      BY <1>1, <3>1, JobAssumption DEF SystemInv, OutputInv, OutType
  <2>7. /\ coming \in 0 .. MaxIn /\ failed \subseteq Failures /\ hungup \in BOOLEAN
        /\ signals \subseteq {"RTS", "DTR", "BRK", "CTS"}
    BY <1>1 DEF SystemInv, Lines
  <2> QED
    BY ONLY <2>1, <2>2, <2>3, <2>4, <2>5, <2>6, <2>7 DEF TypeOK
<1> QED
  BY <1>1, PortInvariant, TimeInvariant, InputInvariant, OutputInvariant, KindsInvariant, PTL
-----------------------------------------------------------------------------
(* The settings.  The methods that configure the port take no lock, or in  *)
(* setPort's case one that the others do not; they are for one thread.     *)
Configures == {"set", "setTimeout", "setPort"}

OneConfigures(m) ==
  \A j \in Jobs : \A t \in Threads \ {m} : \A i \in DOMAIN j.script[t] :
    j.script[t][i].op \notin Configures

OthersUse(m) ==
  \A t \in Threads \ {m} :
    Op(t) \notin Configures /\ \A i \in DOMAIN script[t] : script[t][i].op \notin Configures

LEMMA OthersInit ==
  ASSUME NEW m \in Threads, OneConfigures(m), Init
  PROVE  OthersUse(m)
<1>1. \A t \in Threads : call[t] = Idle
  BY DEF Init
<1>2. PICK j \in Jobs : script = j.script
  BY DEF Init
<1>3. \A t \in Threads : Op(t) \notin Configures
  BY <1>1 DEF Op, Idle, Configures
<1> QED
  BY <1>2, <1>3 DEF OneConfigures, OthersUse

LEMMA OthersNext ==
  ASSUME NEW m \in Threads, CallInv, OthersUse(m), [Next]_allVars
  PROVE  OthersUse(m)'
<1>0. \A u \in Threads \ {m} : call[u].op \notin Configures
                              /\ \A i \in DOMAIN script[u] : script[u][i].op \notin Configures
  BY DEF OthersUse, Op
<1> USE DEF OthersUse, Op
<1>1. ASSUME NEW t \in Threads, Step(t)
      PROVE  OthersUse(m)'
  <2>1. CASE Enter(t)
    <3>0. script[t] # <<>> /\ script[t] \in Seq(Requests)
      BY <2>1 DEF Enter, CallInv, Scripts
    <3>1. /\ call'[t].op = Head(script[t]).op /\ script'[t] = Tail(script[t])
          /\ \A u \in Threads \ {t} : script'[u] = script[u] /\ call'[u] = call[u]
      BY ONLY <2>1, CallInv, EnterStep, t \in Threads DEF OthersStay
    <3>2. /\ Head(script[t]) = script[t][1] /\ 1 \in DOMAIN script[t]
          /\ \A i \in DOMAIN Tail(script[t]) : i + 1 \in DOMAIN script[t] /\ Tail(script[t])[i] = script[t][i + 1]
      BY ONLY <3>0
    <3>3. ASSUME NEW u \in Threads \ {m}
          PROVE  /\ call'[u].op \notin Configures
                 /\ \A i \in DOMAIN script'[u] : script'[u][i].op \notin Configures
      <4>1. CASE u # t
        BY ONLY <1>0, <3>1, <4>1
      <4>2. CASE u = t
        <5>1. \A i \in DOMAIN script[t] : script[t][i].op \notin Configures
          BY ONLY <1>0, <4>2
        <5>2. \A i \in DOMAIN Tail(script[t]) : Tail(script[t])[i].op \notin Configures
          BY ONLY <3>2, <5>1
        <5>3. Head(script[t]).op \notin Configures
          BY ONLY <3>2, <5>1
        <5> QED
          BY ONLY <3>1, <4>2, <5>2, <5>3
      <4> QED
        BY <4>1, <4>2
    <3> QED
      BY <3>3
  <2>2. CASE Leaves(t)
    BY <2>2, LeaveStep DEF Leaves, OthersStay, Idle, Configures
  <2>3. CASE Lock(t) \/ ReadsMore(t) \/ SetPort(t) \/ CodeOf(t)
    <3>1. /\ call'[t].op = call[t].op /\ UNCHANGED script
          /\ \A u \in Threads \ {t} : call'[u] = call[u]
      BY <2>3, LockStep, MoreToRead, SetPortStep, CodeOfStep DEF ReadsMore, OthersStay, CodeStep, Op
    <3> QED
      BY <3>1
  <2> QED
    BY <1>1, <2>1, <2>2, <2>3, StepCases
<1>2. CASE Surroundings
  BY <1>2, SurroundingsStep DEF Surroundings
<1>3. CASE UNCHANGED allVars
  BY <1>3 DEF allVars, vars
<1> QED
  BY <1>1, <1>2, <1>3, NextCases

(* At most one call configures the port at a time.                          *)
LEMMA OneAtATime ==
  ASSUME NEW m \in Threads, CallInv, AloneInv, OthersUse(m),
         NEW t \in Threads, NEW u \in Threads, Configuring(t) \/ Op(t) \in Configures, Configuring(u)
  PROVE  t = u
<1>1. LegalStep(call[t]) /\ LegalStep(call[u])
  BY DEF CallInv
<1>2. Op(t) \in Configures \cup Exclusive /\ Op(u) \in Configures \cup Exclusive
  BY <1>1 DEF LegalStep, Configuring, Configures, Exclusive, Op
<1>3. Op(t) \in Configures /\ Op(u) \in Configures => t = m /\ u = m
  BY DEF OthersUse
<1>4. ~At(t, "idle") /\ ~At(u, "idle")
  BY <1>1, <1>2 DEF LegalStep, At, Op, Configures, Exclusive
<1> QED
  BY <1>2, <1>3, <1>4 DEF AloneInv, Alone

(* Settings that would take effect on the attributes they have led to have *)
(* taken effect.                                                            *)
LEMMA FrameAsAsked ==
  ASSUME NEW s \in Settings, NEW o \in Attributes, TakesEffect(s, Reconfigured(s, o))
  PROVE  Frame(Reconfigured(s, o)) = AskedFrame(s)
<1> DEFINE r == Reconfigured(s, o)
           before == Switched(o.cflag \cup {"CLOCAL", "CREAD"}, {"CSTOPB"}, s.stopbits # "one")
<1>1. /\ s.baudrate \in StandardRates => r.custom = o.custom
      /\ r.cflag = Switched(ParityFlags(s, before), {"CRTSCTS"}, s.flowcontrol = "hardware")
  BY Fields
<1>2. TakesEffect(s, r)
  OBVIOUS
<1> HIDE DEF r
<1>3. "CMSPAR" \in o.cflag => "CMSPAR" \in before
  BY DEF Switched
<1>4. s.parity \in {"odd", "even"} /\ "CMSPAR" \in before => "CMSPAR" \in ParityFlags(s, before)
  <2> HIDE DEF before
  <2> QED
    BY DEF ParityFlags
<1>5. "CMSPAR" \in ParityFlags(s, before) => "CMSPAR" \in r.cflag
  BY <1>1 DEF Switched
<1>6. TakesEffect(s, o)
  BY <1>1, <1>2, <1>3, <1>4, <1>5 DEF TakesEffect
<1> QED
  BY <1>6, SettingsTakeEffect

(* Between the store of new settings and the end of reconfigurePort, and   *)
(* between ::close and the end of close, the line may differ from the      *)
(* object; the attributes that are on their way are those of the settings. *)
Late == {"config", "apply", "closed"}
Harmless == failed \subseteq {"interrupt", "hangup"}

EffectInv ==
  Harmless =>
    /\ is_open /\ (\A t \in Threads : call[t].at \notin Late) => InEffect
    /\ \A t \in Threads : call[t].at \in {"config", "apply"} => is_open \/ call[t].phase = "opening"
    /\ \A t \in Threads : At(t, "apply") =>
         \E o \in Attributes : call[t].attrs = Reconfigured(settings, o)

LEMMA EffectKept ==
  ASSUME EffectInv, UNCHANGED <<platform, fd, is_open, settings, files, terminal>>,
         failed \subseteq failed',
         \A t \in Threads :
           \/ /\ call'[t].at = call[t].at /\ call'[t].phase = call[t].phase
              /\ call'[t].attrs = call[t].attrs
           \/ call[t].at \notin Late /\ call'[t].at \notin Late
  PROVE  EffectInv'
<1>1. Harmless' => Harmless
  BY DEF Harmless
<1>2. InEffect' = InEffect
  BY DEF InEffect, File
<1>3. \A t \in Threads : call'[t].at \notin Late <=> call[t].at \notin Late
  OBVIOUS
<1>4. \A t \in Threads : call'[t].at \in Late =>
        /\ call'[t].at = call[t].at /\ call'[t].phase = call[t].phase /\ call'[t].attrs = call[t].attrs
  OBVIOUS
<1> QED
  BY <1>1, <1>2, <1>3, <1>4 DEF EffectInv, Late, At

(* Only a setter sets.                                                      *)
LEMMA CodeSettings ==
  ASSUME NEW t \in Threads, CodeOf(t), ~USet(t)
  PROVE  UNCHANGED settings
<1> USE DEF system, still, sameObject, object
<1>1. CASE UnixStep(t)
  BY ONLY <1>1, ~USet(t)
     DEF UnixStep, UOpen, UConfig, UApply, UClose, UClosed, SetTimeout, UReadStart, UPrefill,
         UReadLoop, UWaitReadableStart, UWaitReadable, UReady, UWaitByteTimesStart, UWaitByteTimes,
         UTake, UWriteStart, UWriteLoop, UWriteSelect, UPut, UNotOpen, UDrainStart, UDrain,
         UDiscard, USignalStart, UIoctl, UWaitForChange, BadDescriptor
<1>2. CASE WinStep(t)
  BY ONLY <1>2, ~USet(t)
     DEF WinStep, WOpen, WConfig, WClose, SetTimeout, UNotOpen, UDiscard, WReadStart,
         WReadFile, WWriteStart, WWriteFile, WFlush, WUnsupported, WSignal, WWaitForChange, WBadHandle
<1> QED
  BY <1>1, <1>2 DEF CodeOf

(* Only a setter leaves its body for reconfigurePort.                       *)
LEMMA StartsConfig ==
  ASSUME CallInv, NEW t \in Threads, CodeOf(t), call[t].at \notin OpensOrCloses, call'[t].at = "config"
  PROVE  USet(t) \/ SetTimeout(t)
<1>1. ASSUME NEW s \in CallSteps \ {"config"}, Go(t, [at |-> s])
      PROVE  FALSE
  BY <1>1 DEF CallInv, CallShape, CallFields, Go, Updated
<1>2. ASSUME NEW s \in CallSteps \ {"config"}, NEW x, Go(t, [at |-> s, wait |-> x]) \/ Go(t, [at |-> s, left |-> x])
                  \/ Go(t, [at |-> s, done |-> x])
      PROVE  FALSE
  BY <1>2 DEF CallInv, CallShape, CallFields, Go, Updated
<1>3. ASSUME NEW s \in CallSteps \ {"config"}, NEW x, NEW y,
             \/ Go(t, [at |-> s, left |-> x, first |-> y]) \/ Go(t, [at |-> s, first |-> y, wait |-> x])
             \/ Go(t, [at |-> s, got |-> x, wait |-> y])
      PROVE  FALSE
  BY <1>3 DEF CallInv, CallShape, CallFields, Go, Updated
<1>4. \A reason : ~Raise(t, reason)
  BY DEF CallInv, CallShape, CallFields, Go, Updated, Raise
<1>5. ~(UOpen(t) \/ UConfig(t) \/ UApply(t) \/ UClose(t) \/ UClosed(t) \/ WOpen(t) \/ WConfig(t) \/ WClose(t))
  BY DEF UOpen, UConfig, UApply, UClose, UClosed, WOpen, WConfig, WClose, At, OpensOrCloses
<1>6. ~WReadFile(t) /\ ~WWriteFile(t)
  BY <1>1, <1>4 DEF WReadFile, WWriteFile, At, CallInv, CallShape, CallFields, Go, Updated, Return, CallSteps
<1>7. ~UReadStart(t) /\ ~UReadLoop(t) /\ ~UWaitReadableStart(t) /\ ~WReadStart(t)
  BY ONLY <1>1, <1>2, <1>4 DEF UReadStart, UReadLoop, UWaitReadableStart, WReadStart, Return, CallSteps
<1>8. ~UPrefill(t) /\ ~UTake(t)
  BY ONLY <1>1, <1>3, <1>4 DEF UPrefill, UTake, TakeIn, CallSteps
<1>9. ~UWaitReadable(t)
  BY ONLY <1>1, <1>2 DEF UWaitReadable, AfterSelect, CallSteps
<1>10. ~UReady(t) /\ ~UWaitByteTimesStart(t) /\ ~UWaitByteTimes(t)
  BY ONLY <1>1, <1>4 DEF UReady, UWaitByteTimesStart, UWaitByteTimes, CallSteps
<1>11. ~UWriteStart(t) /\ ~UWriteLoop(t) /\ ~WWriteStart(t)
  BY ONLY <1>1, <1>2, <1>3, <1>4 DEF UWriteStart, UWriteLoop, WWriteStart, Return, CallSteps
<1>12. ~UWriteSelect(t) /\ ~UPut(t)
  BY ONLY <1>1, <1>2, <1>4 DEF UWriteSelect, UPut, Return, CallSteps
<1>13. ~UNotOpen(t) /\ ~UDrainStart(t) /\ ~UDrain(t) /\ ~UDiscard(t) /\ ~WFlush(t)
  BY ONLY <1>1, <1>4 DEF UNotOpen, UDrainStart, UDrain, UDiscard, WFlush, Return, CallSteps
<1>14. ~USignalStart(t) /\ ~UIoctl(t) /\ ~UWaitForChange(t) /\ ~BadDescriptor(t)
  BY ONLY <1>1, <1>4 DEF USignalStart, UIoctl, UWaitForChange, BadDescriptor, Return, CallSteps
<1>15. ~WUnsupported(t) /\ ~WSignal(t) /\ ~WWaitForChange(t) /\ ~WBadHandle(t)
  BY ONLY <1>1, <1>4 DEF WUnsupported, WSignal, WWaitForChange, WBadHandle, Return, CallSteps
<1> QED
  BY ONLY <1>5, <1>6, <1>7, <1>8, <1>9, <1>10, <1>11, <1>12, <1>13, <1>14, <1>15, CodeOf(t)
     DEF CodeOf, UnixStep, WinStep

(* A call that configures the port finds its file.                          *)
LEMMA ConfiguresOwnFile ==
  ASSUME NEW m \in Threads, PortInv, EffectInv, OthersUse(m), Harmless,
         NEW t \in Threads, call[t].at \in {"config", "apply"}
  PROVE  OwnFile /\ Reached /\ fd \in Fds /\ File \in Ports
<1>1. NoDeadHandle
  BY DEF Harmless, NoDeadHandle
<1>2. is_open \/ Opening(t)
  BY DEF EffectInv, Opening
<1>3. \A u \in Threads : ~At(u, "closed")
  BY OneAtATime DEF PortInv, Configuring, At
<1>4. OwnFile
  BY <1>1, <1>2, <1>3 DEF PortInv, DescriptorInv
<1> QED
  BY <1>4, SerialAssumption DEF OwnFile, Reached, File

LEMMA EffectConfig ==
  ASSUME NEW m \in Threads, PortInv, TimeInv, AttributesInv, EffectInv, OthersUse(m),
         NEW t \in Threads, CodeOf(t), At(t, "config")
  PROVE  EffectInv'
<1> SUFFICES ASSUME Harmless'
             PROVE  /\ is_open' /\ (\A u \in Threads : call'[u].at \notin Late) => InEffect'
                    /\ \A u \in Threads : call'[u].at \in {"config", "apply"} =>
                         is_open' \/ call'[u].phase = "opening"
                    /\ \A u \in Threads : call'[u].at = "apply" =>
                         \E o \in Attributes : call'[u].attrs = Reconfigured(settings', o)
  BY DEF EffectInv, At
<1>0. CallInv
  BY DEF PortInv
<1>1. "attributes" \notin failed' /\ "settings" \notin failed' /\ failed \subseteq failed'
  BY <1>0, ConfigEffect DEF Harmless
<1>2. Harmless
  BY <1>1 DEF Harmless
<1>3. Reached /\ File \in Ports
  BY <1>2, ConfiguresOwnFile DEF At
<1>4. \A u \in Threads \ {t} : call'[u] = call[u] /\ call[u].at \notin {"config", "apply"}
  <2>1. \A u \in Threads \ {t} : call'[u] = call[u]
    BY <1>0, CodeOfStep DEF CodeStep
  <2>2. Configuring(t)
    BY DEF Configuring, At
  <2> QED
    BY <2>1, <2>2, OneAtATime DEF PortInv, Configuring
<1>5. UNCHANGED <<platform, settings>>
  <2>1. ~USet(t)
    BY DEF USet, Doing, At
  <2> QED
    BY <1>0, <2>1, CodeSettings, CodeOfStep DEF CodeStep
<1>6. UNCHANGED <<fd, files>>
  BY <1>0, <1>1, ConfigEffect
<1>7. CASE /\ platform = "win" /\ call'[t].at = "returned"
           /\ terminal' = [terminal EXCEPT ![File] = Dcb(settings)]
  <2>1. terminal'[File] = Dcb(settings)
    BY <1>3, <1>7 DEF AttributesInv
  <2>2. InEffect'
    BY <1>5, <1>6, <1>7, <2>1 DEF InEffect, File
  <2> QED
    BY <1>4, <1>7, <2>2
<1>8. CASE /\ platform = "unix" /\ call'[t].at = "apply"
           /\ call'[t].attrs = Reconfigured(settings, terminal[File])
  <2>1. terminal[File] \in Attributes
    BY <1>3, <1>8 DEF AttributesInv
  <2>2. is_open' \/ call'[t].phase = "opening"
    <3>1. UNCHANGED is_open /\ call'[t].phase = call[t].phase
      BY <1>0, <1>8, ConfigEffect
    <3> QED
      BY <1>2, <3>1 DEF EffectInv, At
  <2> QED
    BY <1>4, <1>5, <1>8, <2>1, <2>2 DEF Late
<1> QED
  BY <1>0, <1>1, <1>3, <1>7, <1>8, ConfigSets

LEMMA EffectApply ==
  ASSUME NEW m \in Threads, PortInv, TimeInv, AttributesInv, EffectInv, OthersUse(m),
         NEW t \in Threads, CodeOf(t), At(t, "apply")
  PROVE  EffectInv'
<1> SUFFICES ASSUME Harmless'
             PROVE  /\ InEffect'
                    /\ \A u \in Threads : call'[u].at \notin {"config", "apply"}
  BY DEF EffectInv, At
<1>0. CallInv
  BY DEF PortInv
<1>1. "settings" \notin failed' /\ failed \subseteq failed' /\ UNCHANGED <<fd, files>>
  BY <1>0, ApplyEffect DEF Harmless
<1>2. Harmless
  BY <1>1 DEF Harmless
<1>3. Reached /\ File \in Ports
  BY <1>2, ConfiguresOwnFile DEF At
<1>4. \A u \in Threads \ {t} : call'[u] = call[u] /\ call[u].at \notin {"config", "apply"}
  <2>1. \A u \in Threads \ {t} : call'[u] = call[u]
    BY <1>0, CodeOfStep DEF CodeStep
  <2>2. Configuring(t)
    BY DEF Configuring, At
  <2> QED
    BY <2>1, <2>2, OneAtATime DEF PortInv, Configuring
<1>5. UNCHANGED <<platform, settings>>
  <2>1. ~USet(t)
    BY DEF USet, Doing, At
  <2> QED
    BY <1>0, <2>1, CodeSettings, CodeOfStep DEF CodeStep
<1>6. PICK o \in Attributes : call[t].attrs = Reconfigured(settings, o)
  BY <1>2 DEF EffectInv
<1>7. /\ platform = "unix" /\ call'[t].at = "returned"
      /\ terminal' = [terminal EXCEPT ![File] = Reconfigured(settings, o)]
  BY <1>0, <1>1, <1>3, <1>6, ApplySets
<1>8. terminal'[File] = Reconfigured(settings, o)
  BY <1>3, <1>7 DEF AttributesInv
<1>9. TakesEffect(settings, Reconfigured(settings, o)) =>
        Frame(Reconfigured(settings, o)) = AskedFrame(settings)
  BY FrameAsAsked DEF TimeInv, ValuesInv
<1>10. InEffect'
  <2>1. File' = File
    BY <1>1 DEF File
  <2> QED
    BY ONLY <1>5, <1>7, <1>8, <1>9, <2>1 DEF InEffect
<1> QED
  BY <1>4, <1>7, <1>10

LEMMA EffectCode ==
  ASSUME NEW m \in Threads, PortInv, TimeInv, AttributesInv, EffectInv, OthersUse(m),
         NEW t \in Threads, CodeOf(t)
  PROVE  EffectInv'
<1>0. CallInv
  BY DEF PortInv
<1>1. UNCHANGED platform /\ \A u \in Threads \ {t} : call'[u] = call[u]
  BY <1>0, CodeOfStep DEF CodeStep
<1>2. At(t, "config") \/ At(t, "apply") \/ KeepsTerminals(t)
  BY <1>0, OnlyConfigSets DEF At
<1>3. CASE call[t].at \notin OpensOrCloses
  <2>1. UNCHANGED <<fd, is_open, files>> /\ failed \subseteq failed' /\ call'[t].at \notin {"apply", "closed"}
    BY <1>0, <1>3, UsesPort
  <2>2. UNCHANGED terminal
    BY <1>2, <1>3 DEF KeepsTerminals, OpensOrCloses, At
  <2>3. call[t].at \notin Late
    BY <1>3 DEF OpensOrCloses, Late
  <2>4. CASE ~USet(t) /\ call'[t].at # "config"
    <3>1. call'[t].at \notin Late
      BY <2>1, <2>4 DEF Late
    <3> QED
      BY <1>1, <2>1, <2>2, <2>3, <2>4, <3>1, CodeSettings, EffectKept
  <2>5. CASE USet(t) \/ call'[t].at = "config"
    <3>1. USet(t) \/ SetTimeout(t)
      BY <1>0, <1>3, <2>5, StartsConfig
    <3>2. /\ Op(t) \in Configures
          /\ call'[t].at = IF is_open /\ (USet(t) \/ platform = "win") THEN "config" ELSE "returned"
      <4>1. CASE USet(t)
        BY <1>0, <4>1 DEF USet, Doing, Configures, CallInv, CallShape, CallFields, Go, Updated
      <4>2. CASE SetTimeout(t) /\ ~USet(t)
        BY <1>0, <4>2 DEF SetTimeout, Doing, Configures, CallInv, CallShape, CallFields, Go, Updated
      <4> QED
        BY <3>1, <4>1, <4>2
    <3>3. \A u \in Threads : call[u].at \notin {"config", "apply"}
      <4>1. call[t].at \notin {"config", "apply"}
        BY <2>3 DEF Late
      <4> QED
        BY <3>2, <4>1, OneAtATime DEF PortInv, Configuring
    <3>4. is_open => call'[t].at = "config"
      BY <2>5, <3>2
    <3> QED
      BY ONLY <1>1, <2>1, <3>2, <3>3, <3>4 DEF EffectInv, Late, At
  <2> QED
    BY <2>4, <2>5
<1>4. CASE At(t, "open") \/ At(t, "close") \/ At(t, "closed")
  <2>1. UNCHANGED <<terminal, settings>>
    <3>1. ~USet(t)
      BY <1>4 DEF USet, Doing, At
    <3> QED
      BY <1>2, <1>4, <3>1, CodeSettings DEF KeepsTerminals, At
  <2>2. \A u \in Threads \ {t} : call'[u] = call[u] /\ call[u].at \notin {"config", "apply"}
    <3>1. Configuring(t)
      BY <1>4 DEF Configuring, At
    <3> QED
      BY <1>1, <3>1, OneAtATime DEF PortInv, Configuring
  <2>3. call'[t].at # "apply"
    BY <1>2, <1>4 DEF KeepsTerminals, At
  <2>4. ASSUME ~is_open', call'[t].at # "config"
        PROVE  EffectInv'
    BY ONLY <1>1, <2>2, <2>3, <2>4 DEF EffectInv, At
  <2>5. ASSUME UNCHANGED <<fd, is_open, files>>, failed \subseteq failed', call[t].at \notin Late,
               call'[t].at \notin Late
        PROVE  EffectInv'
    BY <1>1, <2>1, <2>5, EffectKept
  <2>6. CASE At(t, "open")
    <3>1. LegalStep(call'[t]) /\ Op(t) \in {"open", "setPort"} /\ call'[t].op = call[t].op
      BY <1>0, <2>6, CodeOfStep DEF CodeStep, CallInv, LegalStep, Op, At
    <3>2. CASE call'[t].at = "config"
      <4>1. ~is_open /\ UNCHANGED is_open
        BY <1>0, <2>6, <3>2, OpenEffect
      <4>2. call'[t].phase = "opening"
        BY <3>1, <3>2 DEF LegalStep, Op
      <4> QED
        BY ONLY <1>1, <2>2, <2>3, <3>2, <4>1, <4>2 DEF EffectInv, At, Late
    <3>3. CASE call'[t].at # "config"
      <4>1. call'[t].at \notin Late /\ call[t].at \notin Late
        BY <1>0, <2>6, <3>3, OpenEffect DEF At, Late
      <4>2. UNCHANGED is_open /\ failed \subseteq failed' /\ (is_open => UNCHANGED <<fd, files>>)
        BY <1>0, <2>6, OpenEffect
      <4> QED
        BY <2>4, <2>5, <3>3, <4>1, <4>2
    <3> QED
      BY <3>2, <3>3
  <2>7. CASE At(t, "close")
    <3>1. call'[t].at \in {"returned", "raised", "closed"} /\ call[t].at \notin Late /\ failed \subseteq failed'
      BY <1>0, <2>7, CloseEffect DEF At, Late
    <3>2. CASE UNCHANGED <<fd, is_open, files>> /\ call'[t].at # "closed"
      BY <2>5, <3>1, <3>2 DEF Late
    <3>3. CASE call'[t].at = "closed"
      BY ONLY <1>1, <2>2, <3>3 DEF EffectInv, At, Late
    <3>4. CASE ~is_open'
      BY <2>4, <3>1, <3>4
    <3>5. CASE "close" \in failed'
      BY ONLY <3>5 DEF EffectInv, Harmless
    <3> QED
      BY <1>0, <2>7, <3>2, <3>3, <3>4, <3>5, CloseEffect
  <2>8. CASE At(t, "closed")
    BY <1>0, <2>4, <2>8, ClosedEffect
  <2> QED
    BY <1>4, <2>6, <2>7, <2>8
<1> QED
  BY <1>3, <1>4, EffectConfig, EffectApply DEF OpensOrCloses, At

LEMMA EffectNext ==
  ASSUME NEW m \in Threads, PortInv, TimeInv, AttributesInv, EffectInv, OthersUse(m), [Next]_allVars
  PROVE  EffectInv'
<1>0. CallInv
  BY DEF PortInv
<1>1. ASSUME NEW t \in Threads, Step(t)
      PROVE  EffectInv'
  <2>1. CASE CodeOf(t)
    BY <2>1, EffectCode
  <2>2. CASE Enter(t) \/ Lock(t) \/ Leaves(t) \/ ReadsMore(t) \/ SetPort(t)
    <3>1. UNCHANGED <<platform, fd, is_open, settings, files, terminal, failed>>
      BY <1>0, <2>2, MoreToRead, SetPortStep
         DEF Enter, Lock, Leaves, Leave, ReadsMore, object, system
    <3>2. OthersStay(t)
      BY <1>0, <2>2, EnterStep, LockStep, LeaveStep, MoreToRead, SetPortStep DEF Leaves, ReadsMore
    <3>3. call[t].at \notin Late
      <4>1. ~Enter(t) => call[t].at \in {"rlock", "wlock", "body", "returned", "raised"}
        BY <1>0, <2>2, SetPortStep DEF Lock, Leaves, ReadsMore, AfterRead, Doing, At
      <4> QED
        BY <4>1 DEF Enter, At, Late
    <3>4. call'[t].at \notin Late
      <4>1. CASE Enter(t)
        BY <1>0, <4>1, EnterStep DEF Ops, Exclusive, Late
      <4>2. CASE Lock(t)
        BY <1>0, <4>2, LockStep DEF Lock, At, Late
      <4>3. CASE Leaves(t)
        BY <1>0, <4>3, LeaveStep DEF Leaves, Idle, Late
      <4>4. CASE ReadsMore(t) \/ SetPort(t)
        BY <1>0, <4>4, MoreToRead, SetPortStep DEF ReadsMore, Late
      <4> QED
        BY <2>2, <4>1, <4>2, <4>3, <4>4
    <3> QED
      BY <3>1, <3>2, <3>3, <3>4, EffectKept DEF OthersStay
  <2> QED
    BY <1>1, <2>1, <2>2, StepCases
<1>2. CASE Surroundings
  <2>1. /\ UNCHANGED <<platform, fd, is_open, settings>>
        /\ \A u \in Threads :
             \/ /\ call'[u].at = call[u].at /\ call'[u].phase = call[u].phase
                /\ call'[u].attrs = call[u].attrs
             \/ call[u].at \notin Late /\ call'[u].at \notin Late
    BY <1>0, <1>2, SurroundingsStep DEF Surroundings, object, Late, At
  <2>2. UNCHANGED terminal /\ failed \subseteq failed'
    BY <1>2 DEF Surroundings, Arrive, Drain, Hangup, LineChange, OtherFile, Tick, Fails, system
  <2>3. CASE UNCHANGED files
    BY <2>1, <2>2, <2>3, EffectKept
  <2>4. CASE OtherFile
    <3>1. ~Reached /\ UNCHANGED <<call, failed>>
      BY <2>4 DEF OtherFile
    <3>2. Harmless => ~is_open \/ \E u \in Threads : At(u, "closed")
      BY <3>1 DEF PortInv, DescriptorInv, OwnFile, Harmless, NoDeadHandle
    <3>3. Harmless' = Harmless
      BY <3>1 DEF Harmless
    <3> QED
      BY ONLY <2>1, <3>1, <3>2, <3>3, EffectInv DEF EffectInv, At, Late
  <2> QED
    BY <1>2, <2>3, <2>4 DEF Surroundings, Arrive, Drain, Hangup, LineChange, Tick, system
<1>3. CASE UNCHANGED allVars
  <2>1. UNCHANGED <<platform, fd, is_open, settings, files, terminal, failed, call>>
    BY <1>3 DEF allVars, vars, object, system
  <2> QED
    BY <2>1, EffectKept
<1> QED
  BY <1>1, <1>2, <1>3, NextCases

LEMMA EffectInit ==
  ASSUME Init
  PROVE  EffectInv
<1>1. /\ is_open = (port # NoPort) /\ port \in Ports \cup {NoPort}
      /\ fd = (IF is_open THEN Min(Fds) ELSE NoFd)
      /\ files = [f \in Fds |-> IF f = fd THEN port ELSE "free"]
      /\ settings \in Settings /\ InitialTerminal \in Attributes
  BY JobAssumption DEF Init
<1>2. is_open => File = port /\ File \in Ports
  <2>1. Min(Fds) \in Fds
    BY LeastNatural, SerialAssumption
  <2> QED
    BY <1>1, <2>1 DEF File
<1>3. /\ platform \in {"unix", "win"}
      /\ terminal = [p \in Ports |->
           CASE platform = "unix" -> IF p = port THEN Reconfigured(settings, InitialTerminal)
                                     ELSE InitialTerminal
             [] platform = "win"  -> Dcb(settings)]
  BY DEF Init
<1>4. is_open => terminal[File] = IF platform = "unix" THEN Reconfigured(settings, InitialTerminal)
                                  ELSE Dcb(settings)
  BY ONLY <1>2, <1>3
<1>5. is_open => InEffect
  BY <1>1, <1>4, FrameAsAsked DEF InEffect
<1>6. \A t \in Threads : call[t].at = "idle"
  BY DEF Init, Idle
<1> QED
  BY ONLY <1>5, <1>6 DEF EffectInv, At

(* As long as one thread makes all the calls that configure the port, the  *)
(* line uses the settings of the object whenever none of them is under way,*)
(* on both platforms, through any sequence of setters, closes, opens and   *)
(* setPorts - except for the settings that unix.cc cannot put into effect  *)
(* and after a failed call (unix.cc 159-455, win.cc 94-275).                *)
THEOREM SettingsInEffectHolds ==
  ASSUME NEW m \in Threads, OneConfigures(m)
  PROVE  Spec => []SettingsInEffect
<1>1. Init => EffectInv /\ OthersUse(m)
  BY EffectInit, OthersInit
<1>2. PortInv /\ TimeInv /\ AttributesInv /\ EffectInv /\ OthersUse(m) /\ [Next]_allVars
        => EffectInv' /\ OthersUse(m)'
  BY EffectNext, OthersNext DEF PortInv
<1>3. EffectInv => SettingsInEffect
  BY DEF EffectInv, SettingsInEffect, Harmless, Configuring, Late
<1> QED
  BY <1>1, <1>2, <1>3, PortInvariant, TimeInvariant, KindsInvariant, PTL DEF Spec
=============================================================================
