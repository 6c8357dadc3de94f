------------------------ MODULE WebsocketPumpProofs ------------------------
(***************************************************************************)
(* A websocket pump implements Stream, for any scripts of the two sides and *)
(* any capacity of its channels: whatever fails, and however its goroutines *)
(* are scheduled and stopped, frames arrive in order, once, and without a   *)
(* gap unless chaos makes one.                                              *)
(***************************************************************************)
EXTENDS WebsocketPump, TLAPS

USE ConfigsAssumption, CapAssumption

IsData(d, i) == script[d][i] = "data"

(* The frame being written comes after the last one that was written ...    *)
WritingInv(d) ==
    writer[d] = "writing" => data[d] < writing[d] /\ IsData(d, writing[d])

(* ... those in the channel come after it, in the order of the script ...   *)
MessagesInv(d) ==
    \A i \in 1 .. Len(messages[d]) :
        /\ messages[d][i] \in data[d] + 1 .. received[d]
        /\ IsData(d, messages[d][i])
        /\ writer[d] = "writing" => writing[d] < messages[d][i]
        /\ \A k \in i + 1 .. Len(messages[d]) : messages[d][i] < messages[d][k]

(* ... and the one the reader holds comes last.                             *)
HeldInv(d) ==
    reader[d] = "sending" =>
        /\ data[d] < received[d]
        /\ IsData(d, received[d])
        /\ writer[d] = "writing" => writing[d] < received[d]
        /\ \A i \in 1 .. Len(messages[d]) : messages[d][i] < received[d]

(* A data frame that was read and not passed on is in one of these places,  *)
(* unless chaos has dropped it or a write has failed, and with it all later *)
(* ones.                                                                    *)
NoneLost(d) ==
    ~chaos /\ ~writeErr[Other(d)] =>
        \A j \in data[d] + 1 .. received[d] : IsData(d, j) =>
            \/ writer[d] = "writing" /\ writing[d] = j
            \/ \E i \in 1 .. Len(messages[d]) : messages[d][i] = j
            \/ reader[d] = "sending" /\ received[d] = j

(* A ping or a pong that was read has been passed on, or has ended reading. *)
ControlInv(d) ==
    reader[d] # "ended" =>
        \A j \in control[d] + 1 .. received[d] : ~S!Passed(script[d][j])

PathInv(d) ==
    /\ WritingInv(d)
    /\ MessagesInv(d)
    /\ HeldInv(d)
    /\ NoneLost(d)
    /\ ControlInv(d)

(* The counters of the frames are functions on the two sides.               *)
CountersInv ==
    /\ received \in [Sides -> Nat]
    /\ data \in [Sides -> Nat]
    /\ control \in [Sides -> Nat]
    /\ writing \in [Sides -> Nat]

Inv ==
    /\ TypeOK
    /\ CountersInv
    /\ \A d \in Sides : PathInv(d)

-----------------------------------------------------------------------------
(* Facts about the sides, the scripts and the channel.                      *)

LEMMA OtherSide == \A d \in Sides : Other(d) \in Sides /\ Other(d) # d
BY DEF Other, Sides

LEMMA ScriptType ==
    ASSUME TypeOK, NEW d \in Sides
    PROVE  script[d] \in Seq(Kinds) /\ Len(script[d]) \in Nat
BY DEF TypeOK

(* What a direction has at a side, as numbers: all of it is typed.          *)
LEMMA PathType ==
    ASSUME TypeOK, CountersInv, NEW d \in Sides
    PROVE  /\ received[d] \in Nat /\ data[d] \in Nat /\ control[d] \in Nat
           /\ writing[d] \in Nat
           /\ data[d] <= received[d] /\ control[d] <= received[d] /\ writing[d] <= received[d]
           /\ messages[d] \in Seq(Nat) /\ Len(messages[d]) \in Nat
           /\ \A i \in 1 .. Len(messages[d]) : messages[d][i] \in Nat
<1>1. messages[d] \in Seq(Nat)
  BY DEF TypeOK
<1>2. Len(messages[d]) \in Nat /\ \A i \in 1 .. Len(messages[d]) : messages[d][i] \in Nat
  BY <1>1
<1> QED BY <1>1, <1>2 DEF TypeOK, CountersInv

(* A step that leaves the frames of a direction where they are: the reader  *)
(* neither takes nor hands over one, nor does the writer.                   *)
SamePath(d) ==
    /\ UNCHANGED <<script, chaos, received[d], data[d], control[d], messages[d], writing[d]>>
    /\ reader[d] = "sending" <=> reader'[d] = "sending"
    /\ reader[d] = "ended" => reader'[d] = "ended"
    /\ writer[d] = "writing" <=> writer'[d] = "writing"
    /\ writeErr[Other(d)] => writeErr'[Other(d)]

LEMMA SamePathInv ==
    ASSUME NEW d \in Sides, PathInv(d), SamePath(d)
    PROVE  PathInv(d)'
<1> USE DEF PathInv, SamePath, IsData
<1>1. WritingInv(d)' /\ MessagesInv(d)' /\ HeldInv(d)'
  BY DEF WritingInv, MessagesInv, HeldInv
<1>2. NoneLost(d)'
  BY DEF NoneLost
<1>3. ControlInv(d)'
  BY DEF ControlInv, S!Passed
<1> QED BY <1>1, <1>2, <1>3


-----------------------------------------------------------------------------
(* Steps that move no frame.                                                *)

LEMMA VanishInv == ASSUME Inv, NEW d \in Sides, Vanish(d) PROVE Inv'
<1> USE DEF Inv, Vanish, configVars, pathVars, goVars, signalVars, pumpVars
<1>1. TypeOK'
  BY DEF TypeOK
<1>2. CountersInv'
  BY DEF CountersInv
<1>3. ASSUME NEW e \in Sides PROVE SamePath(e)
  BY DEF TypeOK, SamePath
<1> QED BY <1>1, <1>2, <1>3, SamePathInv

LEMMA ReadStartInv == ASSUME Inv, NEW d \in Sides, ReadStart(d) PROVE Inv'
<1> USE DEF Inv, ReadStart, ReadLoop, configVars, sockVars, pathVars, pumpVars
<1>1. TypeOK'
  BY DEF TypeOK
<1>2. CountersInv'
  BY DEF CountersInv
<1>3. ASSUME NEW e \in Sides PROVE SamePath(e)
  BY DEF TypeOK, SamePath
<1> QED BY <1>1, <1>2, <1>3, SamePathInv

LEMMA ReadErrorInv == ASSUME Inv, NEW d \in Sides, ReadError(d) PROVE Inv'
<1> USE DEF Inv, ReadError, notifyOnFailure, configVars, sockVars, pathVars, signalVars
<1>1. TypeOK'
  BY DEF TypeOK
<1>2. CountersInv'
  BY DEF CountersInv
<1>3. ASSUME NEW e \in Sides PROVE SamePath(e)
  BY DEF TypeOK, SamePath
<1> QED BY <1>1, <1>2, <1>3, SamePathInv

LEMMA WriterDoneInv == ASSUME Inv, NEW d \in Sides, WriterDone(d) PROVE Inv'
<1> USE DEF Inv, WriterDone, configVars, sockVars, pathVars, pumpVars
<1>1. TypeOK'
  BY DEF TypeOK
<1>2. CountersInv'
  BY DEF CountersInv
<1>3. ASSUME NEW e \in Sides PROVE SamePath(e)
  BY DEF TypeOK, SamePath
<1> QED BY <1>1, <1>2, <1>3, SamePathInv

LEMMA TerminateInv == ASSUME Inv, NEW d \in Sides, Terminate(d) PROVE Inv'
<1> USE DEF Inv, Terminate, configVars, sockVars, pathVars, pumpVars
<1>1. TypeOK'
  BY DEF TypeOK
<1>2. CountersInv'
  BY DEF CountersInv
<1>3. ASSUME NEW e \in Sides PROVE SamePath(e)
  BY DEF TypeOK, SamePath
<1> QED BY <1>1, <1>2, <1>3, SamePathInv

LEMMA ActivateInv == ASSUME Inv, Activate PROVE Inv'
<1> USE DEF Inv, Activate, configVars, sockVars, pathVars, goVars, signalVars
<1>1. TypeOK'
  <2>1. active' \in BOOLEAN
    BY Zenon
  <2> QED BY <2>1 DEF TypeOK
<1>2. CountersInv'
  BY DEF CountersInv
<1>3. ASSUME NEW e \in Sides PROVE SamePath(e)
  BY DEF TypeOK, SamePath
<1> QED BY <1>1, <1>2, <1>3, SamePathInv

LEMMA RunDoneInv == ASSUME Inv, RunDone PROVE Inv'
<1> USE DEF Inv, RunDone, configVars, sockVars, pathVars, goVars
<1>1. TypeOK'
  <2>1. active' \in BOOLEAN /\ done' \in BOOLEAN
    BY Zenon
  <2>2. failures' \in 0 .. 2 /\ doneDir' \in [Sides -> BOOLEAN]
    OBVIOUS
  <2> QED BY <2>1, <2>2 DEF TypeOK
<1>2. CountersInv'
  BY DEF CountersInv
<1>3. ASSUME NEW e \in Sides PROVE SamePath(e)
  BY DEF TypeOK, SamePath
<1> QED BY <1>1, <1>2, <1>3, SamePathInv

LEMMA RunFailedInv == ASSUME Inv, RunFailed PROVE Inv'
<1> USE DEF Inv, RunFailed, configVars, sockVars, pathVars, goVars, signalVars
<1>1. TypeOK'
  BY DEF TypeOK
<1>2. CountersInv'
  BY DEF CountersInv
<1>3. ASSUME NEW e \in Sides PROVE SamePath(e)
  BY DEF TypeOK, SamePath
<1> QED BY <1>1, <1>2, <1>3, SamePathInv

LEMMA CloseBothInv == ASSUME Inv, CloseBoth PROVE Inv'
<1> USE DEF Inv, CloseBoth, configVars, pathVars, goVars, signalVars
<1>1. TypeOK'
  BY DEF TypeOK
<1>2. CountersInv'
  BY DEF CountersInv
<1>3. ASSUME NEW e \in Sides PROVE SamePath(e)
  BY DEF TypeOK, SamePath
<1> QED BY <1>1, <1>2, <1>3, SamePathInv

LEMMA StopInv == ASSUME Inv, Stop PROVE Inv'
<1> USE DEF Inv, Stop, configVars, sockVars, pathVars, goVars, signalVars
<1>1. TypeOK'
  <2>1. done' \in BOOLEAN
    BY Zenon
  <2> QED BY <2>1 DEF TypeOK
<1>2. CountersInv'
  BY DEF CountersInv
<1>3. ASSUME NEW e \in Sides PROVE SamePath(e)
  BY DEF TypeOK, SamePath
<1> QED BY <1>1, <1>2, <1>3, SamePathInv

LEMMA StopCloseInv == ASSUME Inv, StopClose PROVE Inv'
<1> USE DEF Inv, StopClose, configVars, pathVars, goVars, signalVars
<1>1. TypeOK'
  BY DEF TypeOK
<1>2. CountersInv'
  BY DEF CountersInv
<1>3. ASSUME NEW e \in Sides PROVE SamePath(e)
  BY DEF TypeOK, SamePath
<1> QED BY <1>1, <1>2, <1>3, SamePathInv


-----------------------------------------------------------------------------
(* Steps that move a frame.                                                 *)

(* The counter of received frames stays within the script, and above the    *)
(* other counters.                                                          *)
LEMMA ReceivedGrows ==
    ASSUME TypeOK, CountersInv, NEW d \in Sides, Readable(d),
           received' = [received EXCEPT ![d] = @ + 1]
    PROVE  /\ received' \in [Sides -> Nat]
           /\ received'[d] = received[d] + 1
           /\ \A s \in Sides : received'[s] \in 0 .. Len(script[s])
           /\ \A s \in Sides : /\ data[s] \in 0 .. received'[s]
                               /\ control[s] \in 0 .. received'[s]
                               /\ writing[s] \in 0 .. received'[s]
<1>1. received' \in [Sides -> Nat] /\ received'[d] = received[d] + 1
  BY DEF CountersInv
<1>2. ASSUME NEW s \in Sides
      PROVE  received'[s] <= Len(script[s]) /\ received[s] <= received'[s]
  <2>1. received[s] \in Nat /\ Len(script[s]) \in Nat /\ received[s] <= Len(script[s])
    BY PathType, ScriptType DEF TypeOK
  <2>2. CASE s = d
    BY <1>1, <2>1, <2>2 DEF Readable
  <2>3. CASE s # d
    BY <2>1, <2>3 DEF CountersInv
  <2> QED BY <2>2, <2>3
<1>3. ASSUME NEW s \in Sides
      PROVE  /\ received'[s] \in 0 .. Len(script[s])
             /\ data[s] \in 0 .. received'[s]
             /\ control[s] \in 0 .. received'[s]
             /\ writing[s] \in 0 .. received'[s]
  BY <1>1, <1>2, PathType, ScriptType
<1> QED BY <1>1, <1>3

(* The frame that is read comes after all the others, and the reader holds  *)
(* it if it is data.                                                        *)
LEMMA ReadAnother ==
    ASSUME TypeOK, CountersInv, NEW d \in Sides, PathInv(d),
           UNCHANGED <<script, chaos, data, messages, writing, writer>>,
           received'[d] = received[d] + 1,
           reader[d] = "reading",
           reader'[d] = "sending" <=> IsData(d, received[d] + 1),
           writeErr[Other(d)] => writeErr'[Other(d)]
    PROVE  WritingInv(d)' /\ MessagesInv(d)' /\ HeldInv(d)' /\ NoneLost(d)'
<1>0. /\ received[d] \in Nat /\ data[d] \in Nat /\ writing[d] \in Nat
      /\ data[d] <= received[d] /\ writing[d] <= received[d]
      /\ \A i \in 1 .. Len(messages[d]) : messages[d][i] \in Nat
  BY PathType
<1>1. WritingInv(d)'
  BY <1>0 DEF PathInv, WritingInv, IsData
<1>2. ASSUME NEW i \in 1 .. Len(messages[d])
      PROVE  /\ messages[d][i] \in data[d] + 1 .. received[d]
             /\ IsData(d, messages[d][i])
             /\ writer[d] = "writing" => writing[d] < messages[d][i]
             /\ \A k \in i + 1 .. Len(messages[d]) : messages[d][i] < messages[d][k]
  BY DEF PathInv, MessagesInv
<1>3. \A i \in 1 .. Len(messages[d]) : messages[d][i] \in data[d] + 1 .. received'[d]
                                       /\ messages[d][i] < received'[d]
  BY <1>0, <1>2
<1>4. MessagesInv(d)'
  BY <1>2, <1>3 DEF MessagesInv, IsData
<1>5. HeldInv(d)'
  BY <1>0, <1>3 DEF HeldInv, IsData
<1>6. NoneLost(d)'
  <2> SUFFICES ASSUME ~chaos, ~writeErr'[Other(d)],
                      NEW j \in data[d] + 1 .. received'[d], IsData(d, j)
               PROVE  \/ writer[d] = "writing" /\ writing[d] = j
                      \/ \E i \in 1 .. Len(messages[d]) : messages[d][i] = j
                      \/ reader'[d] = "sending" /\ received'[d] = j
    BY DEF NoneLost, IsData
  <2>1. CASE j = received[d] + 1
    BY <2>1
  <2>2. CASE j # received[d] + 1
    <3>1. j \in data[d] + 1 .. received[d]
      BY <1>0, <2>2
    <3> QED BY <3>1 DEF PathInv, NoneLost
  <2> QED BY <2>1, <2>2
<1> QED BY <1>1, <1>4, <1>5, <1>6

LEMMA ReadDataInv == ASSUME Inv, NEW d \in Sides, ReadData(d) PROVE Inv'
<1> USE DEF ReadData, configVars, sockVars, signalVars, pumpVars
<1>0. TypeOK /\ CountersInv /\ PathInv(d)
  BY DEF Inv
<1>1. TypeOK'
  BY <1>0, ReceivedGrows DEF TypeOK
<1>2. CountersInv'
  BY <1>0, ReceivedGrows DEF CountersInv
<1>3. ASSUME NEW e \in Sides, e # d PROVE PathInv(e)'
  <2>1. SamePath(e)
    BY <1>0, <1>3 DEF TypeOK, CountersInv, SamePath
  <2> QED BY <2>1, SamePathInv DEF Inv
<1>4. PathInv(d)'
  <2>1. /\ received'[d] = received[d] + 1
        /\ reader[d] = "reading" /\ reader'[d] = "sending"
        /\ IsData(d, received[d] + 1)
    BY <1>0, ReceivedGrows DEF TypeOK, Readable, NextFrame, IsData
  <2>2. WritingInv(d)' /\ MessagesInv(d)' /\ HeldInv(d)' /\ NoneLost(d)'
    BY <1>0, <2>1, ReadAnother
  <2>3. ControlInv(d)'
    BY <1>0, <2>1, PathType DEF PathInv, ControlInv, IsData, S!Passed
  <2> QED BY <2>2, <2>3 DEF PathInv
<1> QED BY <1>1, <1>2, <1>3, <1>4 DEF Inv

(* A ping or a pong is no data; it is passed on at once, or ends reading.   *)
LEMMA ReadPingInv == ASSUME Inv, NEW d \in Sides, ReadPing(d) PROVE Inv'
<1>0. TypeOK /\ CountersInv /\ PathInv(d)
  BY DEF Inv
<1>1. writeErr' \in [Sides -> BOOLEAN] /\ \A s \in Sides : writeErr[s] => writeErr'[s]
  BY <1>0, OtherSide DEF ReadPing, TypeOK
<1>2. failures' \in 0 .. 2
  BY <1>0 DEF ReadPing, TypeOK, notifyOnFailure
<1>3. /\ received' \in [Sides -> Nat]
      /\ received'[d] = received[d] + 1
      /\ \A s \in Sides : received'[s] \in 0 .. Len(script[s])
      /\ \A s \in Sides : /\ data[s] \in 0 .. received'[s]
                          /\ control[s] \in 0 .. received'[s]
                          /\ writing[s] \in 0 .. received'[s]
  BY <1>0, ReceivedGrows DEF ReadPing
<1>4. \/ control' = [control EXCEPT ![d] = received'[d]] /\ reader' = reader
      \/ control' = control /\ reader' = [reader EXCEPT ![d] = "ended"]
  BY <1>3 DEF ReadPing
<1>5. CountersInv'
  <2>1. control' \in [Sides -> Nat]
    BY <1>0, <1>3, <1>4 DEF CountersInv
  <2> QED BY <1>0, <1>3, <2>1 DEF CountersInv, ReadPing
<1>6. TypeOK'
  <2>1. reader' \in [Sides -> {"starting", "reading", "sending", "ended"}]
    BY <1>0, <1>4 DEF TypeOK
  <2>2. ASSUME NEW s \in Sides PROVE control'[s] \in 0 .. received'[s]
    <3>1. control'[s] = control[s] \/ (s = d /\ control'[s] = received'[d])
      BY <1>0, <1>4 DEF CountersInv
    <3> QED BY <1>3, <3>1
  <2> QED BY <1>0, <1>1, <1>2, <1>3, <2>1, <2>2 DEF ReadPing, TypeOK, configVars, signalVars
<1>7. ASSUME NEW e \in Sides, e # d PROVE PathInv(e)'
  <2>1. SamePath(e)
    BY <1>0, <1>1, <1>4, <1>7, OtherSide
       DEF ReadPing, TypeOK, CountersInv, SamePath, configVars
  <2> QED BY <2>1, SamePathInv DEF Inv
<1>8. PathInv(d)'
  <2>1. /\ reader[d] = "reading" /\ reader'[d] \in {"reading", "ended"}
        /\ reader'[d] = "reading" => control'[d] = received'[d]
    BY <1>0, <1>4 DEF ReadPing, Readable, TypeOK, CountersInv
  <2>2. ~IsData(d, received[d] + 1) /\ (writeErr[Other(d)] => writeErr'[Other(d)])
    BY <1>1, OtherSide DEF ReadPing, NextFrame, IsData
  <2>3. WritingInv(d)' /\ MessagesInv(d)' /\ HeldInv(d)' /\ NoneLost(d)'
    BY <1>0, <1>3, <2>1, <2>2, ReadAnother DEF ReadPing, configVars
  <2>4. ControlInv(d)'
    BY <1>3, <2>1 DEF ControlInv
  <2> QED BY <2>3, <2>4 DEF PathInv
<1> QED BY <1>5, <1>6, <1>7, <1>8 DEF Inv

(* Nor is a close frame data; it ends reading.                              *)
LEMMA ReadCloseInv == ASSUME Inv, NEW d \in Sides, ReadClose(d) PROVE Inv'
<1> USE DEF ReadClose, configVars, sockVars, signalVars
<1>0. TypeOK /\ CountersInv /\ PathInv(d)
  BY DEF Inv
<1>1. TypeOK'
  <2>1. failures' \in 0 .. 2
    BY <1>0 DEF TypeOK, notifyOnFailure
  <2> QED BY <1>0, <2>1, ReceivedGrows DEF TypeOK
<1>2. CountersInv'
  BY <1>0, ReceivedGrows DEF CountersInv
<1>3. ASSUME NEW e \in Sides, e # d PROVE PathInv(e)'
  <2>1. SamePath(e)
    BY <1>0, <1>3 DEF TypeOK, CountersInv, SamePath
  <2> QED BY <2>1, SamePathInv DEF Inv
<1>4. PathInv(d)'
  <2>1. /\ received'[d] = received[d] + 1
        /\ reader[d] = "reading" /\ reader'[d] = "ended"
        /\ ~IsData(d, received[d] + 1)
    BY <1>0, ReceivedGrows DEF TypeOK, Readable, NextFrame, IsData
  <2>2. WritingInv(d)' /\ MessagesInv(d)' /\ HeldInv(d)' /\ NoneLost(d)'
    BY <1>0, <2>1, ReadAnother
  <2> QED BY <2>1, <2>2 DEF PathInv, ControlInv
<1> QED BY <1>1, <1>2, <1>3, <1>4 DEF Inv


(* The frame the reader held is now the last one in the channel.            *)
LEMMA PushInv == ASSUME Inv, NEW d \in Sides, Push(d) PROVE Inv'
<1> USE DEF Push, ReadLoop, configVars, sockVars, pumpVars
<1>0. /\ TypeOK /\ CountersInv /\ PathInv(d)
      /\ received[d] \in Nat /\ data[d] \in Nat /\ writing[d] \in Nat
      /\ messages[d] \in Seq(Nat) /\ Len(messages[d]) \in Nat
  BY PathType DEF Inv
<1>1. /\ messages'[d] = Append(messages[d], received[d])
      /\ messages'[d] \in Seq(Nat)
      /\ Len(messages'[d]) = Len(messages[d]) + 1
      /\ \A i \in 1 .. Len(messages[d]) : messages'[d][i] = messages[d][i]
      /\ messages'[d][Len(messages[d]) + 1] = received[d]
  BY <1>0 DEF TypeOK
<1>2. TypeOK'
  BY <1>0, <1>1 DEF TypeOK
<1>3. CountersInv'
  BY <1>0 DEF CountersInv
<1>4. ASSUME NEW e \in Sides, e # d PROVE PathInv(e)'
  <2>1. SamePath(e)
    BY <1>0, <1>4 DEF TypeOK, SamePath
  <2> QED BY <2>1, SamePathInv DEF Inv
<1>5. PathInv(d)'
  <2> HIDE DEF Push
  <2> DEFINE n == Len(messages[d])
  <2>0. n \in Nat
    BY <1>0
  <2>1. /\ reader[d] = "sending" /\ reader'[d] \in {"reading", "ended"}
        /\ UNCHANGED <<script, chaos, received, data, control, writing, writer, writeErr>>
    BY <1>0 DEF Push, TypeOK
  <2>2. /\ data[d] < received[d] /\ IsData(d, received[d])
        /\ writer[d] = "writing" => writing[d] < received[d]
        /\ \A i \in 1 .. n : messages[d][i] < received[d]
    BY <1>0, <2>1 DEF PathInv, HeldInv
  <2>3. WritingInv(d)' /\ HeldInv(d)' /\ ControlInv(d)'
    BY <1>0, <2>1 DEF PathInv, WritingInv, HeldInv, ControlInv, IsData
  <2>4. MessagesInv(d)'
    <3> SUFFICES ASSUME NEW i \in 1 .. n + 1
                 PROVE  /\ messages'[d][i] \in data[d] + 1 .. received[d]
                        /\ IsData(d, messages'[d][i])
                        /\ writer[d] = "writing" => writing[d] < messages'[d][i]
                        /\ \A k \in i + 1 .. n + 1 : messages'[d][i] < messages'[d][k]
      BY <1>1, <2>1 DEF MessagesInv, IsData
    <3>1. CASE i = n + 1
      BY <1>0, <1>1, <2>2, <3>1
    <3>2. CASE i \in 1 .. n
      <4>1. messages'[d][i] = messages[d][i]
        BY <1>1, <3>2
      <4>2. ASSUME NEW k \in i + 1 .. n + 1 PROVE messages'[d][i] < messages'[d][k]
        <5>1. CASE k = n + 1
          BY <1>1, <2>2, <3>2, <5>1
        <5>2. CASE k \in i + 1 .. n
          <6>1. k \in 1 .. n
            BY <1>0, <3>2, <5>2
          <6> QED BY <1>0, <1>1, <3>2, <5>2, <6>1 DEF PathInv, MessagesInv
        <5> QED BY <2>0, <5>1, <5>2
      <4> QED BY <1>0, <3>2, <4>1, <4>2 DEF PathInv, MessagesInv
    <3> QED BY <2>0, <3>1, <3>2
  <2>5. NoneLost(d)'
    <3> SUFFICES ASSUME ~chaos, ~writeErr[Other(d)],
                        NEW j \in data[d] + 1 .. received[d], IsData(d, j)
                 PROVE  \/ writer[d] = "writing" /\ writing[d] = j
                        \/ \E i \in 1 .. n + 1 : messages'[d][i] = j
      BY <1>1, <2>1 DEF NoneLost, IsData
    <3>1. CASE received[d] = j
      BY <1>0, <1>1, <3>1
    <3>2. CASE \E i \in 1 .. n : messages[d][i] = j
      BY <1>0, <1>1, <3>2
    <3> QED BY <1>0, <3>1, <3>2 DEF PathInv, NoneLost
  <2> QED BY <2>3, <2>4, <2>5 DEF PathInv
<1> QED BY <1>2, <1>3, <1>4, <1>5 DEF Inv

(* The first frame in the channel is taken to be written, or is dropped by  *)
(* chaos.                                                                   *)
LEMMA PullInv == ASSUME Inv, NEW d \in Sides, Pull(d) PROVE Inv'
<1>0. /\ TypeOK /\ CountersInv /\ PathInv(d)
      /\ received[d] \in Nat /\ data[d] \in Nat
      /\ messages[d] \in Seq(Nat) /\ Len(messages[d]) \in Nat
  BY PathType DEF Inv
<1>1. /\ messages'[d] = Tail(messages[d]) /\ messages[d] # <<>>
      /\ Len(messages[d]) > 0
      /\ messages'[d] \in Seq(Nat)
      /\ Len(messages'[d]) = Len(messages[d]) - 1
      /\ \A i \in 1 .. Len(messages[d]) - 1 : messages'[d][i] = messages[d][i + 1]
      /\ Head(messages[d]) = messages[d][1]
  BY <1>0 DEF Pull, TypeOK
<1>2. /\ messages[d][1] \in data[d] + 1 .. received[d]
      /\ IsData(d, messages[d][1])
      /\ \A k \in 2 .. Len(messages[d]) : messages[d][1] < messages[d][k]
  <2>1. 1 \in 1 .. Len(messages[d]) /\ 1 + 1 = 2
    BY <1>0, <1>1
  <2> QED BY <1>0, <2>1 DEF PathInv, MessagesInv
<1>3. \/ /\ writer' = [writer EXCEPT ![d] = "writing"]
         /\ writing' = [writing EXCEPT ![d] = messages[d][1]]
      \/ chaos /\ writer' = writer /\ writing' = writing
  BY <1>1 DEF Pull
<1>4. CountersInv'
  <2>1. messages[d][1] \in Nat
    BY <1>0, <1>2
  <2>2. writing' \in [Sides -> Nat]
    BY <1>0, <1>3, <2>1 DEF CountersInv
  <2>3. UNCHANGED <<received, data, control>>
    BY DEF Pull
  <2> QED BY <1>0, <2>2, <2>3 DEF CountersInv
<1>5. TypeOK'
  <2>1. messages' \in [Sides -> Seq(Nat)]
    BY <1>0, <1>1 DEF Pull, TypeOK
  <2>2. ASSUME NEW s \in Sides
        PROVE  Len(messages'[s]) <= MessagesCap /\ writing'[s] \in 0 .. received[s]
    <3>1. CASE s = d
      <4>1. Len(messages[d]) <= MessagesCap /\ writing[d] \in 0 .. received[d]
        BY <1>0 DEF TypeOK
      <4>2. writing'[d] = writing[d] \/ writing'[d] = messages[d][1]
        BY <1>0, <1>3 DEF CountersInv
      <4>3. Len(messages'[d]) <= MessagesCap
        BY <1>0, <1>1, <4>1
      <4>4. writing'[d] \in 0 .. received[d]
        BY <1>0, <1>2, <4>1, <4>2
      <4> QED BY <3>1, <4>3, <4>4
    <3>2. CASE s # d
      BY <1>0, <1>3, <3>2 DEF Pull, TypeOK, CountersInv
    <3> QED BY <3>1, <3>2
  <2>3. writer' \in [Sides -> {"select", "writing", "ended"}]
    BY <1>0, <1>3 DEF TypeOK
  <2> QED BY <1>0, <2>1, <2>2, <2>3
          DEF Pull, TypeOK, configVars, sockVars, signalVars, pumpVars
<1>6. ASSUME NEW e \in Sides, e # d PROVE PathInv(e)'
  <2>1. SamePath(e)
    BY <1>0, <1>3, <1>6 DEF Pull, TypeOK, CountersInv, SamePath, configVars, sockVars
  <2> QED BY <2>1, SamePathInv DEF Inv
<1>7. PathInv(d)'
  <2> DEFINE n == Len(messages[d])
  <2>0. n \in Nat /\ n > 0
    BY <1>0, <1>1
  <2>1. UNCHANGED <<script, chaos, received, data, control, reader, writeErr>>
    BY DEF Pull, configVars, sockVars
  <2>2. /\ writer[d] # "writing"
        /\ writer'[d] = "writing" => writing'[d] = messages[d][1]
        /\ ~chaos => writer'[d] = "writing"
    BY <1>0, <1>3 DEF Pull, TypeOK, CountersInv
  <2>3. WritingInv(d)'
    BY <1>0, <1>2, <2>1, <2>2 DEF WritingInv, IsData
  <2>4. MessagesInv(d)'
    <3> SUFFICES ASSUME NEW i \in 1 .. n - 1
                 PROVE  /\ messages'[d][i] \in data[d] + 1 .. received[d]
                        /\ IsData(d, messages'[d][i])
                        /\ messages[d][1] < messages'[d][i]
                        /\ \A k \in i + 1 .. n - 1 : messages'[d][i] < messages'[d][k]
      BY <1>1, <2>1, <2>2 DEF MessagesInv, IsData
    <3>1. i + 1 \in 1 .. n /\ i + 1 \in 2 .. n
      BY <2>0
    <3>2. messages'[d][i] = messages[d][i + 1]
      BY <1>1
    <3>3. ASSUME NEW k \in i + 1 .. n - 1 PROVE messages'[d][i] < messages'[d][k]
      <4>1. k \in 1 .. n - 1 /\ k + 1 \in (i + 1) + 1 .. n
        BY <2>0
      <4>2. messages'[d][k] = messages[d][k + 1]
        BY <1>1, <4>1
      <4> QED BY <1>0, <3>1, <3>2, <4>1, <4>2 DEF PathInv, MessagesInv
    <3> QED BY <1>0, <1>2, <3>1, <3>2, <3>3 DEF PathInv, MessagesInv
  <2>5. HeldInv(d)'
    <3> SUFFICES ASSUME reader[d] = "sending"
                 PROVE  /\ data[d] < received[d] /\ IsData(d, received[d])
                        /\ messages[d][1] < received[d]
                        /\ \A i \in 1 .. n - 1 : messages'[d][i] < received[d]
      BY <1>1, <2>1, <2>2 DEF HeldInv, IsData
    <3>1. /\ data[d] < received[d] /\ IsData(d, received[d])
          /\ \A i \in 1 .. n : messages[d][i] < received[d]
      BY <1>0 DEF PathInv, HeldInv
    <3>2. ASSUME NEW i \in 1 .. n - 1 PROVE messages'[d][i] < received[d]
      <4>1. i + 1 \in 1 .. n
        BY <2>0
      <4> QED BY <1>1, <3>1, <4>1
    <3> QED BY <2>0, <3>1, <3>2
  <2>6. NoneLost(d)'
    <3> SUFFICES ASSUME ~chaos, ~writeErr[Other(d)],
                        NEW j \in data[d] + 1 .. received[d], IsData(d, j)
                 PROVE  \/ messages[d][1] = j
                        \/ \E i \in 1 .. n - 1 : messages'[d][i] = j
                        \/ reader[d] = "sending" /\ received[d] = j
      BY <1>1, <2>1, <2>2 DEF NoneLost, IsData
    <3>1. CASE \E i \in 1 .. n : messages[d][i] = j
      <4>1. PICK i \in 1 .. n : messages[d][i] = j
        BY <3>1
      <4>2. CASE i # 1
        <5>1. i - 1 \in 1 .. n - 1 /\ (i - 1) + 1 = i
          BY <2>0, <4>2
        <5>2. messages'[d][i - 1] = j
          BY <1>1, <4>1, <5>1
        <5> QED BY <5>1, <5>2
      <4> QED BY <4>1, <4>2
    <3> QED BY <1>0, <2>2, <3>1 DEF PathInv, NoneLost
  <2>7. ControlInv(d)'
    BY <1>0, <2>1 DEF PathInv, ControlInv
  <2> QED BY <2>3, <2>4, <2>5, <2>6, <2>7 DEF PathInv
<1> QED BY <1>4, <1>5, <1>6, <1>7 DEF Inv

(* The frame that is written is the first of those that remain.             *)
LEMMA WriteInv == ASSUME Inv, NEW d \in Sides, Write(d) PROVE Inv'
<1> USE DEF Write, configVars, sockVars, signalVars, pumpVars
<1>0. /\ TypeOK /\ CountersInv /\ PathInv(d)
      /\ received[d] \in Nat /\ data[d] \in Nat /\ writing[d] \in Nat
      /\ data[d] < writing[d] /\ writing[d] <= received[d]
      /\ Len(messages[d]) \in Nat
      /\ \A i \in 1 .. Len(messages[d]) : messages[d][i] \in Nat
  BY PathType DEF Inv, PathInv, WritingInv
<1>1. TypeOK'
  BY <1>0 DEF TypeOK, CountersInv
<1>2. CountersInv'
  BY <1>0 DEF CountersInv
<1>3. ASSUME NEW e \in Sides, e # d PROVE PathInv(e)'
  <2>1. SamePath(e)
    BY <1>0, <1>3 DEF TypeOK, CountersInv, SamePath
  <2> QED BY <2>1, SamePathInv DEF Inv
<1>4. PathInv(d)'
  <2> HIDE DEF Write
  <2>1. /\ writer[d] = "writing" /\ writer'[d] = "select" /\ data'[d] = writing[d]
        /\ UNCHANGED <<script, chaos, received, control, messages, reader, writeErr>>
    BY <1>0 DEF Write, TypeOK, CountersInv
  <2>2. ASSUME NEW i \in 1 .. Len(messages[d])
        PROVE  /\ messages[d][i] \in writing[d] + 1 .. received[d]
               /\ IsData(d, messages[d][i])
               /\ \A k \in i + 1 .. Len(messages[d]) : messages[d][i] < messages[d][k]
    BY <1>0, <2>1 DEF PathInv, MessagesInv
  <2>3. WritingInv(d)' /\ MessagesInv(d)'
    BY <2>1, <2>2 DEF WritingInv, MessagesInv, IsData
  <2>4. HeldInv(d)' /\ ControlInv(d)'
    BY <1>0, <2>1 DEF PathInv, HeldInv, ControlInv, IsData
  <2>5. NoneLost(d)'
    <3> SUFFICES ASSUME ~chaos, ~writeErr[Other(d)],
                        NEW j \in writing[d] + 1 .. received[d], IsData(d, j)
                 PROVE  \/ \E i \in 1 .. Len(messages[d]) : messages[d][i] = j
                        \/ reader[d] = "sending" /\ received[d] = j
      BY <2>1 DEF NoneLost, IsData
    <3>1. j \in data[d] + 1 .. received[d] /\ j # writing[d]
      BY <1>0
    <3> QED BY <1>0, <3>1 DEF PathInv, NoneLost
  <2> QED BY <2>3, <2>4, <2>5 DEF PathInv
<1> QED BY <1>1, <1>2, <1>3, <1>4 DEF Inv

(* A write that fails loses its frame, and every later write fails too.     *)
LEMMA WriteErrorInv == ASSUME Inv, NEW d \in Sides, WriteError(d) PROVE Inv'
<1>0. /\ TypeOK /\ CountersInv /\ PathInv(d) /\ Other(d) \in Sides
      /\ \A e \in Sides : received[e] \in Nat
  BY PathType, OtherSide DEF Inv
<1>1. TypeOK'
  <2>1. failures' \in 0 .. 2
    BY <1>0 DEF WriteError, TypeOK, notifyOnFailure
  <2>2. writeErr' \in [Sides -> BOOLEAN]
    BY <1>0 DEF WriteError, TypeOK
  <2> QED BY <1>0, <2>1, <2>2 DEF WriteError, TypeOK, CountersInv, configVars, signalVars
<1>2. CountersInv'
  BY <1>0 DEF CountersInv, WriteError
<1>3. ASSUME NEW e \in Sides, e # d PROVE PathInv(e)'
  <2>1. SamePath(e)
    BY <1>0, <1>3, OtherSide DEF WriteError, TypeOK, CountersInv, SamePath, configVars
  <2> QED BY <2>1, SamePathInv DEF Inv
<1>4. PathInv(d)'
  <2>1. /\ writer'[d] = "select" /\ writeErr'[Other(d)]
        /\ UNCHANGED <<script, chaos, received, data, control, messages, reader>>
    BY <1>0 DEF WriteError, TypeOK, configVars
  <2>2. WritingInv(d)' /\ NoneLost(d)' /\ ControlInv(d)'
    BY <1>0, <2>1 DEF PathInv, WritingInv, NoneLost, ControlInv
  <2>3. MessagesInv(d)' /\ HeldInv(d)'
    BY <1>0, <2>1 DEF PathInv, MessagesInv, HeldInv, IsData
  <2> QED BY <2>2, <2>3 DEF PathInv
<1> QED BY <1>1, <1>2, <1>3, <1>4 DEF Inv

-----------------------------------------------------------------------------

LEMMA InitInv == Init => Inv
<1> SUFFICES ASSUME Init PROVE Inv
  OBVIOUS
<1>1. TypeOK
  <2>1. active \in BOOLEAN /\ done \in BOOLEAN /\ chaos \in BOOLEAN
    BY Zenon DEF Init
  <2>2. \A s \in Sides : Len(script[s]) \in Nat
    BY DEF Init
  <2>3. \A s \in Sides : received[s] \in 0 .. Len(script[s])
    BY <2>2 DEF Init
  <2>4. \A s \in Sides : /\ data[s] \in 0 .. received[s] /\ control[s] \in 0 .. received[s]
                         /\ Len(messages[s]) <= MessagesCap /\ writing[s] \in 0 .. received[s]
    BY DEF Init
  <2>5. messages \in [Sides -> Seq(Nat)]
    BY DEF Init
  <2> QED BY <2>1, <2>3, <2>4, <2>5 DEF Init, TypeOK
<1>2. CountersInv
  BY DEF Init, CountersInv
<1>3. ASSUME NEW d \in Sides PROVE PathInv(d)
  BY DEF Init, PathInv, WritingInv, MessagesInv, HeldInv, NoneLost, ControlInv
<1> QED BY <1>1, <1>2, <1>3 DEF Inv

LEMMA NextInv == Inv /\ [Next]_vars => Inv'
<1> SUFFICES ASSUME Inv, [Next]_vars PROVE Inv'
  OBVIOUS
<1>1. ASSUME NEW d \in Sides, Reader(d) PROVE Inv'
  BY <1>1, ReadStartInv, ReadDataInv, ReadPingInv, ReadCloseInv, ReadErrorInv, PushInv
     DEF Reader
<1>2. ASSUME NEW d \in Sides, Writer(d) PROVE Inv'
  BY <1>2, WriterDoneInv, PullInv, WriteInv, WriteErrorInv DEF Writer
<1>3. ASSUME NEW d \in Sides, Vanish(d) \/ Terminate(d) PROVE Inv'
  BY <1>3, VanishInv, TerminateInv
<1>4. CASE Run
  BY <1>4, ActivateInv, RunDoneInv, RunFailedInv, CloseBothInv DEF Run
<1>5. CASE Stop \/ StopClose
  BY <1>5, StopInv, StopCloseInv
<1>6. CASE UNCHANGED vars
  <2> USE <1>6 DEF Inv, vars, configVars, sockVars, pathVars, goVars, signalVars, pumpVars
  <2>1. TypeOK' /\ CountersInv'
    BY DEF TypeOK, CountersInv
  <2>2. ASSUME NEW e \in Sides PROVE SamePath(e)
    BY DEF SamePath
  <2> QED BY <2>1, <2>2, SamePathInv
<1> QED BY <1>1, <1>2, <1>3, <1>4, <1>5, <1>6 DEF Next

(* The invariant about the frames under way holds in every state.           *)
THEOREM Invariance == Spec => []Inv
BY InitInv, NextInv, PTL DEF Spec

(* Every variable keeps its type: the channels their capacity, and what was *)
(* passed on never gets ahead of what was read.                             *)
THEOREM TypeCorrectness == Spec => []TypeOK
<1>1. Inv => TypeOK
  BY DEF Inv
<1> QED BY Invariance, <1>1, PTL

-----------------------------------------------------------------------------
(* The pump implements Stream: writing a data frame is PassData, the        *)
(* handlers of pings and pongs are PassControl, and all other steps change  *)
(* nothing of what Stream sees.                                             *)

LEMMA InitRefines == Init => S!Init
BY DEF Init, S!Init, Sides, S!Sides

LEMMA WriteRefines == ASSUME Inv, NEW d \in Sides, Write(d) PROVE S!PassData(d)
<1>0. TypeOK /\ CountersInv /\ PathInv(d)
  BY DEF Inv
<1>1. /\ writer[d] = "writing" /\ ~writeErr[Other(d)]
      /\ data' = [data EXCEPT ![d] = writing[d]]
      /\ UNCHANGED <<script, chaos, control>>
  BY DEF Write, Writable, configVars
<1>2. /\ data[d] \in Nat /\ writing[d] \in Nat /\ received[d] \in Nat /\ Len(script[d]) \in Nat
      /\ writing[d] <= received[d] /\ received[d] <= Len(script[d])
      /\ data[d] < writing[d] /\ IsData(d, writing[d])
  BY <1>0, <1>1, PathType, ScriptType DEF TypeOK, PathInv, WritingInv
<1>3. ASSUME ~chaos, NEW j \in data[d] + 1 .. writing[d] - 1 PROVE ~IsData(d, j)
  <2> SUFFICES ASSUME IsData(d, j) PROVE FALSE
    OBVIOUS
  <2>1. j \in data[d] + 1 .. received[d] /\ j < writing[d]
    BY <1>2
  <2>2. CASE \E i \in 1 .. Len(messages[d]) : messages[d][i] = j
    BY <1>0, <1>1, <1>2, <2>1, <2>2 DEF PathInv, MessagesInv
  <2>3. CASE reader[d] = "sending" /\ received[d] = j
    BY <1>2, <2>1, <2>3
  <2> QED BY <1>0, <1>1, <1>2, <1>3, <2>1, <2>2, <2>3 DEF PathInv, NoneLost
<1>4. writing[d] \in data[d] + 1 .. Len(script[d])
  BY <1>2
<1> QED BY <1>1, <1>2, <1>3, <1>4 DEF S!PassData, IsData

LEMMA ReadPingRefines ==
    ASSUME Inv, NEW d \in Sides, ReadPing(d)
    PROVE  S!PassControl(d) \/ UNCHANGED S!streamVars
<1>0. TypeOK /\ CountersInv /\ PathInv(d)
  BY DEF Inv
<1>1. UNCHANGED <<script, chaos, data>>
  BY DEF ReadPing, configVars
<1>2. CASE UNCHANGED control
  BY <1>1, <1>2 DEF S!streamVars
<1>3. CASE control' = [control EXCEPT ![d] = received[d] + 1]
  <2>1. /\ control[d] \in Nat /\ received[d] \in Nat /\ Len(script[d]) \in Nat
        /\ control[d] <= received[d] /\ received[d] < Len(script[d])
        /\ reader[d] = "reading" /\ S!Passed(script[d][received[d] + 1])
    BY <1>0, PathType, ScriptType DEF ReadPing, Readable, NextFrame, S!Passed
  <2>2. received[d] + 1 \in control[d] + 1 .. Len(script[d])
    BY <2>1
  <2>3. ASSUME NEW j \in control[d] + 1 .. (received[d] + 1) - 1 PROVE ~S!Passed(script[d][j])
    <3>1. j \in control[d] + 1 .. received[d]
      BY <2>1
    <3> QED BY <1>0, <2>1, <3>1 DEF PathInv, ControlInv
  <2> QED BY <1>1, <1>3, <2>1, <2>2, <2>3 DEF S!PassControl
<1> QED BY <1>2, <1>3 DEF ReadPing

LEMMA OthersStutter ==
    ASSUME [Next]_vars,
           ~\E d \in Sides : Write(d) \/ ReadPing(d)
    PROVE  UNCHANGED S!streamVars
<1> USE DEF S!streamVars, configVars, pathVars
<1>1. ASSUME NEW d \in Sides, Reader(d) PROVE UNCHANGED S!streamVars
  BY <1>1 DEF Reader, ReadStart, ReadData, ReadClose, ReadError, Push
<1>2. ASSUME NEW d \in Sides, Writer(d) PROVE UNCHANGED S!streamVars
  BY <1>2 DEF Writer, WriterDone, Pull, WriteError
<1>3. ASSUME NEW d \in Sides, Vanish(d) \/ Terminate(d) PROVE UNCHANGED S!streamVars
  BY <1>3 DEF Vanish, Terminate
<1>4. CASE Run \/ Stop \/ StopClose
  BY <1>4 DEF Run, Activate, RunDone, RunFailed, CloseBoth, Stop, StopClose
<1>5. CASE UNCHANGED vars
  BY <1>5 DEF vars
<1> QED BY <1>1, <1>2, <1>3, <1>4, <1>5 DEF Next

(* Each direction of a pump is a stream: in order, nothing twice, and       *)
(* nothing skipped unless chaos drops messages, although the writer goes on *)
(* after a failed write.                                                    *)
THEOREM Refinement == Spec => IsStream
<1>1. Inv /\ [Next]_vars => [S!Next]_(S!streamVars)
  <2> SUFFICES ASSUME Inv, [Next]_vars PROVE S!Next \/ UNCHANGED S!streamVars
    OBVIOUS
  <2>1. ASSUME NEW d \in Sides, Write(d) \/ ReadPing(d)
        PROVE  S!Next \/ UNCHANGED S!streamVars
    <3>1. d \in S!Sides
      BY DEF Sides, S!Sides
    <3> QED BY <2>1, <3>1, WriteRefines, ReadPingRefines DEF S!Next
  <2> QED BY <2>1, OthersStutter
<1> QED BY InitRefines, Invariance, <1>1, PTL DEF Spec, IsStream, S!Spec
=============================================================================
