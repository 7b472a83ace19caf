---------------------------- MODULE ZnpStartProofs ----------------------------
(***************************************************************************)
(* Proofs about ZnpStart, for every number of end points, callbacks and    *)
(* device informations, every size of the transmit buffer and any number   *)
(* of faults.                                                              *)
(***************************************************************************)
EXTENDS ZnpStart, SequenceTheorems, TLAPS

\* The requests of the ZNP interface that the procedure makes.
Names == {"SOFT_RESET", "AUTO_START", "DEFAULT_STATE", "NV_WRITE", "NV_READ", "AF_REGISTER",
          "ZDO_MSG_CB_REGISTER", "STARTUP_FROM_APP", "GET_DEVICE_INFO"}

\* A registration is about an end point or a callback that exists.
WellFormed(c) ==
    /\ c[1] = "AF_REGISTER" => c[2] \in 1 .. NbEndPoints
    /\ c[1] = "ZDO_MSG_CB_REGISTER" => c[2] \in 1 .. NbZdoCallbacks

\* The commands the port sends.
Commands == {c \in (Names \X Nat) : WellFormed(c)}

\* What is to be transmitted fits in the buffer and is well formed.
TxInv == tx \in Seq(Commands) /\ Len(tx) <= TxSize

IInv == TypeOK /\ TxInv

LEMMA Sizes ==
    /\ NbEndPoints \in Nat /\ NbZdoCallbacks \in Nat /\ NbDeviceInfos \in Nat
    /\ TxSize \in Nat /\ TxSize >= 1 /\ MaxFaults \in Nat
<1>1. {NbZdoCallbacks, NbDeviceInfos, TxSize} \subseteq Nat \ {0}
  BY SizesAssumption
<1>2. {NbEndPoints, MaxFaults} \subseteq Nat
  BY SizesAssumption
<1> QED BY <1>1, <1>2

-----------------------------------------------------------------------------
(* What is sent *)

LEMMA SingleIs ==
    ASSUME NEW name \in Names, name # "AF_REGISTER", name # "ZDO_MSG_CB_REGISTER"
    PROVE  single(name) \in Seq(Commands) /\ Len(single(name)) = 1
<1>1. <<name, 0>> \in Commands
  BY DEF Commands, WellFormed
<1> QED BY <1>1 DEF single

LEMMA EachIs ==
    ASSUME NEW n \in Nat, NEW name \in Names,
           name = "AF_REGISTER" => n <= NbEndPoints,
           name = "ZDO_MSG_CB_REGISTER" => n <= NbZdoCallbacks
    PROVE  each(n, name) \in Seq(Commands) /\ Len(each(n, name)) = n
<1>1. ASSUME NEW i \in 1 .. n PROVE <<name, i>> \in Commands
  <2>1. /\ name = "AF_REGISTER" => i \in 1 .. NbEndPoints
        /\ name = "ZDO_MSG_CB_REGISTER" => i \in 1 .. NbZdoCallbacks
    BY Sizes
  <2>2. <<name, i>>[1] = name /\ <<name, i>>[2] = i /\ <<name, i>> \in Names \X Nat
    OBVIOUS
  <2> QED BY <2>1, <2>2 DEF Commands, WellFormed
<1>2. each(n, name) \in [1 .. n -> Commands]
  BY <1>1 DEF each
<1> QED BY <1>2

LEMMA ParamsAre ==
    writeParams \in Seq(Commands) /\ Len(writeParams) \in Nat
<1>1. single(option) \in Seq(Commands)
  <2>1. single("DEFAULT_STATE") \in Seq(Commands)
    BY SingleIs DEF Names
  <2>2. single("AUTO_START") \in Seq(Commands)
    BY SingleIs DEF Names
  <2> QED BY <2>1, <2>2 DEF option
<1>2. each(IF resetHanAtReboot THEN 3 ELSE 2, "NV_WRITE") \in Seq(Commands)
  <2> DEFINE n == IF resetHanAtReboot THEN 3 ELSE 2
  <2>1. n \in Nat
    OBVIOUS
  <2> HIDE DEF n
  <2>2. /\ "NV_WRITE" \in Names
        /\ "NV_WRITE" # "AF_REGISTER" /\ "NV_WRITE" # "ZDO_MSG_CB_REGISTER"
    BY DEF Names
  <2>3. each(n, "NV_WRITE") \in Seq(Commands)
    BY <2>1, <2>2, EachIs
  <2> QED BY <2>3 DEF n
<1>3. writeParams \in Seq(Commands)
  BY <1>1, <1>2, ConcatProperties DEF writeParams
<1> QED BY <1>3

\* znpSend never puts more in tx than it holds.
LEMMA SendFits ==
    ASSUME NEW q \in Seq(Commands), Len(q) <= TxSize, NEW cmds \in Seq(Commands)
    PROVE  send(q, cmds) \in Seq(Commands) /\ Len(send(q, cmds)) <= TxSize
<1> DEFINE k == IF Len(cmds) <= room(q) THEN Len(cmds) ELSE room(q)
           x == SubSeq(cmds, 1, k)
<1>1. Len(q) \in Nat /\ Len(cmds) \in Nat /\ TxSize \in Nat
  BY Sizes
<1>2. k \in 0 .. Len(cmds) /\ Len(q) + k <= TxSize
  BY <1>1 DEF room
<1>3. send(q, cmds) = q \o x
  BY DEF send
<1> HIDE DEF k
<1>4. x \in Seq(Commands) /\ Len(x) = k
  BY <1>2
<1> HIDE DEF x
<1>5. q \o x \in Seq(Commands) /\ Len(q \o x) = Len(q) + Len(x)
  BY <1>4, ConcatProperties
<1> QED BY <1>1, <1>2, <1>3, <1>4, <1>5

-----------------------------------------------------------------------------
(* The automaton *)

States ==
    {"NULL", "WAIT_INITIAL_RESET_RESP", "WAIT_WRITE_PARAM_RESP",
     "WAIT_READ_PARAM_RESP", "WAIT_WRITE_RESET_RESP",
     "WAIT_REGISTER_ENDPOINTS_RESP", "WAIT_REGISTER_ZDO_CALLBACKS_RESP",
     "WAIT_STARTUP_FROM_APP_RESP", "STARTING", "WAIT_PAN_INFOS",
     "WAIT_WRITE_PAN_ID"}

\* What a handler of the automaton may change.
AutomatonOK ==
    /\ state \in States /\ nbCycles \in 0 .. 1 /\ respExpected \in Nat
    /\ result \in {"none", "success", "failure"}
    /\ TxInv

LEMMA AutomatonTyped == IInv => AutomatonOK
BY DEF IInv, TypeOK, AutomatonOK, States

LEMMA SendOne ==
    ASSUME AutomatonOK, NEW name \in Names,
           name # "AF_REGISTER", name # "ZDO_MSG_CB_REGISTER"
    PROVE  send(tx, single(name)) \in Seq(Commands) /\ Len(send(tx, single(name))) <= TxSize
<1>1. single(name) \in Seq(Commands)
  BY SingleIs
<1> QED BY <1>1, SendFits DEF AutomatonOK, TxInv

LEMMA MoveOK ==
    ASSUME AutomatonOK, NEW s \in States, NEW n \in Nat, NEW cmds \in Seq(Commands),
           move(s, n, cmds)
    PROVE  AutomatonOK'
<1>1. tx' = send(tx, cmds) /\ state' = s /\ respExpected' = n /\ UNCHANGED <<nbCycles, result>>
  BY DEF move, setState
<1>2. send(tx, cmds) \in Seq(Commands) /\ Len(send(tx, cmds)) <= TxSize
  BY SendFits DEF AutomatonOK, TxInv
<1> QED BY <1>1, <1>2 DEF AutomatonOK, TxInv

LEMMA CompleteOK ==
    ASSUME AutomatonOK, NEW q \in Seq(Commands), Len(q) <= TxSize,
           NEW res \in {"success", "failure"}, completeLeaving(q, res)
    PROVE  AutomatonOK'
BY DEF AutomatonOK, TxInv, completeLeaving, setState, States

LEMMA FailureOK ==
    ASSUME AutomatonOK, NEW res \in {"success", "failure"}, complete(res)
    PROVE  AutomatonOK'
BY CompleteOK DEF complete, AutomatonOK, TxInv

LEMMA IgnoreOK ==
    ASSUME AutomatonOK, ignore
    PROVE  AutomatonOK'
BY DEF AutomatonOK, TxInv, ignore, inst

LEMMA CountDownOK ==
    ASSUME AutomatonOK, respExpected > 1, countDown
    PROVE  AutomatonOK'
BY DEF AutomatonOK, TxInv, countDown

LEMMA WriteParamOK ==
    ASSUME AutomatonOK, writeParamInNvRam
    PROVE  AutomatonOK'
BY ParamsAre, MoveOK DEF writeParamInNvRam, States

LEMMA RegisterOK ==
    ASSUME AutomatonOK, registerEndPoints
    PROVE  AutomatonOK'
<1> DEFINE cmds == each(NbEndPoints, "AF_REGISTER")
<1>1. cmds \in Seq(Commands)
  <2>1. /\ NbEndPoints \in Nat /\ NbEndPoints <= NbEndPoints
        /\ "AF_REGISTER" \in Names /\ "AF_REGISTER" # "ZDO_MSG_CB_REGISTER"
    BY Sizes DEF Names
  <2> QED BY <2>1, EachIs
<1>2. \/ completeLeaving(send(tx, cmds), "failure")
      \/ move("WAIT_REGISTER_ENDPOINTS_RESP", NbEndPoints, cmds)
  BY DEF registerEndPoints
<1> HIDE DEF cmds
<1>3. send(tx, cmds) \in Seq(Commands) /\ Len(send(tx, cmds)) <= TxSize
  BY <1>1, SendFits DEF AutomatonOK, TxInv
<1>4. CASE completeLeaving(send(tx, cmds), "failure")
  BY <1>3, <1>4, CompleteOK
<1>5. CASE move("WAIT_REGISTER_ENDPOINTS_RESP", NbEndPoints, cmds)
  BY <1>1, <1>5, Sizes, MoveOK DEF States
<1> QED BY <1>2, <1>4, <1>5

LEMMA MoveOneOK ==
    ASSUME AutomatonOK, NEW s \in States, NEW name \in Names,
           name # "AF_REGISTER", name # "ZDO_MSG_CB_REGISTER",
           move(s, 0, single(name))
    PROVE  AutomatonOK'
<1>1. single(name) \in Seq(Commands) /\ 0 \in Nat
  BY SingleIs
<1> QED BY <1>1, MoveOK

\* Whatever the message, every handler leaves the automaton in order.
LEMMA MessageOK ==
    ASSUME AutomatonOK, NEW msg, processZnpMsg(msg)
    PROVE  AutomatonOK'
<1>1. CASE state = "WAIT_INITIAL_RESET_RESP"
  <2>1. processWaitInitialResetResp(msg)
    BY <1>1 DEF processZnpMsg
  <2>2. writeParamInNvRam \/ ignore
    BY <2>1 DEF processWaitInitialResetResp
  <2> QED BY <2>2, WriteParamOK, IgnoreOK
<1>2. CASE state = "WAIT_WRITE_PARAM_RESP"
  <2>1. processWaitWriteParamResp(msg)
    BY <1>2 DEF processZnpMsg
  <2>2. \/ writeParamInNvRam \/ complete("failure") \/ ignore
        \/ respExpected > 1 /\ countDown
        \/ move("WAIT_WRITE_RESET_RESP", 0, single("SOFT_RESET"))
        \/ move("WAIT_READ_PARAM_RESP", 0, single("NV_READ"))
    BY <2>1 DEF processWaitWriteParamResp
  <2>3. ASSUME move("WAIT_WRITE_RESET_RESP", 0, single("SOFT_RESET")) PROVE AutomatonOK'
    BY <2>3, MoveOneOK DEF States, Names
  <2>4. ASSUME move("WAIT_READ_PARAM_RESP", 0, single("NV_READ")) PROVE AutomatonOK'
    BY <2>4, MoveOneOK DEF States, Names
  <2> QED BY <2>2, <2>3, <2>4, WriteParamOK, FailureOK, IgnoreOK, CountDownOK
<1>3. CASE state = "WAIT_READ_PARAM_RESP"
  <2>1. processWaitReadParamResp(msg)
    BY <1>3 DEF processZnpMsg
  <2>2. ignore \/ registerEndPoints \/ complete("failure")
    BY <2>1 DEF processWaitReadParamResp
  <2> QED BY <2>2, IgnoreOK, RegisterOK, FailureOK
<1>4. CASE state = "WAIT_WRITE_RESET_RESP"
  <2>1. processWaitWriteResetResp(msg)
    BY <1>4 DEF processZnpMsg
  <2>2. ignore \/ registerEndPoints
    BY <2>1 DEF processWaitWriteResetResp
  <2> QED BY <2>2, IgnoreOK, RegisterOK
<1>5. CASE state = "WAIT_REGISTER_ENDPOINTS_RESP"
  <2> DEFINE cmds == each(NbZdoCallbacks, "ZDO_MSG_CB_REGISTER")
  <2>1. processWaitRegisterEndpointsResp(msg)
    BY <1>5 DEF processZnpMsg
  <2>2. \/ ignore \/ complete("failure")
        \/ respExpected > 1 /\ countDown
        \/ move("WAIT_REGISTER_ZDO_CALLBACKS_RESP", NbZdoCallbacks, cmds)
    BY <2>1 DEF processWaitRegisterEndpointsResp
  <2>3. cmds \in Seq(Commands) /\ NbZdoCallbacks \in Nat
    <3>1. /\ NbZdoCallbacks \in Nat /\ NbZdoCallbacks <= NbZdoCallbacks
          /\ "ZDO_MSG_CB_REGISTER" \in Names /\ "ZDO_MSG_CB_REGISTER" # "AF_REGISTER"
      BY Sizes DEF Names
    <3> QED BY <3>1, EachIs
  <2> HIDE DEF cmds
  <2>4. ASSUME move("WAIT_REGISTER_ZDO_CALLBACKS_RESP", NbZdoCallbacks, cmds)
        PROVE  AutomatonOK'
    BY <2>3, <2>4, MoveOK DEF States
  <2> QED BY <2>2, <2>4, IgnoreOK, FailureOK, CountDownOK
<1>6. CASE state = "WAIT_REGISTER_ZDO_CALLBACKS_RESP"
  <2>1. processWaitRegisterZdoCbResp(msg)
    BY <1>6 DEF processZnpMsg
  <2>2. \/ ignore \/ complete("failure")
        \/ respExpected > 1 /\ countDown
        \/ move("WAIT_STARTUP_FROM_APP_RESP", 0, single("STARTUP_FROM_APP"))
    BY <2>1 DEF processWaitRegisterZdoCbResp
  <2>3. ASSUME move("WAIT_STARTUP_FROM_APP_RESP", 0, single("STARTUP_FROM_APP"))
        PROVE  AutomatonOK'
    BY <2>3, MoveOneOK DEF States, Names
  <2> QED BY <2>2, <2>3, IgnoreOK, FailureOK, CountDownOK
<1>7. CASE state = "WAIT_STARTUP_FROM_APP_RESP"
  <2>1. processWaitStartupFromAppResp(msg)
    BY <1>7 DEF processZnpMsg
  <2>2. \/ ignore \/ complete("failure") \/ move("STARTING", 0, <<>>)
        \/ /\ nbCycles' = 1 /\ setState("WAIT_WRITE_PARAM_RESP", Len(writeParams))
           /\ tx' = send(tx, writeParams) /\ UNCHANGED result
    BY <2>1 DEF processWaitStartupFromAppResp
  <2>3. ASSUME move("STARTING", 0, <<>>) PROVE AutomatonOK'
    <3>1. <<>> \in Seq(Commands) /\ 0 \in Nat /\ "STARTING" \in States
      BY DEF States
    <3> QED BY <2>3, <3>1, MoveOK
  <2>4. ASSUME nbCycles' = 1, setState("WAIT_WRITE_PARAM_RESP", Len(writeParams)),
               tx' = send(tx, writeParams), UNCHANGED result
        PROVE  AutomatonOK'
    <3>1. writeParams \in Seq(Commands) /\ Len(writeParams) \in Nat
      BY ParamsAre
    <3>2. tx' \in Seq(Commands) /\ Len(tx') <= TxSize
      BY <2>4, <3>1, SendFits DEF AutomatonOK, TxInv
    <3> QED BY <2>4, <3>1, <3>2 DEF AutomatonOK, TxInv, setState, States
  <2> QED BY <2>2, <2>3, <2>4, IgnoreOK, FailureOK
<1>8. CASE state = "STARTING"
  <2> DEFINE cmds == each(NbDeviceInfos, "GET_DEVICE_INFO")
  <2>1. processZnpStartingIndication(msg)
    BY <1>8 DEF processZnpMsg
  <2>2. ignore \/ move("WAIT_PAN_INFOS", NbDeviceInfos, cmds)
    BY <2>1 DEF processZnpStartingIndication
  <2>3. cmds \in Seq(Commands) /\ NbDeviceInfos \in Nat
    <3>1. /\ NbDeviceInfos \in Nat /\ "GET_DEVICE_INFO" \in Names
          /\ "GET_DEVICE_INFO" # "AF_REGISTER" /\ "GET_DEVICE_INFO" # "ZDO_MSG_CB_REGISTER"
      BY Sizes DEF Names
    <3> QED BY <3>1, EachIs
  <2> HIDE DEF cmds
  <2>4. ASSUME move("WAIT_PAN_INFOS", NbDeviceInfos, cmds) PROVE AutomatonOK'
    BY <2>3, <2>4, MoveOK DEF States
  <2> QED BY <2>2, <2>4, IgnoreOK
<1>9. CASE state = "WAIT_PAN_INFOS"
  <2>1. processWaitPanInfos(msg)
    BY <1>9 DEF processZnpMsg
  <2>2. \/ ignore
        \/ respExpected > 1 /\ countDown
        \/ move("WAIT_WRITE_PAN_ID", 0, single("NV_WRITE"))
    <3>1. CASE msg[1] # "GET_DEVICE_INFO"
      BY <2>1, <3>1 DEF processWaitPanInfos
    <3>2. CASE msg[1] = "GET_DEVICE_INFO" /\ respExpected > 1
      BY <2>1, <3>2 DEF processWaitPanInfos
    <3>3. CASE msg[1] = "GET_DEVICE_INFO" /\ ~(respExpected > 1)
      BY <2>1, <3>3 DEF processWaitPanInfos
    <3> QED BY <3>1, <3>2, <3>3
  <2>3. ASSUME move("WAIT_WRITE_PAN_ID", 0, single("NV_WRITE")) PROVE AutomatonOK'
    BY <2>3, MoveOneOK DEF States, Names
  <2> QED BY <2>2, <2>3, IgnoreOK, CountDownOK
<1>10. CASE state = "WAIT_WRITE_PAN_ID"
  <2>1. processWaitWritePanId(msg)
    BY <1>10 DEF processZnpMsg
  <2>2. ignore \/ complete("success")
    BY <2>1 DEF processWaitWritePanId
  <2> QED BY <2>2, IgnoreOK, FailureOK
<1>11. CASE state = "NULL"
  <2>1. ignore
    BY <1>11 DEF processZnpMsg
  <2> QED BY <2>1, IgnoreOK
<1> QED
  BY <1>1, <1>2, <1>3, <1>4, <1>5, <1>6, <1>7, <1>8, <1>9, <1>10, <1>11
     DEF AutomatonOK, States

\* start, from a transmit buffer q.
LEMMA StartOK ==
    ASSUME AutomatonOK, NEW q \in Seq(Commands), Len(q) <= TxSize, startFrom(q),
           UNCHANGED result
    PROVE  AutomatonOK' /\ powerLost' \in BOOLEAN
<1>1. single("SOFT_RESET") \in Seq(Commands)
  BY SingleIs DEF Names
<1>2. send(q, single("SOFT_RESET")) \in Seq(Commands)
      /\ Len(send(q, single("SOFT_RESET"))) <= TxSize
  BY <1>1, SendFits
<1>3. /\ state' = "WAIT_INITIAL_RESET_RESP" /\ respExpected' = 0 /\ nbCycles' = 0
      /\ tx' = send(q, single("SOFT_RESET")) /\ powerLost' = FALSE
  BY DEF startFrom, setState
<1>4. TxInv'
  BY <1>2, <1>3 DEF TxInv
<1>5. state' \in States /\ result' \in {"none", "success", "failure"}
  BY <1>3 DEF States, AutomatonOK
<1>6. nbCycles' \in 0 .. 1 /\ respExpected' \in Nat
  BY <1>3
<1> QED BY <1>3, <1>4, <1>5, <1>6 DEF AutomatonOK

-----------------------------------------------------------------------------
(* The port and the dongle *)

\* The rest of the state.
PortOK ==
    /\ deviceFd \in {"none", "live", "dead"}
    /\ resetHanAtReboot \in BOOLEAN /\ plugged \in BOOLEAN /\ powerLost \in BOOLEAN
    /\ endPoints \subseteq 1 .. NbEndPoints /\ callbacks \subseteq 1 .. NbZdoCallbacks
    /\ nvOption \in {"none", "AUTO_START", "DEFAULT_STATE"} /\ starting \in 0 .. 1
    /\ faults \in 0 .. MaxFaults

LEMMA IInvIs == IInv <=> AutomatonOK /\ PortOK
BY DEF IInv, TypeOK, AutomatonOK, PortOK, TxInv, States

LEMMA FaultOK ==
    ASSUME PortOK, fault
    PROVE  faults' \in 0 .. MaxFaults
BY Sizes DEF PortOK, fault

LEMMA TxTail ==
    ASSUME AutomatonOK, tx # <<>>, tx' = Tail(tx)
    PROVE  TxInv' /\ Head(tx) \in Commands
<1>1. tx \in Seq(Commands) /\ Len(tx) <= TxSize
  BY DEF AutomatonOK, TxInv
<1>2. Head(tx) \in Commands /\ Tail(tx) \in Seq(Commands) /\ Len(Tail(tx)) = Len(tx) - 1
  BY <1>1, HeadTailProperties
<1>3. Len(tx') <= TxSize
  <2>1. Len(tx) \in Nat /\ TxSize \in Nat
    BY <1>1, Sizes
  <2> QED BY <1>1, <1>2, <2>1
<1> QED BY <1>2, <1>3 DEF TxInv

LEMMA InitOK == Init => IInv
<1> SUFFICES ASSUME Init PROVE IInv
  OBVIOUS
<1>1. single("SOFT_RESET") \in Seq(Commands) /\ Len(single("SOFT_RESET")) = 1
  BY SingleIs DEF Names
<1>2. TxInv
  BY <1>1, Sizes DEF Init, TxInv
<1>3. AutomatonOK
  BY <1>2 DEF Init, AutomatonOK, States
<1>4. PortOK
  <2>1. 0 \in 0 .. MaxFaults /\ 0 \in 0 .. 1
    BY Sizes
  <2>2. /\ deviceFd \in {"none", "live", "dead"}
        /\ nvOption \in {"none", "AUTO_START", "DEFAULT_STATE"}
    BY DEF Init
  <2>3. resetHanAtReboot \in BOOLEAN /\ plugged \in BOOLEAN /\ powerLost \in BOOLEAN
    BY DEF Init
  <2> QED BY <2>1, <2>2, <2>3 DEF Init, PortOK
<1> QED BY <1>3, <1>4, IInvIs

\* The dongle carries out the command at the head of tx.
LEMMA DongleOK ==
    ASSUME AutomatonOK, PortOK, NEW ok \in {"ok", "ko"}, dongleAnswers(ok)
    PROVE  AutomatonOK' /\ PortOK'
<1> DEFINE cmd == Head(tx)[1]
           number == Head(tx)[2]
<1>1. tx # <<>> /\ tx' = Tail(tx) /\ UNCHANGED <<inst, port, plugged, powerLost>>
  BY DEF dongleAnswers
<1>2. TxInv' /\ Head(tx) \in Commands
  BY <1>1, TxTail
<1>3. /\ cmd = "AF_REGISTER" => number \in 1 .. NbEndPoints
      /\ cmd = "ZDO_MSG_CB_REGISTER" => number \in 1 .. NbZdoCallbacks
  BY <1>2 DEF Commands, WellFormed
<1>4. UNCHANGED <<state, nbCycles, respExpected, deviceFd, resetHanAtReboot, result,
                  plugged, powerLost>>
  BY <1>1 DEF inst, port
<1>5. AutomatonOK'
  BY <1>2, <1>4 DEF AutomatonOK
<1>6. faults' \in 0 .. MaxFaults
  <2>1. faults' = faults \/ fault
    BY DEF dongleAnswers
  <2> QED BY <2>1, FaultOK DEF PortOK
<1>7. /\ endPoints' \subseteq 1 .. NbEndPoints /\ callbacks' \subseteq 1 .. NbZdoCallbacks
      /\ nvOption' \in {"none", "AUTO_START", "DEFAULT_STATE"} /\ starting' \in 0 .. 1
  <2> HIDE DEF cmd, number
  <2>1. CASE /\ cmd = "SOFT_RESET" /\ forgets
             /\ nvOption' = IF nvOption = "DEFAULT_STATE" THEN "none" ELSE nvOption
    BY <2>1 DEF forgets, PortOK
  <2>2. CASE /\ cmd \in {"AUTO_START", "DEFAULT_STATE"}
             /\ nvOption' = IF ok = "ok" THEN cmd ELSE nvOption
             /\ UNCHANGED <<endPoints, callbacks, starting>>
    BY <2>2 DEF PortOK
  <2>3. CASE UNCHANGED <<endPoints, callbacks, starting, nvOption>>
    BY <2>3 DEF PortOK
  <2>4. CASE /\ cmd = "AF_REGISTER"
             /\ endPoints' = IF ok = "ok" THEN endPoints \cup {number} ELSE endPoints
             /\ UNCHANGED <<callbacks, starting, nvOption>>
    BY <1>3, <2>4 DEF PortOK
  <2>5. CASE /\ cmd = "ZDO_MSG_CB_REGISTER"
             /\ callbacks' = IF ok = "ok" THEN callbacks \cup {number} ELSE callbacks
             /\ UNCHANGED <<endPoints, starting, nvOption>>
    BY <1>3, <2>5 DEF PortOK
  <2>6. CASE /\ starting' = IF ok = "ok" THEN 1 ELSE starting
             /\ UNCHANGED <<endPoints, callbacks, nvOption>>
    BY <2>6 DEF PortOK
  <2> QED BY <2>1, <2>2, <2>3, <2>4, <2>5, <2>6 DEF dongleAnswers, cmd, number
<1>8. PortOK'
  BY <1>4, <1>6, <1>7 DEF PortOK
<1> QED BY <1>5, <1>8

LEMMA StepOK ==
    ASSUME AutomatonOK, PortOK, [Next]_vars
    PROVE  AutomatonOK' /\ PortOK'
<1>0. <<>> \in Seq(Commands) /\ Len(<<>>) <= TxSize
  BY Sizes
<1>1. ASSUME NEW boots \in BOOLEAN, reconnect(boots) PROVE AutomatonOK' /\ PortOK'
  BY <1>1 DEF reconnect, connect, inst, dongle, AutomatonOK, PortOK, TxInv
<1>2. ASSUME NEW boots \in BOOLEAN, resumeZnp(boots) PROVE AutomatonOK' /\ PortOK'
  <2>1. /\ startFrom(<<>>) /\ UNCHANGED result /\ resetHanAtReboot' = FALSE
        /\ deviceFd' \in {"none", "live"}
        /\ UNCHANGED <<plugged, endPoints, callbacks, nvOption, starting, faults>>
    BY <1>2 DEF resumeZnp, connect, dongle
  <2>2. AutomatonOK' /\ powerLost' \in BOOLEAN
    BY <1>0, <2>1, StartOK
  <2> QED BY <2>1, <2>2 DEF PortOK
<1>3. CASE processRxMsg
  <2>1. /\ processZnpMsg(Head(rx))
        /\ UNCHANGED <<deviceFd, resetHanAtReboot, dongle, faults, powerLost>>
    BY <1>3 DEF processRxMsg
  <2>2. AutomatonOK'
    BY <2>1, MessageOK
  <2> QED BY <2>1, <2>2 DEF PortOK, dongle
<1>4. ASSUME NEW q \in {tx, <<>>}, disconnect(q) PROVE AutomatonOK' /\ PortOK'
  <2>1. /\ tx' \in {tx, <<>>} /\ deviceFd' = "none"
        /\ UNCHANGED <<inst, resetHanAtReboot, result, dongle, faults, powerLost>>
    BY <1>4 DEF disconnect
  <2>2. TxInv'
    BY <1>0, <2>1 DEF TxInv, AutomatonOK
  <2> QED BY <2>1, <2>2 DEF AutomatonOK, PortOK, inst, dongle
<1>5. CASE watchdog
  <2>1. /\ startFrom(tx) /\ UNCHANGED <<port, dongle>>
        /\ faults' = faults \/ fault
    BY <1>5 DEF watchdog
  <2>2. faults' \in 0 .. MaxFaults
    BY <2>1, FaultOK DEF PortOK
  <2>3. AutomatonOK' /\ powerLost' \in BOOLEAN
    BY <2>1, StartOK DEF AutomatonOK, TxInv, port
  <2> QED BY <2>1, <2>2, <2>3 DEF PortOK, port, dongle
<1>6. CASE DongleWorks
  BY <1>6, DongleOK DEF DongleWorks
<1>7. CASE dongleIgnores
  <2>1. /\ tx # <<>> /\ tx' = Tail(tx) /\ fault
        /\ UNCHANGED <<inst, port, dongle, powerLost>>
    BY <1>7 DEF dongleIgnores
  <2>2. TxInv' /\ faults' \in 0 .. MaxFaults
    BY <2>1, TxTail, FaultOK
  <2> QED BY <2>1, <2>2 DEF AutomatonOK, PortOK, inst, port, dongle
<1>8. CASE dongleStarted
  <2>1. starting' \in 0 .. 1
    BY <1>8 DEF dongleStarted, PortOK
  <2> QED BY <1>8, <2>1 DEF dongleStarted, AutomatonOK, PortOK, TxInv, inst, port
<1>9. ASSUME NEW n \in 0 .. Len(rx), unplug(n) PROVE AutomatonOK' /\ PortOK'
  <2>1. faults' \in 0 .. MaxFaults
    BY <1>9, FaultOK DEF unplug
  <2>2. /\ deviceFd' \in {deviceFd, "dead"} /\ plugged' = FALSE /\ powerLost' = TRUE
        /\ endPoints' = {} /\ callbacks' = {} /\ starting' = 0
        /\ UNCHANGED <<inst, resetHanAtReboot, result, tx, nvOption>>
    BY <1>9 DEF unplug, forgets
  <2>3. 0 \in 0 .. 1
    OBVIOUS
  <2> QED BY <2>1, <2>2, <2>3 DEF AutomatonOK, PortOK, TxInv, inst
<1>10. CASE plug
  BY <1>10 DEF plug, AutomatonOK, PortOK, TxInv, inst, port
<1>11. CASE UNCHANGED vars
  BY <1>11 DEF vars, AutomatonOK, PortOK, TxInv, inst, port, dongle
<1> QED
  BY <1>1, <1>2, <1>3, <1>4, <1>5, <1>6, <1>7, <1>8, <1>9, <1>10, <1>11
     DEF Next, Reconnects, Disconnects

\* The transmit buffer never holds more than its size and the counters of
\* expected answers never go below zero, whatever the dongle answers, ignores
\* or repeats; and what it is asked to register exists.
THEOREM TypeCorrect == Spec => []TypeOK
<1>1. Init => IInv
  BY InitOK
<1>2. IInv /\ [Next]_vars => IInv'
  <2> SUFFICES ASSUME IInv, [Next]_vars PROVE IInv'
    OBVIOUS
  <2>1. AutomatonOK' /\ PortOK'
    BY StepOK, IInvIs
  <2> QED BY <2>1 DEF IInv, TypeOK, AutomatonOK, PortOK, TxInv, States
<1>3. IInv => TypeOK
  BY DEF IInv
<1> QED BY <1>1, <1>2, <1>3, PTL DEF Spec

=============================================================================
